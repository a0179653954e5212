----------------------------- MODULE AtomicFile -----------------------------
(***************************************************************************)
(* What files promise to the programs that use them: a file is a sequence  *)
(* of bytes without holes, and an open file an offset into one.  A read    *)
(* moves the offset over bytes that are there.  A write replaces bytes     *)
(* from the offset on, or adds them at the end, and moves the offset past  *)
(* them, in one step: writers that share an open file never overwrite each *)
(* other, and no write touches another file.                               *)
(*                                                                         *)
(* A write that meets a bad address may have replaced bytes that it does   *)
(* not count.  These bytes, and no others, may fall back to the bytes      *)
(* before, the stable ones, as long as nothing is written near them.       *)
(***************************************************************************)
EXTENDS Naturals, Sequences

CONSTANTS Inode, File, Byte

VARIABLES content,   \* inode -> its bytes
          stable,    \* inode -> its bytes but for those of failed writes
          ip, off    \* open file -> inode (0: not open), offset

vars == <<content, stable, ip, off>>

Init ==
  /\ content = [i \in Inode |-> <<>>]
  /\ stable = content
  /\ ip = [f \in File |-> 0]
  /\ off = [f \in File |-> 0]

\* The bytes s replace those of c from offset o on.
Splice(c, o, s) ==
  SubSeq(c, 1, o) \o s \o SubSeq(c, o + Len(s) + 1, Len(c))

\* Every byte of c comes from its place in a or in b.
Mixes(c, a, b) ==
  /\ Len(c) = Len(a)
  /\ \A k \in DOMAIN c : c[k] # a[k] => k \in DOMAIN b /\ c[k] = b[k]

\* more bytes than counted are replaced, none is added that is not counted.
Write(f) ==
  LET i == ip[f]
      n == off'[f] - off[f]
      size == Len(content'[i])
  IN
  /\ i # 0
  /\ off[f] <= Len(content[i])
  /\ off'[f] >= off[f]
  /\ size \in {Len(content[i]), off'[f]}
  /\ \E b \in Byte, more \in 0 .. Len(content[i]) :
       content' = [content EXCEPT ![i] =
                     SubSeq(Splice(@, off[f], [k \in 1 .. n + more |-> b]), 1, size)]
  /\ stable' = [stable EXCEPT ![i] = stable'[i]]
  /\ Mixes(stable'[i], content'[i], stable[i])
  /\ \A k \in off[f] + 1 .. off'[f] : stable'[i][k] = content'[i][k]
  /\ off' = [off EXCEPT ![f] = off'[f]]
  /\ UNCHANGED ip

Read(f) ==
  /\ ip[f] # 0
  /\ off'[f] >= off[f] /\ off'[f] <= Len(content[ip[f]])
  /\ off' = [off EXCEPT ![f] = off'[f]]
  /\ UNCHANGED <<content, stable, ip>>

Emptied(c, i) == [j \in Inode |-> IF j = i THEN <<>> ELSE c[j]]

\* Opened at offset 0, perhaps truncated; or closed, perhaps the last user of
\* a file that has no name.
OpenOrClose(f) ==
  /\ ip' = [ip EXCEPT ![f] = ip'[f]]
  /\ off' = [off EXCEPT ![f] = 0]
  /\ \/ UNCHANGED <<content, stable>>
     \/ \E i \in {ip[f], ip'[f]} :
          content' = Emptied(content, i) /\ stable' = Emptied(stable, i)

\* The last name of a file that nobody has open goes.
Remove(i) ==
  /\ \A f \in File : ip[f] # i
  /\ content' = Emptied(content, i) /\ stable' = Emptied(stable, i)
  /\ UNCHANGED <<ip, off>>

\* Bytes of failed writes are forgotten.
Forget(i) ==
  /\ content' = [content EXCEPT ![i] = content'[i]]
  /\ Mixes(content'[i], content[i], stable[i])
  /\ UNCHANGED <<stable, ip, off>>

Next == \/ \E f \in File : Write(f) \/ Read(f) \/ OpenOrClose(f)
        \/ \E i \in Inode : Remove(i) \/ Forget(i)

Spec == Init /\ [][Next]_vars
=============================================================================
