-------------------------------- MODULE Bio --------------------------------
(***************************************************************************)
(* The buffer cache, kernel/bio.c, with the sleep-locks of                 *)
(* kernel/sleeplock.c that it hands its buffers out under.                 *)
(*                                                                         *)
(* What runs under bcache.lock, or under the spin-lock inside a            *)
(* sleep-lock, is one action.  The list of buffers is kept as the prev and *)
(* next pointers of the code, with the list head as node 0.  A process is  *)
(* one activity that holds one buffer at a time; a system call that holds  *)
(* two buffers is two of them.                                             *)
(***************************************************************************)
EXTENDS Naturals, FiniteSets

CONSTANTS Proc, Block, Val,
          NBUF,     \* param.h: buffers in the cache
          MaxPins,  \* bound: blocks the log keeps pinned at once
          None      \* no process, no block

ASSUME BioAssumption ==
  /\ NBUF \in Nat \ {0} /\ MaxPins \in Nat
  /\ IsFiniteSet(Proc)
  /\ None \notin Proc /\ None \notin Block

Buf == 1 .. NBUF
ListHead == 0             \* bcache.head
Node == 0 .. NBUF

VARIABLES
  disk,                          \* the blocks on disk
  blockno, valid, refcnt, data,  \* fields of struct buf
  next, prev,
  lkpid,   \* the buffer's sleep-lock: lk->pid while lk->locked, else None
  pinned,  \* buffers on which the log holds a reference
  pc, buf, \* where each process is, and the buffer it is about
  want,    \* bread's blockno
  newer    \* history: pairs of unreferenced buffers, the first released after
           \* the second

vars == <<disk, blockno, valid, refcnt, data, next, prev, lkpid, pinned,
          pc, buf, want, newer>>

list == <<next, prev>>
local == <<pc, buf, want>>

Active == {"acquiresleep", "asleep", "bread", "use", "brelse"}

(* binit inserts each buffer behind the head.                               *)

BinitPrev == [n \in Node |-> IF n = NBUF THEN ListHead ELSE n + 1]

Init ==
  /\ disk \in [Block -> Val]
  /\ blockno = [b \in Buf |-> None]
  /\ valid = [b \in Buf |-> FALSE]
  /\ refcnt = [b \in Buf |-> 0]
  /\ data \in {[b \in Buf |-> v] : v \in Val}
  /\ next = [n \in Node |-> IF n = ListHead THEN NBUF ELSE n - 1]
  /\ prev = BinitPrev
  /\ lkpid = [b \in Buf |-> None]
  /\ pinned = {}
  /\ pc = [p \in Proc |-> "out"]
  /\ buf = [p \in Proc |-> ListHead]
  /\ want = [p \in Proc |-> None]
  /\ newer = {r \in Buf \X Buf : r[1] > r[2]}

-----------------------------------------------------------------------------
(* The node reached from the head after k + 1 links.                        *)
Walk(link) ==
  LET at[k \in Node] == IF k = 0 THEN link[ListHead]
                        ELSE IF at[k - 1] = ListHead THEN ListHead ELSE link[at[k - 1]]
  IN  at

(* The first buffer of a set on the way, or ListHead.                       *)
First(link, bufs) ==
  LET at == Walk(link)
      hits == {k \in Node : at[k] \in bufs}
  IN  IF hits = {} THEN ListHead ELSE at[CHOOSE k \in hits : \A j \in hits : k <= j]

Cached(bno) == First(next, {b \in Buf : blockno[b] = bno})

(* Mutant of bget: it recycles any buffer that nobody has locked.           *)
UnusedUnlocked == First(prev, {b \in Buf : lkpid[b] = None})

Unused == First(prev, {b \in Buf : refcnt[b] = 0})

(* bget's panic ("no buffers") keeps bcache.lock for ever.                  *)
BcacheFree == \A q \in Proc : pc[q] # "nobufs"

(* bget up to its call of acquiresleep.                                     *)
Bget(p, bno) ==
  /\ pc[p] = "out" /\ BcacheFree
  /\ want' = [want EXCEPT ![p] = bno]
  /\ \/ /\ Cached(bno) # ListHead
        /\ refcnt' = [refcnt EXCEPT ![Cached(bno)] = @ + 1]
        /\ buf' = [buf EXCEPT ![p] = Cached(bno)]
        /\ pc' = [pc EXCEPT ![p] = "acquiresleep"]
        /\ newer' = {r \in newer : Cached(bno) \notin {r[1], r[2]}}
        /\ UNCHANGED <<blockno, valid>>
     \/ /\ Cached(bno) = ListHead /\ Unused # ListHead
        /\ blockno' = [blockno EXCEPT ![Unused] = bno]
        /\ valid' = [valid EXCEPT ![Unused] = FALSE]
        /\ refcnt' = [refcnt EXCEPT ![Unused] = 1]
        /\ buf' = [buf EXCEPT ![p] = Unused]
        /\ pc' = [pc EXCEPT ![p] = "acquiresleep"]
        /\ newer' = {r \in newer : Unused \notin {r[1], r[2]}}
     \/ /\ Cached(bno) = ListHead /\ Unused = ListHead
        /\ pc' = [pc EXCEPT ![p] = "nobufs"]
        /\ UNCHANGED <<blockno, valid, refcnt, buf, newer>>
  /\ UNCHANGED <<disk, data, list, lkpid, pinned>>

(* acquiresleep: take the lock or sleep until it is released.               *)
AcquireSleep(p) ==
  /\ pc[p] = "acquiresleep"
  /\ IF lkpid[buf[p]] # None
       THEN pc' = [pc EXCEPT ![p] = "asleep"] /\ UNCHANGED lkpid
       ELSE /\ lkpid' = [lkpid EXCEPT ![buf[p]] = p]
            /\ pc' = [pc EXCEPT ![p] = "bread"]
  /\ UNCHANGED <<disk, blockno, valid, refcnt, data, list, pinned, buf, want, newer>>

(* Mutant of bread: a recycled buffer is not read in.                       *)
BreadNoRead(p) ==
  /\ pc[p] = "bread"
  /\ valid' = [valid EXCEPT ![buf[p]] = TRUE]
  /\ pc' = [pc EXCEPT ![p] = "use"]
  /\ UNCHANGED <<disk, blockno, refcnt, data, list, lkpid, pinned, buf, want, newer>>

(* The rest of bread: a buffer without valid contents is read from disk.    *)
Bread(p) ==
  /\ pc[p] = "bread"
  /\ data' = [data EXCEPT ![buf[p]] = IF valid[buf[p]] THEN @ ELSE disk[blockno[buf[p]]]]
  /\ valid' = [valid EXCEPT ![buf[p]] = TRUE]
  /\ pc' = [pc EXCEPT ![p] = "use"]
  /\ UNCHANGED <<disk, blockno, refcnt, list, lkpid, pinned, buf, want, newer>>

-----------------------------------------------------------------------------
(* What holders do with a buffer: they change it and hand it to log_write,  *)
(* which pins it until the log has written it home; or, for the blocks of   *)
(* the log itself, they write it through at once.                           *)
LogWrite(p, v) ==
  /\ pc[p] = "use" /\ BcacheFree
  /\ buf[p] \in pinned \/ Cardinality(pinned) < MaxPins
  /\ data' = [data EXCEPT ![buf[p]] = v]
  /\ pinned' = pinned \cup {buf[p]}
  /\ refcnt' = [refcnt EXCEPT ![buf[p]] = IF buf[p] \in pinned THEN @ ELSE @ + 1]
  /\ UNCHANGED <<disk, blockno, valid, list, lkpid, local, newer>>

(* bwrite, of a changed block; it panics unless the caller holds the lock.  *)
Bwrite(p, v) ==
  /\ pc[p] = "use"
  /\ buf[p] \notin pinned
  /\ IF lkpid[buf[p]] = p
       THEN /\ data' = [data EXCEPT ![buf[p]] = v]
            /\ disk' = [disk EXCEPT ![blockno[buf[p]]] = v]
            /\ UNCHANGED pc
       ELSE pc' = [pc EXCEPT ![p] = "panic"] /\ UNCHANGED <<data, disk>>
  /\ UNCHANGED <<blockno, valid, refcnt, list, lkpid, pinned, buf, want, newer>>

(* The log writes a pinned block home: bwrite, then bunpin.                 *)
WriteHome(p) ==
  /\ pc[p] = "use" /\ BcacheFree
  /\ buf[p] \in pinned
  /\ IF lkpid[buf[p]] = p
       THEN /\ disk' = [disk EXCEPT ![blockno[buf[p]]] = data[buf[p]]]
            /\ pinned' = pinned \ {buf[p]}
            /\ refcnt' = [refcnt EXCEPT ![buf[p]] = @ - 1]
            /\ UNCHANGED pc
       ELSE pc' = [pc EXCEPT ![p] = "panic"] /\ UNCHANGED <<disk, pinned, refcnt>>
  /\ UNCHANGED <<blockno, valid, data, list, lkpid, buf, want, newer>>

(* brelse: releasesleep, which wakes everyone who sleeps on the lock ...    *)
ReleaseSleep(p) ==
  /\ pc[p] = "use"
  /\ IF lkpid[buf[p]] = p
       THEN /\ lkpid' = [lkpid EXCEPT ![buf[p]] = None]
            /\ pc' = [q \in Proc |->
                        IF q = p THEN "brelse"
                        ELSE IF pc[q] = "asleep" /\ buf[q] = buf[p] THEN "acquiresleep"
                        ELSE pc[q]]
       ELSE pc' = [pc EXCEPT ![p] = "panic"] /\ UNCHANGED lkpid
  /\ UNCHANGED <<disk, blockno, valid, refcnt, data, list, pinned, buf, want, newer>>

(* Unlink b and insert it behind the head, assignment by assignment; and a  *)
(* mutant that forgets to repair the predecessor's link.                    *)
MoveToHeadNoUnlink(b) ==
  LET prev1 == [prev EXCEPT ![next[b]] = prev[b]]
      next2 == [next EXCEPT ![b] = next[ListHead]]
      prev2 == [prev1 EXCEPT ![b] = ListHead]
  IN  /\ prev' = [prev2 EXCEPT ![next2[ListHead]] = b]
      /\ next' = [next2 EXCEPT ![ListHead] = b]

MoveToHead(b) ==
  LET prev1 == [prev EXCEPT ![next[b]] = prev[b]]
      next1 == [next EXCEPT ![prev1[b]] = next[b]]
      next2 == [next1 EXCEPT ![b] = next1[ListHead]]
      prev2 == [prev1 EXCEPT ![b] = ListHead]
  IN  /\ prev' = [prev2 EXCEPT ![next2[ListHead]] = b]
      /\ next' = [next2 EXCEPT ![ListHead] = b]

(* ... then refcnt--, and the last reference moves b to the list's front.   *)
Brelse(p) ==
  /\ pc[p] = "brelse" /\ BcacheFree
  /\ refcnt' = [refcnt EXCEPT ![buf[p]] = @ - 1]
  /\ IF refcnt[buf[p]] = 1
       THEN /\ MoveToHead(buf[p])
            /\ newer' = newer \cup {<<buf[p], b>> : b \in {c \in Buf : refcnt[c] = 0}}
       ELSE UNCHANGED <<list, newer>>
  /\ pc' = [pc EXCEPT ![p] = "out"]
  /\ buf' = [buf EXCEPT ![p] = ListHead]
  /\ want' = [want EXCEPT ![p] = None]
  /\ UNCHANGED <<disk, blockno, valid, data, lkpid, pinned>>

HolderStep(p) ==
  (\E v \in Val : LogWrite(p, v) \/ Bwrite(p, v)) \/ WriteHome(p)

Next ==
  \E p \in Proc :
    \/ \E bno \in Block : Bget(p, bno)
    \/ AcquireSleep(p) \/ Bread(p)
    \/ HolderStep(p)
    \/ ReleaseSleep(p) \/ Brelse(p)

Spec == Init /\ [][Next]_vars

-----------------------------------------------------------------------------
(* Type correctness of the cache.                                           *)
TypeOK ==
  /\ disk \in [Block -> Val]
  /\ blockno \in [Buf -> Block \cup {None}]
  /\ valid \in [Buf -> BOOLEAN]
  /\ refcnt \in [Buf -> Nat]
  /\ data \in [Buf -> Val]
  /\ next \in [Node -> Node]
  /\ prev \in [Node -> Node]
  /\ lkpid \in [Buf -> Proc \cup {None}]
  /\ pinned \subseteq Buf
  /\ pc \in [Proc -> Active \cup {"out", "panic", "nobufs"}]
  /\ buf \in [Proc -> Node]
  /\ want \in [Proc -> Block \cup {None}]
  /\ newer \subseteq Buf \X Buf

(* bwrite and brelse are only called with the lock held, and bget panics    *)
(* for want of a buffer only when each of them is with a process between    *)
(* bget and brelse or pinned by the log: no reference is ever lost.         *)
PanicsOnlyWhenFull ==
  \A p \in Proc :
    /\ pc[p] # "panic"
    /\ pc[p] = "nobufs" =>
         \A b \in Buf : b \in pinned \/ \E q \in Proc : pc[q] \in Active /\ buf[q] = b

(* The list stays a ring through all the buffers, forwards and backwards,   *)
(* with the unreferenced buffers in the order of their release: bget        *)
(* recycles the one that was released the longest ago.                      *)
LruList ==
  LET at == Walk(next) IN
  /\ \A n \in Node : prev[next[n]] = n /\ next[prev[n]] = n
  /\ Buf = {at[k] : k \in 0 .. NBUF - 1}
  /\ \A j, k \in 0 .. NBUF - 1 :
       refcnt[at[j]] = 0 /\ refcnt[at[k]] = 0 /\ j # k => (<<at[j], at[k]>> \in newer <=> j < k)

(* A process that got a buffer from bget keeps it for its block: nobody     *)
(* recycles the buffer until that process is through with brelse.           *)
KeepsItsBlock ==
  \A p \in Proc : pc[p] \in Active => blockno[buf[p]] = want[p]

(* The current contents and the holder of each block.                      *)
Contents ==
  [bno \in Block |->
     LET copies == {b \in Buf : blockno[b] = bno /\ valid[b]}
     IN  IF copies = {} THEN disk[bno] ELSE data[CHOOSE b \in copies : TRUE]]

Holder ==
  [bno \in Block |->
     LET holders == {p \in Proc : pc[p] \in {"bread", "use"} /\ want[p] = bno}
     IN  IF holders = {} THEN None ELSE CHOOSE p \in holders : TRUE]

(* The cache implements a store with one current copy of each block, which  *)
(* changes only by the hand of the process that holds the block: bio.c's    *)
(* promise to synchronise access to disk blocks and to keep one copy.       *)
Store == INSTANCE BlockStore WITH contents <- Contents, holder <- Holder

OneCopy == Store!StoreSpec

(* releasesleep leaves nobody behind: a process sleeps on a buffer only     *)
(* while somebody holds the buffer's lock, and so will wake it in brelse.   *)
NoLostWakeup == \A p \in Proc : pc[p] = "asleep" => lkpid[buf[p]] # None

(* The cache stays sound: its fields have their types, the list is whole,   *)
(* bget finds a buffer whenever one is not in use, and acquiresleep sleeps  *)
(* only on a lock that is held.                                             *)
CacheSound == TypeOK /\ LruList /\ PanicsOnlyWhenFull /\ NoLostWakeup
=============================================================================
