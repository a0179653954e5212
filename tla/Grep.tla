-------------------------------- MODULE Grep --------------------------------
(***************************************************************************)
(* user/grep.c: the matcher, and the loop that reads a file into a buffer  *)
(* and prints the lines that match.  A string is a sequence of characters  *)
(* without its '\0'.                                                       *)
(***************************************************************************)
EXTENDS Naturals, Sequences, SequencesExt

From(s, k) == SubSeq(s, k, Len(s))

-----------------------------------------------------------------------------
RECURSIVE matchhere(_, _), matchstar(_, _, _)

matchhere(re, text) ==
  IF re = <<>> THEN TRUE
  ELSE IF Len(re) > 1 /\ re[2] = "*" THEN matchstar(re[1], From(re, 3), text)
  ELSE IF re = <<"$">> THEN text = <<>>
  ELSE /\ text # <<>> /\ re[1] \in {".", text[1]}
       /\ matchhere(Tail(re), Tail(text))

\* Mutant: one repetition at least.
matchplus(c, re, text) ==
  /\ text # <<>> /\ c \in {text[1], "."}
  /\ matchhere(re, Tail(text)) \/ matchstar(c, re, Tail(text))

matchstar(c, re, text) ==
  \/ matchhere(re, text)
  \/ text # <<>> /\ c \in {text[1], "."} /\ matchstar(c, re, Tail(text))

match(re, text) ==
  IF re # <<>> /\ re[1] = "^" THEN matchhere(Tail(re), text)
  ELSE \E k \in 1 .. Len(text) + 1 : matchhere(re, From(text, k))

-----------------------------------------------------------------------------
\* grep: n is sizeof(buf), chunk the most that one read returns.  held is what
\* the buffer holds, rest is unread, out was printed.
Newlines(s) == {k \in 1 .. Len(s) : s[k] = "nl"}
RECURSIVE Lines(_)
Lines(s) ==   \* the complete lines of s
  IF Newlines(s) = {} THEN <<>>
  ELSE LET k == CHOOSE k \in Newlines(s) : \A j \in Newlines(s) : k <= j
       IN  <<SubSeq(s, 1, k - 1)>> \o Lines(From(s, k + 1))
AfterLines(s) == IF Newlines(s) = {} THEN s
                 ELSE From(s, 1 + CHOOSE k \in Newlines(s) : \A j \in Newlines(s) : j <= k)

\* What a read returns.
AtMost(a, b, c) == CHOOSE k \in {a, b, c} : k <= a /\ k <= b /\ k <= c

RECURSIVE GrepLoop(_, _, _, _, _, _)

GrepLoop(re, n, chunk, held, rest, out) ==
  LET space == n - Len(held) - 1
      got == AtMost(chunk, space, Len(rest))
      buf == held \o SubSeq(rest, 1, got)
  IN  IF rest = <<>> \/ got = 0 THEN out
      ELSE GrepLoop(re, n, chunk, AfterLines(buf), From(rest, got + 1),
                    out \o SelectSeq(Lines(buf), LAMBDA l : match(re, l)))

grep(re, n, chunk, file) == GrepLoop(re, n, chunk, <<>>, file, <<>>)

-----------------------------------------------------------------------------
\* The language of a pattern, by the positions that its items can reach.
RECURSIVE Reach(_, _, _)
Star(c, text, S) ==
  {j \in 0 .. Len(text) : \E i \in S :
     i <= j /\ \A k \in i + 1 .. j : c \in {text[k], "."}}
Reach(re, text, S) ==
  IF re = <<>> THEN S
  ELSE IF Len(re) > 1 /\ re[2] = "*" THEN Reach(From(re, 3), text, Star(re[1], text, S))
  ELSE IF re = <<"$">> THEN S \cap {Len(text)}
  ELSE Reach(Tail(re), text, {i + 1 : i \in {i \in S : i < Len(text)
                                                /\ re[1] \in {text[i + 1], "."}}})
Language(re, text) ==
  IF re # <<>> /\ re[1] = "^" THEN Reach(Tail(re), text, {0}) # {}
  ELSE Reach(re, text, 0 .. Len(text)) # {}

=============================================================================
