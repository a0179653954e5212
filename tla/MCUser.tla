------------------------------- MODULE MCUser -------------------------------
\* The inputs of User for TLC.
EXTENDS User
UpTo(S, n) == UNION {[1 .. k -> S] : k \in 0 .. n}
MCPatterns == UpTo({"a", ".", "*", "^", "$"}, 4)
MCTexts == UpTo({"a", "b"}, 3) \cup {<<"*">>, <<"a", "*">>, <<"$">>, <<"^", "a">>}
MCContents == {[n |-> 4, chunk |-> c, file |-> f] : c \in 1 .. 3, f \in UpTo({"a", "b", "nl"}, 6)}
MCLines == UpTo({"a", "|", "&", ";", "(", ")", ">"}, 5)
MCMoves == {[m |-> [a \in 0 .. 5 |-> a], dst |-> d, src |-> s, n |-> n] :
              d \in 0 .. 3, s \in 0 .. 3, n \in 0 .. 3}
MCPaths == UpTo({"/", "x", "y"}, 6)
MCStrings == {[m |-> m, valid |-> v, srcva |-> a, max |-> k] :
                m \in [0 .. 5 -> {"x", "nul"}], v \in SUBSET (0 .. 2), a \in 0 .. 3, k \in 0 .. 5}
MCNumbers == -128 .. 127
MCSizes == UpTo({0, 1, 3, 4, 5, 8}, 4)
\* Trees of three directories: each name of a directory is missing, a file or a
\* directory with a greater number that is in no other place.
Entry(n, d) == [name |-> n, dir |-> d]
Entries(d, f) ==
  <<Entry(".", d), Entry("..", 1)>> \o
  SelectSeq(<<Entry("x", f[d]["x"]), Entry("y", f[d]["y"])>>, LAMBDA e : e.dir # 1)
MCTrees ==
  {[d \in 1 .. 3 |-> Entries(d, f)] : f \in
    {f \in [1 .. 3 -> [{"x", "y"} -> 0 .. 3]] :
       /\ \A d \in 1 .. 3, n \in {"x", "y"} : f[d][n] > 1 => f[d][n] > d
       /\ \A c \in 2 .. 3 : Cardinality({<<d, n>> \in (1 .. 3) \X {"x", "y"} : f[d][n] = c}) <= 1}}
=============================================================================
