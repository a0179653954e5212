--------------------------------- MODULE Lib ---------------------------------
(***************************************************************************)
(* Small algorithms of the kernel and the user library: memmove, skipelem, *)
(* copyinstr, printint and atoi, xargs, wc and find.  Strings are          *)
(* sequences of characters, without the '\0' that ends them.               *)
(***************************************************************************)
EXTENDS Integers, Sequences, FiniteSets, SequencesExt

CONSTANTS DIRSIZ, PGSIZE,
          WIDTH      \* integers are modulo WIDTH, as unsigned ones

-----------------------------------------------------------------------------
\* memmove on memory m (a function from addresses): byte by byte, up from the
\* start or down from the end.
RECURSIVE CopyUp(_, _, _, _), CopyDown(_, _, _, _)
CopyUp(m, dst, src, n) ==
  IF n = 0 THEN m ELSE CopyUp([m EXCEPT ![dst] = m[src]], dst + 1, src + 1, n - 1)
CopyDown(m, dst, src, n) ==
  IF n = 0 THEN m
  ELSE CopyDown([m EXCEPT ![dst + n - 1] = m[src + n - 1]], dst, src, n - 1)

\* kernel/string.c, and user/ulib.c
memmove(m, dst, src, n) ==
  IF src < dst /\ src + n > dst THEN CopyDown(m, dst, src, n) ELSE CopyUp(m, dst, src, n)

ulib_memmove(m, dst, src, n) ==
  IF src > dst THEN CopyUp(m, dst, src, n) ELSE CopyDown(m, dst, src, n)

Moved(m, dst, src, n) ==
  [a \in DOMAIN m |-> IF a \in dst .. dst + n - 1 THEN m[src + a - dst] ELSE m[a]]

-----------------------------------------------------------------------------
\* fs.c: skipelem, the name copied and the path left, or NoElem.
Slashes(path) ==   \* how many slashes path starts with
  CHOOSE k \in 0 .. Len(path) :
    (\A j \in 1 .. k : path[j] = "/") /\ (k = Len(path) \/ path[k + 1] # "/")
Cut(path, k) == SubSeq(path, k + 1, Len(path))
NoElem == [name |-> <<>>, path |-> <<"none">>]

skipelem(path) ==
  LET s == Cut(path, Slashes(path))
      len == CHOOSE k \in 0 .. Len(s) :
               (\A j \in 1 .. k : s[j] # "/") /\ (k = Len(s) \/ s[k + 1] = "/")
      rest == Cut(s, len)
  IN  IF s = <<>> THEN NoElem
      ELSE [name |-> SubSeq(s, 1, IF len >= DIRSIZ THEN DIRSIZ ELSE len),
            path |-> Cut(rest, Slashes(rest))]

\* The elements that namex looks up, in order, and the one that nameiparent
\* leaves for its caller.
RECURSIVE Elements(_)
Elements(path) ==
  LET e == skipelem(path) IN IF e = NoElem THEN <<>> ELSE <<e.name>> \o Elements(e.path)

\* What they should be: the maximal runs without a slash, cut to DIRSIZ.
Runs(path) ==
  LET starts == {k \in 1 .. Len(path) : path[k] # "/" /\ (k = 1 \/ path[k - 1] = "/")}
      End(k) == CHOOSE j \in k .. Len(path) :
                  (\A i \in k .. j : path[i] # "/") /\ (j = Len(path) \/ path[j + 1] = "/")
      Name(k) == SubSeq(path, k, IF End(k) - k >= DIRSIZ THEN k + DIRSIZ - 1 ELSE End(k))
  IN  [i \in 1 .. Cardinality(starts) |->
         Name(CHOOSE k \in starts : Cardinality({j \in starts : j <= k}) = i)]

-----------------------------------------------------------------------------
\* vm.c: copyinstr of at most max bytes at srcva; m is user memory, "nul" ends a
\* string, valid the pages that walkaddr finds.  The result is the string, or
\* Fault.
Fault == <<"fault">>
RECURSIVE CopyPage(_, _, _, _, _, _)

\* One turn of the outer loop copies up to the end of the page.
CopyPage(m, valid, va, max, dst, got) ==
  LET va0 == va \div PGSIZE
      room == (va0 + 1) * PGSIZE - va
      n == IF room > max THEN max ELSE room
      nuls == {k \in 0 .. n - 1 : m[va + k] = "nul"}
      first == CHOOSE k \in nuls : \A j \in nuls : k <= j
  IN  IF got THEN dst
      ELSE IF max = 0 \/ va0 \notin valid THEN Fault
      ELSE IF nuls # {}
      THEN CopyPage(m, valid, va, max, dst \o [k \in 1 .. first |-> m[va + k - 1]], TRUE)
      ELSE CopyPage(m, valid, (va0 + 1) * PGSIZE, max - n,
                    dst \o [k \in 1 .. n |-> m[va + k - 1]], FALSE)

\* Mutant: one byte more than max.
copyinstrOneMore(m, valid, srcva, max) == CopyPage(m, valid, srcva, max + 1, <<>>, FALSE)
copyinstr(m, valid, srcva, max) == CopyPage(m, valid, srcva, max, <<>>, FALSE)

\* The string from srcva, if it and its end are within max bytes of valid pages.
StringAt(m, valid, srcva, max) ==
  LET ends == {k \in 0 .. max - 1 : /\ srcva + k \in DOMAIN m
                                    /\ m[srcva + k] = "nul"
                                    /\ \A j \in 0 .. k : (srcva + j) \div PGSIZE \in valid
                                    /\ \A j \in 0 .. k - 1 : m[srcva + j] # "nul"}
  IN  IF ends = {} THEN Fault
      ELSE LET k == CHOOSE k \in ends : TRUE IN [i \in 1 .. k |-> m[srcva + i - 1]]

-----------------------------------------------------------------------------
\* printf.c: the digits of x, as an unsigned int when it is negated.
RECURSIVE Digits(_, _)
Digits(x, radix) == IF x < radix THEN <<x>> ELSE Append(Digits(x \div radix, radix), x % radix)
Uint(x) == x % WIDTH
Minus == -1   \* '-', among digits

printint(xx, radix, sign) ==
  IF sign /\ xx < 0 THEN <<Minus>> \o Digits(Uint(-xx), radix) ELSE Digits(Uint(xx), radix)

\* ulib.c: atoi of decimal digits.
atoi(s) == FoldLeft(LAMBDA n, d : n * 10 + d, 0, s)

-----------------------------------------------------------------------------
\* xargs.c: the lines that the command is run for, with a buffer of size n.
RECURSIVE xargs(_, _, _, _)

xargs(in, n, buf, out) ==
  IF in = <<>> THEN IF buf # <<>> THEN Append(out, buf) ELSE out
  ELSE IF Head(in) = "nl" THEN xargs(Tail(in), n, <<>>, Append(out, buf))
  ELSE xargs(Tail(in), n, IF Len(buf) < n - 1 THEN Append(buf, Head(in)) ELSE buf, out)

\* wc.c: lines, words and characters of a chunk, from what was counted before;
\* then all of the file, chunk bytes to a read.
RECURSIVE Count(_, _), wc(_, _, _)
Count(in, st) ==
  IF in = <<>> THEN st
  ELSE LET c == Head(in)
           space == c \in {"nl", " "}
       IN  Count(Tail(in), [l |-> st.l + (IF c = "nl" THEN 1 ELSE 0),
                            w |-> st.w + (IF ~ space /\ ~ st.inword THEN 1 ELSE 0),
                            c |-> st.c + 1, inword |-> ~ space])
NothingRead == [l |-> 0, w |-> 0, c |-> 0, inword |-> FALSE]

wc(in, chunk, st) ==
  IF Len(in) <= chunk THEN Count(in, st)
  ELSE wc(Cut(in, chunk), chunk, Count(SubSeq(in, 1, chunk), st))

-----------------------------------------------------------------------------
\* find.c on a tree: dirs maps a directory to the sequence of its entries
\* [name, dir], "." and ".." among them; dir is 0 for a file.  The result
\* is the paths that are printed.
RECURSIVE find(_, _, _, _)
Visit(dirs, path, e, target) ==
  IF e.name \in {".", ".."} THEN <<>>
  ELSE (IF e.name = target THEN <<Append(path, e.name)>> ELSE <<>>) \o
       (IF e.dir # 0 THEN find(dirs, Append(path, e.name), e.dir, target) ELSE <<>>)

find(dirs, path, d, target) ==
  FoldLeft(LAMBDA out, e : out \o Visit(dirs, path, e, target), <<>>, dirs[d])

\* The directory that path leads to from d, or 0.
RECURSIVE Follow(_, _, _)
Follow(dirs, d, path) ==
  IF path = <<>> \/ d = 0 THEN d
  ELSE LET es == {k \in DOMAIN dirs[d] : dirs[d][k].name = Head(path)}
       IN  IF es = {} THEN 0 ELSE Follow(dirs, dirs[d][CHOOSE k \in es : TRUE].dir, Tail(path))

=============================================================================
