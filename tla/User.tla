-------------------------------- MODULE User --------------------------------
(***************************************************************************)
(* The algorithms of Grep, Parse, Lib and Mkfs over all small inputs, and  *)
(* the allocator of Umalloc through all sequences of calls.  job is the    *)
(* input of one algorithm, or Malloc.                                      *)
(***************************************************************************)
EXTENDS Grep, Parse, Lib, Mkfs, Umalloc

CONSTANTS Patterns, Texts, Contents,   \* for grep
          Lines_,                      \* token sequences, for the parser
          Moves,                       \* [m, dst, src, n], for memmove
          PathNames,                   \* for skipelem
          UserStrings,                 \* [m, valid, srcva, max], for copyinstr
          Numbers,                     \* for printint
          FileSizes,                   \* for mkfs
          Trees                        \* directories, for find
VARIABLE job

Job(algo, arg) == [algo |-> algo, arg |-> arg]
Jobs(algo, S) == {Job(algo, arg) : arg \in S}
Is(algo) == job.algo = algo
Malloc == Job("malloc", {})

Init ==
  /\ HeapInit
  /\ \/ job \in Jobs("match", Patterns \X Texts)
     \/ job \in Jobs("grep", Contents)
     \/ job \in Jobs("parse", Lines_)
     \/ job \in Jobs("memmove", Moves)
     \/ job \in Jobs("path", PathNames)
     \/ job \in Jobs("copyinstr", UserStrings)
     \/ job \in Jobs("print", Numbers)
     \/ job \in Jobs("mkfs", FileSizes)
     \/ job \in Jobs("find", Trees)
     \/ job = Malloc

Next == Is("malloc") /\ HeapNext /\ UNCHANGED job

Spec == Init /\ [][Next]_<<job, heap>>

-----------------------------------------------------------------------------
\* grep.c: match accepts exactly the texts with a part in the language of the
\* pattern, with '*' after '^', '$' or another '*' too.
MatchIsLanguage ==
  Is("match") => match(job.arg[1], job.arg[2]) = Language(job.arg[1], job.arg[2])

\* grep.c prints the complete lines that match, wherever reads end, as long as
\* each line and its newline fit in the buffer.
GrepFindsLines ==
  Is("grep") =>
    LET n == job.arg.n
        file == job.arg.file
        fits == /\ \A i \in DOMAIN Lines(file) : Len(Lines(file)[i]) + 1 < n
                /\ Len(AfterLines(file)) < n - 1
    IN  fits => grep(<<"a">>, n, job.arg.chunk, file) =
                  SelectSeq(Lines(file), LAMBDA l : \E k \in DOMAIN l : l[k] = "a")

\* xargs.c runs its command once for each line, the last one without a newline
\* too, with the part of the line that fits its buffer.
XargsRunsLines ==
  Is("grep") =>
    LET file == job.arg.file
        all == Lines(file) \o (IF AfterLines(file) = <<>> THEN <<>> ELSE <<AfterLines(file)>>)
        n == job.arg.n
    IN  xargs(file, n, <<>>, <<>>) =
          [i \in DOMAIN all |-> IF Len(all[i]) < n THEN all[i] ELSE SubSeq(all[i], 1, n - 1)]

\* wc.c counts newlines, and words wherever reads cut them.
WcCounts ==
  Is("grep") =>
    LET file == job.arg.file
        st == wc(file, job.arg.chunk, NothingRead)
    IN  /\ st.l = Cardinality(Newlines(file)) /\ st.c = Len(file)
        /\ st.w = Cardinality({k \in DOMAIN file : file[k] # "nl" /\
                                                  (k = 1 \/ file[k - 1] = "nl")})

\* find.c prints every path in the tree that ends in the name, once; it ends
\* because "." and ".." are not followed.
FindsAll ==
  Is("find") =>
    LET out == find(job.arg, <<>>, 1, "x") IN
    /\ IsInjective(out)
    /\ Range(out) =
         {path \in UNION {[1 .. k -> {"x", "y"}] : k \in 1 .. 3} :
            /\ path[Len(path)] = "x"
            /\ LET d == Follow(job.arg, 1, Front(path))
               IN  d # 0 /\ \E k \in DOMAIN job.arg[d] : job.arg[d][k].name = "x"}

\* The utilities do what they are for, wherever the reads cut their input.
ProgramsRight ==
  MatchIsLanguage /\ GrepFindsLines /\ XargsRunsLines /\ WcCounts /\ FindsAll

\* sh.c parses a line as the grammar does, and panics just when that has no parse.
ParseIsGrammar == Is("parse") => parsecmd(job.arg) = Grammar(job.arg)

\* Both memmoves copy the old contents of src, however it overlaps dst.
MemmoveMoves ==
  Is("memmove") =>
    LET a == job.arg IN
    /\ memmove(a.m, a.dst, a.src, a.n) = Moved(a.m, a.dst, a.src, a.n)
    /\ ulib_memmove(a.m, a.dst, a.src, a.n) = Moved(a.m, a.dst, a.src, a.n)

\* fs.c: namex looks up the names between the slashes, and the path is empty
\* after the last one, which is how nameiparent knows it.
SkipelemSplits ==
  Is("path") => /\ Elements(job.arg) = Runs(job.arg)
                /\ Len(Runs(job.arg)) = 1 => skipelem(job.arg).path = <<>>

\* vm.c: copyinstr returns the string if all of it is mapped and fits in max,
\* with its end, over any number of pages.
CopyinstrExact ==
  Is("copyinstr") =>
    LET a == job.arg IN copyinstr(a.m, a.valid, a.srcva, a.max) =
                        StringAt(a.m, a.valid, a.srcva, a.max)

\* printf.c prints every int so that it reads back as the same number, the least
\* one too, whose negation is not an int.
PrintsNumber ==
  Is("print") =>
    LET s == printint(job.arg, 10, TRUE) IN
    job.arg = IF Head(s) = Minus THEN - atoi(Tail(s)) ELSE atoi(s)

\* The routines over bytes, paths, user strings and numbers meet their reference
\* definitions at every boundary.
LibraryRight == MemmoveMoves /\ SkipelemSplits /\ CopyinstrExact /\ PrintsNumber

\* mkfs.c: the bitmap is exact, and no file has a hole for a read to fill; that
\* is, unless the entries fill the last block of the root directory.
ImageIsSound ==
  Is("mkfs") =>
    LET im == main(job.arg) IN
    ~ im.failed =>
      /\ BlocksCounted(im)
      /\ ((2 + Len(job.arg)) * DirentSize) % BSIZE # 0 => NoHoles(im)

=============================================================================
