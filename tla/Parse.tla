-------------------------------- MODULE Parse --------------------------------
(***************************************************************************)
(* The parser of user/sh.c, on tokens as gettoken returns them: "a" for a  *)
(* word, "+" for >>.  A parse function returns the command and the tokens  *)
(* that are left, or Panic.                                                *)
(***************************************************************************)
EXTENDS Integers, Sequences, FiniteSets

CONSTANT MAXARGS

Panic == [cmd |-> [type |-> "PANIC"], left |-> <<>>]
Parsed(cmd, left) == [cmd |-> cmd, left |-> left]
execcmd(argc) == [type |-> "EXEC", argc |-> argc]
redircmd(sub, op) == [type |-> "REDIR", op |-> op, cmd |-> sub]
pipecmd(l, r) == [type |-> "PIPE", l |-> l, r |-> r]
listcmd(l, r) == [type |-> "LIST", l |-> l, r |-> r]
backcmd(sub) == [type |-> "BACK", cmd |-> sub]

peek(ts, toks) == ts # <<>> /\ ts[1] \in toks
Drop(ts, n) == SubSeq(ts, n + 1, Len(ts))

RECURSIVE parseline(_), parsepipe(_), parseexec(_), parseredirs(_, _), parseargs(_, _, _),
          Backs(_, _)

parseredirs(cmd, ts) ==
  IF ~ peek(ts, {"<", ">", "+"}) THEN Parsed(cmd, ts)
  ELSE IF Len(ts) < 2 \/ ts[2] # "a" THEN Panic
  ELSE parseredirs(redircmd(cmd, ts[1]), Drop(ts, 2))

parseblock(ts) ==
  LET line == parseline(Tail(ts)) IN
  IF line = Panic \/ ~ peek(line.left, {")"}) THEN Panic
  ELSE parseredirs(line.cmd, Tail(line.left))

\* The loop of parseexec.  argv is one array for the whole command: the word
\* goes to the execcmd at the bottom of the redirections.
RECURSIVE AddArg(_)
AddArg(cmd) == IF cmd.type = "EXEC" THEN execcmd(cmd.argc + 1)
               ELSE [cmd EXCEPT !.cmd = AddArg(@)]
parseargs(cmd, argc, ts) ==
  IF peek(ts, {"|", ")", "&", ";"}) \/ ts = <<>> THEN Parsed(cmd, ts)
  ELSE IF ts[1] # "a" \/ argc + 1 >= MAXARGS THEN Panic
  ELSE LET r == parseredirs(AddArg(cmd), Tail(ts))
       IN  IF r = Panic THEN Panic ELSE parseargs(r.cmd, argc + 1, r.left)

parseexec(ts) ==
  IF peek(ts, {"("}) THEN parseblock(ts)
  ELSE LET r == parseredirs(execcmd(0), ts)
       IN  IF r = Panic THEN Panic ELSE parseargs(r.cmd, 0, r.left)

parsepipe(ts) ==
  LET l == parseexec(ts)
      r == parsepipe(Tail(l.left))
  IN  IF l = Panic \/ ~ peek(l.left, {"|"}) THEN l
      ELSE IF r = Panic THEN Panic ELSE Parsed(pipecmd(l.cmd, r.cmd), r.left)

Backs(cmd, ts) ==
  IF peek(ts, {"&"}) THEN Backs(backcmd(cmd), Tail(ts)) ELSE Parsed(cmd, ts)

\* Mutant: only one & is read.
parselineOneBack(ts) ==
  LET p == parsepipe(ts)
      l == IF peek(p.left, {"&"}) THEN Parsed(backcmd(p.cmd), Tail(p.left)) ELSE p
      r == parseline(Tail(l.left))
  IN  IF p = Panic \/ ~ peek(l.left, {";"}) THEN l
      ELSE IF r = Panic THEN Panic ELSE Parsed(listcmd(l.cmd, r.cmd), r.left)

parseline(ts) ==
  LET p == parsepipe(ts)
      l == Backs(p.cmd, p.left)
      r == parseline(Tail(l.left))
  IN  IF p = Panic THEN Panic
      ELSE IF ~ peek(l.left, {";"}) THEN l
      ELSE IF r = Panic THEN Panic ELSE Parsed(listcmd(l.cmd, r.cmd), r.left)

parsecmd(ts) ==
  LET r == parseline(ts) IN IF r.left # <<>> THEN Panic.cmd ELSE r.cmd

-----------------------------------------------------------------------------
\* The grammar, by where a line is cut: at the first ";" outside parentheses,
\* before its last "&"s, at the first "|".
Depth(ts, k) == Cardinality({j \in 1 .. k : ts[j] = "("}) -
                Cardinality({j \in 1 .. k : ts[j] = ")"})
Outside(ts, tok) == {k \in 1 .. Len(ts) : ts[k] = tok /\ Depth(ts, k) = 0}
Least(S) == CHOOSE k \in S : \A j \in S : k <= j
Before(ts, k) == SubSeq(ts, 1, k - 1)
Bad == Panic.cmd

\* Words and redirections, from the left; simple: words are allowed.
RECURSIVE Line(_), Backed(_), Piped(_), Simple(_, _, _)
Simple(ts, cmd, words) ==
  IF ts = <<>> THEN cmd
  ELSE IF ts[1] \in {"<", ">", "+"}
  THEN IF Len(ts) > 1 /\ ts[2] = "a"
       THEN Simple(Drop(ts, 2), redircmd(cmd, ts[1]), words) ELSE Bad
  ELSE IF ts[1] = "a" /\ words THEN Simple(Tail(ts), AddArg(cmd), words)
  ELSE Bad

Command(ts) ==
  LET closing == {k \in 2 .. Len(ts) : ts[k] = ")" /\ Depth(ts, k) = 0}
      inner == Line(SubSeq(ts, 2, Least(closing) - 1))
  IN  IF ~ peek(ts, {"("}) THEN Simple(ts, execcmd(0), TRUE)
      ELSE IF closing = {} THEN Bad
      ELSE IF inner = Bad THEN Bad
      ELSE Simple(Drop(ts, Least(closing)), inner, FALSE)

Piped(ts) ==
  LET cut == Least(Outside(ts, "|"))
      l == Command(Before(ts, cut))
      r == Piped(Drop(ts, cut))
  IN  IF Outside(ts, "|") = {} THEN Command(ts)
      ELSE IF Bad \in {l, r} THEN Bad ELSE pipecmd(l, r)

Backed(ts) ==
  IF ts # <<>> /\ ts[Len(ts)] = "&" /\ Depth(ts, Len(ts)) = 0
  THEN LET sub == Backed(Before(ts, Len(ts))) IN IF sub = Bad THEN Bad ELSE backcmd(sub)
  ELSE Piped(ts)

Line(ts) ==
  LET cut == Least(Outside(ts, ";"))
      l == Backed(Before(ts, cut))
      r == Line(Drop(ts, cut))
  IN  IF Outside(ts, ";") = {} THEN Backed(ts)
      ELSE IF Bad \in {l, r} THEN Bad ELSE listcmd(l, r)

\* argv has room for MAXARGS - 1 words.
RECURSIVE Fits(_)
Fits(cmd) ==
  CASE cmd.type = "EXEC" -> cmd.argc < MAXARGS
    [] cmd.type \in {"REDIR", "BACK"} -> Fits(cmd.cmd)
    [] cmd.type \in {"PIPE", "LIST"} -> Fits(cmd.l) /\ Fits(cmd.r)
    [] OTHER -> TRUE
Grammar(ts) == IF Fits(Line(ts)) THEN Line(ts) ELSE Bad

=============================================================================
