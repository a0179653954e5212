------------------------------- MODULE Shell -------------------------------
(***************************************************************************)
(* user/sh.c and user/init.c: the shell reads commands and forks processes *)
(* that run the parsed command (runcmd), with file descriptors, pipes,     *)
(* exit and wait as the kernel provides them.  The programs run are cat    *)
(* (user/cat.c) and gen, which writes and exits.                           *)
(*                                                                         *)
(* A process is named by the forks that lead to it, from init (<<>>); a    *)
(* pipe by the process that made it.  Each system call is a step; calls    *)
(* that only touch the descriptors of the caller are one with the next.    *)
(***************************************************************************)
EXTENDS Naturals, Sequences, FiniteSets, FiniteSetsExt, Functions, TLC

CONSTANTS Cmds,        \* the commands typed
          NOFILE,      \* descriptors of a process
          PipeSize,
          MaxWrite,    \* bytes that gen writes
          MaxCmds,     \* bound: commands typed
          MaxFails     \* bound: forks and pipes that fail

VARIABLES proc,    \* the processes, by name
          pipe,    \* bytes in each pipe
          typed, fails

vars == <<proc, pipe, typed, fails>>

File(kind, at) == [kind |-> kind, at |-> at]
None == File("none", <<>>)
Console == File("console", <<>>)
Disk == File("disk", <<>>)
Reads(id) == File("read", id)
Writes(id) == File("write", id)

init == <<>>
sh == <<1>>
NoCmd == [type |-> "NONE"]
ConsoleFds == [d \in 0 .. NOFILE - 1 |-> IF d < 3 THEN Console ELSE None]

\* A process: what it runs, its descriptors, p[2] of runcmd, the number of forks
\* it made, whether it belongs to a background command, and (as a history) what
\* its standard input and output should be.
Process(cmd, pc, fds, parent) ==
  [cmd |-> cmd, pc |-> pc, fds |-> fds, parent |-> parent, p |-> <<0, 0>>, forks |-> 0,
   n |-> 0, back |-> FALSE, want |-> <<Console, Console>>]

\* init has opened the console and forked the shell, which opened nothing more.
Init ==
  /\ proc = (init :> [Process(NoCmd, "init", ConsoleFds, init) EXCEPT !.forks = 1]) @@
            (sh :> Process(NoCmd, "getcmd", ConsoleFds, init))
  /\ pipe = <<>>
  /\ typed = 0 /\ fails = 0

-----------------------------------------------------------------------------
\* Descriptors.
Lowest(fds) == Min({d \in DOMAIN fds : fds[d] = None})
close(fds, d) == [fds EXCEPT ![d] = None]
put(fds, f) == [fds EXCEPT ![Lowest(fds)] = f]
dup(fds, d) == put(fds, fds[d])

Open(f) == \E id \in DOMAIN proc : f \in Range(proc[id].fds)

\* exit: descriptors are closed, children go to init; the zombie stays.
exit(id) ==
  proc' = [i \in DOMAIN proc |->
    IF i = id THEN [Process(NoCmd, "zombie", [d \in 0 .. NOFILE - 1 |-> None],
                            proc[i].parent) EXCEPT !.forks = proc[i].forks]
    ELSE IF proc[i].parent = id THEN [proc[i] EXCEPT !.parent = init] ELSE proc[i]]

\* fork1: the child starts at childpc with cmd; a failed fork ends the parent.
fork1(id, pc, cmd, childpc) ==
  \/ /\ LET child == Append(id, proc[id].forks + 1)
        IN  proc' = (child :> [proc[id] EXCEPT !.cmd = cmd, !.pc = childpc, !.parent = id,
                                               !.forks = 0]) @@
                    [proc EXCEPT ![id].pc = pc, ![id].forks = @ + 1]
     /\ UNCHANGED fails
  \/ /\ fails < MaxFails /\ fails' = fails + 1
     /\ exit(id)

\* wait(0): one zombie child is freed, or there is no child.
Children(id) == {c \in DOMAIN proc : proc[c].parent = id /\ c # init}
wait(id, pc, cmd) ==
  \/ \E c \in Children(id) :
       /\ proc[c].pc = "zombie"
       /\ proc' = [Restrict(proc, DOMAIN proc \ {c}) EXCEPT ![id].pc = pc, ![id].cmd = cmd]
  \/ /\ Children(id) = {}
     /\ proc' = [proc EXCEPT ![id].pc = pc, ![id].cmd = cmd]

-----------------------------------------------------------------------------
\* runcmd, by the type of command.
At(id, type) == proc[id].pc = "run" /\ proc[id].cmd.type = type

RunExec(id) ==   \* exec may fail, and does without a program; p is lost
  /\ At(id, "EXEC")
  /\ \/ /\ proc[id].cmd.prog # ""
        /\ proc' = [proc EXCEPT ![id].pc = proc[id].cmd.prog, ![id].p = <<0, 0>>]
     \/ exit(id)
  /\ UNCHANGED <<pipe, typed, fails>>

RunRedir(id) ==   \* close, open
  LET cmd == proc[id].cmd IN
  /\ At(id, "REDIR")
  /\ \/ proc' = [proc EXCEPT ![id].cmd = cmd.cmd,
                             ![id].fds = put(close(@, cmd.fd), Disk),
                             ![id].want[cmd.fd + 1] = Disk]
     \/ exit(id)
  /\ UNCHANGED <<pipe, typed, fails>>

RunList(id) ==
  /\ At(id, "LIST")
  /\ fork1(id, "list", proc[id].cmd.left, "run")
  /\ UNCHANGED <<pipe, typed>>
ListWait(id) ==
  /\ proc[id].pc = "list"
  /\ wait(id, "run", proc[id].cmd.right)
  /\ UNCHANGED <<pipe, typed, fails>>

RunPipe(id) ==   \* pipe(p), or panic("pipe"); pipes that were closed are gone
  LET fds == put(proc[id].fds, Reads(id)) IN
  /\ At(id, "PIPE")
  /\ \/ /\ proc' = [proc EXCEPT ![id].pc = "left", ![id].fds = put(fds, Writes(id)),
                                ![id].p = <<Lowest(proc[id].fds), Lowest(fds)>>]
        /\ pipe' = (id :> 0) @@
             Restrict(pipe, {i \in DOMAIN pipe : Open(Reads(i)) \/ Open(Writes(i))})
        /\ UNCHANGED fails
     \/ /\ fails < MaxFails /\ fails' = fails + 1
        /\ exit(id)
        /\ UNCHANGED pipe
  /\ UNCHANGED typed
ForkLeft(id) ==
  /\ proc[id].pc = "left"
  /\ fork1(id, "right", proc[id].cmd.left, "stdout")
  /\ UNCHANGED <<pipe, typed>>
ForkRight(id) ==
  /\ proc[id].pc = "right"
  /\ fork1(id, "close", proc[id].cmd.right, "stdin")
  /\ UNCHANGED <<pipe, typed>>

\* Mutant: p[0] stays open in the child.
ConnectKeepsEnd(id, pc, d) ==
  LET q == proc[id]
      maker == SubSeq(id, 1, Len(id) - 1)
  IN
  /\ q.pc = pc
  /\ proc' = [proc EXCEPT ![id].pc = "run",
                          ![id].fds = close(dup(close(q.fds, d), q.p[d + 1]), q.p[2]),
                          ![id].want[d + 1] = IF d = 0 THEN Reads(maker) ELSE Writes(maker)]
  /\ UNCHANGED <<pipe, typed, fails>>

\* The child: close(d), dup(p[d]), close(p[0]), close(p[1]).
Connect(id, pc, d) ==
  LET q == proc[id]
      fds == dup(close(q.fds, d), q.p[d + 1])
      maker == SubSeq(id, 1, Len(id) - 1)
  IN
  /\ q.pc = pc
  /\ proc' = [proc EXCEPT ![id].pc = "run",
                          ![id].fds = close(close(fds, q.p[1]), q.p[2]),
                          ![id].want[d + 1] = IF d = 0 THEN Reads(maker) ELSE Writes(maker)]
  /\ UNCHANGED <<pipe, typed, fails>>

\* Mutant: the parent keeps p[1].
PipeClosesOne(id) ==
  /\ proc[id].pc = "close"
  /\ proc' = [proc EXCEPT ![id].pc = "wait1", ![id].fds = close(@, proc[id].p[1])]
  /\ UNCHANGED <<pipe, typed, fails>>

PipeCloses(id) ==
  LET q == proc[id] IN
  /\ q.pc = "close"
  /\ proc' = [proc EXCEPT ![id].pc = "wait1", ![id].fds = close(close(@, q.p[1]), q.p[2])]
  /\ UNCHANGED <<pipe, typed, fails>>
PipeWait1(id) ==
  /\ proc[id].pc = "wait1"
  /\ wait(id, "wait2", NoCmd)
  /\ UNCHANGED <<pipe, typed, fails>>

PipeWait2(id) ==
  /\ proc[id].pc = "wait2"
  /\ wait(id, "exit", NoCmd)
  /\ UNCHANGED <<pipe, typed, fails>>

RunBack(id) ==
  /\ At(id, "BACK")
  /\ fork1(id, "exit", proc[id].cmd.cmd, "back")
  /\ UNCHANGED <<pipe, typed>>
StartBack(id) ==
  /\ proc[id].pc = "back"
  /\ proc' = [proc EXCEPT ![id].pc = "run", ![id].back = TRUE]
  /\ UNCHANGED <<pipe, typed, fails>>

Exit(id) == proc[id].pc = "exit" /\ exit(id) /\ UNCHANGED <<pipe, typed, fails>>

-----------------------------------------------------------------------------
\* main of sh.c; "" is the end of input.
GetCmd ==
  /\ sh \in DOMAIN proc /\ proc[sh].pc = "getcmd" /\ typed < MaxCmds
  /\ typed' = typed + 1
  /\ \E c \in Cmds : fork1(sh, "wait", c, "run")
  /\ UNCHANGED pipe
EndOfInput ==
  /\ sh \in DOMAIN proc /\ proc[sh].pc = "getcmd" /\ typed < MaxCmds
  /\ typed' = typed + 1
  /\ exit(sh)
  /\ UNCHANGED <<pipe, fails>>
ShWait ==
  /\ sh \in DOMAIN proc /\ proc[sh].pc = "wait"
  /\ wait(sh, "getcmd", NoCmd)
  /\ UNCHANGED <<pipe, typed, fails>>

\* main of init.c: wait; a shell that exited is started again.
InitWait ==
  /\ \E c \in Children(init) :
       /\ proc[c].pc = "zombie"
       /\ proc' = IF c = sh
                  THEN [proc EXCEPT ![sh] = [Process(NoCmd, "getcmd", ConsoleFds, init)
                                               EXCEPT !.forks = proc[sh].forks]]
                  ELSE Restrict(proc, DOMAIN proc \ {c})
  /\ UNCHANGED <<pipe, typed, fails>>

-----------------------------------------------------------------------------
\* The programs.  Reading from the console or a file ends at once.
ReadByte(id) ==
  LET f == proc[id].fds[0] IN
  /\ proc[id].pc = "cat" /\ proc[id].n = 0
  /\ \/ /\ f.kind = "read" /\ pipe[f.at] > 0
        /\ pipe' = [pipe EXCEPT ![f.at] = @ - 1]
        /\ proc' = [proc EXCEPT ![id].n = 1]
     \/ /\ f.kind = "read" => pipe[f.at] = 0 /\ ~ Open(Writes(f.at))
        /\ exit(id)
        /\ UNCHANGED pipe
  /\ UNCHANGED <<typed, fails>>

Write(id) ==
  LET f == proc[id].fds[1]
      more == proc[id].pc = "gen" /\ proc[id].n + 1 < MaxWrite
      next == [proc[id] EXCEPT !.n = IF more THEN @ + 1 ELSE 0,
                               !.pc = IF @ = "gen" /\ ~ more THEN "exit" ELSE @]
  IN
  /\ proc[id].pc = "gen" \/ (proc[id].pc = "cat" /\ proc[id].n = 1)
  /\ \/ /\ f.kind # "write"
        /\ proc' = [proc EXCEPT ![id] = next] /\ UNCHANGED pipe
     \/ /\ f.kind = "write" /\ Open(Reads(f.at)) /\ pipe[f.at] < PipeSize
        /\ pipe' = [pipe EXCEPT ![f.at] = @ + 1]
        /\ proc' = [proc EXCEPT ![id] = next]
     \/ /\ f.kind = "write" /\ ~ Open(Reads(f.at))
        /\ exit(id) /\ UNCHANGED pipe
  /\ UNCHANGED <<typed, fails>>

Run(id) ==
  \/ RunExec(id) \/ RunRedir(id) \/ RunList(id) \/ ListWait(id)
  \/ RunPipe(id) \/ ForkLeft(id) \/ ForkRight(id)
  \/ Connect(id, "stdout", 1) \/ Connect(id, "stdin", 0)
  \/ PipeCloses(id) \/ PipeWait1(id) \/ PipeWait2(id)
  \/ RunBack(id) \/ StartBack(id) \/ Exit(id)
  \/ ReadByte(id) \/ Write(id)

Next == (\E id \in DOMAIN proc : Run(id)) \/ GetCmd \/ EndOfInput \/ ShWait \/ InitWait

\* Every process runs; nobody has to type.
Fairness == /\ WF_vars(\E id \in DOMAIN proc : Run(id))
            /\ WF_vars(ShWait) /\ WF_vars(InitWait)

Spec == Init /\ [][Next]_vars /\ Fairness

-----------------------------------------------------------------------------
\* Types; a process other than init and the shell has a parent.
TypeOK ==
  /\ {init} \subseteq DOMAIN proc
  /\ \A id \in DOMAIN proc : DOMAIN proc[id].fds = 0 .. NOFILE - 1
                             /\ proc[id].parent \in DOMAIN proc
  /\ \A id \in DOMAIN pipe : pipe[id] \in 0 .. PipeSize

\* A program that runcmd starts has the standard input and output that the
\* command asks for, and no other descriptor than standard error: the ends of
\* pipes were found in the lowest slots and closed.
ExecFds ==
  \A id \in DOMAIN proc : proc[id].pc \in {"cat", "gen"} =>
    \A d \in 0 .. NOFILE - 1 :
      proc[id].fds[d] = CASE d < 2 -> proc[id].want[d + 1] [] d = 2 -> Console [] OTHER -> None

\* At the prompt, and while fork and pipe do not fail, only background commands run:
\* wait(0) in main and in runcmd waits for the processes that it is meant for.
ForegroundDone ==
  sh \in DOMAIN proc /\ proc[sh].pc = "getcmd" /\ fails = 0 =>
    \A id \in DOMAIN proc \ {init, sh} : proc[id].back \/ proc[id].pc \in {"zombie", "back"}

\* A line runs as it is written: its programs have the descriptors it gives
\* them, and the prompt waits for just those not in the background.
RunsAsWritten == TypeOK /\ ExecFds /\ ForegroundDone

\* The prompt comes back after every command: cat sees the end of its input
\* because nobody else keeps the write end of the pipe open.
PromptReturns == sh \in DOMAIN proc /\ proc[sh].pc = "wait" ~> proc[sh].pc = "getcmd"

\* Zombies go away: runcmd and main wait for their children, and init for the
\* orphans of background commands.
ZombiesReaped == <>[](\A id \in DOMAIN proc : proc[id].pc # "zombie")

\* Every command comes to an end, and so do the traces of it: the prompt comes
\* back (main, runcmd) and no zombie stays (wait in sh.c and init.c).
CommandsEnd == PromptReturns /\ ZombiesReaped

=============================================================================
