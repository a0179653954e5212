------------------------------ MODULE AtomicFs ------------------------------
(***************************************************************************)
(* What the logging layer (kernel/log.c) promises the file system above    *)
(* it: a disk on which whole groups of system calls become durable in one  *)
(* indivisible step, and only while no file-system call is active.         *)
(***************************************************************************)
CONSTANTS Proc,     \* processes that make file-system calls
          Block,    \* home block numbers
          Val       \* contents of a block

VARIABLES durable,  \* what a reboot would find, block by block
          current,  \* what a running process reads
          active    \* processes between begin_op and end_op

absVars == <<durable, current, active>>

AbsTypeOK ==
  /\ durable \in [Block -> Val]
  /\ current \in [Block -> Val]
  /\ active \subseteq Proc

AbsInit ==
  /\ durable \in [Block -> Val]
  /\ current = durable
  /\ active = {}

Begin(p) ==
  /\ p \notin active
  /\ active' = active \cup {p}
  /\ UNCHANGED <<durable, current>>

Write(p, b, v) ==
  /\ p \in active
  /\ current' = [current EXCEPT ![b] = v]
  /\ UNCHANGED <<durable, active>>

End(p) ==
  /\ p \in active
  /\ active' = active \ {p}
  /\ UNCHANGED <<durable, current>>

(* All the updates since the last commit become durable together.          *)
Commit ==
  /\ active = {}
  /\ durable' = current
  /\ UNCHANGED <<current, active>>

(* A crash loses every update that was not yet committed, and nothing else. *)
Crash ==
  /\ current' = durable
  /\ active' = {}
  /\ UNCHANGED durable

AbsNext ==
  \/ \E p \in Proc : Begin(p) \/ End(p) \/ \E b \in Block, v \in Val : Write(p, b, v)
  \/ Commit
  \/ Crash

AbsSpec == AbsInit /\ [][AbsNext]_absVars
=============================================================================
