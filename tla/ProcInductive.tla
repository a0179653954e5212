--------------------------- MODULE ProcInductive ---------------------------
(***************************************************************************)
(* The inductive invariant of Proc.  It says where every lock is from      *)
(* where the CPUs are, what p->state may be at each point, how far exit    *)
(* and wait have come in their loops, and who may be asleep then.          *)
(***************************************************************************)
EXTENDS Proc

(* From the call of yield to its return; resume says what is interrupted.   *)
InYield == {"yield", "yield_sched", "yield_resume"}

(* Where p is in its own code, a preemption in between left aside.          *)
Loc(p) == IF pc[p] \in InYield THEN resume[p] ELSE pc[p]

(* Points where a process on a CPU holds its own p->lock.                   *)
OwnLock == Resumable \cup AtSched \cup {"sleep_set"}

(* The points of exit().                                                    *)
ExitPath == {"exit", "reparent", "reparent_wakeup", "exit_wakeup", "exit_zombie",
             "exit_sched"}

(* fork() between the return of allocproc and np->state = RUNNABLE.         *)
Forking == {"fork_copy", "fork_parent", "fork_run"}

(* States of a process that can still call wait().                          *)
Living == {"RUNNABLE", "RUNNING", "SLEEPING"}

(* What the CPUs know: the stack a CPU executes on is that of c->proc,      *)
(* which is the slot its scheduler looks at, and c->proc is of one CPU      *)
(* only.  In the scheduler after swtch, c->proc is a process whose context  *)
(* is saved.                                                                *)
CpuInv ==
  /\ \A c \in Cpu : stack[c] # None => curproc[c] = stack[c]
  /\ \A c \in Cpu : curproc[c] # None => slot[c] = curproc[c]
  /\ \A c, d \in Cpu : c # d /\ curproc[c] # None => curproc[c] # curproc[d]
  /\ \A c \in Cpu : stack[c] = None /\ curproc[c] # None =>
       /\ pc[curproc[c]] \in {"yield_resume", "sleep_resume", "none"}
       /\ state[curproc[c]] \in {"RUNNABLE", "SLEEPING", "ZOMBIE"}

(* The states p->state may have at point l.                                 *)
Fits(l, s) ==
  /\ l = "none" => s \in {"UNUSED", "ZOMBIE"}
  /\ l = "forkret" => s \in {"USED", "RUNNABLE", "RUNNING"}
  /\ l = "yield_resume" => s \in {"RUNNABLE", "RUNNING"}
  /\ l = "sleep_resume" => s \in {"SLEEPING", "RUNNABLE", "RUNNING"}
  /\ l = "yield_sched" => s = "RUNNABLE"
  /\ l = "sleep_sched" => s = "SLEEPING"
  /\ l = "exit_sched" => s = "ZOMBIE"
  /\ l \notin Resumable \cup AtSched \cup {"none"} => s = "RUNNING"

(* p->state agrees with the point a process is at; the processes that       *)
(* execute are those that are RUNNING or on their way into sched.           *)
StateInv ==
  /\ \A p \in Slot : Fits(pc[p], state[p])
  /\ \A p \in Slot : state[p] = "RUNNING" \/ pc[p] \in AtSched => \E c \in Cpu : stack[c] = p
  /\ \A c \in Cpu : stack[c] # None =>
       pc[stack[c]] \in AtSched \/ state[stack[c]] = "RUNNING"

(* CPU c holds q->lock: c->proc is q, at a point that holds its own lock or *)
(* already left by swtch, or c executes the fork that allocated q.          *)
Holds(c, q) ==
  \/ curproc[c] = q /\ (stack[c] = q => pc[q] \in OwnLock)
  \/ stack[c] # None /\ pc[stack[c]] = "fork_copy" /\ arg[stack[c]] = q

(* Who holds p->lock and wait_lock follows from where the CPUs are.         *)
LockInv ==
  /\ \A c \in Cpu, q \in Slot : plock[q] = c <=> Holds(c, q)
  /\ \A c \in Cpu : waitLock = c <=> stack[c] # None /\ pc[stack[c]] \in Locked

(* The locals have their initial value outside the calls that use them.     *)
LocalInv == \A p \in Slot :
   /\ pc[p] \notin InYield => resume[p] = "user"
   /\ pc[p] \notin {"reparent_wakeup", "exit_wakeup"} => wk[p] = 1
   /\ Loc(p) \notin {"alloc", "reparent", "reparent_wakeup", "wait_scan", "kill"} => idx[p] = 1
   /\ Loc(p) \in {"wait_scan", "kill", "reparent_wakeup"} => idx[p] <= NPROC
   /\ Loc(p) = "kill" => arg[p] \in KillPid

(* The slot fork is filling is USED, is another one than the caller's, and  *)
(* belongs to one fork only.                                                *)
ForkInv ==
  /\ \A p \in Slot : Loc(p) \in Forking =>
       /\ arg[p] \in Slot \ {p}
       /\ state[arg[p]] = "USED"
       /\ Loc(p) = "fork_run" => parent[arg[p]] = p
  /\ \A p, q \in Slot :
       p # q /\ Loc(p) \in Forking /\ Loc(q) \in Forking => arg[p] # arg[q]

(* Pids are below nextpid, so the next one is new.                          *)
PidInv == PidsUnique /\ \A p \in Slot : pid[p] < nextpid

(* init lives for ever, every process has a parent, which lives, and an     *)
(* exiting process has handed over the children of the slots it has passed. *)
ParentInv ==
  /\ parent[initproc] = None /\ state[initproc] \in Living
  /\ ~ killed[initproc] /\ pid[initproc] = 1 /\ Loc(initproc) \notin ExitPath
  /\ \A q \in Slot : parent[q] # None => parent[q] # q /\ state[parent[q]] \in Living
  /\ \A q \in Slot \ {initproc} : state[q] \in Living \cup {"ZOMBIE"} => parent[q] # None
  /\ \A p, q \in Slot : /\ pc[p] = "reparent" /\ q < idx[p] => parent[q] # p
                        /\ pc[p] = "reparent_wakeup" /\ q <= idx[p] => parent[q] # p
                        /\ pc[p] \in {"exit_wakeup", "exit_zombie"} => parent[q] # p

(* p sleeps in wait(), or holds its lock and is about to.                   *)
Sleepy(p) == state[p] = "SLEEPING" \/ pc[p] = "sleep_set"

(* A process sleeps on its own address.                                     *)
ChanInv == \A p \in Slot : state[p] = "SLEEPING" => chan[p] = p

(* exit's wakeup(p->parent) has not yet passed a parent that sleeps, and    *)
(* has found it once it is over.                                            *)
TellInv ==
  \A p \in Slot :
    /\ pc[p] = "exit_wakeup" /\ Sleepy(parent[p]) => parent[p] >= wk[p]
    /\ pc[p] = "exit_zombie" => ~ Sleepy(parent[p])

(* A zombie's parent is not asleep, unless the parent is init and reparent  *)
(* has not come to init's slot yet.                                         *)
ReapInv ==
  \A q \in Slot : state[q] = "ZOMBIE" /\ Sleepy(parent[q]) =>
    parent[q] = initproc /\ \E r \in Slot : pc[r] = "reparent_wakeup" /\ wk[r] <= initproc

(* wait has passed no zombie child.                                         *)
ScanInv ==
  \A p, q \in Slot : state[q] = "ZOMBIE" /\ parent[q] = p =>
    /\ pc[p] = "wait_scan" => q >= idx[p]
    /\ pc[p] \notin {"wait_check", "wait_sleep"}

(* What keeps wait() from sleeping past the exit of a child.                *)
WakeInv == ChanInv /\ TellInv /\ ReapInv /\ ScanInv

(* The inductive invariant.                                                 *)
ProcInv == TypeOK /\ CpuInv /\ StateInv /\ LockInv /\ LocalInv /\ ForkInv /\ PidInv
       /\ ParentInv /\ WakeInv
=============================================================================
