-------------------------------- MODULE Proc --------------------------------
(***************************************************************************)
(* Processes and CPUs, kernel/proc.c: the per-CPU scheduler and swtch,     *)
(* yield, sleep/wakeup, fork, exit, wait and kill, with the checks of      *)
(* usertrap (kernel/trap.c) that make a killed process exit.               *)
(*                                                                         *)
(* p->lock and wait_lock are explicit.  A stretch of code that only        *)
(* touches what one lock protects is one action, guarded by that lock      *)
(* being free; loops over the process table take one action per slot, so   *)
(* that locks change hands between the iterations.  Interrupts are off     *)
(* while a spin-lock is held (push_off), so the timer preempts a process   *)
(* only where it holds none.                                               *)
(***************************************************************************)
EXTENDS Naturals, FiniteSets

CONSTANTS NPROC,    \* slots of the process table
          NCPU,     \* CPUs
          KillPid,  \* pids user programs pass to kill
          MaxPid    \* bound: no program calls fork once nextpid exceeds it

(* init is never killed: its exit would panic ("init exiting").             *)
ASSUME ProcAssumption ==
  /\ NPROC \in Nat \ {0} /\ NCPU \in Nat \ {0} /\ MaxPid \in Nat
  /\ KillPid \subseteq Nat \ {1}

Slot == 1 .. NPROC
Cpu == 1 .. NCPU
None == 0             \* no process, no CPU, or the stack of the scheduler
initproc == 1

VARIABLES
  state, chan, killed, pid, parent,  \* fields of struct proc
  plock,      \* p->lock: the CPU that holds it, or None
  waitLock,   \* wait_lock: the CPU that holds it, or None
  nextpid,
  curproc,    \* c->proc
  stack,      \* whose kernel stack CPU c executes on; None: its scheduler's
  slot,       \* scheduler's p on CPU c
  pc,         \* where each process is, or will resume
  resume,     \* where a process goes on once yield returns
  idx,        \* loop index of allocproc, reparent, wait and kill
  wk,         \* loop index of wakeup
  havekids,   \* wait's local
  arg         \* fork's np, kill's pid
              \* (locals are back at their initial value when a call returns)

fields == <<state, chan, killed, pid, parent>>
cpus == <<curproc, stack, slot>>
locals == <<resume, idx, wk, havekids, arg>>
vars == <<state, chan, killed, pid, parent, plock, waitLock, nextpid, curproc,
          stack, slot, pc, resume, idx, wk, havekids, arg>>

ProcState == {"UNUSED", "USED", "SLEEPING", "RUNNABLE", "RUNNING", "ZOMBIE"}

(* Points where a process holds no spin-lock in the kernel.                 *)
Preemptible == {"alloc", "fork_parent", "fork_run", "exit", "wait", "kill", "ret"}

Resumable == {"forkret", "yield_resume", "sleep_resume"}

AtSched == {"yield_sched", "sleep_sched", "exit_sched"}

Locked == {"reparent", "reparent_wakeup", "exit_wakeup", "exit_zombie",
           "wait_scan", "wait_check", "wait_sleep"}

PcState == {"none", "user", "yield", "fork_copy", "sleep_set"}
             \cup Preemptible \cup Resumable \cup AtSched \cup Locked

(* userinit: the first process is ready, every CPU enters its scheduler.    *)
Init ==
  /\ state = [p \in Slot |-> IF p = initproc THEN "RUNNABLE" ELSE "UNUSED"]
  /\ chan = [p \in Slot |-> None]
  /\ killed = [p \in Slot |-> FALSE]
  /\ pid = [p \in Slot |-> IF p = initproc THEN 1 ELSE 0]
  /\ parent = [p \in Slot |-> None]
  /\ plock = [p \in Slot |-> None]
  /\ waitLock = None
  /\ nextpid = 2
  /\ curproc = [c \in Cpu |-> None]
  /\ stack = [c \in Cpu |-> None]
  /\ slot = [c \in Cpu |-> 1]
  /\ pc = [p \in Slot |-> IF p = initproc THEN "forkret" ELSE "none"]
  /\ resume = [p \in Slot |-> "user"]
  /\ idx = [p \in Slot |-> 1]
  /\ wk = [p \in Slot |-> 1]
  /\ havekids = [p \in Slot |-> FALSE]
  /\ arg = [p \in Slot |-> 0]

At(c, p, label) == stack[c] = p /\ pc[p] = label

Goto(p, label) == pc' = [pc EXCEPT ![p] = label]

-----------------------------------------------------------------------------
(* scheduler                                                                *)
(* Mutant: the loop stops one slot short.                                   *)

NextSlotShort(c) ==
  slot' = [slot EXCEPT ![c] = IF @ >= NPROC - 1 THEN 1 ELSE @ + 1]

NextSlot(c) == slot' = [slot EXCEPT ![c] = IF @ = NPROC THEN 1 ELSE @ + 1]

(* Mutant of scheduler: it looks at p->state without taking p->lock.        *)
SchedulerRunUnlocked(c) ==
  /\ stack[c] = None /\ curproc[c] = None
  /\ state[slot[c]] = "RUNNABLE"
  /\ state' = [state EXCEPT ![slot[c]] = "RUNNING"]
  /\ plock' = [plock EXCEPT ![slot[c]] = c]
  /\ curproc' = [curproc EXCEPT ![c] = slot[c]]
  /\ stack' = [stack EXCEPT ![c] = slot[c]]
  /\ UNCHANGED <<chan, killed, pid, parent, waitLock, nextpid, slot, pc, locals>>

(* acquire(&p->lock); if p is RUNNABLE, swtch to it with the lock held.     *)
SchedulerRun(c) ==
  /\ stack[c] = None /\ curproc[c] = None
  /\ plock[slot[c]] = None
  /\ state[slot[c]] = "RUNNABLE"
  /\ state' = [state EXCEPT ![slot[c]] = "RUNNING"]
  /\ plock' = [plock EXCEPT ![slot[c]] = c]
  /\ curproc' = [curproc EXCEPT ![c] = slot[c]]
  /\ stack' = [stack EXCEPT ![c] = slot[c]]
  /\ UNCHANGED <<chan, killed, pid, parent, waitLock, nextpid, slot, pc, locals>>

SchedulerSkip(c) ==
  /\ stack[c] = None /\ curproc[c] = None
  /\ plock[slot[c]] = None
  /\ state[slot[c]] # "RUNNABLE"
  /\ NextSlot(c)
  /\ UNCHANGED <<fields, plock, waitLock, nextpid, curproc, stack, pc, locals>>

(* Back from swtch: c->proc = 0, release(&p->lock).                         *)
SchedulerBack(c) ==
  /\ stack[c] = None /\ curproc[c] # None
  /\ curproc' = [curproc EXCEPT ![c] = None]
  /\ plock' = [plock EXCEPT ![slot[c]] = None]
  /\ NextSlot(c)
  /\ UNCHANGED <<fields, waitLock, nextpid, stack, pc, locals>>

(* sched: swtch to this CPU's scheduler.                                    *)
Sched(c, p) ==
  /\ stack[c] = p
  /\ \/ pc[p] = "yield_sched" /\ Goto(p, "yield_resume")
     \/ pc[p] = "sleep_sched" /\ Goto(p, "sleep_resume")
     \/ pc[p] = "exit_sched" /\ Goto(p, "none")
  /\ stack' = [stack EXCEPT ![c] = None]
  /\ UNCHANGED <<fields, plock, waitLock, nextpid, curproc, slot, locals>>

-----------------------------------------------------------------------------
(* The system-call and timer path of usertrap; a killed process exits.      *)
UserTrap(c, p) ==
  /\ At(c, p, "user")
  /\ plock[p] = None
  /\ IF killed[p]
       THEN Goto(p, "exit") /\ UNCHANGED arg
       ELSE \/ Goto(p, "yield") /\ UNCHANGED arg
            \/ nextpid <= MaxPid /\ Goto(p, "alloc") /\ UNCHANGED arg
            \/ p # initproc /\ Goto(p, "exit") /\ UNCHANGED arg
            \/ Goto(p, "wait") /\ UNCHANGED arg
            \/ \E k \in KillPid :
                 Goto(p, "kill") /\ arg' = [arg EXCEPT ![p] = k]
  /\ UNCHANGED <<fields, plock, waitLock, nextpid, cpus, resume, idx, wk, havekids>>

(* The second check, after syscall().                                       *)
UserTrapRet(c, p) ==
  /\ At(c, p, "ret")
  /\ plock[p] = None
  /\ Goto(p, IF killed[p] THEN "exit" ELSE "user")
  /\ UNCHANGED <<fields, plock, waitLock, nextpid, cpus, locals>>

(* kerneltrap: a timer interrupt in the kernel, no spin-lock held.          *)
KernelTrap(c, p) ==
  /\ stack[c] = p
  /\ pc[p] \in Preemptible
  /\ resume' = [resume EXCEPT ![p] = pc[p]]
  /\ Goto(p, "yield")
  /\ UNCHANGED <<fields, plock, waitLock, nextpid, cpus, idx, wk, havekids, arg>>

(* yield up to its call of sched, and what follows it.                      *)
Yield(c, p) ==
  /\ At(c, p, "yield")
  /\ plock[p] = None
  /\ plock' = [plock EXCEPT ![p] = c]
  /\ state' = [state EXCEPT ![p] = "RUNNABLE"]
  /\ Goto(p, "yield_sched")
  /\ UNCHANGED <<chan, killed, pid, parent, waitLock, nextpid, cpus, locals>>

YieldResume(c, p) ==
  /\ At(c, p, "yield_resume")
  /\ plock' = [plock EXCEPT ![p] = None]
  /\ Goto(p, resume[p])
  /\ resume' = [resume EXCEPT ![p] = "user"]
  /\ UNCHANGED <<fields, waitLock, nextpid, cpus, idx, wk, havekids, arg>>

Forkret(c, p) ==
  /\ At(c, p, "forkret")
  /\ plock' = [plock EXCEPT ![p] = None]
  /\ Goto(p, "user")
  /\ UNCHANGED <<fields, waitLock, nextpid, cpus, locals>>

-----------------------------------------------------------------------------
(* freeproc                                                                 *)
FreeProc(q) ==
  /\ state' = [state EXCEPT ![q] = "UNUSED"]
  /\ chan' = [chan EXCEPT ![q] = None]
  /\ killed' = [killed EXCEPT ![q] = FALSE]
  /\ pid' = [pid EXCEPT ![q] = 0]
  /\ parent' = [parent EXCEPT ![q] = None]

(* allocpid                                                                 *)

AllocPid(q) == pid' = [pid EXCEPT ![q] = nextpid] /\ nextpid' = nextpid + 1

(* fork, allocproc: one slot of the search for an UNUSED one.               *)
AllocProc(c, p) ==
  /\ At(c, p, "alloc")
  /\ idx[p] <= NPROC
  /\ plock[idx[p]] = None
  /\ \/ /\ state[idx[p]] = "UNUSED"
        /\ plock' = [plock EXCEPT ![idx[p]] = c]
        /\ state' = [state EXCEPT ![idx[p]] = "USED"]
        /\ AllocPid(idx[p])
        /\ arg' = [arg EXCEPT ![p] = idx[p]]
        /\ pc' = [pc EXCEPT ![p] = "fork_copy", ![idx[p]] = "forkret"]
        /\ idx' = [idx EXCEPT ![p] = 1]
     \/ /\ state[idx[p]] # "UNUSED"
        /\ idx' = [idx EXCEPT ![p] = @ + 1]
        /\ UNCHANGED <<plock, state, pid, nextpid, arg, pc>>
  /\ UNCHANGED <<chan, killed, parent, waitLock, cpus, resume, wk, havekids>>

AllocProcFull(c, p) ==
  /\ At(c, p, "alloc")
  /\ idx[p] > NPROC
  /\ Goto(p, "ret")
  /\ idx' = [idx EXCEPT ![p] = 1]
  /\ UNCHANGED <<fields, plock, waitLock, nextpid, cpus, resume, wk, havekids, arg>>

(* kalloc, proc_pagetable or uvmcopy runs out of memory.                    *)
ForkFails(c, p) ==
  /\ At(c, p, "fork_copy")
  /\ FreeProc(arg[p])
  /\ plock' = [plock EXCEPT ![arg[p]] = None]
  /\ pc' = [pc EXCEPT ![p] = "ret", ![arg[p]] = "none"]
  /\ arg' = [arg EXCEPT ![p] = 0]
  /\ UNCHANGED <<waitLock, nextpid, cpus, resume, idx, wk, havekids>>

ForkCopy(c, p) ==
  /\ At(c, p, "fork_copy")
  /\ plock' = [plock EXCEPT ![arg[p]] = None]
  /\ Goto(p, "fork_parent")
  /\ UNCHANGED <<fields, waitLock, nextpid, cpus, locals>>

(* np->parent = p, under wait_lock.                                         *)
ForkParent(c, p) ==
  /\ At(c, p, "fork_parent")
  /\ waitLock = None
  /\ parent' = [parent EXCEPT ![arg[p]] = p]
  /\ Goto(p, "fork_run")
  /\ UNCHANGED <<state, chan, killed, pid, plock, waitLock, nextpid, cpus, locals>>

ForkRun(c, p) ==
  /\ At(c, p, "fork_run")
  /\ plock[arg[p]] = None
  /\ state' = [state EXCEPT ![arg[p]] = "RUNNABLE"]
  /\ Goto(p, "ret")
  /\ arg' = [arg EXCEPT ![p] = 0]
  /\ UNCHANGED <<chan, killed, pid, parent, plock, waitLock, nextpid, cpus,
                 resume, idx, wk, havekids>>

-----------------------------------------------------------------------------
(* Mutant of wakeup: it looks at the slot without taking its lock.          *)
WakeupSlotUnlocked(p, ch) ==
  /\ state' = [state EXCEPT ![wk[p]] =
                 IF wk[p] # p /\ @ = "SLEEPING" /\ chan[wk[p]] = ch
                   THEN "RUNNABLE" ELSE @]
  /\ wk' = [wk EXCEPT ![p] = IF @ = NPROC THEN 1 ELSE @ + 1]

(* wakeup(ch): one slot; the caller's own slot is passed over.              *)
WakeupSlot(p, ch) ==
  /\ wk[p] # p => plock[wk[p]] = None
  /\ state' = [state EXCEPT ![wk[p]] =
                 IF wk[p] # p /\ @ = "SLEEPING" /\ chan[wk[p]] = ch
                   THEN "RUNNABLE" ELSE @]
  /\ wk' = [wk EXCEPT ![p] = IF @ = NPROC THEN 1 ELSE @ + 1]

(* exit: files and cwd are released (modelled elsewhere), then wait_lock.   *)
Exit(c, p) ==
  /\ At(c, p, "exit")
  /\ waitLock = None
  /\ waitLock' = c
  /\ Goto(p, "reparent")
  /\ UNCHANGED <<fields, plock, nextpid, cpus, locals>>

(* Mutant of reparent: exit does not look for children at all.              *)
ReparentNobody(c, p) ==
  /\ At(c, p, "reparent")
  /\ Goto(p, "exit_wakeup")
  /\ UNCHANGED <<fields, plock, waitLock, nextpid, cpus, locals>>

(* reparent: one slot; a child goes to init, which is then woken.           *)
Reparent(c, p) ==
  /\ At(c, p, "reparent")
  /\ \/ /\ idx[p] <= NPROC
        /\ parent[idx[p]] = p
        /\ parent' = [parent EXCEPT ![idx[p]] = initproc]
        /\ Goto(p, "reparent_wakeup")
        /\ UNCHANGED idx
     \/ /\ idx[p] <= NPROC
        /\ parent[idx[p]] # p
        /\ idx' = [idx EXCEPT ![p] = @ + 1]
        /\ UNCHANGED <<parent, pc>>
     \/ /\ idx[p] > NPROC
        /\ Goto(p, "exit_wakeup")
        /\ idx' = [idx EXCEPT ![p] = 1]
        /\ UNCHANGED parent
  /\ UNCHANGED <<state, chan, killed, pid, plock, waitLock, nextpid, cpus,
                 resume, wk, havekids, arg>>

ReparentWakeup(c, p) ==
  /\ At(c, p, "reparent_wakeup")
  /\ WakeupSlot(p, initproc)
  /\ Goto(p, IF wk[p] = NPROC THEN "reparent" ELSE "reparent_wakeup")
  /\ idx' = [idx EXCEPT ![p] = IF wk[p] = NPROC THEN @ + 1 ELSE @]
  /\ UNCHANGED <<chan, killed, pid, parent, plock, waitLock, nextpid, cpus,
                 resume, havekids, arg>>

(* Mutant of exit: it wakes who sleeps on the exiting process itself.       *)
ExitWakeupSelf(c, p) ==
  /\ At(c, p, "exit_wakeup")
  /\ WakeupSlot(p, p)
  /\ Goto(p, IF wk[p] = NPROC THEN "exit_zombie" ELSE "exit_wakeup")
  /\ UNCHANGED <<chan, killed, pid, parent, plock, waitLock, nextpid, cpus,
                 resume, idx, havekids, arg>>

(* wakeup(p->parent)                                                        *)
ExitWakeup(c, p) ==
  /\ At(c, p, "exit_wakeup")
  /\ WakeupSlot(p, parent[p])
  /\ Goto(p, IF wk[p] = NPROC THEN "exit_zombie" ELSE "exit_wakeup")
  /\ UNCHANGED <<chan, killed, pid, parent, plock, waitLock, nextpid, cpus,
                 resume, idx, havekids, arg>>

(* acquire(&p->lock), ZOMBIE, release(&wait_lock), then sched.              *)
ExitZombie(c, p) ==
  /\ At(c, p, "exit_zombie")
  /\ plock[p] = None
  /\ plock' = [plock EXCEPT ![p] = c]
  /\ state' = [state EXCEPT ![p] = "ZOMBIE"]
  /\ waitLock' = None
  /\ Goto(p, "exit_sched")
  /\ UNCHANGED <<chan, killed, pid, parent, nextpid, cpus, locals>>

-----------------------------------------------------------------------------
(* wait: take wait_lock, on entry and again when sleep returns.             *)
Wait(c, p) ==
  /\ At(c, p, "wait")
  /\ waitLock = None
  /\ waitLock' = c
  /\ Goto(p, "wait_scan")
  /\ UNCHANGED <<fields, plock, nextpid, cpus, locals>>

WaitScanNext(p, kids) ==
  /\ idx' = [idx EXCEPT ![p] = IF @ = NPROC THEN 1 ELSE @ + 1]
  /\ havekids' = [havekids EXCEPT ![p] = kids]
  /\ Goto(p, IF idx[p] = NPROC THEN "wait_check" ELSE "wait_scan")

(* One slot that holds no zombie child.                                     *)
WaitScan(c, p) ==
  /\ At(c, p, "wait_scan")
  /\ \/ /\ parent[idx[p]] # p
        /\ WaitScanNext(p, havekids[p])
     \/ /\ parent[idx[p]] = p
        /\ plock[idx[p]] = None
        /\ state[idx[p]] # "ZOMBIE"
        /\ WaitScanNext(p, TRUE)
  /\ UNCHANGED <<fields, plock, waitLock, nextpid, cpus, resume, wk, arg>>

(* Mutant of wait: the child's lock is not taken before its slot is freed.  *)
WaitReapUnlocked(c, p) ==
  /\ At(c, p, "wait_scan")
  /\ parent[idx[p]] = p
  /\ state[idx[p]] = "ZOMBIE"
  /\ FreeProc(idx[p])
  /\ waitLock' = None
  /\ Goto(p, "ret")
  /\ idx' = [idx EXCEPT ![p] = 1]
  /\ havekids' = [havekids EXCEPT ![p] = FALSE]
  /\ UNCHANGED <<plock, nextpid, cpus, resume, wk, arg>>

(* A zombie child: its slot is freed, unless copyout of xstate fails (init  *)
(* passes a null address, so nothing is copied out for it).                 *)
WaitReap(c, p) ==
  /\ At(c, p, "wait_scan")
  /\ parent[idx[p]] = p
  /\ plock[idx[p]] = None
  /\ state[idx[p]] = "ZOMBIE"
  /\ \/ FreeProc(idx[p])
     \/ p # initproc /\ UNCHANGED fields
  /\ waitLock' = None
  /\ Goto(p, "ret")
  /\ idx' = [idx EXCEPT ![p] = 1]
  /\ havekids' = [havekids EXCEPT ![p] = FALSE]
  /\ UNCHANGED <<plock, nextpid, cpus, resume, wk, arg>>

(* No children, or killed(p): return -1.                                    *)
WaitCheck(c, p) ==
  /\ At(c, p, "wait_check")
  /\ \/ /\ ~havekids[p]
        /\ waitLock' = None
        /\ Goto(p, "ret")
     \/ /\ havekids[p]
        /\ plock[p] = None
        /\ waitLock' = IF killed[p] THEN None ELSE waitLock
        /\ Goto(p, IF killed[p] THEN "ret" ELSE "wait_sleep")
  /\ havekids' = [havekids EXCEPT ![p] = FALSE]
  /\ UNCHANGED <<fields, plock, nextpid, cpus, resume, idx, wk, arg>>

(* sleep(p, &wait_lock): acquire(&p->lock), then release(&wait_lock).       *)
Sleep(c, p) ==
  /\ At(c, p, "wait_sleep")
  /\ plock[p] = None
  /\ plock' = [plock EXCEPT ![p] = c]
  /\ waitLock' = None
  /\ Goto(p, "sleep_set")
  /\ UNCHANGED <<fields, nextpid, cpus, locals>>

SleepSet(c, p) ==
  /\ At(c, p, "sleep_set")
  /\ chan' = [chan EXCEPT ![p] = p]
  /\ state' = [state EXCEPT ![p] = "SLEEPING"]
  /\ Goto(p, "sleep_sched")
  /\ UNCHANGED <<killed, pid, parent, plock, waitLock, nextpid, cpus, locals>>

(* Awake: chan = 0, release(&p->lock), and back to acquire(lk) in wait.     *)
SleepResume(c, p) ==
  /\ At(c, p, "sleep_resume")
  /\ chan' = [chan EXCEPT ![p] = None]
  /\ plock' = [plock EXCEPT ![p] = None]
  /\ Goto(p, "wait")
  /\ UNCHANGED <<state, killed, pid, parent, waitLock, nextpid, cpus, locals>>

(* kill: one slot.                                                          *)
KillRet(p) ==
  /\ Goto(p, "ret")
  /\ idx' = [idx EXCEPT ![p] = 1]
  /\ arg' = [arg EXCEPT ![p] = 0]

Kill(c, p) ==
  /\ At(c, p, "kill")
  /\ plock[idx[p]] = None
  /\ \/ /\ pid[idx[p]] = arg[p]
        /\ killed' = [killed EXCEPT ![idx[p]] = TRUE]
        /\ state' = [state EXCEPT ![idx[p]] = IF @ = "SLEEPING" THEN "RUNNABLE" ELSE @]
        /\ KillRet(p)
     \/ /\ pid[idx[p]] # arg[p]
        /\ IF idx[p] = NPROC
             THEN KillRet(p)
             ELSE idx' = [idx EXCEPT ![p] = @ + 1] /\ UNCHANGED <<pc, arg>>
        /\ UNCHANGED <<killed, state>>
  /\ UNCHANGED <<chan, pid, parent, plock, waitLock, nextpid, cpus, resume, wk,
                 havekids>>

-----------------------------------------------------------------------------
Scheduler(c) == SchedulerRun(c) \/ SchedulerSkip(c) \/ SchedulerBack(c)

(* The steps of a system call from a point where the timer may strike.      *)
SyscallStep(c, p) ==
  \/ UserTrapRet(c, p)
  \/ AllocProc(c, p) \/ AllocProcFull(c, p) \/ ForkParent(c, p) \/ ForkRun(c, p)
  \/ Exit(c, p) \/ Wait(c, p) \/ Kill(c, p)

(* The other steps of a process on a CPU.                                   *)
ThreadStep(c, p) ==
  \/ Sched(c, p) \/ UserTrap(c, p)
  \/ Yield(c, p) \/ YieldResume(c, p) \/ Forkret(c, p)
  \/ ForkFails(c, p) \/ ForkCopy(c, p)
  \/ Reparent(c, p) \/ ReparentWakeup(c, p) \/ ExitWakeup(c, p) \/ ExitZombie(c, p)
  \/ WaitScan(c, p) \/ WaitReap(c, p) \/ WaitCheck(c, p)
  \/ Sleep(c, p) \/ SleepSet(c, p) \/ SleepResume(c, p)

Next ==
  \E c \in Cpu :
    \/ Scheduler(c)
    \/ \E p \in Slot : SyscallStep(c, p) \/ ThreadStep(c, p) \/ KernelTrap(c, p)

Spec == Init /\ [][Next]_vars

(* CPUs keep executing, and one that spins on a lock that is free again and *)
(* again gets it.  The timer of a CPU interrupts whichever process keeps    *)
(* it, but leaves a process time for a step of its own between two          *)
(* interrupts.  init (user/init.c) calls wait() again and again.            *)
CpuStep(c) == Scheduler(c) \/ \E p \in Slot : ThreadStep(c, p)

Timer(c) ==
  \E p \in Slot : (UserTrap(c, p) \/ KernelTrap(c, p)) /\ pc'[p] = "yield"

InitWaits(c) == UserTrap(c, initproc) /\ pc'[initproc] = "wait"

Fairness ==
  /\ \A c \in Cpu : SF_vars(CpuStep(c)) /\ SF_vars(Timer(c))
  /\ \A p \in Slot : SF_vars(\E c \in Cpu : SyscallStep(c, p))
  /\ SF_vars(\E c \in Cpu : InitWaits(c))

FairSpec == Spec /\ Fairness

-----------------------------------------------------------------------------
(* Type correctness of the process table, the CPUs and the locks.           *)
TypeOK ==
  /\ state \in [Slot -> ProcState]
  /\ chan \in [Slot -> Slot \cup {None}]
  /\ killed \in [Slot -> BOOLEAN]
  /\ pid \in [Slot -> Nat]
  /\ parent \in [Slot -> Slot \cup {None}]
  /\ plock \in [Slot -> Cpu \cup {None}]
  /\ waitLock \in Cpu \cup {None}
  /\ nextpid \in Nat
  /\ curproc \in [Cpu -> Slot \cup {None}]
  /\ stack \in [Cpu -> Slot \cup {None}]
  /\ slot \in [Cpu -> Slot]
  /\ pc \in [Slot -> PcState]
  /\ resume \in [Slot -> Preemptible \cup {"user"}]
  /\ idx \in [Slot -> 1 .. (NPROC + 1)]
  /\ wk \in [Slot -> Slot]
  /\ havekids \in [Slot -> BOOLEAN]
  /\ arg \in [Slot -> Nat]

(* No two CPUs ever execute on the same kernel stack: p->lock is held       *)
(* across swtch, so a process made RUNNABLE cannot be picked up by another  *)
(* CPU before its context has been saved.                                   *)
OneCpuPerStack ==
  \A c, d \in Cpu : (c # d /\ stack[c] # None) => stack[c] # stack[d]

(* A slot that wait or a failed fork has freed is not in use by any CPU:    *)
(* wait takes the child's lock to make sure it has left exit() and swtch(). *)
FreedIsOffCpu ==
  \A p \in Slot : state[p] = "UNUSED" => \A c \in Cpu : stack[c] # p /\ curproc[c] # p

(* The panics of sched are never reached: a process gives up its CPU only   *)
(* with p->lock held by that CPU, no other lock, and its state changed.     *)
SchedNeverPanics ==
  \A c \in Cpu, p \in Slot :
    (stack[c] = p /\ pc[p] \in AtSched) =>
      /\ plock[p] = c /\ waitLock # c
      /\ \A q \in Slot \ {p} : plock[q] # c
      /\ state[p] # "RUNNING"

(* A parent never sleeps in wait() while it has a zombie child to collect,  *)
(* except while an exiting process is still telling init of its orphans.    *)
NoLostWakeup ==
  (\A p \in Slot : pc[p] # "reparent_wakeup") =>
    \A p, q \in Slot :
      (state[q] = "ZOMBIE" /\ parent[q] = p) => state[p] # "SLEEPING"

(* Every process that has run or may run has a parent that can still call   *)
(* wait() for it: exit hands its children to init before it is a zombie.    *)
NoOrphans ==
  \A q \in Slot \ {initproc} :
    state[q] \in {"RUNNABLE", "RUNNING", "SLEEPING", "ZOMBIE"} =>
      /\ parent[q] # None
      /\ state[parent[q]] \notin {"UNUSED", "USED", "ZOMBIE"}

(* kill() wakes its victim from sleep(): no process sleeps in wait() after  *)
(* it has been killed.                                                      *)
KillWakesSleeper ==
  \A p \in Slot : killed[p] => state[p] # "SLEEPING"

(* kill() kills "the process with the given pid", so it leaves free slots   *)
(* alone: no process starts its life killed.                                *)
KillHitsProcess ==
  \A p \in Slot : killed[p] => state[p] # "UNUSED"

(* The scheduler starves nobody: a RUNNABLE process gets a CPU.             *)
RunnableRuns ==
  \A p \in Slot : state[p] = "RUNNABLE" ~> state[p] = "RUNNING"

(* A zombie whose parent is init, its own child or an orphan that exit      *)
(* handed to it, is freed in the end: init is never left asleep in wait()   *)
(* by the exit that made the zombie.                                        *)
InitReapsZombies ==
  \A p \in Slot :
    (state[p] = "ZOMBIE" /\ parent[p] = initproc) ~> state[p] = "UNUSED"

(* Process identifiers tell processes apart, so kill(pid) hits one victim.  *)
PidsUnique ==
  \A p, q \in Slot : (p # q /\ pid[p] # 0) => pid[p] # pid[q]

(* A bound for model checking: the timer does not strike within kill, whose *)
(* only local state is its place in the table.  The other CPU still comes   *)
(* in between any two slots.                                                *)
KillNotPreempted == \A p \in Slot : resume[p] # "kill"

(* The process table stays sound: its fields have their types, pids tell    *)
(* processes apart, every process keeps a parent that can wait for it, and  *)
(* none of the checks of sched fails.                                       *)
TableSound == TypeOK /\ PidsUnique /\ NoOrphans /\ SchedNeverPanics
=============================================================================
