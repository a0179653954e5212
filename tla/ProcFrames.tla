----------------------------- MODULE ProcFrames -----------------------------
(***************************************************************************)
(* Proc, first part of the proof that ProcInv is inductive: what follows   *)
(* from the invariant, what a step has to satisfy to keep each part of it, *)
(* and the steps of scheduler and of the traps.                            *)
(***************************************************************************)
EXTENDS ProcInductive, TLAPS

(* The state userinit leaves satisfies the invariant.                       *)
LEMMA InitInv == Init => ProcInv
  <1> SUFFICES ASSUME Init PROVE ProcInv
    BY Zenon
  <1> USE ProcAssumption DEF Init, Slot, Cpu, None, initproc
  <1>1. TypeOK
    BY DEF TypeOK, ProcState, PcState, Resumable
  <1>2. CpuInv /\ PidInv
    BY DEF CpuInv, PidInv, PidsUnique
  <1>3. StateInv
    BY Zenon DEF StateInv, Fits, Resumable, AtSched
  <1>4. LockInv
    BY DEF LockInv, Holds
  <1>5. LocalInv /\ ForkInv
    BY Zenon DEF LocalInv, ForkInv, Loc, InYield, Forking
  <1>6. ParentInv
    BY DEF ParentInv, Loc, InYield, ExitPath, Living
  <1>7. WakeInv
    BY Zenon DEF WakeInv, ChanInv, TellInv, ReapInv, ScanInv, Sleepy
  <1> QED
    BY <1>1, <1>2, <1>3, <1>4, <1>5, <1>6, <1>7, Zenon DEF ProcInv

(* What the proofs need of the sets of slots and CPUs.                      *)
LEMMA Consts ==
  /\ None \notin Slot /\ None \notin Cpu
  /\ initproc \in Slot
  /\ Slot \subseteq Nat
  BY ProcAssumption DEF Slot, Cpu, None, initproc

(* Slots are numbers from 1 to NPROC.                                       *)
LEMMA SlotNat ==
  \A n \in Slot : n \in Nat /\ 1 <= n /\ n <= NPROC
  BY ProcAssumption DEF Slot

(* The next slot of a loop that wraps round is a slot.                      *)
LEMMA Succ ==
  ASSUME NEW n \in Slot
  PROVE  (IF n = NPROC THEN 1 ELSE n + 1) \in Slot
  BY ProcAssumption DEF Slot

(* The invariant gives each of its parts.                                   *)
LEMMA Parts ==
  ASSUME ProcInv
  PROVE  TypeOK /\ CpuInv /\ StateInv /\ LockInv /\ LocalInv /\ ForkInv /\ PidInv
         /\ ParentInv /\ WakeInv
  BY Zenon DEF ProcInv

USE Consts, Parts DEF fields, cpus, locals, At

(* A process that a CPU executes is c->proc of that CPU, of no other, and   *)
(* holds its lock exactly at the points of OwnLock.                         *)
LEMMA OnCpu ==
  ASSUME ProcInv, NEW c \in Cpu, NEW p \in Slot, stack[c] = p
  PROVE  /\ curproc[c] = p /\ slot[c] = p
         /\ \A d \in Cpu \ {c} : stack[d] # p /\ curproc[d] # p
         /\ pc[p] \in AtSched \/ state[p] = "RUNNING"
         /\ pc[p] # "none"
         /\ plock[p] = c <=> pc[p] \in OwnLock
  <1>1. /\ curproc[c] = p /\ slot[c] = p
        /\ \A d \in Cpu \ {c} : stack[d] # p /\ curproc[d] # p
    BY DEF CpuInv
  <1>2. pc[p] \in AtSched \/ state[p] = "RUNNING"
    BY Zenon DEF StateInv, Fits
  <1>3. pc[p] # "none"
    BY <1>2, Zenon DEF StateInv, Fits, AtSched
  <1>4. pc[p] = "fork_copy" => arg[p] # p /\ pc[p] \notin OwnLock
    BY Zenon DEF ForkInv, OwnLock, Resumable, AtSched, Loc, InYield, Forking
  <1>5. plock[p] = c <=> pc[p] \in OwnLock
    BY <1>1, <1>4 DEF LockInv, Holds
  <1> QED
    BY <1>1, <1>2, <1>3, <1>5, Zenon

(* A process that is not RUNNING and whose lock is free is on no CPU.       *)
LEMMA OffCpu ==
  ASSUME ProcInv, NEW p \in Slot, plock[p] = None, state[p] # "RUNNING"
  PROVE  /\ \A d \in Cpu : curproc[d] # p /\ stack[d] # p
         /\ pc[p] \in Resumable \cup {"none"}
  <1>1. ASSUME NEW d \in Cpu, curproc[d] = p PROVE FALSE
    <2>1. stack[d] = p \/ stack[d] = None
      BY <1>1, Zenon DEF CpuInv, TypeOK
    <2>2. stack[d] = p => pc[p] \in OwnLock
      BY <1>1, OnCpu DEF OwnLock
    <2>3. Holds(d, p)
      BY <1>1, <2>1, <2>2, Zenon DEF Holds
    <2> QED
      BY <2>3, Zenon DEF LockInv
  <1>2. \A d \in Cpu : curproc[d] # p /\ stack[d] # p
    BY <1>1, Zenon DEF CpuInv
  <1>3. pc[p] \in Resumable \cup {"none"}
    BY <1>2 DEF StateInv, Fits, Resumable, AtSched
  <1> QED
    BY <1>2, <1>3, Zenon

(* A slot that is UNUSED or still being filled is on no CPU.                *)
LEMMA FreshOff ==
  ASSUME ProcInv, NEW p \in Slot, state[p] \in {"UNUSED", "USED"}
  PROVE  /\ \A d \in Cpu : curproc[d] # p /\ stack[d] # p
         /\ state[p] = "UNUSED" => pc[p] = "none"
         /\ state[p] = "USED" => pc[p] = "forkret"
  <1>1. ASSUME NEW d \in Cpu PROVE curproc[d] # p /\ stack[d] # p
    BY DEF CpuInv, StateInv, Fits, AtSched
  <1>2. pc[p] = IF state[p] = "UNUSED" THEN "none" ELSE "forkret"
    BY Zenon DEF StateInv, Fits, AtSched, Resumable
  <1> QED
    BY <1>1, <1>2, Zenon

(* wait_lock excludes: only one process is at a point that holds it.        *)
LEMMA Alone ==
  ASSUME ProcInv, NEW r \in Slot, pc[r] \in Locked
  PROVE  /\ waitLock # None
         /\ \A c \in Cpu : stack[c] # None /\ pc[stack[c]] \in Locked => r = stack[c]
  <1>1. pc[r] \notin Resumable \cup AtSched \cup {"none"}
    BY Zenon DEF Locked, Resumable, AtSched
  <1>2. PICK d \in Cpu : stack[d] = r
    BY <1>1, Zenon DEF StateInv, Fits
  <1> QED
    BY <1>2, Zenon DEF LockInv

(* A loop index within the table is a slot.                                 *)
LEMMA IdxSlot ==
  ASSUME ProcInv, NEW p \in Slot
  PROVE  idx[p] <= NPROC => idx[p] \in Slot
  BY ProcAssumption DEF TypeOK, Slot

(* The types of the fields that name slots.                                 *)
LEMMA Ranges ==
  ASSUME ProcInv
  PROVE  /\ \A d \in Cpu : /\ stack[d] \in Slot \cup {None}
                           /\ curproc[d] \in Slot \cup {None}
                           /\ slot[d] \in Slot
         /\ \A q \in Slot : parent[q] \in Slot \cup {None}
  BY Zenon DEF TypeOK

(* A zombie, or a process about to be one, has a parent and is not init.    *)
LEMMA HasParent ==
  ASSUME ProcInv, NEW q \in Slot, state[q] = "ZOMBIE" \/ pc[q] \in {"exit_wakeup", "exit_zombie"}
  PROVE  parent[q] \in Slot /\ q # initproc
  <1>1. state[q] \in {"ZOMBIE", "RUNNING"}
    BY Zenon DEF StateInv, Fits, Resumable, AtSched
  <1>2. q # initproc
    BY Zenon DEF ParentInv, Living, Loc, InYield, ExitPath
  <1> QED
    BY <1>1, <1>2, Ranges, Zenon DEF ParentInv, Living

(* What fork knows of the slot it is filling.                               *)
LEMMA ForkChild ==
  ASSUME ProcInv, NEW p \in Slot, Loc(p) \in Forking
  PROVE  /\ arg[p] \in Slot \ {p} /\ state[arg[p]] = "USED" /\ pc[arg[p]] = "forkret"
         /\ \A d \in Cpu : stack[d] # arg[p] /\ curproc[d] # arg[p]
         /\ \A d \in Cpu : stack[d] = p /\ pc[p] = "fork_copy" => plock[arg[p]] = d
  <1>1. arg[p] \in Slot \ {p} /\ state[arg[p]] = "USED"
    BY Zenon DEF ForkInv
  <1>2. pc[arg[p]] = "forkret" /\ \A d \in Cpu : stack[d] # arg[p] /\ curproc[d] # arg[p]
    BY <1>1, FreshOff, Zenon
  <1>3. ASSUME NEW d \in Cpu, stack[d] = p, pc[p] = "fork_copy"
        PROVE  plock[arg[p]] = d
    <2>1. Holds(d, arg[p])
      BY <1>3, Zenon DEF Holds
    <2> QED
      BY <1>1, <2>1, Zenon DEF LockInv
  <1> QED
    BY <1>1, <1>2, <1>3, Zenon

(* A step changes the state of a process only by waking a sleeper or by     *)
(* freeing a zombie, with the lock of the slot free before and after.       *)
OthersOff ==
  \A r \in Slot :
    \/ state'[r] = state[r]
    \/ state[r] = "SLEEPING" /\ state'[r] = "RUNNABLE" /\ plock[r] = None
    \/ state[r] = "ZOMBIE" /\ state'[r] = "UNUSED" /\ plock[r] = None

(* Points of a process on a CPU that hold neither its own lock nor a        *)
(* child's.                                                                 *)
Plain == PcState \ (OwnLock \cup {"none", "fork_copy"})

(* A step of p on c to point l takes, releases or keeps wait_lock.          *)
WaitLockTo(c, p, l) ==
  \/ waitLock' = waitLock /\ (l \in Locked <=> pc[p] \in Locked)
  \/ waitLock = None /\ waitLock' = c /\ l \in Locked
  \/ waitLock' = None /\ l \notin Locked /\ pc[p] \in Locked

(* A step of p on c that only moves p, to l.                                *)
MovesTo(c, p, l) ==
  /\ stack[c] = p /\ stack' = stack /\ WaitLockTo(c, p, l)
  /\ \A r \in Slot : pc'[r] = IF r = p THEN l ELSE pc[r]

(* After the step the CPU that holds wait_lock runs a point that holds it.  *)
WaitLockRight ==
  \A d \in Cpu : waitLock' = d <=> stack'[d] # None /\ pc'[stack'[d]] \in Locked

(* A step of p that treats wait_lock as its points say keeps the owner of   *)
(* wait_lock right.                                                         *)
LEMMA WaitLockMove ==
  ASSUME ProcInv, NEW c \in Cpu, NEW p \in Slot, NEW l, MovesTo(c, p, l)
  PROVE  WaitLockRight
  <1>0. /\ stack[c] = p /\ stack' = stack /\ WaitLockTo(c, p, l)
        /\ \A r \in Slot : pc'[r] = IF r = p THEN l ELSE pc[r]
    BY Zenon DEF MovesTo
  <1> SUFFICES ASSUME NEW d \in Cpu
               PROVE  waitLock' = d <=> stack[d] # None /\ pc'[stack[d]] \in Locked
    BY <1>0, Zenon DEF WaitLockRight
  <1>1. waitLock = c <=> pc[p] \in Locked
    BY <1>0, Zenon DEF LockInv
  <1>2. CASE d = c
    BY <1>0, <1>1, <1>2, Zenon DEF WaitLockTo
  <1>3. CASE d # c
    <2>1. stack[d] # None => pc'[stack[d]] = pc[stack[d]]
      <3>1. stack[d] # p
        BY <1>0, <1>3, OnCpu, Zenon
      <3> QED
        BY <1>0, <3>1, Ranges, Zenon
    <2>2. waitLock = d <=> stack[d] # None /\ pc[stack[d]] \in Locked
      BY Zenon DEF LockInv
    <2> QED
      BY <1>0, <1>1, <1>3, <2>1, <2>2 DEF WaitLockTo
  <1> QED
    BY <1>2, <1>3, Zenon

(* StateInv is kept by a step of the process on c.                          *)
LEMMA StateStep ==
  ASSUME ProcInv, NEW c \in Cpu, NEW p \in Slot, stack[c] = p, stack' = stack,
         Fits(pc'[p], state'[p]), pc'[p] \in AtSched \/ state'[p] = "RUNNING",
         \A q \in Slot \ {p} : /\ pc'[q] = pc[q] /\ Fits(pc[q], state'[q])
                               /\ state'[q] = "RUNNING" <=> state[q] = "RUNNING"
  PROVE  StateInv'
  <1>1. \A q \in Slot : Fits(pc'[q], state'[q])
    BY Zenon
  <1>2. ASSUME NEW q \in Slot, state'[q] = "RUNNING" \/ pc'[q] \in AtSched
        PROVE  \E d \in Cpu : stack'[d] = q
    BY <1>2, Zenon DEF StateInv
  <1>3. ASSUME NEW d \in Cpu, stack'[d] # None
        PROVE  pc'[stack'[d]] \in AtSched \/ state'[stack'[d]] = "RUNNING"
    <2>1. CASE stack[d] = p
      BY <2>1, Zenon
    <2>2. CASE stack[d] # p
      <3>1. stack[d] \in Slot \ {p}
        BY <1>3, <2>2, Ranges, Zenon
      <3>2. pc[stack[d]] \in AtSched \/ state[stack[d]] = "RUNNING"
        BY <1>3, Zenon DEF StateInv
      <3> QED
        BY <3>1, <3>2, Zenon
    <2> QED
      BY <2>1, <2>2, Zenon
  <1> QED
    BY <1>1, <1>2, <1>3, Zenon DEF StateInv

(* A step of p between points that hold no p->lock keeps the invariants of  *)
(* CPUs, states and locks.                                                  *)
LEMMA MoveInv ==
  ASSUME ProcInv, NEW c \in Cpu, NEW p \in Slot, stack[c] = p,
         NEW l \in Plain, pc[p] \in Plain,
         \A r \in Slot : pc'[r] = IF r = p THEN l ELSE pc[r],
         OthersOff, \A r \in Slot \ {p} : arg'[r] = arg[r],
         UNCHANGED <<plock, curproc, stack, slot>>,
         WaitLockTo(c, p, l)
  PROVE  CpuInv' /\ StateInv' /\ LockInv'
  <1>1. /\ curproc[c] = p /\ state[p] = "RUNNING"
        /\ \A d \in Cpu \ {c} : stack[d] # p /\ curproc[d] # p
    <2>1. pc[p] \notin AtSched
      BY Zenon DEF Plain, OwnLock, AtSched
    <2> QED
      BY <2>1, OnCpu, ZenonT(40)
  <1>2. ASSUME NEW r \in Slot, state'[r] # state[r]
        PROVE  /\ \/ pc[r] = "sleep_resume" /\ state'[r] = "RUNNABLE"
                  \/ pc[r] = "none" /\ state'[r] = "UNUSED"
               /\ \A d \in Cpu : curproc[d] # r
    BY <1>2, OffCpu DEF OthersOff, StateInv, Fits, Resumable
  <1>3. CpuInv'
    <2>1. ASSUME NEW d \in Cpu, stack[d] = None, curproc[d] # None
          PROVE  /\ pc'[curproc[d]] \in {"yield_resume", "sleep_resume", "none"}
                 /\ state'[curproc[d]] \in {"RUNNABLE", "SLEEPING", "ZOMBIE"}
      <3>1. curproc[d] \in Slot \ {p}
        BY <1>1, <2>1, Ranges, Zenon
      <3> QED
        BY <1>2, <2>1, <3>1, Zenon DEF CpuInv
    <2> QED
      BY <2>1, ZenonT(40) DEF CpuInv
  <1>4. StateInv'
    <2>1. Fits(l, state'[p]) /\ state'[p] = "RUNNING" /\ l \notin AtSched
      BY <1>1, Zenon DEF Fits, Plain, OwnLock, OthersOff, Resumable, AtSched
    <2>2. ASSUME NEW q \in Slot \ {p}
          PROVE  /\ pc'[q] = pc[q] /\ Fits(pc[q], state'[q])
                 /\ state'[q] = "RUNNING" <=> state[q] = "RUNNING"
      <3>1. Fits(pc[q], state[q])
        BY Zenon DEF StateInv
      <3>2. CASE state'[q] = state[q]
        BY <3>1, <3>2, Zenon
      <3>3. CASE state'[q] # state[q]
        <4>1. \/ pc[q] = "sleep_resume" /\ state'[q] = "RUNNABLE"
              \/ pc[q] = "none" /\ state'[q] = "UNUSED"
          BY <1>2, <3>3, Zenon
        <4>2. state[q] # "RUNNING"
          BY <3>3, Zenon DEF OthersOff
        <4>3. Fits(pc[q], state'[q])
          BY <4>1, Zenon DEF Fits, Resumable, AtSched
        <4> QED
          BY <4>1, <4>2, <4>3, Zenon
      <3> QED
        BY <3>2, <3>3, Zenon
    <2>3. pc'[p] = l
      BY Zenon
    <2> QED
      BY <2>1, <2>2, <2>3, StateStep, Zenon
  <1>5. LockInv'
    <2>1. \A d \in Cpu, q \in Slot : Holds(d, q)' <=> Holds(d, q)
      BY <1>1, Ranges, ZenonT(40) DEF Holds, Plain
    <2>2. MovesTo(c, p, l)
      BY Zenon DEF MovesTo
    <2>3. WaitLockRight
      BY <2>2, WaitLockMove, Zenon
    <2> QED
      BY <2>1, <2>3, Zenon DEF LockInv, WaitLockRight
  <1> QED
    BY <1>3, <1>4, <1>5, Zenon

(* So does one that takes or releases p->lock, or gives up the CPU.         *)
LEMMA LockMoveInv ==
  ASSUME ProcInv, NEW c \in Cpu, NEW p \in Slot, stack[c] = p, pc[p] # "fork_copy",
         NEW l, NEW s,
         \/ l = "yield_sched" /\ s = "RUNNABLE"
         \/ l = "sleep_sched" /\ s = "SLEEPING"
         \/ l = "exit_sched" /\ s = "ZOMBIE"
         \/ l \in Plain \cup {"sleep_set"} /\ s = "RUNNING",
         \A r \in Slot : pc'[r] = IF r = p THEN l ELSE pc[r],
         \A r \in Slot : state'[r] = IF r = p THEN s ELSE state[r],
         pc[p] \in OwnLock \/ plock[p] = None,
         \A r \in Slot : plock'[r] = IF r # p THEN plock[r] ELSE
                                     IF l \in OwnLock THEN c ELSE None,
         UNCHANGED <<curproc, stack, slot, arg>>, WaitLockTo(c, p, l)
  PROVE  CpuInv' /\ StateInv' /\ LockInv'
  <1>1. /\ curproc[c] = p
        /\ \A d \in Cpu \ {c} : stack[d] # p /\ curproc[d] # p
        /\ pc[p] \in OwnLock => plock[p] = c
    BY OnCpu
  <1>2. l \notin Resumable \cup {"none", "fork_copy"} /\ (s # "RUNNING" => l \in AtSched)
    BY Zenon DEF Plain, OwnLock, Resumable, AtSched
  <1>3. CpuInv'
    <2>1. ASSUME NEW d \in Cpu, stack[d] = None, curproc[d] # None
          PROVE  pc'[curproc[d]] = pc[curproc[d]] /\ state'[curproc[d]] = state[curproc[d]]
      BY <1>1, <2>1, Ranges, Zenon
    <2> QED
      BY <2>1, ZenonT(40) DEF CpuInv
  <1>4. StateInv'
    <2>1. Fits(l, s)
      BY Zenon DEF Fits, Plain, OwnLock, Resumable, AtSched
    <2> QED
      BY <1>2, <2>1, StateStep DEF StateInv
  <1>5. LockInv'
    <2>1. \A d \in Cpu, q \in Slot : q # p => (Holds(d, q)' <=> Holds(d, q))
      BY <1>1, <1>2, Ranges, ZenonT(40) DEF Holds
    <2>2. \A d \in Cpu : Holds(d, p)' <=> d = c /\ l \in OwnLock
      <3>1. ~ \E d \in Cpu \ {c} : Holds(d, p)
        BY <1>1 DEF LockInv
      <3>2. ASSUME NEW d \in Cpu \ {c} PROVE ~ Holds(d, p)'
        BY <1>1, <1>2, <3>1, <3>2, Ranges, ZenonT(40) DEF Holds
      <3>3. Holds(c, p)' <=> l \in OwnLock
        BY <1>1, <1>2, Zenon DEF Holds
      <3> QED
        BY <3>2, <3>3, Zenon
    <2>3. MovesTo(c, p, l)
      BY Zenon DEF MovesTo
    <2>4. WaitLockRight
      BY <2>3, WaitLockMove, Zenon
    <2> QED
      BY <2>1, <2>2, <2>4 DEF LockInv, WaitLockRight
  <1> QED
    BY <1>3, <1>4, <1>5, Zenon

(* So does a step of fork on the slot q it is filling.                      *)
LEMMA ForkMoveInv ==
  ASSUME ProcInv, NEW c \in Cpu, NEW p \in Slot, stack[c] = p,
         NEW q \in Slot \ {p}, \A d \in Cpu : stack[d] # q /\ curproc[d] # q,
         \A r \in Slot \ {p, q} : /\ pc'[r] = pc[r] /\ arg'[r] = arg[r]
                                  /\ state'[r] = state[r] /\ plock'[r] = plock[r],
         {pc[p], pc'[p]} \subseteq {"alloc", "fork_copy", "fork_parent", "fork_run", "ret"},
         state'[p] = state[p], plock'[p] = plock[p],
         Fits(pc'[q], state'[q]), state'[q] # "RUNNING", pc'[q] \notin AtSched,
         plock[q] = IF pc[p] = "fork_copy" THEN c ELSE None,
         plock'[q] = IF pc'[p] = "fork_copy" THEN c ELSE None,
         pc[p] = "fork_copy" => arg[p] = q, pc'[p] = "fork_copy" => arg'[p] = q,
         UNCHANGED <<waitLock, curproc, stack, slot>>
  PROVE  CpuInv' /\ StateInv' /\ LockInv'
  <1>1. /\ curproc[c] = p /\ state[p] = "RUNNING"
        /\ \A d \in Cpu \ {c} : stack[d] # p /\ curproc[d] # p
    BY OnCpu DEF AtSched
  <1>2. {pc[p], pc'[p]} \cap (OwnLock \cup Locked \cup {"none"}) = {}
    BY ZenonT(40) DEF OwnLock, Locked, Resumable, AtSched
  <1>3. ASSUME NEW d \in Cpu \ {c}
        PROVE  /\ stack[d] # None => stack[d] \in Slot \ {p, q}
               /\ curproc[d] # None => curproc[d] \in Slot \ {p, q}
    BY <1>1, <1>3, Ranges, Zenon
  <1>4. CpuInv'
    <2>1. ASSUME NEW d \in Cpu, stack[d] = None, curproc[d] # None
          PROVE  pc'[curproc[d]] = pc[curproc[d]] /\ state'[curproc[d]] = state[curproc[d]]
      BY <1>3, <2>1, Zenon
    <2> QED
      BY <2>1 DEF CpuInv
  <1>5. StateInv'
    <2>1. Fits(pc'[p], state'[p])
      BY <1>1, <1>2, Zenon DEF Fits, OwnLock, Resumable, AtSched
    <2>2. \A r \in Slot : Fits(pc'[r], state'[r])
      BY <2>1, Zenon DEF StateInv
    <2>3. \A r \in Slot : state'[r] = "RUNNING" \/ pc'[r] \in AtSched => \E d \in Cpu : stack[d] = r
      BY <1>1, ZenonT(40) DEF StateInv
    <2>4. ASSUME NEW d \in Cpu, stack[d] # None
          PROVE  pc'[stack[d]] \in AtSched \/ state'[stack[d]] = "RUNNING"
      BY <1>1, <1>3, <2>4, ZenonT(30) DEF StateInv
    <2> QED
      BY <2>2, <2>3, <2>4, ZenonT(40) DEF StateInv
  <1>6. LockInv'
    <2>1. ASSUME NEW d \in Cpu \ {c}, NEW r \in Slot
          PROVE  Holds(d, r)' <=> Holds(d, r)
      BY <1>3, <2>1, ZenonT(30) DEF Holds
    <2>2. ASSUME NEW r \in Slot
          PROVE  /\ Holds(c, r) <=> r = q /\ pc[p] = "fork_copy"
                 /\ Holds(c, r)' <=> r = q /\ pc'[p] = "fork_copy"
      BY <1>1, <1>2, <2>2, ZenonT(40) DEF Holds
    <2>3. ASSUME NEW d \in Cpu, NEW r \in Slot
          PROVE  plock'[r] = d <=> Holds(d, r)'
      <3>1. plock[r] = d <=> Holds(d, r)
        BY Zenon DEF LockInv
      <3>2. CASE r \in Slot \ {q}
        BY <2>1, <2>2, <3>1, <3>2, ZenonT(40)
      <3>3. CASE r = q
        BY <2>1, <2>2, <3>1, <3>3
      <3> QED
        BY <3>2, <3>3, Zenon
    <2>4. ASSUME NEW d \in Cpu
          PROVE  waitLock' = d <=> stack'[d] # None /\ pc'[stack'[d]] \in Locked
      BY <1>2, <1>3, ZenonT(30) DEF LockInv
    <2> QED
      BY <2>3, <2>4, Zenon DEF LockInv
  <1> QED
    BY <1>4, <1>5, <1>6, Zenon

(* The points that WakeInv speaks of.                                       *)
Watched == {"exit_wakeup", "exit_zombie", "reparent_wakeup", "wait_scan", "wait_check",
            "wait_sleep"}

(* A step that puts nobody to sleep, makes no zombie and moves nobody       *)
(* through exit's wakeups or wait's scan.                                   *)
WakesNobodyLate ==
  \A r \in Slot :
    /\ Sleepy(r)' => Sleepy(r)
    /\ state'[r] = "SLEEPING" => chan'[r] = r
    /\ state'[r] = "ZOMBIE" => state[r] = "ZOMBIE" /\ parent'[r] = parent[r]
    /\ pc'[r] \in Watched =>
         pc'[r] = pc[r] /\ wk'[r] = wk[r] /\ idx'[r] = idx[r] /\ parent'[r] = parent[r]
    /\ pc[r] = "reparent_wakeup" => pc'[r] = pc[r]

(* Such a step keeps WakeInv.                                               *)
LEMMA WakeFrame ==
  ASSUME ProcInv, WakesNobodyLate
  PROVE  WakeInv'
  <1> USE DEF WakeInv, WakesNobodyLate
  <1>1. ChanInv'
    BY Zenon DEF ChanInv
  <1>2. TellInv'
    <2>1. ASSUME NEW r \in Slot, pc'[r] \in {"exit_wakeup", "exit_zombie"}
          PROVE  /\ pc'[r] = pc[r] /\ wk'[r] = wk[r] /\ parent'[r] = parent[r]
                 /\ parent[r] \in Slot
                 /\ Sleepy(parent[r])' => Sleepy(parent[r])
      BY <2>1, HasParent, ZenonT(40) DEF Watched, Sleepy
    <2> SUFFICES ASSUME NEW r \in Slot
                 PROVE  /\ pc'[r] = "exit_wakeup" /\ Sleepy(parent[r])' => parent'[r] >= wk'[r]
                        /\ pc'[r] = "exit_zombie" => ~ Sleepy(parent[r])'
      BY Zenon DEF TellInv
    <2>2. /\ pc[r] = "exit_wakeup" /\ Sleepy(parent[r]) => parent[r] >= wk[r]
          /\ pc[r] = "exit_zombie" => ~ Sleepy(parent[r])
      BY Zenon DEF TellInv
    <2> HIDE DEF WakeInv, WakesNobodyLate
    <2> QED
      BY <2>1, <2>2, Zenon
  <1>3. ReapInv'
    <2>1. SUFFICES ASSUME NEW q \in Slot, state'[q] = "ZOMBIE", Sleepy(parent[q])'
                   PROVE  parent'[q] = initproc /\ \E r \in Slot : pc'[r] = "reparent_wakeup" /\ wk'[r] <= initproc
      BY Zenon DEF ReapInv
    <2>2. state[q] = "ZOMBIE" /\ parent'[q] = parent[q] /\ parent[q] \in Slot /\ Sleepy(parent[q])
      BY <2>1, HasParent, ZenonT(30) DEF Sleepy
    <2>3. PICK r \in Slot : pc[r] = "reparent_wakeup" /\ wk[r] <= initproc
      BY <2>2, Zenon DEF ReapInv
    <2>4. parent[q] = initproc
      BY <2>2, Zenon DEF ReapInv
    <2> QED
      BY <2>2, <2>3, <2>4, Zenon DEF Watched
  <1>4. ScanInv'
    <2>1. SUFFICES ASSUME NEW p \in Slot, NEW q \in Slot, state'[q] = "ZOMBIE", parent'[q] = p
                   PROVE  /\ pc'[p] = "wait_scan" => q >= idx'[p]
                          /\ pc'[p] \notin {"wait_check", "wait_sleep"}
      BY Zenon DEF ScanInv
    <2>2. state[q] = "ZOMBIE" /\ parent[q] = p
      BY <2>1, Zenon
    <2>3. pc'[p] \in Watched => pc'[p] = pc[p] /\ idx'[p] = idx[p]
      BY Zenon
    <2>4. /\ pc[p] = "wait_scan" => q >= idx[p]
          /\ pc[p] \notin {"wait_check", "wait_sleep"}
      BY <2>2, Zenon DEF ScanInv
    <2> QED
      BY <2>3, <2>4, Zenon DEF Watched
  <1> QED
    BY <1>1, <1>2, <1>3, <1>4, Zenon

(* A step that leaves the forks under way and their slots alone.            *)
ForksOn ==
  \A r \in Slot :
    Loc(r)' \in Forking =>
      /\ Loc(r)' = Loc(r) /\ arg'[r] = arg[r]
      /\ state'[arg[r]] = state[arg[r]]
      /\ Loc(r) = "fork_run" => parent'[arg[r]] = parent[arg[r]]

(* Such a step keeps ForkInv.                                               *)
LEMMA ForkFrame ==
  ASSUME ProcInv, ForksOn
  PROVE  ForkInv'
  <1>1. ASSUME NEW r \in Slot, Loc(r)' \in Forking
        PROVE  /\ Loc(r) \in Forking /\ Loc(r)' = Loc(r) /\ arg'[r] = arg[r]
               /\ state'[arg'[r]] = state[arg[r]]
               /\ Loc(r) = "fork_run" => parent'[arg'[r]] = parent[arg[r]]
    BY <1>1, Zenon DEF ForksOn
  <1> QED
    BY <1>1 DEF ForkInv

(* ForkInv is kept by a step of the fork of p when the other forks are left *)
(* alone.                                                                   *)
LEMMA ForkFrameBut ==
  ASSUME ProcInv, NEW p \in Slot,
         \A r \in Slot \ {p} : Loc(r)' \in Forking =>
           /\ Loc(r)' = Loc(r) /\ arg'[r] = arg[r] /\ arg[r] # arg'[p]
           /\ state'[arg[r]] = state[arg[r]] /\ parent'[arg[r]] = parent[arg[r]],
         arg'[p] \in Slot \ {p}, state'[arg'[p]] = "USED",
         Loc(p)' = "fork_run" => parent'[arg'[p]] = p
  PROVE  ForkInv'
  <1>1. ASSUME NEW r \in Slot \ {p}, Loc(r)' \in Forking
        PROVE  /\ arg'[r] \in Slot \ {r} /\ state'[arg'[r]] = "USED"
               /\ Loc(r)' = "fork_run" => parent'[arg'[r]] = r
               /\ Loc(r) \in Forking /\ arg'[r] = arg[r] /\ arg[r] # arg'[p]
    BY <1>1 DEF ForkInv
  <1>2. ASSUME NEW r \in Slot, NEW u \in Slot, r # u, Loc(r)' \in Forking, Loc(u)' \in Forking
        PROVE  arg'[r] # arg'[u]
    BY <1>1, <1>2 DEF ForkInv
  <1> QED
    BY <1>1, <1>2, ZenonT(40) DEF ForkInv

(* A step that makes no orphan: parents change only when a slot is freed,   *)
(* nobody living dies, init is not hurt.                                    *)
FamilyStays ==
  /\ ~ killed'[initproc] /\ pid'[initproc] = 1 /\ Loc(initproc)' \notin ExitPath
  /\ \A r \in Slot :
       /\ parent'[r] = parent[r] \/ (parent'[r] = None /\ state'[r] = "UNUSED")
       /\ state[r] \in Living => state'[r] \in Living
       /\ state'[r] \in Living \cup {"ZOMBIE"} =>
            state[r] \in Living \cup {"ZOMBIE"} \/ parent[r] # None
       /\ pc'[r] \in {"reparent", "reparent_wakeup", "exit_wakeup", "exit_zombie"} =>
            pc'[r] = pc[r] /\ idx'[r] = idx[r]

(* Such a step keeps ParentInv.                                             *)
LEMMA ParentFrame ==
  ASSUME ProcInv, FamilyStays
  PROVE  ParentInv'
  <1>1. /\ parent'[initproc] = None /\ state'[initproc] \in Living
        /\ ~ killed'[initproc] /\ pid'[initproc] = 1 /\ Loc(initproc)' \notin ExitPath
    BY Zenon DEF FamilyStays, ParentInv, Living
  <1>2. ASSUME NEW q \in Slot, parent'[q] # None
        PROVE  parent'[q] # q /\ state'[parent'[q]] \in Living
    <2>1. parent'[q] = parent[q] /\ parent[q] \in Slot
      BY <1>2, Ranges, Zenon DEF FamilyStays
    <2> QED
      BY <1>2, <2>1, Zenon DEF FamilyStays, ParentInv
  <1>3. \A q \in Slot \ {initproc} : state'[q] \in Living \cup {"ZOMBIE"} => parent'[q] # None
    BY DEF FamilyStays, ParentInv, Living
  <1>4. \A p, q \in Slot :
          /\ pc'[p] = "reparent" /\ q < idx'[p] => parent'[q] # p
          /\ pc'[p] = "reparent_wakeup" /\ q <= idx'[p] => parent'[q] # p
          /\ pc'[p] \in {"exit_wakeup", "exit_zombie"} => parent'[q] # p
    BY DEF FamilyStays, ParentInv
  <1> QED
    BY <1>1, <1>2, <1>3, <1>4, Zenon DEF ParentInv

(* One slot of wakeup(ch): only sleepers on ch change, and once the slot of *)
(* ch has been passed its process is neither asleep nor about to sleep,     *)
(* because an about-to-be sleeper holds its lock.                           *)
LEMMA WakeupEffect ==
  ASSUME ProcInv, NEW p \in Slot, NEW ch \in Slot \ {p}, WakeupSlot(p, ch)
  PROVE  /\ \A r \in Slot : \/ state'[r] = state[r]
                            \/ state[r] = "SLEEPING" /\ state'[r] = "RUNNABLE" /\ plock[r] = None
         /\ state' \in [Slot -> ProcState] /\ wk' \in [Slot -> Slot]
         /\ \A r \in Slot : wk'[r] = IF r # p THEN wk[r] ELSE
                                     IF wk[p] = NPROC THEN 1 ELSE wk[p] + 1
         /\ wk[p] \in Slot
         /\ wk[p] = ch => state'[ch] # "SLEEPING" /\ pc[ch] # "sleep_set"
  <1> USE DEF WakeupSlot
  <1>1. wk[p] \in Slot
    BY Zenon DEF TypeOK
  <1>2. ASSUME NEW r \in Slot
        PROVE  \/ state'[r] = state[r]
               \/ state[r] = "SLEEPING" /\ state'[r] = "RUNNABLE" /\ plock[r] = None
    BY Zenon DEF TypeOK
  <1>3. state' \in [Slot -> ProcState]
    BY Zenon DEF TypeOK, ProcState
  <1>4. wk' \in [Slot -> Slot]
    BY <1>1, Succ, Zenon DEF TypeOK
  <1>5. ASSUME NEW r \in Slot
        PROVE  wk'[r] = IF r # p THEN wk[r] ELSE IF wk[p] = NPROC THEN 1 ELSE wk[p] + 1
    BY Zenon DEF TypeOK
  <1>6. ASSUME wk[p] = ch PROVE state'[ch] # "SLEEPING" /\ pc[ch] # "sleep_set"
    <2>1. plock[ch] = None
      BY <1>6, Zenon
    <2>2. pc[ch] # "sleep_set"
      <3>1. ASSUME pc[ch] = "sleep_set" PROVE FALSE
        <4>1. state[ch] = "RUNNING"
          BY <3>1, Zenon DEF StateInv, Fits, Resumable, AtSched
        <4>2. PICK d \in Cpu : stack[d] = ch
          BY <4>1, Zenon DEF StateInv
        <4> QED
          BY <2>1, <3>1, <4>2, OnCpu DEF OwnLock
      <3> QED
        BY <3>1, Zenon
    <2>3. state[ch] = "SLEEPING" => chan[ch] = ch
      BY Zenon DEF WakeInv, ChanInv
    <2> QED
      BY <1>6, <2>2, <2>3, Zenon DEF TypeOK
  <1> QED
    BY <1>1, <1>2, <1>3, <1>4, <1>5, <1>6, Zenon

(* ParentInv is kept by a step of an exiting process that wakes sleepers.   *)
LEMMA ParentMove ==
  ASSUME ProcInv, NEW p \in Slot \ {initproc}, UNCHANGED <<parent, killed, pid, resume>>,
         \A r \in Slot : \/ state'[r] = state[r]
                         \/ state[r] = "SLEEPING" /\ state'[r] = "RUNNABLE",
         \A r \in Slot \ {p} : pc'[r] = pc[r] /\ idx'[r] = idx[r],
         \A q \in Slot : /\ pc'[p] = "reparent" /\ q < idx'[p] => parent[q] # p
                         /\ pc'[p] = "reparent_wakeup" /\ q <= idx'[p] => parent[q] # p
                         /\ pc'[p] \in {"exit_wakeup", "exit_zombie"} => parent[q] # p
  PROVE  ParentInv'
  <1>1. /\ parent'[initproc] = None /\ state'[initproc] \in Living
        /\ ~ killed'[initproc] /\ pid'[initproc] = 1 /\ Loc(initproc)' \notin ExitPath
    BY Zenon DEF ParentInv, Living, Loc
  <1>2. ASSUME NEW q \in Slot, parent'[q] # None
        PROVE  parent'[q] # q /\ state'[parent'[q]] \in Living
    BY <1>2, Ranges, ZenonT(40) DEF ParentInv, Living
  <1>3. \A q \in Slot \ {initproc} : state'[q] \in Living \cup {"ZOMBIE"} => parent'[q] # None
    BY Zenon DEF ParentInv, Living
  <1>4. ASSUME NEW r \in Slot, NEW q \in Slot
        PROVE  /\ pc'[r] = "reparent" /\ q < idx'[r] => parent'[q] # r
               /\ pc'[r] = "reparent_wakeup" /\ q <= idx'[r] => parent'[q] # r
               /\ pc'[r] \in {"exit_wakeup", "exit_zombie"} => parent'[q] # r
    BY DEF ParentInv
  <1> QED
    BY <1>1, <1>2, <1>3, <1>4, Zenon DEF ParentInv

(* ForkInv is kept by a step of a process that is not in fork.              *)
LEMMA ForkMove ==
  ASSUME ProcInv, NEW p \in Slot, Loc(p)' \notin Forking,
         \A r \in Slot \ {p} : pc'[r] = pc[r] /\ arg'[r] = arg[r],
         resume' = resume,
         \A r \in Slot : \/ state'[r] = state[r] /\ parent'[r] = parent[r]
                         \/ state[r] # "USED"
  PROVE  ForkInv'
  <1>1. ASSUME NEW r \in Slot, Loc(r)' \in Forking
        PROVE  /\ r # p /\ Loc(r)' = Loc(r) /\ arg'[r] = arg[r]
               /\ state'[arg[r]] = state[arg[r]] /\ parent'[arg[r]] = parent[arg[r]]
    <2>1. r # p
      BY <1>1, Zenon
    <2>2. Loc(r)' = Loc(r) /\ arg'[r] = arg[r]
      BY <2>1, Zenon DEF Loc
    <2>3. arg[r] \in Slot /\ state[arg[r]] = "USED"
      BY <1>1, <2>2, Zenon DEF ForkInv
    <2> QED
      BY <2>1, <2>2, <2>3, Zenon
  <1>2. ForksOn
    BY <1>1, Zenon DEF ForksOn
  <1> QED
    BY <1>2, ForkFrame, Zenon

(* WakeInv is kept by a step of wait's scan that passes no zombie child.    *)
LEMMA WaitFrame ==
  ASSUME ProcInv, NEW p \in Slot, pc[p] \in {"wait_scan", "wait_check"},
         NEW l \in {"wait_scan", "wait_check", "wait_sleep", "ret"},
         UNCHANGED <<state, chan, parent, wk>>,
         \A r \in Slot : pc'[r] = IF r = p THEN l ELSE pc[r],
         \A r \in Slot \ {p} : idx'[r] = idx[r],
         \A q \in Slot : state[q] = "ZOMBIE" /\ parent[q] = p =>
           /\ l = "wait_scan" => q >= idx'[p]
           /\ l \notin {"wait_check", "wait_sleep"}
  PROVE  WakeInv'
  <1>1. \A r \in Slot : Sleepy(r)' <=> Sleepy(r)
    BY Zenon DEF Sleepy
  <1>2. ChanInv'
    BY Zenon DEF WakeInv, ChanInv
  <1>3. TellInv'
    <2>1. ASSUME NEW r \in Slot, pc'[r] \in {"exit_wakeup", "exit_zombie"}
          PROVE  pc'[r] = pc[r] /\ parent[r] \in Slot /\ (Sleepy(parent[r])' <=> Sleepy(parent[r]))
      <3>1. pc'[r] = pc[r]
        BY <2>1, Zenon
      <3>2. parent[r] \in Slot
        BY <2>1, <3>1, HasParent, Zenon
      <3> QED
        BY <1>1, <3>1, <3>2, Zenon DEF Sleepy
    <2> QED
      BY <2>1, Zenon DEF WakeInv, TellInv
  <1>4. ReapInv'
    <2>1. ASSUME NEW q \in Slot, state'[q] = "ZOMBIE", Sleepy(parent[q])'
          PROVE  parent[q] = initproc /\ \E r \in Slot : pc'[r] = "reparent_wakeup" /\ wk[r] <= initproc
      <3>1. state[q] = "ZOMBIE" /\ Sleepy(parent[q])
        BY <1>1, <2>1, HasParent, ZenonT(30) DEF Sleepy
      <3>2. PICK r \in Slot : pc[r] = "reparent_wakeup" /\ wk[r] <= initproc
        BY <3>1, Zenon DEF WakeInv, ReapInv
      <3>3. parent[q] = initproc
        BY <3>1, Zenon DEF WakeInv, ReapInv
      <3> QED
        BY <3>2, <3>3, Zenon
    <2> QED
      BY <2>1, Zenon DEF ReapInv
  <1>5. ScanInv'
    <2>1. ASSUME NEW r \in Slot, NEW q \in Slot, state[q] = "ZOMBIE", parent[q] = r
          PROVE  /\ pc'[r] = "wait_scan" => q >= idx'[r]
                 /\ pc'[r] \notin {"wait_check", "wait_sleep"}
      BY <2>1, ZenonT(40) DEF WakeInv, ScanInv
    <2> QED
      BY <2>1, Zenon DEF ScanInv
  <1> QED
    BY <1>2, <1>3, <1>4, <1>5, Zenon DEF WakeInv

(* A step that only concerns a scheduler and p->lock keeps what is said of  *)
(* the table.                                                               *)
LEMMA TableUnchanged ==
  ASSUME ProcInv, UNCHANGED <<fields, nextpid, pc, locals>>
  PROVE  LocalInv' /\ ForkInv' /\ PidInv' /\ ParentInv' /\ WakeInv'
  <1>1. LocalInv' /\ PidInv'
    BY Zenon DEF LocalInv, PidInv, PidsUnique, Loc
  <1>2. ForkInv'
    BY Zenon DEF ForkInv, Loc
  <1>3. ParentInv'
    BY Zenon DEF ParentInv, Loc
  <1>4. ChanInv' /\ TellInv'
    BY Zenon DEF WakeInv, ChanInv, TellInv, Sleepy
  <1>5. ReapInv' /\ ScanInv'
    BY ZenonT(40) DEF WakeInv, ReapInv, ScanInv, Sleepy
  <1> QED
    BY <1>1, <1>2, <1>3, <1>4, <1>5, Zenon DEF WakeInv

(* scheduler picks a RUNNABLE process: its lock was free, so no other CPU   *)
(* is on its stack.                                                         *)
LEMMA SchedulerRunInv ==
  ASSUME ProcInv, NEW c \in Cpu, SchedulerRun(c)
  PROVE  ProcInv'
  <1> USE DEF SchedulerRun
  <1>0. slot[c] \in Slot
    BY Zenon DEF TypeOK
  <1>1. /\ \A d \in Cpu : curproc[d] # slot[c] /\ stack[d] # slot[c]
        /\ pc[slot[c]] \in Resumable
    BY <1>0, OffCpu, ZenonT(30) DEF StateInv, Fits
  <1>2. TypeOK'
    BY Zenon DEF TypeOK, ProcState
  <1>3. CpuInv'
    BY <1>0, <1>1, SMTT(40) DEF CpuInv, TypeOK
  <1>4. StateInv'
    BY <1>0, <1>1, SMTT(40) DEF TypeOK, StateInv, Fits, Resumable, AtSched
  <1>5. LockInv'
    BY <1>0, <1>1 DEF TypeOK, CpuInv, LockInv, Holds, OwnLock, Resumable, Locked
  <1>6. LocalInv' /\ PidInv'
    BY ZenonT(40) DEF LocalInv, Loc, InYield, PidInv, PidsUnique
  <1>7. ForkInv'
    BY <1>0, <1>1, SMTT(40) DEF TypeOK, ForkInv, Loc, InYield, Forking
  <1>8. ParentInv'
    BY <1>0, <1>1 DEF TypeOK, ParentInv, Loc, InYield, ExitPath, Living
  <1>9. WakeInv'
    <2>1. WakesNobodyLate
      BY <1>0, <1>1, Zenon DEF WakesNobodyLate, TypeOK, WakeInv, ChanInv, Sleepy
    <2> QED
      BY <2>1, WakeFrame, Zenon
  <1> QED
    BY <1>2, <1>3, <1>4, <1>5, <1>6, <1>7, <1>8, <1>9, Zenon DEF ProcInv

(* scheduler passes a slot.                                                 *)
LEMMA SchedulerSkipInv ==
  ASSUME ProcInv, NEW c \in Cpu, SchedulerSkip(c)
  PROVE  ProcInv'
  <1> USE DEF SchedulerSkip, NextSlot
  <1>1. TypeOK'
    BY Succ, ZenonT(40) DEF TypeOK
  <1>2. CpuInv' /\ StateInv' /\ LockInv'
    BY DEF TypeOK, CpuInv, StateInv, Fits, LockInv, Holds
  <1>3. LocalInv' /\ ForkInv' /\ PidInv' /\ ParentInv' /\ WakeInv'
    BY TableUnchanged, Zenon
  <1> QED
    BY <1>1, <1>2, <1>3, Zenon DEF ProcInv

(* scheduler after swtch: it releases the lock of the process it ran.       *)
LEMMA SchedulerBackInv ==
  ASSUME ProcInv, NEW c \in Cpu, SchedulerBack(c)
  PROVE  ProcInv'
  <1> USE DEF SchedulerBack, NextSlot
  <1>1. TypeOK'
    BY Succ, ZenonT(30) DEF TypeOK
  <1>2. slot[c] \in Slot /\ slot[c] = curproc[c] /\ plock[slot[c]] = c
    <2>1. slot[c] \in Slot /\ slot[c] = curproc[c] /\ stack[c] # slot[c]
      BY Ranges, ZenonT(40) DEF CpuInv
    <2> QED
      BY <2>1, ZenonT(30) DEF LockInv, Holds
  <1>3. CpuInv' /\ StateInv'
    BY <1>2, SMTT(40) DEF TypeOK, CpuInv, StateInv, Fits
  <1>4. LockInv'
    BY <1>2 DEF TypeOK, CpuInv, LockInv, Holds
  <1>5. LocalInv' /\ ForkInv' /\ PidInv' /\ ParentInv' /\ WakeInv'
    BY TableUnchanged, Zenon
  <1> QED
    BY <1>1, <1>3, <1>4, <1>5, Zenon DEF ProcInv

(* sched: the process leaves the CPU, its lock goes to the scheduler.       *)
LEMMA SchedInv ==
  ASSUME ProcInv, NEW c \in Cpu, NEW p \in Slot, Sched(c, p)
  PROVE  ProcInv'
  <1> USE DEF Sched, Goto
  <1>1. TypeOK'
    BY Zenon DEF TypeOK, PcState, Resumable
  <1>2. curproc[c] = p /\ plock[p] = c /\ \A d \in Cpu \ {c} : stack[d] # p /\ curproc[d] # p
    BY OnCpu, SMTT(40) DEF OwnLock, AtSched
  <1>3. CpuInv'
    BY <1>2, SMTT(40) DEF TypeOK, CpuInv, StateInv, Fits
  <1>4. StateInv'
    BY <1>2, SMTT(40) DEF TypeOK, StateInv, Fits, Resumable, AtSched
  <1>5. LockInv'
    BY <1>2, SMTT(40) DEF TypeOK, LockInv, Holds, Resumable, AtSched, OwnLock, Locked
  <1>6. LocalInv' /\ PidInv'
    BY SMTT(40) DEF LocalInv, Loc, InYield, TypeOK, PidInv, PidsUnique
  <1>7. ForkInv'
    BY SMTT(40) DEF TypeOK, ForkInv, Loc, InYield, Forking
  <1>8. ParentInv'
    BY DEF TypeOK, ParentInv, Loc, InYield, ExitPath, Living
  <1>9. WakeInv'
    <2>1. WakesNobodyLate
      BY DEF WakesNobodyLate, TypeOK, WakeInv, ChanInv, Sleepy, Watched
    <2> QED
      BY <2>1, WakeFrame, Zenon
  <1> QED
    BY <1>1, <1>3, <1>4, <1>5, <1>6, <1>7, <1>8, <1>9, ZenonT(40) DEF ProcInv

(* usertrap: a system call, an exit because of kill, or the timer.          *)
LEMMA UserTrapInv ==
  ASSUME ProcInv, NEW c \in Cpu, NEW p \in Slot, UserTrap(c, p)
  PROVE  ProcInv'
  <1>1. PICK l \in {"exit", "yield", "alloc", "wait", "kill"} :
          /\ stack[c] = p /\ pc[p] = "user" /\ Goto(p, l)
          /\ l = "exit" => killed[p] \/ p # initproc
          /\ UNCHANGED arg \/ \E k \in KillPid : arg' = [arg EXCEPT ![p] = k]
          /\ l = "kill" => \E k \in KillPid : arg' = [arg EXCEPT ![p] = k]
          /\ UNCHANGED <<fields, plock, waitLock, nextpid, cpus, resume, idx, wk, havekids>>
    BY Zenon DEF UserTrap
  <1>2. /\ stack[c] = p /\ pc[p] = "user" /\ resume[p] = "user"
        /\ l \in {"exit", "yield", "alloc", "wait", "kill"}
        /\ \A r \in Slot : pc'[r] = IF r = p THEN l ELSE pc[r]
        /\ \A r \in Slot \ {p} : arg'[r] = arg[r]
        /\ l = "kill" => arg'[p] \in KillPid
        /\ l = "exit" => killed[p] \/ p # initproc
        /\ UNCHANGED <<fields, plock, waitLock, nextpid, cpus, resume, idx, wk, havekids>>
    BY <1>1 DEF TypeOK, Goto, LocalInv, InYield
  <1>3. TypeOK'
    <2>1. pc' \in [Slot -> PcState]
      BY <1>1, Zenon DEF Goto, TypeOK, PcState, Preemptible
    <2>2. arg' \in [Slot -> Nat]
      BY <1>1, ProcAssumption, Zenon DEF TypeOK
    <2> QED
      BY <1>2, <2>1, <2>2, Zenon DEF TypeOK
  <1>4. CpuInv' /\ StateInv' /\ LockInv'
    <2>1. l \in Plain /\ pc[p] \in Plain /\ l \notin Locked /\ pc[p] \notin Locked
      BY <1>2, Zenon DEF Plain, PcState, Preemptible, OwnLock, Resumable, AtSched, Locked
    <2>2. OthersOff /\ WaitLockTo(c, p, l)
      BY <1>2, <2>1, ZenonT(40) DEF OthersOff, WaitLockTo
    <2> QED
      BY <1>2, <2>1, <2>2, MoveInv, ZenonT(30)
  <1>5. LocalInv'
    BY <1>2, ProcAssumption DEF LocalInv, Loc, InYield
  <1>6. ForksOn
    BY <1>2, ZenonT(40) DEF ForksOn, Loc, InYield, Forking
  <1>7. FamilyStays /\ PidInv'
    BY <1>2 DEF FamilyStays, ParentInv, Loc, InYield, ExitPath, PidInv, PidsUnique
  <1>8. WakesNobodyLate
    BY <1>2, ZenonT(40) DEF WakesNobodyLate, Watched, WakeInv, ChanInv, Sleepy
  <1> QED
    BY <1>3, <1>4, <1>5, <1>6, <1>7, <1>8, ForkFrame, ParentFrame, WakeFrame, ZenonT(40) DEF ProcInv

(* usertrap's second check of killed.                                       *)
LEMMA UserTrapRetInv ==
  ASSUME ProcInv, NEW c \in Cpu, NEW p \in Slot, UserTrapRet(c, p)
  PROVE  ProcInv'
  <1>1. PICK l \in {"exit", "user"} :
          /\ stack[c] = p /\ pc[p] = "ret" /\ Goto(p, l)
          /\ l = "exit" => killed[p]
          /\ UNCHANGED <<fields, plock, waitLock, nextpid, cpus, locals>>
    BY Zenon DEF UserTrapRet
  <1>2. \A r \in Slot : pc'[r] = IF r = p THEN l ELSE pc[r]
    BY <1>1, Zenon DEF TypeOK, Goto
  <1>3. TypeOK'
    BY <1>1, ZenonT(40) DEF Goto, TypeOK, PcState, Preemptible
  <1>4. CpuInv' /\ StateInv' /\ LockInv'
    <2>1. l \in Plain /\ pc[p] \in Plain /\ l \notin Locked /\ pc[p] \notin Locked
      BY <1>1, ZenonT(40) DEF Plain, PcState, Preemptible, OwnLock, Resumable, AtSched, Locked
    <2>2. OthersOff /\ WaitLockTo(c, p, l) /\ UNCHANGED <<plock, curproc, stack, slot, arg>>
      BY <1>1, <2>1, ZenonT(40) DEF OthersOff, WaitLockTo
    <2> QED
      BY <1>1, <1>2, <2>1, <2>2, MoveInv, SMTT(40)
  <1>5. LocalInv'
    BY <1>1, <1>2, SMTT(40) DEF LocalInv, Loc, InYield
  <1>6. ForkInv' /\ PidInv'
    BY <1>1, <1>2, SMTT(40) DEF ForkInv, Loc, InYield, Forking, PidInv, PidsUnique
  <1>7. ParentInv'
    BY <1>1, <1>2 DEF ParentInv, Loc, InYield, ExitPath
  <1>8. WakesNobodyLate
    BY <1>1, <1>2, Zenon DEF WakesNobodyLate, Watched, WakeInv, ChanInv, Sleepy
  <1> QED
    BY <1>3, <1>4, <1>5, <1>6, <1>7, <1>8, ForkFrame, ParentFrame, WakeFrame, Zenon DEF ProcInv

(* kerneltrap: the timer in the kernel.                                     *)
LEMMA KernelTrapInv ==
  ASSUME ProcInv, NEW c \in Cpu, NEW p \in Slot, KernelTrap(c, p)
  PROVE  ProcInv'
  <1> USE DEF KernelTrap
  <1>1. /\ \A r \in Slot : pc'[r] = IF r = p THEN "yield" ELSE pc[r]
        /\ \A r \in Slot : Loc(r)' = Loc(r)
        /\ \A r \in Slot \ {p} : resume'[r] = resume[r]
    BY ZenonT(40) DEF TypeOK, Goto, Loc, InYield, Preemptible
  <1>2. TypeOK'
    BY Zenon DEF Goto, TypeOK, PcState
  <1>3. CpuInv' /\ StateInv' /\ LockInv'
    <2>1. "yield" \in Plain /\ pc[p] \in Plain /\ "yield" \notin Locked /\ pc[p] \notin Locked
      BY Zenon DEF Plain, PcState, Preemptible, OwnLock, Resumable, AtSched, Locked
    <2> QED
      BY <1>1, <1>2, <2>1, MoveInv DEF OthersOff, WaitLockTo
  <1>4. LocalInv'
    BY <1>1, SMTT(40) DEF LocalInv, InYield, Preemptible
  <1>5. ForkInv' /\ PidInv'
    BY <1>1, SMTT(40) DEF ForkInv, PidInv, PidsUnique
  <1>6. ParentInv'
    BY <1>1 DEF ParentInv
  <1>7. WakesNobodyLate
    BY <1>1, Zenon DEF WakesNobodyLate, Watched, WakeInv, ChanInv, Sleepy, Preemptible
  <1> QED
    BY <1>2, <1>3, <1>4, <1>5, <1>6, <1>7, WakeFrame, Zenon DEF ProcInv
=============================================================================
