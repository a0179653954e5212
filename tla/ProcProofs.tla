----------------------------- MODULE ProcProofs -----------------------------
(***************************************************************************)
(* Proc, second part: yield, fork, sleep, kill, exit and wait keep the     *)
(* invariant, and the theorems about processes and CPUs.                   *)
(***************************************************************************)
EXTENDS ProcFrames

USE Consts, Parts DEF fields, cpus, locals, At

(* yield up to sched.                                                       *)
LEMMA YieldInv ==
  ASSUME ProcInv, NEW c \in Cpu, NEW p \in Slot, Yield(c, p)
  PROVE  ProcInv'
  <1>1. /\ stack[c] = p /\ pc[p] = "yield" /\ plock[p] = None
        /\ \A r \in Slot : pc'[r] = IF r = p THEN "yield_sched" ELSE pc[r]
        /\ \A r \in Slot : state'[r] = IF r = p THEN "RUNNABLE" ELSE state[r]
        /\ \A r \in Slot : plock'[r] = IF r = p THEN c ELSE plock[r]
        /\ UNCHANGED <<chan, killed, pid, parent, waitLock, nextpid, cpus, locals>>
    BY ZenonT(40) DEF Yield, Goto, TypeOK
  <1>2. TypeOK'
    BY Zenon DEF Yield, Goto, TypeOK, PcState, AtSched, ProcState
  <1>3. CpuInv' /\ StateInv' /\ LockInv'
    BY <1>1, LockMoveInv DEF WaitLockTo, OwnLock, AtSched, Locked
  <1>4. state[p] = "RUNNING" /\ \A r \in Slot : Loc(r)' = Loc(r)
    BY <1>1, OnCpu, ZenonT(40) DEF AtSched, Loc, InYield
  <1>5. LocalInv' /\ PidInv'
    BY <1>1, <1>4 DEF LocalInv, InYield, PidInv, PidsUnique
  <1>6. ForksOn
    BY <1>1, <1>4, ZenonT(30) DEF ForksOn, ForkInv
  <1>7. FamilyStays
    BY <1>1, <1>4, ZenonT(40) DEF FamilyStays, ParentInv, Living
  <1>8. WakesNobodyLate
    BY <1>1, Zenon DEF WakesNobodyLate, Watched, WakeInv, ChanInv, Sleepy
  <1> QED
    BY <1>2, <1>3, <1>5, <1>6, <1>7, <1>8, ForkFrame, ParentFrame, WakeFrame, Zenon DEF ProcInv

(* yield after sched.                                                       *)
LEMMA YieldResumeInv ==
  ASSUME ProcInv, NEW c \in Cpu, NEW p \in Slot, YieldResume(c, p)
  PROVE  ProcInv'
  <1>1. /\ stack[c] = p /\ pc[p] = "yield_resume"
        /\ \A r \in Slot : pc'[r] = IF r = p THEN resume[p] ELSE pc[r]
        /\ \A r \in Slot : plock'[r] = IF r = p THEN None ELSE plock[r]
        /\ \A r \in Slot : resume'[r] = IF r = p THEN "user" ELSE resume[r]
        /\ resume[p] \in Preemptible \cup {"user"}
        /\ UNCHANGED <<fields, waitLock, nextpid, cpus, idx, wk, havekids, arg>>
    BY Zenon DEF YieldResume, Goto, TypeOK
  <1>2. TypeOK'
    BY Zenon DEF YieldResume, Goto, TypeOK, PcState
  <1>3. resume[p] \in Plain \ (OwnLock \cup InYield \cup Locked) /\ state[p] = "RUNNING"
    BY <1>1, OnCpu, Zenon DEF Plain, PcState, Preemptible, OwnLock, Resumable, AtSched, InYield, Locked
  <1>4. CpuInv' /\ StateInv' /\ LockInv'
    BY <1>1, <1>3, LockMoveInv DEF WaitLockTo, OwnLock, Resumable, Locked
  <1>5. \A r \in Slot : Loc(r)' = Loc(r)
    BY <1>1, <1>3, Zenon DEF Loc, InYield
  <1>6. LocalInv' /\ PidInv'
    BY <1>1, <1>3, <1>5 DEF LocalInv, PidInv, PidsUnique
  <1>7. ForksOn /\ FamilyStays
    BY <1>1, <1>5, ZenonT(40) DEF ForksOn, FamilyStays, ParentInv, Preemptible
  <1>8. WakesNobodyLate
    BY <1>1, ZenonT(40) DEF WakesNobodyLate, Watched, WakeInv, ChanInv, Sleepy, Preemptible
  <1> QED
    BY <1>2, <1>4, <1>6, <1>7, <1>8, ForkFrame, ParentFrame, WakeFrame, Zenon DEF ProcInv

(* forkret.                                                                 *)
LEMMA ForkretInv ==
  ASSUME ProcInv, NEW c \in Cpu, NEW p \in Slot, Forkret(c, p)
  PROVE  ProcInv'
  <1>1. /\ stack[c] = p /\ pc[p] = "forkret"
        /\ \A r \in Slot : pc'[r] = IF r = p THEN "user" ELSE pc[r]
        /\ \A r \in Slot : plock'[r] = IF r = p THEN None ELSE plock[r]
        /\ UNCHANGED <<fields, waitLock, nextpid, cpus, locals>>
    BY Zenon DEF Forkret, Goto, TypeOK
  <1>2. TypeOK'
    BY Zenon DEF Forkret, Goto, TypeOK, PcState
  <1>3. "user" \in Plain \ (OwnLock \cup Locked) /\ state[p] = "RUNNING"
    BY <1>1, OnCpu, Zenon DEF Plain, PcState, OwnLock, Resumable, AtSched, Locked
  <1>4. CpuInv' /\ StateInv' /\ LockInv'
    BY <1>1, <1>3, LockMoveInv, SMTT(40) DEF WaitLockTo, OwnLock, Resumable, Locked
  <1>5. LocalInv' /\ PidInv'
    BY <1>1 DEF LocalInv, Loc, InYield, PidInv, PidsUnique
  <1>6. ForksOn /\ FamilyStays
    BY <1>1, ZenonT(40) DEF ForksOn, FamilyStays, ParentInv, Loc, InYield, Forking, ExitPath
  <1>7. WakesNobodyLate
    BY <1>1, Zenon DEF WakesNobodyLate, Watched, WakeInv, ChanInv, Sleepy
  <1> QED
    BY <1>2, <1>4, <1>5, <1>6, <1>7, ForkFrame, ParentFrame, WakeFrame, Zenon DEF ProcInv

(* allocproc finds a slot: nobody else fills it, because it is UNUSED and   *)
(* its lock was free.                                                       *)
LEMMA AllocFound ==
  ASSUME ProcInv, NEW c \in Cpu, NEW p \in Slot, AllocProc(c, p), state[idx[p]] = "UNUSED"
  PROVE  ProcInv'
  <1> DEFINE q == idx[p]
  <1>1. /\ stack[c] = p /\ pc[p] = "alloc" /\ q \in Slot /\ plock[q] = None
        /\ state[q] = "UNUSED" /\ state[p] = "RUNNING" /\ p # q
        /\ pc[q] = "none" /\ \A d \in Cpu : stack[d] # q /\ curproc[d] # q
    <2>1. stack[c] = p /\ pc[p] = "alloc" /\ q \in Slot /\ plock[q] = None
      BY IdxSlot, Zenon DEF AllocProc
    <2>2. state[p] = "RUNNING" /\ p # q
      BY <2>1, OnCpu, ZenonT(40) DEF AtSched
    <2>3. pc[q] = "none" /\ \A d \in Cpu : stack[d] # q /\ curproc[d] # q
      BY <2>1, FreshOff, Zenon
    <2> QED
      BY <2>1, <2>2, <2>3, Zenon
  <1>2. /\ \A r \in Slot : pc'[r] = IF r = p THEN "fork_copy" ELSE IF r = q THEN "forkret" ELSE pc[r]
        /\ \A r \in Slot : state'[r] = IF r = q THEN "USED" ELSE state[r]
        /\ \A r \in Slot : plock'[r] = IF r = q THEN c ELSE plock[r]
        /\ \A r \in Slot : pid'[r] = IF r = q THEN nextpid ELSE pid[r]
        /\ \A r \in Slot : arg'[r] = IF r = p THEN q ELSE arg[r]
        /\ \A r \in Slot : idx'[r] = IF r = p THEN 1 ELSE idx[r]
        /\ nextpid' = nextpid + 1
        /\ UNCHANGED <<chan, killed, parent, waitLock, cpus, resume, wk, havekids>>
    BY <1>1, SMTT(40) DEF AllocProc, AllocPid, TypeOK
  <1>3. TypeOK'
    <2>1. 1 \in 1 .. (NPROC + 1) /\ q \in Nat /\ nextpid + 1 \in Nat
      BY <1>1, ProcAssumption, SMTT(40) DEF TypeOK
    <2> QED
      BY <1>1, <2>1 DEF AllocProc, AllocPid, TypeOK, PcState, Resumable, ProcState
  <1> HIDE DEF q
  <1>4. CpuInv' /\ StateInv' /\ LockInv'
    <2>1. Fits(pc'[q], state'[q]) /\ state'[q] # "RUNNING" /\ pc'[q] \notin AtSched
      BY <1>1, <1>2, Zenon DEF Fits, Resumable, AtSched
    <2> QED
      BY <1>1, <1>2, <2>1, ForkMoveInv
  <1>7. LocalInv'
    BY <1>1, <1>2 DEF LocalInv, Loc, InYield
  <1>8. ForkInv'
    <2>1. ASSUME NEW r \in Slot \ {p}, Loc(r)' \in Forking
          PROVE  Loc(r)' = Loc(r) /\ arg'[r] = arg[r] /\ arg[r] \in Slot \ {q}
      BY <1>1, <1>2, <2>1 DEF ForkInv, Loc, InYield, Forking
    <2>2. Loc(p)' = "fork_copy" /\ arg'[p] = q
      BY <1>2, Zenon DEF Loc, InYield
    <2>3. ASSUME NEW r \in Slot \ {p}, Loc(r)' \in Forking
          PROVE  state'[arg[r]] = state[arg[r]] /\ parent'[arg[r]] = parent[arg[r]]
      BY <1>2, <2>1, <2>3, ZenonT(30)
    <2>4. arg'[p] \in Slot \ {p} /\ state'[arg'[p]] = "USED" /\ Loc(p)' # "fork_run"
      BY <1>1, <1>2, <2>2, Zenon
    <2> QED
      BY <2>1, <2>2, <2>3, <2>4, ForkFrameBut, ZenonT(40)
  <1>9. PidInv'
    BY <1>1, <1>2, SMTT(40) DEF PidInv, PidsUnique, TypeOK
  <1>10. FamilyStays
    BY <1>1, <1>2, SMTT(40) DEF FamilyStays, ParentInv, Living, Loc, InYield, ExitPath
  <1>11. WakesNobodyLate
    BY <1>1, <1>2 DEF WakesNobodyLate, Watched, WakeInv, ChanInv, Sleepy
  <1> QED
    BY <1>3, <1>4, <1>7, <1>8, <1>9, <1>10, <1>11, ParentFrame, WakeFrame, Zenon DEF ProcInv

(* allocproc passes a slot, or the table is full.                           *)
LEMMA AllocPassed ==
  ASSUME ProcInv, NEW c \in Cpu, NEW p \in Slot,
         \/ AllocProc(c, p) /\ state[idx[p]] # "UNUSED"
         \/ AllocProcFull(c, p)
  PROVE  ProcInv'
  <1>1. PICK l \in {"alloc", "ret"} :
          /\ stack[c] = p /\ pc[p] = "alloc"
          /\ \A r \in Slot : pc'[r] = IF r = p THEN l ELSE pc[r]
          /\ \A r \in Slot : idx'[r] = IF r # p THEN idx[r] ELSE
                                       IF l = "ret" THEN 1 ELSE idx[p] + 1
          /\ UNCHANGED <<fields, plock, waitLock, nextpid, cpus, resume, wk, havekids, arg>>
    BY Zenon DEF AllocProc, AllocProcFull, TypeOK, Goto
  <1>2. TypeOK'
    BY ProcAssumption DEF AllocProc, AllocProcFull, TypeOK, Goto, PcState, Preemptible
  <1>3. l \in Plain \ Locked /\ pc[p] \in Plain \ Locked
    BY <1>1, Zenon DEF Plain, PcState, Preemptible, OwnLock, Resumable, AtSched, Locked
  <1>4. CpuInv' /\ StateInv' /\ LockInv'
    BY <1>1, <1>2, <1>3, MoveInv, SMTT(40) DEF OthersOff, WaitLockTo
  <1>5. LocalInv' /\ PidInv'
    BY <1>1 DEF LocalInv, Loc, InYield, PidInv, PidsUnique
  <1>6. ForksOn /\ FamilyStays
    BY <1>1, ZenonT(40) DEF ForksOn, FamilyStays, ParentInv, Loc, InYield, Forking, ExitPath
  <1>7. WakesNobodyLate
    BY <1>1, Zenon DEF WakesNobodyLate, Watched, WakeInv, ChanInv, Sleepy
  <1> QED
    BY <1>2, <1>4, <1>5, <1>6, <1>7, ForkFrame, ParentFrame, WakeFrame, ZenonT(40) DEF ProcInv

(* fork runs out of memory and frees the slot.                              *)
LEMMA ForkFailsInv ==
  ASSUME ProcInv, NEW c \in Cpu, NEW p \in Slot, ForkFails(c, p)
  PROVE  ProcInv'
  <1> DEFINE q == arg[p]
  <1>1. /\ stack[c] = p /\ pc[p] = "fork_copy" /\ Loc(p) = "fork_copy"
        /\ q \in Slot \ {p} /\ state[q] = "USED" /\ plock[q] = c
        /\ pc[q] = "forkret" /\ \A d \in Cpu : stack[d] # q /\ curproc[d] # q
    <2>1. stack[c] = p /\ pc[p] = "fork_copy" /\ Loc(p) = "fork_copy" /\ Loc(p) \in Forking
      BY Zenon DEF ForkFails, Loc, InYield, Forking
    <2> QED
      BY <2>1, ForkChild, ZenonT(40)
  <1>3. /\ \A r \in Slot : pc'[r] = IF r = q THEN "none" ELSE IF r = p THEN "ret" ELSE pc[r]
        /\ \A r \in Slot : state'[r] = IF r = q THEN "UNUSED" ELSE state[r]
        /\ \A r \in Slot : plock'[r] = IF r = q THEN None ELSE plock[r]
        /\ \A r \in Slot : pid'[r] = IF r = q THEN 0 ELSE pid[r]
        /\ \A r \in Slot : parent'[r] = IF r = q THEN None ELSE parent[r]
        /\ \A r \in Slot \ {p} : arg'[r] = arg[r]
        /\ \A r \in Slot \ {q} : chan'[r] = chan[r] /\ killed'[r] = killed[r]
        /\ UNCHANGED <<waitLock, nextpid, cpus, resume, idx, wk, havekids>>
    BY <1>1, ZenonT(40) DEF ForkFails, FreeProc, TypeOK
  <1>4. TypeOK'
    BY <1>1, ZenonT(40) DEF ForkFails, FreeProc, TypeOK, PcState, Preemptible, ProcState
  <1> HIDE DEF q
  <1>5. CpuInv' /\ StateInv' /\ LockInv'
    <2>1. Fits(pc'[q], state'[q]) /\ state'[q] # "RUNNING" /\ pc'[q] \notin AtSched
      BY <1>1, <1>3, Zenon DEF Fits, Resumable, AtSched
    <2>2. /\ pc'[p] \in {"ret", "fork_parent"} /\ state'[p] = state[p] /\ plock'[p] = plock[p]
          /\ plock'[q] = None /\ arg[p] = q
          /\ \A r \in Slot \ {p, q} : /\ pc'[r] = pc[r] /\ arg'[r] = arg[r]
                                      /\ state'[r] = state[r] /\ plock'[r] = plock[r]
      BY <1>1, <1>3, ZenonT(30) DEF q
    <2> QED
      BY <1>1, <1>3, <2>1, <2>2, ForkMoveInv, SMTT(40)
  <1>6. LocalInv'
    <2>1. ASSUME NEW r \in Slot \ {p, q}
          PROVE  pc'[r] = pc[r] /\ resume'[r] = resume[r] /\ idx'[r] = idx[r] /\ wk'[r] = wk[r]
                 /\ arg'[r] = arg[r]
      BY <1>3, Zenon
    <2>2. \A r \in {p, q} : /\ pc[r] \in {"fork_copy", "forkret"} /\ pc'[r] \in {"ret", "none"}
                            /\ resume'[r] = resume[r] /\ idx'[r] = idx[r] /\ wk'[r] = wk[r]
      BY <1>1, <1>3
    <2>3. ASSUME NEW r \in Slot \ {p, q}
          PROVE  /\ pc'[r] \notin InYield => resume'[r] = "user"
                 /\ pc'[r] \notin {"reparent_wakeup", "exit_wakeup"} => wk'[r] = 1
                 /\ Loc(r)' \notin {"alloc", "reparent", "reparent_wakeup", "wait_scan", "kill"}
                      => idx'[r] = 1
                 /\ Loc(r)' \in {"wait_scan", "kill", "reparent_wakeup"} => idx'[r] <= NPROC
                 /\ Loc(r)' = "kill" => arg'[r] \in KillPid
      <3>1. Loc(r)' = Loc(r)
        BY <2>1, Zenon DEF Loc
      <3> QED
        BY <2>1, <3>1, Zenon DEF LocalInv
    <2>4. ASSUME NEW r \in {p, q}
          PROVE  /\ resume'[r] = "user" /\ wk'[r] = 1 /\ idx'[r] = 1
                 /\ pc'[r] \in {"ret", "none"} /\ Loc(r)' = pc'[r]
      <3>1. Loc(r) = pc[r] /\ Loc(r)' = pc'[r]
        BY <2>2, Zenon DEF Loc, InYield
      <3>2. r \in Slot /\ pc[r] \in {"fork_copy", "forkret"}
        BY <1>1, <2>2, Zenon
      <3>3. resume[r] = "user" /\ wk[r] = 1 /\ idx[r] = 1
        BY <3>1, <3>2, Zenon DEF LocalInv, InYield
      <3> QED
        BY <2>2, <3>1, <3>3, Zenon
    <2> QED
      BY <2>3, <2>4, Zenon DEF LocalInv
  <1>7. ForksOn
    <2>1. ASSUME NEW r \in Slot, Loc(r)' \in Forking
          PROVE  r # p /\ Loc(r)' = Loc(r) /\ arg'[r] = arg[r]
      BY <1>1, <1>3, <2>1 DEF Loc, InYield, Forking
    <2>2. ASSUME NEW r \in Slot, Loc(r)' \in Forking
          PROVE  arg[r] \in Slot \ {q}
      BY <1>1, <2>1, <2>2 DEF ForkInv, Forking, q
    <2> QED
      BY <1>3, <2>1, <2>2, ZenonT(30) DEF ForksOn
  <1>8. PidInv'
    BY <1>1, <1>3, SMTT(40) DEF PidInv, PidsUnique, TypeOK
  <1>9. FamilyStays
    <2>1. q # initproc /\ (pc'[initproc] = pc[initproc] \/ pc'[initproc] = "ret")
      BY <1>1, <1>3 DEF ParentInv, Living
    <2>2. Loc(initproc)' \notin ExitPath
      BY <1>3, <2>1, Zenon DEF ParentInv, Loc, InYield, ExitPath
    <2>3. \A r \in Slot :
            /\ parent'[r] = parent[r] \/ (parent'[r] = None /\ state'[r] = "UNUSED")
            /\ state'[r] = state[r] \/ (state[r] = "USED" /\ state'[r] = "UNUSED")
            /\ pc'[r] = pc[r] \/ pc'[r] \in {"none", "ret"}
      BY <1>1, <1>3, ZenonT(40)
    <2> QED
      BY <1>3, <2>1, <2>2, <2>3, SMTT(40) DEF FamilyStays, ParentInv, Living
  <1>10. WakesNobodyLate
    BY <1>1, <1>3 DEF WakesNobodyLate, Watched, WakeInv, ChanInv, Sleepy
  <1> QED
    BY <1>4, <1>5, <1>6, <1>7, <1>8, <1>9, <1>10, ForkFrame, ParentFrame, WakeFrame, ZenonT(40) DEF ProcInv

(* fork releases np->lock.                                                  *)
LEMMA ForkCopyInv ==
  ASSUME ProcInv, NEW c \in Cpu, NEW p \in Slot, ForkCopy(c, p)
  PROVE  ProcInv'
  <1> DEFINE q == arg[p]
  <1>1. /\ stack[c] = p /\ pc[p] = "fork_copy" /\ Loc(p) = "fork_copy"
        /\ q \in Slot \ {p} /\ state[q] = "USED" /\ plock[q] = c
        /\ pc[q] = "forkret" /\ \A d \in Cpu : stack[d] # q /\ curproc[d] # q
    <2>1. stack[c] = p /\ pc[p] = "fork_copy" /\ Loc(p) = "fork_copy" /\ Loc(p) \in Forking
      BY Zenon DEF ForkCopy, Loc, InYield, Forking
    <2> QED
      BY <2>1, ForkChild, ZenonT(40)
  <1>3. /\ \A r \in Slot : pc'[r] = IF r = p THEN "fork_parent" ELSE pc[r]
        /\ \A r \in Slot : plock'[r] = IF r = q THEN None ELSE plock[r]
        /\ UNCHANGED <<fields, waitLock, nextpid, cpus, locals>>
    BY <1>1, Zenon DEF ForkCopy, Goto, TypeOK
  <1>4. TypeOK'
    BY <1>1, ZenonT(40) DEF ForkCopy, Goto, TypeOK, PcState, Preemptible
  <1> HIDE DEF q
  <1>5. CpuInv' /\ StateInv' /\ LockInv'
    <2>1. Fits(pc'[q], state'[q]) /\ state'[q] # "RUNNING" /\ pc'[q] \notin AtSched
      BY <1>1, <1>3, Zenon DEF Fits, Resumable, AtSched
    <2>2. /\ pc'[p] \in {"ret", "fork_parent"} /\ state'[p] = state[p] /\ plock'[p] = plock[p]
          /\ plock'[q] = None /\ arg[p] = q
          /\ \A r \in Slot \ {p, q} : /\ pc'[r] = pc[r] /\ arg'[r] = arg[r]
                                      /\ state'[r] = state[r] /\ plock'[r] = plock[r]
      BY <1>1, <1>3, Zenon DEF q
    <2> QED
      BY <1>1, <1>3, <2>1, <2>2, ForkMoveInv, SMTT(40)
  <1>6. LocalInv' /\ PidInv'
    BY <1>1, <1>3, SMTT(40) DEF LocalInv, Loc, InYield, PidInv, PidsUnique
  <1>7. ForkInv'
    BY <1>1, <1>3, SMTT(40) DEF ForkInv, Loc, InYield, Forking
  <1>8. FamilyStays
    BY <1>1, <1>3 DEF FamilyStays, ParentInv, Loc, InYield, ExitPath
  <1>9. WakesNobodyLate
    BY <1>1, <1>3, ZenonT(40) DEF WakesNobodyLate, Watched, WakeInv, ChanInv, Sleepy
  <1> QED
    BY <1>4, <1>5, <1>6, <1>7, <1>8, <1>9, ParentFrame, WakeFrame, ZenonT(40) DEF ProcInv

(* fork sets np->parent under wait_lock.                                    *)
LEMMA ForkParentInv ==
  ASSUME ProcInv, NEW c \in Cpu, NEW p \in Slot, ForkParent(c, p)
  PROVE  ProcInv'
  <1> DEFINE q == arg[p]
  <1>1. stack[c] = p /\ pc[p] = "fork_parent" /\ Loc(p) = "fork_parent" /\ Loc(p) \in Forking
    BY Zenon DEF ForkParent, Loc, InYield, Forking
  <1>2. q \in Slot \ {p} /\ state[q] = "USED" /\ pc[q] = "forkret" /\ state[p] = "RUNNING"
    BY <1>1, ForkChild, OnCpu DEF AtSched
  <1>3. /\ \A r \in Slot : pc'[r] = IF r = p THEN "fork_run" ELSE pc[r]
        /\ \A r \in Slot : parent'[r] = IF r = q THEN p ELSE parent[r]
        /\ UNCHANGED <<state, chan, killed, pid, plock, waitLock, nextpid, cpus, locals>>
    BY <1>2, Zenon DEF ForkParent, Goto, TypeOK
  <1>4. TypeOK'
    BY Zenon DEF ForkParent, Goto, TypeOK, PcState, Preemptible
  <1> HIDE DEF q
  <1>5. CpuInv' /\ StateInv' /\ LockInv'
    <2>1. "fork_run" \in Plain \ Locked /\ pc[p] \in Plain \ Locked
      BY <1>1, Zenon DEF Plain, PcState, Preemptible, OwnLock, Resumable, AtSched, Locked
    <2> QED
      BY <1>1, <1>3, <2>1, MoveInv, SMTT(40) DEF OthersOff, WaitLockTo
  <1>6. LocalInv' /\ PidInv'
    BY <1>1, <1>3 DEF LocalInv, Loc, InYield, PidInv, PidsUnique
  <1>7. ForkInv'
    <2>1. \A r \in Slot : /\ Loc(r)' = IF r = p THEN "fork_run" ELSE Loc(r)
                          /\ r # p /\ Loc(r) \in Forking => arg[r] \in Slot \ {q}
      BY <1>1, <1>3, ZenonT(40) DEF Loc, InYield, ForkInv, q
    <2> QED
      <3>1. ASSUME NEW r \in Slot \ {p}, Loc(r)' \in Forking
            PROVE  /\ Loc(r)' = Loc(r) /\ arg'[r] = arg[r] /\ arg[r] # q
                   /\ state'[arg[r]] = state[arg[r]] /\ parent'[arg[r]] = parent[arg[r]]
        BY <1>3, <2>1, <3>1, Zenon
      <3>2. arg'[p] = q /\ state'[q] = "USED" /\ parent'[q] = p
        BY <1>2, <1>3, Zenon DEF q
      <3> QED
        BY <1>2, <3>1, <3>2, ForkFrameBut, ZenonT(40)
  <1>8. ParentInv'
    <2>1. q # initproc
      BY <1>2, Zenon DEF ParentInv, Living
    <2>2. Loc(initproc)' \notin ExitPath
      BY <1>3, Zenon DEF ParentInv, Loc, InYield, ExitPath
    <2>3. \A r, s \in Slot :
            /\ pc'[r] = "reparent" /\ s < idx'[r] => parent'[s] # r
            /\ pc'[r] = "reparent_wakeup" /\ s <= idx'[r] => parent'[s] # r
            /\ pc'[r] \in {"exit_wakeup", "exit_zombie"} => parent'[s] # r
      BY <1>3, ZenonT(40) DEF ParentInv
    <2> QED
      BY <1>2, <1>3, <2>1, <2>2, <2>3 DEF ParentInv, Living
  <1>9. WakesNobodyLate
    BY <1>1, <1>2, <1>3, ZenonT(40) DEF WakesNobodyLate, Watched, WakeInv, ChanInv, Sleepy
  <1> QED
    BY <1>4, <1>5, <1>6, <1>7, <1>8, <1>9, WakeFrame, Zenon DEF ProcInv

(* fork makes the child RUNNABLE.                                           *)
LEMMA ForkRunInv ==
  ASSUME ProcInv, NEW c \in Cpu, NEW p \in Slot, ForkRun(c, p)
  PROVE  ProcInv'
  <1> DEFINE q == arg[p]
  <1>1. stack[c] = p /\ pc[p] = "fork_run" /\ Loc(p) = "fork_run" /\ Loc(p) \in Forking
    BY Zenon DEF ForkRun, Loc, InYield, Forking
  <1>2. /\ q \in Slot \ {p} /\ state[q] = "USED" /\ pc[q] = "forkret" /\ parent[q] = p
        /\ \A d \in Cpu : stack[d] # q /\ curproc[d] # q
    BY <1>1, ForkChild, ZenonT(40) DEF ForkInv
  <1>3. /\ \A r \in Slot : pc'[r] = IF r = p THEN "ret" ELSE pc[r]
        /\ \A r \in Slot : state'[r] = IF r = q THEN "RUNNABLE" ELSE state[r]
        /\ \A r \in Slot \ {p} : arg'[r] = arg[r]
        /\ plock[q] = None
        /\ UNCHANGED <<chan, killed, pid, parent, plock, waitLock, nextpid, cpus,
                       resume, idx, wk, havekids>>
    BY <1>2, ZenonT(40) DEF ForkRun, Goto, TypeOK
  <1>4. TypeOK'
    BY Zenon DEF ForkRun, Goto, TypeOK, PcState, Preemptible, ProcState
  <1> HIDE DEF q
  <1>5. CpuInv' /\ StateInv' /\ LockInv'
    <2>1. Fits(pc'[q], state'[q]) /\ state'[q] # "RUNNING" /\ pc'[q] \notin AtSched
      BY <1>2, <1>3, ZenonT(30) DEF Fits, Resumable, AtSched
    <2>2. /\ pc'[p] = "ret" /\ state'[p] = state[p] /\ plock'[p] = plock[p] /\ plock'[q] = None
          /\ \A r \in Slot \ {p, q} : /\ pc'[r] = pc[r] /\ arg'[r] = arg[r]
                                      /\ state'[r] = state[r] /\ plock'[r] = plock[r]
      BY <1>2, <1>3, Zenon
    <2> QED
      BY <1>1, <1>2, <1>3, <2>1, <2>2, ForkMoveInv, SMTT(40)
  <1>6. LocalInv' /\ PidInv'
    <2>1. LocalInv'
      BY <1>1, <1>3 DEF LocalInv, Loc, InYield
    <2>2. PidInv'
      BY <1>3, Zenon DEF PidInv, PidsUnique
    <2> QED
      BY <2>1, <2>2, ZenonT(40)
  <1>7. ForksOn
    <2>1. ASSUME NEW r \in Slot, Loc(r)' \in Forking
          PROVE  Loc(r)' = Loc(r) /\ arg'[r] = arg[r] /\ arg[r] \in Slot \ {q}
      <3>1. r # p /\ Loc(r)' = Loc(r)
        BY <1>1, <1>3, <2>1, ZenonT(40) DEF Loc, InYield, Forking
      <3> QED
        BY <1>1, <1>3, <2>1, <3>1, SMTT(40) DEF ForkInv, q
    <2> QED
      BY <1>3, <2>1, Zenon DEF ForksOn
  <1>8. FamilyStays
    BY <1>2, <1>3 DEF FamilyStays, ParentInv, Living, Loc, InYield, ExitPath
  <1>9. WakesNobodyLate
    <2>1. \A r \in Slot : /\ state'[r] \in {"SLEEPING", "ZOMBIE"} => state'[r] = state[r]
                          /\ pc'[r] = pc[r] \/ (pc[r] = "fork_run" /\ pc'[r] = "ret")
      BY <1>1, <1>3, Zenon
    <2>2. UNCHANGED <<chan, parent, idx, wk>>
      BY <1>3, Zenon
    <2> QED
      BY <2>1, <2>2, Zenon DEF WakesNobodyLate, Watched, WakeInv, ChanInv, Sleepy
  <1> QED
    BY <1>4, <1>5, <1>6, <1>7, <1>8, <1>9, ForkFrame, ParentFrame, WakeFrame, Zenon DEF ProcInv

(* exit and wait take wait_lock.                                            *)
LEMMA TakeWaitLock ==
  ASSUME ProcInv, NEW c \in Cpu, NEW p \in Slot, Exit(c, p) \/ Wait(c, p)
  PROVE  ProcInv'
  <1>1. PICK l \in {"reparent", "wait_scan"} :
          /\ stack[c] = p /\ pc[p] = IF l = "reparent" THEN "exit" ELSE "wait"
          /\ \A r \in Slot : pc'[r] = IF r = p THEN l ELSE pc[r]
          /\ waitLock = None /\ waitLock' = c
          /\ UNCHANGED <<fields, plock, nextpid, cpus, locals>>
    BY Zenon DEF Exit, Wait, Goto, TypeOK
  <1>2. TypeOK'
    BY ZenonT(40) DEF Exit, Wait, Goto, TypeOK, PcState, Locked
  <1>3. CpuInv' /\ StateInv' /\ LockInv'
    <2>1. l \in Plain /\ l \in Locked /\ pc[p] \in Plain
      BY <1>1, Zenon DEF Plain, PcState, Preemptible, OwnLock, Resumable, AtSched, Locked
    <2> QED
      BY <1>1, <2>1, MoveInv, Zenon DEF OthersOff, WaitLockTo
  <1>4. idx[p] = 1
    BY <1>1, Zenon DEF LocalInv, Loc, InYield
  <1>5. LocalInv' /\ PidInv'
    BY <1>1, <1>4, ProcAssumption DEF LocalInv, Loc, InYield, PidInv, PidsUnique
  <1>6. ForksOn
    BY <1>1, ZenonT(40) DEF ForksOn, Loc, InYield, Forking
  <1>7. ParentInv'
    <2>1. \A s \in Slot : ~ (s < 1)
      BY DEF Slot
    <2>2. Loc(initproc)' \notin ExitPath
      BY <1>1, Zenon DEF ParentInv, Loc, InYield, ExitPath
    <2> QED
      BY <1>1, <1>4, <2>1, <2>2, SMTT(40) DEF ParentInv
  <1>8. WakeInv'
    <2>1. \A s \in Slot : s >= 1
      BY DEF Slot
    <2>2. \A r \in Slot : Sleepy(r)' <=> Sleepy(r)
      BY <1>1, Zenon DEF Sleepy
    <2>3. \A r \in Slot : pc[r] \notin Locked
      BY <1>1, Alone, Zenon
    <2>4. ChanInv' /\ TellInv'
      BY <1>1, <2>3, Zenon DEF WakeInv, ChanInv, TellInv, Locked
    <2>5. ReapInv'
      BY <1>1, <2>2, <2>3, HasParent, ZenonT(40) DEF WakeInv, ReapInv, Sleepy, Locked
    <2>6. ScanInv'
      BY <1>1, <1>4, <2>1, <2>3, ZenonT(40) DEF WakeInv, ScanInv, Locked
    <2> QED
      BY <2>4, <2>5, <2>6, Zenon DEF WakeInv
  <1> QED
    BY <1>2, <1>3, <1>5, <1>6, <1>7, <1>8, ForkFrame, ZenonT(40) DEF ProcInv

(* sleep takes p->lock before it gives up wait_lock: no child can become a  *)
(* zombie in between.                                                       *)
LEMMA SleepInv ==
  ASSUME ProcInv, NEW c \in Cpu, NEW p \in Slot, Sleep(c, p)
  PROVE  ProcInv'
  <1>1. /\ stack[c] = p /\ pc[p] = "wait_sleep" /\ plock[p] = None /\ waitLock' = None
        /\ UNCHANGED <<fields, nextpid, cpus, locals>>
    BY Zenon DEF Sleep
  <1>2. /\ \A r \in Slot : pc'[r] = IF r = p THEN "sleep_set" ELSE pc[r]
        /\ \A r \in Slot : plock'[r] = IF r = p THEN c ELSE plock[r]
    BY Zenon DEF Sleep, Goto, TypeOK
  <1>3. TypeOK'
    BY Zenon DEF Sleep, Goto, TypeOK, PcState
  <1>4. state[p] = "RUNNING"
    BY <1>1, OnCpu, ZenonT(40) DEF AtSched
  <1>5. CpuInv' /\ StateInv' /\ LockInv'
    <2>1. "sleep_set" \in OwnLock \ Locked /\ pc[p] \in Locked
      BY <1>1, Zenon DEF OwnLock, AtSched, Locked
    <2>2. WaitLockTo(c, p, "sleep_set")
      BY <1>1, <2>1, Zenon DEF WaitLockTo
    <2>3. \A r \in Slot : state'[r] = IF r = p THEN "RUNNING" ELSE state[r]
      BY <1>1, <1>4, Zenon
    <2> QED
      BY <1>1, <1>2, <2>1, <2>2, <2>3, LockMoveInv, SMTT(40)
  <1>6. \A r \in Slot \ {p} : pc[r] \notin Locked
    BY <1>1, Alone, ZenonT(40) DEF Locked
  <1>7. LocalInv' /\ PidInv'
    BY <1>1, <1>2 DEF LocalInv, Loc, InYield, PidInv, PidsUnique
  <1>8. ForkInv'
    <2>1. Loc(p)' \notin Forking
      BY <1>2, Zenon DEF Loc, InYield, Forking
    <2> QED
      BY <1>1, <1>2, <2>1, ForkMove, Zenon
  <1>9. ParentInv'
    <2>1. FamilyStays
      BY <1>1, <1>2, ZenonT(40) DEF FamilyStays, ParentInv, Loc, InYield, ExitPath
    <2> QED
      BY <2>1, ParentFrame, Zenon
  <1>10. WakeInv'
    <2>1. \A r \in Slot \ {p} : Sleepy(r)' => Sleepy(r)
      BY <1>1, <1>2, Zenon DEF Sleepy
    <2>2. ChanInv'
      BY <1>1, Zenon DEF WakeInv, ChanInv
    <2>3. \A r \in Slot : pc'[r] \notin Locked
      BY <1>2, <1>6, Zenon DEF Locked
    <2>4. ASSUME NEW q \in Slot, state'[q] = "ZOMBIE", Sleepy(parent[q])'
          PROVE  FALSE
      <3>1. state[q] = "ZOMBIE" /\ parent[q] \in Slot
        BY <1>1, <2>4, HasParent, Zenon
      <3>2. parent[q] # p
        BY <1>1, <3>1, Zenon DEF WakeInv, ScanInv
      <3>3. Sleepy(parent[q])
        BY <1>1, <2>1, <2>4, <3>1, <3>2, ZenonT(40) DEF Sleepy
      <3> QED
        BY <1>1, <1>6, <3>1, <3>3, Zenon DEF WakeInv, ReapInv, Locked
    <2> QED
      BY <2>2, <2>3, <2>4, Zenon DEF WakeInv, TellInv, ReapInv, ScanInv, Locked
  <1> QED
    BY <1>3, <1>5, <1>7, <1>8, <1>9, <1>10, ZenonT(40) DEF ProcInv

(* sleep sets p->chan and p->state.                                         *)
LEMMA SleepSetInv ==
  ASSUME ProcInv, NEW c \in Cpu, NEW p \in Slot, SleepSet(c, p)
  PROVE  ProcInv'
  <1>1. /\ stack[c] = p /\ pc[p] = "sleep_set"
        /\ UNCHANGED <<killed, pid, parent, plock, waitLock, nextpid, cpus, locals>>
    BY Zenon DEF SleepSet
  <1>2. /\ \A r \in Slot : pc'[r] = IF r = p THEN "sleep_sched" ELSE pc[r]
        /\ \A r \in Slot : state'[r] = IF r = p THEN "SLEEPING" ELSE state[r]
        /\ \A r \in Slot : chan'[r] = IF r = p THEN p ELSE chan[r]
    BY Zenon DEF SleepSet, Goto, TypeOK
  <1>3. TypeOK'
    BY Zenon DEF SleepSet, Goto, TypeOK, PcState, AtSched, ProcState
  <1>4. state[p] = "RUNNING"
    BY <1>1, OnCpu, ZenonT(40) DEF AtSched
  <1>5. CpuInv' /\ StateInv' /\ LockInv'
    <2>1. "sleep_sched" \in OwnLock \ Locked /\ pc[p] \in OwnLock \ Locked
      BY <1>1, Zenon DEF OwnLock, AtSched, Locked
    <2>2. WaitLockTo(c, p, "sleep_sched")
      BY <1>1, <2>1, Zenon DEF WaitLockTo
    <2>3. \A r \in Slot : plock'[r] = IF r = p THEN c ELSE plock[r]
      BY <1>1, <2>1, OnCpu, ZenonT(40)
    <2> QED
      BY <1>1, <1>2, <2>1, <2>2, <2>3, LockMoveInv, SMTT(40)
  <1>6. LocalInv' /\ PidInv'
    BY <1>1, <1>2 DEF LocalInv, Loc, InYield, PidInv, PidsUnique
  <1>7. ForkInv'
    <2>1. Loc(p)' \notin Forking
      BY <1>2, ZenonT(40) DEF Loc, InYield, Forking
    <2> QED
      BY <1>1, <1>2, <1>4, <2>1, ForkMove, Zenon
  <1>8. ParentInv'
    <2>1. FamilyStays
      BY <1>1, <1>2, <1>4 DEF FamilyStays, ParentInv, Loc, InYield, ExitPath, Living
    <2> QED
      BY <2>1, ParentFrame, Zenon
  <1>9. WakeInv'
    <2>1. WakesNobodyLate
      BY <1>1, <1>2, ZenonT(40) DEF WakesNobodyLate, WakeInv, ChanInv, Sleepy, Watched
    <2> QED
      BY <2>1, WakeFrame, Zenon
  <1> QED
    BY <1>3, <1>5, <1>6, <1>7, <1>8, <1>9, Zenon DEF ProcInv

(* sleep returns.                                                           *)
LEMMA SleepResumeInv ==
  ASSUME ProcInv, NEW c \in Cpu, NEW p \in Slot, SleepResume(c, p)
  PROVE  ProcInv'
  <1>1. /\ stack[c] = p /\ pc[p] = "sleep_resume"
        /\ UNCHANGED <<state, killed, pid, parent, waitLock, nextpid, cpus, locals>>
    BY Zenon DEF SleepResume
  <1>2. /\ \A r \in Slot : pc'[r] = IF r = p THEN "wait" ELSE pc[r]
        /\ \A r \in Slot : plock'[r] = IF r = p THEN None ELSE plock[r]
        /\ \A r \in Slot : chan'[r] = IF r = p THEN None ELSE chan[r]
    BY Zenon DEF SleepResume, Goto, TypeOK
  <1>3. TypeOK'
    BY Zenon DEF SleepResume, Goto, TypeOK, PcState, Preemptible
  <1>4. state[p] = "RUNNING"
    BY <1>1, OnCpu, ZenonT(40) DEF AtSched
  <1>5. CpuInv' /\ StateInv' /\ LockInv'
    <2>1. "wait" \in Plain \ Locked /\ "wait" \notin OwnLock /\ pc[p] \in OwnLock \ Locked
      BY <1>1, Zenon DEF Plain, PcState, Preemptible, OwnLock, Resumable, AtSched, Locked
    <2>2. WaitLockTo(c, p, "wait")
      BY <1>1, <2>1, Zenon DEF WaitLockTo
    <2>3. \A r \in Slot : state'[r] = IF r = p THEN "RUNNING" ELSE state[r]
      BY <1>1, <1>4, ZenonT(40)
    <2> QED
      BY <1>1, <1>2, <2>1, <2>2, <2>3, LockMoveInv, SMTT(40)
  <1>6. LocalInv' /\ PidInv'
    BY <1>1, <1>2 DEF LocalInv, Loc, InYield, PidInv, PidsUnique
  <1>7. ForkInv'
    <2>1. Loc(p)' \notin Forking
      BY <1>2, Zenon DEF Loc, InYield, Forking
    <2> QED
      BY <1>1, <1>2, <2>1, ForkMove, Zenon
  <1>8. ParentInv'
    <2>1. FamilyStays
      BY <1>1, <1>2, ZenonT(40) DEF FamilyStays, ParentInv, Loc, InYield, ExitPath
    <2> QED
      BY <2>1, ParentFrame, Zenon
  <1>9. WakeInv'
    <2>1. WakesNobodyLate
      BY <1>1, <1>2, <1>4, ZenonT(40) DEF WakesNobodyLate, WakeInv, ChanInv, Sleepy, Watched
    <2> QED
      BY <2>1, WakeFrame, Zenon
  <1> QED
    BY <1>3, <1>5, <1>6, <1>7, <1>8, <1>9, Zenon DEF ProcInv

(* kill, one slot.                                                          *)
LEMMA KillInv ==
  ASSUME ProcInv, NEW c \in Cpu, NEW p \in Slot, Kill(c, p)
  PROVE  ProcInv'
  <1>1. /\ stack[c] = p /\ pc[p] = "kill" /\ idx[p] <= NPROC /\ arg[p] \in KillPid
        /\ plock[idx[p]] = None
        /\ UNCHANGED <<chan, pid, parent, plock, waitLock, nextpid, cpus, resume, wk, havekids>>
    BY Zenon DEF Kill, LocalInv, Loc, InYield
  <1>2. idx[p] \in Slot
    BY <1>1, IdxSlot, ZenonT(40)
  <1>3. PICK l \in {"kill", "ret"} :
          /\ \A r \in Slot : pc'[r] = IF r = p THEN l ELSE pc[r]
          /\ \/ l = "ret" /\ KillRet(p)
             \/ /\ l = "kill" /\ idx[p] # NPROC /\ UNCHANGED <<pc, arg>>
                /\ idx' = [idx EXCEPT ![p] = idx[p] + 1]
    BY DEF Kill, KillRet, Goto, TypeOK
  <1>4. \A r \in Slot :
          \/ state'[r] = state[r]
          \/ state[r] = "SLEEPING" /\ state'[r] = "RUNNABLE" /\ plock[r] = None
    BY <1>1, ZenonT(40) DEF Kill, TypeOK
  <1>5. ~ killed'[initproc]
    <2>1. killed'[initproc] = killed[initproc] \/ (idx[p] = initproc /\ pid[idx[p]] = arg[p])
      BY ZenonT(40) DEF Kill, TypeOK
    <2>2. pid[initproc] = 1 /\ ~ killed[initproc] /\ 1 \notin KillPid
      BY ProcAssumption, Zenon DEF ParentInv
    <2> QED
      BY <1>1, <2>1, <2>2, Zenon
  <1>6. /\ \A r \in Slot \ {p} : idx'[r] = idx[r] /\ arg'[r] = arg[r]
        /\ l = "ret" => idx'[p] = 1
        /\ l = "kill" => idx'[p] = idx[p] + 1 /\ arg'[p] = arg[p]
    BY <1>3 DEF KillRet, TypeOK
  <1>7. TypeOK'
    <2>1. pc' \in [Slot -> PcState] /\ arg' \in [Slot -> Nat]
      BY <1>3 DEF KillRet, Goto, TypeOK, PcState, Preemptible
    <2>2. idx' \in [Slot -> 1 .. (NPROC + 1)]
      <3>1. idx[p] + 1 \in 1 .. (NPROC + 1) /\ 1 \in 1 .. (NPROC + 1)
        <4>1. idx[p] \in Nat /\ 1 <= idx[p] /\ idx[p] <= NPROC
          BY <1>2, Zenon, SlotNat
        <4> QED
          BY <4>1, ProcAssumption
      <3> QED
        BY <1>3, <3>1, ZenonT(40) DEF KillRet, TypeOK
    <2>3. state' \in [Slot -> ProcState] /\ killed' \in [Slot -> BOOLEAN]
      <3>1. state' \in [Slot -> ProcState]
        BY DEF Kill, TypeOK, ProcState
      <3>2. killed' \in [Slot -> BOOLEAN]
        BY ZenonT(40) DEF Kill, TypeOK
      <3> QED
        BY <3>1, <3>2, Zenon
    <2> QED
      BY <1>1, <2>1, <2>2, <2>3, ZenonT(40) DEF TypeOK
  <1>8. CpuInv' /\ StateInv' /\ LockInv'
    <2>1. l \in Plain \ Locked /\ pc[p] \in Plain \ Locked
      BY <1>1, ZenonT(40) DEF Plain, PcState, OwnLock, Resumable, AtSched, Locked, Preemptible
    <2> QED
      BY <1>1, <1>3, <1>4, <1>6, <2>1, MoveInv, SMTT(40) DEF OthersOff, WaitLockTo
  <1>9. LocalInv' /\ PidInv'
    <2>1. l = "kill" => idx'[p] <= NPROC
      <3>1. l = "kill" => idx[p] # NPROC /\ idx'[p] = idx[p] + 1
        BY <1>3, <1>6, Zenon
      <3>2. idx[p] \in Nat
        BY <1>2, ZenonT(40), SlotNat
      <3> QED
        BY <1>1, <3>1, <3>2, ProcAssumption, SMTT(40)
    <2> QED
      BY <1>1, <1>3, <1>6, <2>1, SMTT(40) DEF LocalInv, Loc, InYield, PidInv, PidsUnique
  <1>10. ForkInv'
    <2>1. Loc(p)' \notin Forking
      BY <1>3, Zenon DEF Loc, InYield, Forking
    <2> QED
      BY <1>1, <1>3, <1>4, <1>6, <2>1, ForkMove, SMTT(40)
  <1>11. ParentInv'
    <2>1. FamilyStays
      BY <1>1, <1>3, <1>4, <1>5, <1>6, SMTT(40) DEF FamilyStays, ParentInv, Loc, InYield, ExitPath, Living
    <2> QED
      BY <2>1, ParentFrame, ZenonT(40)
  <1>12. WakeInv'
    <2>1. WakesNobodyLate
      BY <1>1, <1>3, <1>4, <1>6, SMTT(40) DEF WakesNobodyLate, WakeInv, ChanInv, Sleepy, Watched
    <2> QED
      BY <2>1, WakeFrame, ZenonT(40)
  <1> QED
    BY <1>7, <1>8, <1>9, <1>10, <1>11, <1>12, ZenonT(40) DEF ProcInv

-----------------------------------------------------------------------------
(* reparent, one slot: the child goes to init.                              *)
LEMMA ReparentInv ==
  ASSUME ProcInv, NEW c \in Cpu, NEW p \in Slot, Reparent(c, p)
  PROVE  ProcInv'
  <1>1. /\ stack[c] = p /\ pc[p] = "reparent" /\ wk[p] = 1 /\ p # initproc
        /\ UNCHANGED <<state, chan, killed, pid, plock, waitLock, nextpid, cpus,
                       resume, wk, havekids, arg>>
    BY Zenon DEF Reparent, LocalInv, ParentInv, Loc, InYield, ExitPath
  <1>2. PICK l \in {"reparent", "reparent_wakeup", "exit_wakeup"} :
          /\ \A r \in Slot : pc'[r] = IF r = p THEN l ELSE pc[r]
          /\ \/ l = "reparent_wakeup" /\ idx[p] <= NPROC /\ parent[idx[p]] = p
                /\ parent' = [parent EXCEPT ![idx[p]] = initproc] /\ idx' = idx
             \/ l = "reparent" /\ idx[p] <= NPROC /\ parent[idx[p]] # p
                /\ idx' = [idx EXCEPT ![p] = idx[p] + 1] /\ parent' = parent
             \/ l = "exit_wakeup" /\ idx[p] > NPROC
                /\ idx' = [idx EXCEPT ![p] = 1] /\ parent' = parent
    BY ZenonT(40) DEF Reparent, Goto, TypeOK
  <1>3. TypeOK'
    <2>1. pc' \in [Slot -> PcState] /\ parent' \in [Slot -> Slot \cup {None}]
      BY SMTT(40) DEF Reparent, Goto, TypeOK, PcState, Locked
    <2>2. idx' \in [Slot -> 1 .. (NPROC + 1)]
      BY <1>2, ProcAssumption, SMTT(40) DEF TypeOK
    <2> QED
      BY <1>1, <2>1, <2>2, Zenon DEF TypeOK
  <1>4. CpuInv' /\ StateInv' /\ LockInv'
    <2>1. l \in Plain /\ l \in Locked /\ pc[p] \in Plain /\ pc[p] \in Locked
      BY <1>1, <1>2, Zenon DEF Plain, PcState, OwnLock, Resumable, AtSched, Locked
    <2> QED
      BY <1>1, <1>2, <2>1, MoveInv, SMTT(40) DEF OthersOff, WaitLockTo
  <1>5. \A r \in Slot \ {p} : idx'[r] = idx[r]
    BY <1>2, ZenonT(40) DEF TypeOK
  <1>6. LocalInv' /\ PidInv'
    BY <1>1, <1>2, <1>5, SMTT(40) DEF LocalInv, Loc, InYield, PidInv, PidsUnique, TypeOK
  <1>7. \A r \in Slot : parent'[r] = parent[r] \/ (r = idx[p] /\ parent[r] = p /\ parent'[r] = initproc /\ l = "reparent_wakeup")
    BY <1>2, ZenonT(40) DEF TypeOK
  <1>8. \A r \in Slot \ {p} : pc[r] \notin Locked
    BY <1>1, Alone, Zenon DEF Locked
  <1>9. ForksOn
    <2>1. ASSUME NEW r \in Slot, Loc(r)' \in Forking
          PROVE  r # p /\ Loc(r)' = Loc(r) /\ arg[r] \in Slot /\ state[arg[r]] = "USED"
                 /\ (Loc(r) = "fork_run" => parent[arg[r]] = r)
      BY <1>1, <1>2, <2>1, ZenonT(40) DEF ForkInv, Loc, InYield, Forking
    <2> QED
      BY <1>1, <1>7, <2>1, ZenonT(30) DEF ForksOn
  <1>10. ParentInv'
    <2>1. /\ parent'[initproc] = None /\ state'[initproc] \in Living
          /\ ~ killed'[initproc] /\ pid'[initproc] = 1 /\ Loc(initproc)' \notin ExitPath
      BY <1>1, <1>2, <1>7 DEF ParentInv, Loc
    <2>2. ASSUME NEW q \in Slot, parent'[q] # None
          PROVE  parent'[q] # q /\ state'[parent'[q]] \in Living
      BY <1>1, <1>7, <2>1, <2>2, Zenon DEF ParentInv
    <2>3. \A q \in Slot \ {initproc} : state'[q] \in Living \cup {"ZOMBIE"} => parent'[q] # None
      BY <1>1, <1>7, ZenonT(40) DEF ParentInv
    <2>4. ASSUME NEW q \in Slot
          PROVE  /\ pc'[p] = "reparent" /\ q < idx'[p] => parent'[q] # p
                 /\ pc'[p] = "reparent_wakeup" /\ q <= idx'[p] => parent'[q] # p
                 /\ pc'[p] \in {"exit_wakeup", "exit_zombie"} => parent'[q] # p
      <3>1. q \in Nat /\ q <= NPROC /\ idx[p] \in Nat /\ (q < idx[p] => parent[q] # p)
        <4>1. q \in Nat /\ q <= NPROC
          BY ProcAssumption, SMTT(40) DEF Slot
        <4>2. idx[p] \in Nat
          BY ProcAssumption, SMTT(40) DEF TypeOK
        <4> QED
          BY <1>1, <4>1, <4>2, Zenon DEF ParentInv
      <3>2. CASE l = "reparent_wakeup"
        BY <1>1, <1>2, <3>1, <3>2, SMTT(40) DEF TypeOK
      <3>3. CASE l = "reparent"
        <4>1. idx'[p] = idx[p] + 1 /\ parent' = parent /\ parent[idx[p]] # p /\ pc'[p] = "reparent"
          BY <1>2, <3>3, ZenonT(40) DEF TypeOK
        <4> QED
          BY <3>1, <4>1
      <3>4. CASE l = "exit_wakeup"
        <4>1. idx[p] > NPROC /\ parent' = parent /\ pc'[p] = "exit_wakeup"
          BY <1>2, <3>4, Zenon
        <4>2. q < idx[p]
          BY <3>1, <4>1, ProcAssumption, SMTT(40)
        <4> QED
          BY <3>1, <4>1, <4>2, Zenon
      <3> QED
        BY <1>2, <3>2, <3>3, <3>4, Zenon
    <2>5. ASSUME NEW r \in Slot \ {p}
          PROVE  pc'[r] \notin {"reparent", "reparent_wakeup", "exit_wakeup", "exit_zombie"}
      BY <1>2, <1>8, Zenon DEF Locked
    <2> QED
      BY <2>1, <2>2, <2>3, <2>4, <2>5, Zenon DEF ParentInv
  <1>11. WakeInv'
    <2>1. \A r \in Slot : Sleepy(r)' <=> Sleepy(r)
      BY <1>1, <1>2, Zenon DEF Sleepy
    <2>2. ChanInv'
      BY <1>1, Zenon DEF WakeInv, ChanInv
    <2>3. TellInv'
      <3>1. \A r \in Slot : r >= 1
        BY DEF Slot
      <3>2. ASSUME NEW r \in Slot, pc'[r] \in {"exit_wakeup", "exit_zombie"}
            PROVE  r = p /\ pc'[r] = "exit_wakeup" /\ wk'[r] = 1 /\ parent'[r] \in Slot
        <4>1. r = p /\ pc'[r] = "exit_wakeup"
          BY <1>2, <1>8, <3>2, ZenonT(40) DEF Locked
        <4>2. parent[p] \in Slot
          BY <1>1, OnCpu, Ranges, SMTT(40) DEF ParentInv, Living, AtSched
        <4> QED
          BY <1>1, <1>7, <4>1, <4>2, Zenon
      <3> QED
        BY <3>1, <3>2, Zenon DEF TellInv
    <2>4. ASSUME NEW q \in Slot, state'[q] = "ZOMBIE", Sleepy(parent[q])'
          PROVE  /\ parent'[q] = initproc
                 /\ \E r \in Slot : pc'[r] = "reparent_wakeup" /\ wk'[r] <= initproc
      <3>1. CASE parent'[q] = parent[q]
        <4>1. state[q] = "ZOMBIE" /\ Sleepy(parent[q])
          BY <1>1, <1>2, <2>4, <3>1, HasParent, ZenonT(40) DEF Sleepy
        <4>2. \E r \in Slot : pc[r] = "reparent_wakeup"
          BY <4>1, Zenon DEF WakeInv, ReapInv
        <4> QED
          BY <1>1, <1>8, <4>2, Zenon DEF Locked
      <3>2. CASE parent'[q] # parent[q]
        BY <1>1, <1>2, <1>7, <3>2, SMTT(40) DEF initproc
      <3> QED
        BY <3>1, <3>2, Zenon
    <2>5. ScanInv'
      <3>1. \A r \in Slot : pc'[r] \notin {"wait_scan", "wait_check", "wait_sleep"}
        BY <1>2, <1>8, Zenon DEF Locked
      <3> QED
        BY <3>1, Zenon DEF ScanInv
    <2> QED
      BY <2>2, <2>3, <2>4, <2>5, Zenon DEF WakeInv, ReapInv
  <1> QED
    BY <1>3, <1>4, <1>6, <1>9, <1>10, <1>11, ForkFrame, ZenonT(40) DEF ProcInv

(* reparent's wakeup(initproc), one slot.                                   *)
LEMMA ReparentWakeupInv ==
  ASSUME ProcInv, NEW c \in Cpu, NEW p \in Slot, ReparentWakeup(c, p)
  PROVE  ProcInv'
  <1>1. /\ stack[c] = p /\ pc[p] = "reparent_wakeup" /\ p # initproc /\ idx[p] <= NPROC
        /\ WakeupSlot(p, initproc)
        /\ UNCHANGED <<chan, killed, pid, parent, plock, waitLock, nextpid, cpus,
                       resume, havekids, arg>>
    BY Zenon DEF ReparentWakeup, LocalInv, ParentInv, Loc, InYield, ExitPath
  <1>2. /\ \A r \in Slot : \/ state'[r] = state[r]
                           \/ state[r] = "SLEEPING" /\ state'[r] = "RUNNABLE" /\ plock[r] = None
        /\ state' \in [Slot -> ProcState] /\ wk' \in [Slot -> Slot]
        /\ \A r \in Slot : wk'[r] = IF r # p THEN wk[r] ELSE
                                    IF wk[p] = NPROC THEN 1 ELSE wk[p] + 1
        /\ wk[p] \in Slot
        /\ wk[p] = initproc => state'[initproc] # "SLEEPING" /\ pc[initproc] # "sleep_set"
    BY <1>1, WakeupEffect
  <1>3. PICK l \in {"reparent", "reparent_wakeup"} :
          /\ \A r \in Slot : pc'[r] = IF r = p THEN l ELSE pc[r]
          /\ l = "reparent" <=> wk[p] = NPROC
    BY Zenon DEF ReparentWakeup, Goto, TypeOK
  <1>4. /\ \A r \in Slot : idx'[r] = IF r = p /\ l = "reparent" THEN idx[r] + 1 ELSE idx[r]
        /\ idx' \in [Slot -> 1 .. (NPROC + 1)] /\ pc' \in [Slot -> PcState]
    <2>1. idx[p] \in Nat /\ idx[p] >= 1
      BY ProcAssumption DEF TypeOK
    <2>2. idx' = [idx EXCEPT ![p] = IF wk[p] = NPROC THEN idx[p] + 1 ELSE idx[p]]
      BY Zenon DEF ReparentWakeup, TypeOK
    <2>3. (IF wk[p] = NPROC THEN idx[p] + 1 ELSE idx[p]) \in 1 .. (NPROC + 1)
      BY <1>1, <2>1, ProcAssumption
    <2>4. idx' \in [Slot -> 1 .. (NPROC + 1)]
      BY <2>2, <2>3, Zenon DEF TypeOK
    <2>5. pc' \in [Slot -> PcState]
      BY Zenon DEF ReparentWakeup, Goto, TypeOK, PcState, Locked
    <2>6. \A r \in Slot : idx'[r] = IF r = p /\ l = "reparent" THEN idx[r] + 1 ELSE idx[r]
      BY <1>3, <2>2, Zenon DEF TypeOK
    <2> QED
      BY <2>4, <2>5, <2>6, ZenonT(40)
  <1>5. TypeOK'
    BY <1>1, <1>2, <1>4, ZenonT(40) DEF TypeOK
  <1>6. CpuInv' /\ StateInv' /\ LockInv'
    <2>1. l \in Plain /\ l \in Locked /\ pc[p] \in Plain /\ pc[p] \in Locked
      BY <1>1, Zenon DEF Plain, PcState, OwnLock, Resumable, AtSched, Locked
    <2> QED
      BY <1>1, <1>2, <1>3, <2>1, MoveInv, SMTT(40) DEF OthersOff, WaitLockTo
  <1>7. \A r \in Slot \ {p} : pc[r] \notin Locked
    BY <1>1, Alone, ZenonT(40) DEF Locked
  <1>8. LocalInv' /\ PidInv'
    <2>1. l = "reparent" => wk'[p] = 1
      BY <1>2, <1>3, Zenon
    <2>2. l = "reparent_wakeup" => idx'[p] <= NPROC
      BY <1>1, <1>4, Zenon
    <2> QED
      BY <1>1, <1>2, <1>3, <1>4, <2>1, <2>2, SMTT(40) DEF LocalInv, Loc, InYield, PidInv, PidsUnique
  <1>9. ForkInv'
    <2>1. Loc(p)' \notin Forking
      BY <1>3, ZenonT(40) DEF Loc, InYield, Forking
    <2> QED
      BY <1>1, <1>2, <1>3, <2>1, ForkMove, ZenonT(40)
  <1>10. ParentInv'
    <2>1. ASSUME NEW q \in Slot
          PROVE  /\ l = "reparent" /\ q < idx'[p] => parent[q] # p
                 /\ l = "reparent_wakeup" /\ q <= idx'[p] => parent[q] # p
      <3>1. q \in Nat /\ idx[p] \in Nat
        BY ProcAssumption DEF TypeOK
      <3>2. q <= idx[p] => parent[q] # p
        BY <1>1, Zenon DEF ParentInv
      <3> QED
        BY <1>4, <3>1, <3>2, SMTT(40)
    <2>2. pc'[p] = l
      BY <1>3, Zenon
    <2> QED
      BY <1>1, <1>2, <1>3, <1>4, <2>1, <2>2, ParentMove, SMTT(40)
  <1>11. WakeInv'
    <2>1. \A r \in Slot : Sleepy(r)' => Sleepy(r)
      BY <1>2, <1>3, ZenonT(40) DEF Sleepy
    <2>2. ChanInv'
      BY <1>1, <1>2 DEF WakeInv, ChanInv
    <2>3. \A r \in Slot : pc'[r] \notin {"exit_wakeup", "exit_zombie", "wait_scan", "wait_check", "wait_sleep"}
      BY <1>3, <1>7, ZenonT(40) DEF Locked
    <2>4. ASSUME NEW q \in Slot, state'[q] = "ZOMBIE", Sleepy(parent[q])'
          PROVE  FALSE
      <3>1. state[q] = "ZOMBIE" /\ parent[q] \in Slot
        BY <1>2, <2>4, HasParent, Zenon
      <3>2. Sleepy(parent[q])
        BY <1>1, <2>1, <2>4, <3>1, Zenon DEF Sleepy
      <3>3. parent[q] = initproc /\ wk[p] <= initproc
        BY <1>7, <3>1, <3>2, ZenonT(40) DEF WakeInv, ReapInv, Locked
      <3>4. wk[p] = initproc
        BY <1>2, <3>3 DEF initproc, Slot
      <3> QED
        BY <1>1, <1>2, <1>3, <2>4, <3>3, <3>4, SMTT(40) DEF Sleepy
    <2> QED
      BY <2>2, <2>3, <2>4, Zenon DEF WakeInv, TellInv, ReapInv, ScanInv
  <1> QED
    BY <1>5, <1>6, <1>8, <1>9, <1>10, <1>11, ZenonT(40) DEF ProcInv

(* exit's wakeup(p->parent), one slot.                                      *)
LEMMA ExitWakeupInv ==
  ASSUME ProcInv, NEW c \in Cpu, NEW p \in Slot, ExitWakeup(c, p)
  PROVE  ProcInv'
  <1>1. /\ stack[c] = p /\ pc[p] = "exit_wakeup" /\ p # initproc
        /\ parent[p] \in Slot \ {p}
        /\ WakeupSlot(p, parent[p])
        /\ UNCHANGED <<chan, killed, pid, parent, plock, waitLock, nextpid, cpus,
                       resume, idx, havekids, arg>>
    BY HasParent, Zenon DEF ExitWakeup, ParentInv
  <1>2. /\ \A r \in Slot : \/ state'[r] = state[r]
                           \/ state[r] = "SLEEPING" /\ state'[r] = "RUNNABLE" /\ plock[r] = None
        /\ state' \in [Slot -> ProcState] /\ wk' \in [Slot -> Slot]
        /\ \A r \in Slot : wk'[r] = IF r # p THEN wk[r] ELSE
                                    IF wk[p] = NPROC THEN 1 ELSE wk[p] + 1
        /\ wk[p] \in Slot
        /\ wk[p] = parent[p] => state'[parent[p]] # "SLEEPING" /\ pc[parent[p]] # "sleep_set"
    BY <1>1, WakeupEffect, ZenonT(30)
  <1>3. PICK l \in {"exit_wakeup", "exit_zombie"} :
          /\ \A r \in Slot : pc'[r] = IF r = p THEN l ELSE pc[r]
          /\ l = "exit_zombie" <=> wk[p] = NPROC
    BY Zenon DEF ExitWakeup, Goto, TypeOK
  <1>4. TypeOK'
    <2>1. pc' \in [Slot -> PcState]
      BY Zenon DEF ExitWakeup, Goto, TypeOK, PcState, Locked
    <2> QED
      BY <1>1, <1>2, <2>1, Zenon DEF TypeOK
  <1>5. CpuInv' /\ StateInv' /\ LockInv'
    <2>1. l \in Plain /\ l \in Locked /\ pc[p] \in Plain /\ pc[p] \in Locked
      BY <1>1, Zenon DEF Plain, PcState, OwnLock, Resumable, AtSched, Locked
    <2> QED
      BY <1>1, <1>2, <1>3, <2>1, MoveInv DEF OthersOff, WaitLockTo
  <1>6. \A r \in Slot \ {p} : pc[r] \notin Locked
    BY <1>1, Alone, ZenonT(40) DEF Locked
  <1>7. LocalInv' /\ PidInv'
    <2>1. l = "exit_zombie" => wk'[p] = 1
      BY <1>2, <1>3, Zenon
    <2> QED
      BY <1>1, <1>2, <1>3, <2>1, SMTT(40) DEF LocalInv, Loc, InYield, PidInv, PidsUnique
  <1>8. ForkInv'
    <2>1. Loc(p)' \notin Forking
      BY <1>3, ZenonT(40) DEF Loc, InYield, Forking
    <2> QED
      BY <1>1, <1>2, <1>3, <2>1, ForkMove, Zenon
  <1>9. ParentInv'
    <2>1. \A q \in Slot : parent[q] # p
      BY <1>1, Zenon DEF ParentInv
    <2> QED
      BY <1>1, <1>2, <1>3, <2>1, ParentMove, SMTT(40)
  <1>10. WakeInv'
    <2>1. \A r \in Slot : Sleepy(r)' => Sleepy(r)
      BY <1>2, <1>3, ZenonT(40) DEF Sleepy
    <2>2. ChanInv'
      BY <1>1, <1>2 DEF WakeInv, ChanInv
    <2>3. ASSUME NEW r \in Slot \ {p}
          PROVE  pc'[r] \notin {"exit_wakeup", "exit_zombie"}
      BY <1>3, <1>6, Zenon DEF Locked
    <2>4. \A r \in Slot : pc'[r] \notin {"wait_scan", "wait_check", "wait_sleep"}
      BY <1>3, <1>6, Zenon DEF Locked
    <2>5. ASSUME Sleepy(parent[p])'
          PROVE  parent[p] > wk[p]
      <3>1. Sleepy(parent[p])
        BY <1>1, <2>1, <2>5, Zenon DEF Sleepy
      <3>2. parent[p] >= wk[p]
        BY <1>1, <3>1, Zenon DEF WakeInv, TellInv
      <3>3. parent[p] # wk[p]
        BY <1>1, <1>2, <1>3, <2>5, Zenon DEF Sleepy
      <3>4. parent[p] \in Nat /\ wk[p] \in Nat
        BY <1>1, <1>2, ZenonT(40), SlotNat
      <3> QED
        BY <3>2, <3>3, <3>4
    <2>6. /\ l = "exit_wakeup" /\ Sleepy(parent[p])' => parent[p] >= wk'[p]
          /\ l = "exit_zombie" => ~ Sleepy(parent[p])'
      <3>1. parent[p] \in Nat /\ parent[p] <= NPROC /\ wk[p] \in Nat
        BY <1>1, <1>2, Zenon, SlotNat
      <3>2. (l = "exit_zombie" <=> wk[p] = NPROC) /\ (wk[p] # NPROC => wk'[p] = wk[p] + 1)
        BY <1>2, <1>3, Zenon
      <3> QED
        BY <2>5, <3>1, <3>2, ProcAssumption, SMTT(40)
    <2>7. TellInv'
      BY <1>1, <1>3, <2>3, <2>6, Zenon DEF TellInv
    <2>8. ASSUME NEW q \in Slot, state'[q] = "ZOMBIE", Sleepy(parent[q])'
          PROVE  FALSE
      <3>1. state[q] = "ZOMBIE" /\ parent[q] \in Slot
        BY <1>2, <2>8, HasParent, Zenon
      <3>2. Sleepy(parent[q])
        BY <1>1, <2>1, <2>8, <3>1, ZenonT(40) DEF Sleepy
      <3> QED
        BY <1>1, <1>6, <3>1, <3>2, Zenon DEF WakeInv, ReapInv, Locked
    <2> QED
      BY <2>2, <2>4, <2>7, <2>8, Zenon DEF WakeInv, ReapInv, ScanInv
  <1> QED
    BY <1>4, <1>5, <1>7, <1>8, <1>9, <1>10, ZenonT(40) DEF ProcInv

(* exit: p is a ZOMBIE, and nobody it could leave waiting is asleep.        *)
LEMMA ExitZombieInv ==
  ASSUME ProcInv, NEW c \in Cpu, NEW p \in Slot, ExitZombie(c, p)
  PROVE  ProcInv'
  <1>1. /\ stack[c] = p /\ pc[p] = "exit_zombie" /\ p # initproc /\ plock[p] = None
        /\ parent[p] \in Slot \ {p} /\ waitLock' = None
        /\ UNCHANGED <<chan, killed, pid, parent, nextpid, cpus, locals>>
    BY HasParent, Zenon DEF ExitZombie, ParentInv
  <1>2. /\ \A r \in Slot : pc'[r] = IF r = p THEN "exit_sched" ELSE pc[r]
        /\ \A r \in Slot : state'[r] = IF r = p THEN "ZOMBIE" ELSE state[r]
        /\ \A r \in Slot : plock'[r] = IF r = p THEN c ELSE plock[r]
    BY ZenonT(40) DEF ExitZombie, Goto, TypeOK
  <1>3. TypeOK'
    BY Zenon DEF ExitZombie, Goto, TypeOK, PcState, AtSched, ProcState
  <1>4. CpuInv' /\ StateInv' /\ LockInv'
    <2>1. "exit_sched" \in OwnLock \ Locked /\ pc[p] \in Locked
      BY <1>1, Zenon DEF OwnLock, AtSched, Locked
    <2>2. WaitLockTo(c, p, "exit_sched")
      BY <1>1, <2>1, Zenon DEF WaitLockTo
    <2> QED
      BY <1>1, <1>2, <2>1, <2>2, LockMoveInv, SMTT(40)
  <1>5. \A r \in Slot \ {p} : pc[r] \notin Locked
    BY <1>1, Alone, ZenonT(40) DEF Locked
  <1>6. LocalInv' /\ PidInv'
    BY <1>1, <1>2 DEF LocalInv, Loc, InYield, PidInv, PidsUnique
  <1>7. state[p] = "RUNNING"
    BY <1>1, OnCpu, Zenon DEF AtSched
  <1>8. ForkInv'
    <2>1. Loc(p)' \notin Forking
      BY <1>2, Zenon DEF Loc, InYield, Forking
    <2> QED
      BY <1>1, <1>2, <1>7, <2>1, ForkMove, Zenon
  <1>9. ParentInv'
    <2>1. \A q \in Slot : parent[q] # p
      BY <1>1, Zenon DEF ParentInv
    <2>2. /\ parent'[initproc] = None /\ state'[initproc] \in Living
          /\ ~ killed'[initproc] /\ pid'[initproc] = 1 /\ Loc(initproc)' \notin ExitPath
      BY <1>1, <1>2, Zenon DEF ParentInv, Loc
    <2>3. ASSUME NEW q \in Slot, parent'[q] # None
          PROVE  parent'[q] # q /\ state'[parent'[q]] \in Living
      BY <1>1, <1>2, <2>1, <2>3, Ranges, ZenonT(40) DEF ParentInv
    <2>4. \A q \in Slot \ {initproc} : state'[q] \in Living \cup {"ZOMBIE"} => parent'[q] # None
      BY <1>1, <1>2, ZenonT(40) DEF ParentInv
    <2>5. \A r \in Slot : pc'[r] \notin {"reparent", "reparent_wakeup", "exit_wakeup", "exit_zombie"}
      BY <1>2, <1>5, ZenonT(40) DEF Locked
    <2> QED
      BY <2>2, <2>3, <2>4, <2>5, Zenon DEF ParentInv
  <1>10. WakeInv'
    <2>1. \A r \in Slot : Sleepy(r)' => Sleepy(r)
      BY <1>2, Zenon DEF Sleepy
    <2>2. ChanInv'
      BY <1>1, <1>2, Zenon DEF WakeInv, ChanInv
    <2>3. \A r \in Slot : pc'[r] \notin Locked
      BY <1>2, <1>5, Zenon DEF Locked
    <2>4. ASSUME NEW q \in Slot, state'[q] = "ZOMBIE", Sleepy(parent[q])'
          PROVE  FALSE
      <3>1. CASE q = p
        <4>1. Sleepy(parent[p])
          BY <1>1, <2>1, <2>4, <3>1, Zenon DEF Sleepy
        <4> QED
          BY <1>1, <4>1, Zenon DEF WakeInv, TellInv
      <3>2. CASE q # p
        <4>1. state[q] = "ZOMBIE" /\ parent[q] \in Slot
          BY <1>2, <2>4, <3>2, HasParent, Zenon
        <4>2. Sleepy(parent[q])
          BY <1>1, <2>1, <2>4, <4>1, Zenon DEF Sleepy
        <4> QED
          BY <1>1, <1>5, <4>1, <4>2, Zenon DEF WakeInv, ReapInv, Locked
      <3> QED
        BY <3>1, <3>2, Zenon
    <2> QED
      BY <2>2, <2>3, <2>4, Zenon DEF WakeInv, TellInv, ReapInv, ScanInv, Locked
  <1> QED
    BY <1>3, <1>4, <1>6, <1>8, <1>9, <1>10, ZenonT(40) DEF ProcInv

(* wait passes a slot without a zombie child.                               *)
LEMMA WaitScanInv ==
  ASSUME ProcInv, NEW c \in Cpu, NEW p \in Slot, WaitScan(c, p)
  PROVE  ProcInv'
  <1>1. /\ stack[c] = p /\ pc[p] = "wait_scan" /\ idx[p] <= NPROC
        /\ ~ (parent[idx[p]] = p /\ state[idx[p]] = "ZOMBIE")
        /\ UNCHANGED <<fields, plock, waitLock, nextpid, cpus, resume, wk, arg>>
    BY Zenon DEF WaitScan, LocalInv, Loc, InYield
  <1>2. idx[p] \in Slot
    BY <1>1, IdxSlot, Zenon
  <1>3. PICK k \in BOOLEAN : WaitScanNext(p, k)
    BY Zenon DEF WaitScan, TypeOK
  <1>4. PICK l \in {"wait_scan", "wait_check"} :
          /\ \A r \in Slot : pc'[r] = IF r = p THEN l ELSE pc[r]
          /\ l = "wait_check" <=> idx[p] = NPROC
    BY <1>3, Zenon DEF WaitScanNext, Goto, TypeOK
  <1>5. \A r \in Slot : idx'[r] = IF r # p THEN idx[r] ELSE
                                  IF idx[p] = NPROC THEN 1 ELSE idx[p] + 1
    BY <1>3, Zenon DEF WaitScanNext, TypeOK
  <1>6. TypeOK'
    <2>1. pc' \in [Slot -> PcState] /\ havekids' \in [Slot -> BOOLEAN]
      BY <1>3, Zenon DEF WaitScanNext, Goto, TypeOK, PcState, Locked
    <2>2. idx' \in [Slot -> 1 .. (NPROC + 1)]
      <3>1. (IF idx[p] = NPROC THEN 1 ELSE idx[p] + 1) \in 1 .. (NPROC + 1)
        <4>1. idx[p] \in Nat /\ 1 <= idx[p] /\ idx[p] <= NPROC
          BY <1>2, ZenonT(40), SlotNat
        <4> QED
          BY <4>1, ProcAssumption
      <3> QED
        BY <1>3, <3>1, Zenon DEF WaitScanNext, TypeOK
    <2> QED
      BY <1>1, <2>1, <2>2, Zenon DEF TypeOK
  <1>7. CpuInv' /\ StateInv' /\ LockInv'
    <2>1. l \in Plain /\ l \in Locked /\ pc[p] \in Plain /\ pc[p] \in Locked
      BY <1>1, ZenonT(40) DEF Plain, PcState, OwnLock, Resumable, AtSched, Locked
    <2> QED
      BY <1>1, <1>4, <2>1, MoveInv, SMTT(40) DEF OthersOff, WaitLockTo
  <1>8. LocalInv' /\ PidInv'
    <2>1. /\ l = "wait_check" => idx'[p] = 1
          /\ l = "wait_scan" => idx'[p] <= NPROC
      <3>1. idx[p] \in Nat
        BY <1>2, Zenon
      <3> QED
        BY <1>1, <1>4, <1>5, <3>1, ProcAssumption, SMTT(40)
    <2> QED
      BY <1>1, <1>4, <1>5, <2>1, SMTT(40) DEF LocalInv, Loc, InYield, PidInv, PidsUnique
  <1>9. ForkInv'
    <2>1. Loc(p)' \notin Forking
      BY <1>4, Zenon DEF Loc, InYield, Forking
    <2> QED
      BY <1>1, <1>4, <2>1, ForkMove, Zenon
  <1>10. ParentInv'
    <2>1. FamilyStays
      BY <1>1, <1>4, <1>5, ZenonT(40) DEF FamilyStays, ParentInv, Loc, InYield, ExitPath
    <2> QED
      BY <2>1, ParentFrame, Zenon
  <1>11. WakeInv'
    <2>1. ASSUME NEW q \in Slot, state[q] = "ZOMBIE", parent[q] = p
          PROVE  l = "wait_scan" /\ q >= idx'[p]
      <3>1. q # idx[p] /\ q >= idx[p]
        BY <1>1, <2>1, Zenon DEF WakeInv, ScanInv
      <3>2. q \in Nat /\ q <= NPROC /\ idx[p] \in Nat
        BY <1>2, SlotNat, Zenon
      <3>3. idx[p] # NPROC
        BY <3>1, <3>2, ProcAssumption, SMTT(40)
      <3>4. l = "wait_scan" /\ idx'[p] = idx[p] + 1
        BY <1>4, <1>5, <3>3, Zenon
      <3> QED
        BY <3>1, <3>2, <3>4
    <2> QED
      BY <1>1, <1>4, <1>5, <2>1, WaitFrame, SMTT(40)
  <1> QED
    BY <1>6, <1>7, <1>8, <1>9, <1>10, <1>11, ZenonT(40) DEF ProcInv

(* wait returns -1, or is going to sleep.                                   *)
LEMMA WaitCheckInv ==
  ASSUME ProcInv, NEW c \in Cpu, NEW p \in Slot, WaitCheck(c, p)
  PROVE  ProcInv'
  <1>1. /\ stack[c] = p /\ pc[p] = "wait_check"
        /\ UNCHANGED <<fields, plock, nextpid, cpus, resume, idx, wk, arg>>
    BY Zenon DEF WaitCheck
  <1>2. PICK l \in {"ret", "wait_sleep"} :
          /\ \A r \in Slot : pc'[r] = IF r = p THEN l ELSE pc[r]
          /\ waitLock' = IF l = "ret" THEN None ELSE waitLock
    BY ZenonT(40) DEF WaitCheck, Goto, TypeOK
  <1>3. TypeOK'
    <2>1. pc' \in [Slot -> PcState] /\ havekids' \in [Slot -> BOOLEAN]
      BY ZenonT(40) DEF WaitCheck, Goto, TypeOK, PcState, Preemptible, Locked
    <2>2. waitLock' \in Cpu \cup {None}
      BY <1>2, Zenon DEF TypeOK
    <2> QED
      BY <1>1, <2>1, <2>2, Zenon DEF TypeOK
  <1>4. CpuInv' /\ StateInv' /\ LockInv'
    <2>1. /\ l \in Plain /\ pc[p] \in Plain /\ pc[p] \in Locked
          /\ l \in Locked <=> l # "ret"
      BY <1>1, Zenon DEF Plain, PcState, OwnLock, Resumable, AtSched, Locked, Preemptible
    <2>2. WaitLockTo(c, p, l)
      BY <1>2, <2>1, Zenon DEF WaitLockTo
    <2> QED
      BY <1>1, <1>2, <2>1, <2>2, MoveInv, Zenon DEF OthersOff
  <1>5. LocalInv' /\ PidInv'
    BY <1>1, <1>2, ZenonT(40) DEF LocalInv, Loc, InYield, PidInv, PidsUnique
  <1>6. ForkInv'
    <2>1. Loc(p)' \notin Forking
      BY <1>2, Zenon DEF Loc, InYield, Forking
    <2> QED
      BY <1>1, <1>2, <2>1, ForkMove, Zenon
  <1>7. ParentInv'
    <2>1. FamilyStays
      BY <1>1, <1>2, ZenonT(40) DEF FamilyStays, ParentInv, Loc, InYield, ExitPath
    <2> QED
      BY <2>1, ParentFrame, Zenon
  <1>8. WakeInv'
    <2>1. \A q \in Slot : ~ (state[q] = "ZOMBIE" /\ parent[q] = p)
      BY <1>1, Zenon DEF WakeInv, ScanInv
    <2> QED
      BY <1>1, <1>2, <2>1, WaitFrame, SMTT(40)
  <1> QED
    BY <1>3, <1>4, <1>5, <1>6, <1>7, <1>8, ZenonT(40) DEF ProcInv

(* wait frees a zombie child, or fails to copy out its status.              *)
LEMMA WaitReapInv ==
  ASSUME ProcInv, NEW c \in Cpu, NEW p \in Slot, WaitReap(c, p)
  PROVE  ProcInv'
  <1> DEFINE q == idx[p]
  <1>1. /\ stack[c] = p /\ pc[p] = "wait_scan" /\ q <= NPROC
        /\ parent[q] = p /\ plock[q] = None /\ state[q] = "ZOMBIE"
        /\ waitLock' = None
        /\ UNCHANGED <<plock, nextpid, cpus, resume, wk, arg>>
    BY Zenon DEF WaitReap, LocalInv, Loc, InYield
  <1>2. q \in Slot \ {p, initproc} /\ pc[q] = "none"
    <2>1. q \in Slot
      BY <1>1, IdxSlot, Zenon
    <2>2. q # p
      BY <1>1, OnCpu, Zenon DEF AtSched
    <2>3. q # initproc
      BY <1>1, Zenon DEF ParentInv
    <2>4. pc[q] = "none"
      BY <1>1, <2>1, OffCpu, Zenon DEF StateInv, Fits, Resumable
    <2> QED
      BY <2>1, <2>2, <2>3, <2>4, Zenon
  <1>3. /\ \A r \in Slot : pc'[r] = IF r = p THEN "ret" ELSE pc[r]
        /\ \A r \in Slot : idx'[r] = IF r = p THEN 1 ELSE idx[r]
    BY ZenonT(40) DEF WaitReap, Goto, TypeOK
  <1>4. /\ \A r \in Slot \ {q} : /\ state'[r] = state[r] /\ chan'[r] = chan[r]
                                 /\ killed'[r] = killed[r] /\ pid'[r] = pid[r]
                                 /\ parent'[r] = parent[r]
        /\ \/ UNCHANGED <<state, chan, killed, pid, parent>>
           \/ state'[q] = "UNUSED" /\ parent'[q] = None /\ pid'[q] = 0
    BY <1>2 DEF WaitReap, FreeProc, TypeOK
  <1>5. TypeOK'
    <2>1. pc' \in [Slot -> PcState] /\ havekids' \in [Slot -> BOOLEAN]
      BY ZenonT(40) DEF WaitReap, Goto, TypeOK, PcState, Preemptible
    <2>2. idx' \in [Slot -> 1 .. (NPROC + 1)]
      BY ProcAssumption DEF WaitReap, TypeOK
    <2>3. /\ state' \in [Slot -> ProcState] /\ chan' \in [Slot -> Slot \cup {None}]
          /\ killed' \in [Slot -> BOOLEAN]
          /\ parent' \in [Slot -> Slot \cup {None}]
      <3>1. CASE FreeProc(q)
        BY <3>1, Zenon DEF FreeProc, TypeOK, ProcState
      <3>2. CASE UNCHANGED fields
        BY <3>2, ZenonT(40) DEF TypeOK
      <3> QED
        BY <3>1, <3>2, Zenon DEF WaitReap
    <2>4. pid' \in [Slot -> Nat]
      BY DEF WaitReap, FreeProc, TypeOK
    <2> QED
      BY <1>1, <2>1, <2>2, <2>3, <2>4, Zenon DEF TypeOK
  <1>6. CpuInv' /\ StateInv' /\ LockInv'
    <2>1. /\ "ret" \in Plain /\ pc[p] \in Plain /\ pc[p] \in Locked /\ "ret" \notin Locked
      BY <1>1, Zenon DEF Plain, PcState, OwnLock, Resumable, AtSched, Locked, Preemptible
    <2>2. WaitLockTo(c, p, "ret")
      BY <1>1, <2>1, Zenon DEF WaitLockTo
    <2>3. OthersOff
      BY <1>1, <1>2, <1>4, ZenonT(40) DEF OthersOff
    <2> QED
      BY <1>1, <1>3, <2>1, <2>2, <2>3, MoveInv, Zenon
  <1>7. LocalInv'
    BY <1>1, <1>3 DEF LocalInv, Loc, InYield
  <1>8. PidInv'
    <2>1. \A r \in Slot : pid'[r] = pid[r] \/ pid'[r] = 0
      BY <1>4, Zenon
    <2>2. 0 < nextpid
      BY DEF PidInv, ParentInv, TypeOK
    <2> QED
      BY <1>1, <2>1, <2>2, ZenonT(40) DEF PidInv, PidsUnique
  <1>9. ForkInv'
    <2>1. Loc(p)' \notin Forking
      BY <1>3, Zenon DEF Loc, InYield, Forking
    <2> QED
      BY <1>1, <1>3, <1>4, <2>1, ForkMove, ZenonT(40)
  <1>10. ParentInv'
    <2>1. FamilyStays
      BY <1>1, <1>2, <1>3, <1>4, SMTT(40) DEF FamilyStays, ParentInv, Loc, InYield, ExitPath, Living
    <2> QED
      BY <2>1, ParentFrame, Zenon
  <1>11. WakeInv'
    <2>1. WakesNobodyLate
      BY <1>1, <1>2, <1>3, <1>4, SMTT(40) DEF WakesNobodyLate, WakeInv, ChanInv, Sleepy, Watched
    <2> QED
      BY <2>1, WakeFrame, Zenon
  <1> QED
    BY <1>5, <1>6, <1>7, <1>8, <1>9, <1>10, <1>11, ZenonT(40) DEF ProcInv

(* Every step of every CPU keeps the invariant.                             *)
LEMMA NextInv ==
  ASSUME ProcInv, [Next]_vars
  PROVE  ProcInv'
  <1>1. CASE UNCHANGED vars
    <2>1. TypeOK' /\ CpuInv' /\ StateInv' /\ LockInv'
      BY <1>1 DEF vars, TypeOK, CpuInv, StateInv, LockInv, Holds
    <2>2. LocalInv' /\ ForkInv' /\ PidInv' /\ ParentInv' /\ WakeInv'
      BY <1>1, TableUnchanged, Zenon DEF vars
    <2> QED
      BY <2>1, <2>2, ZenonT(40) DEF ProcInv
  <1>2. ASSUME NEW c \in Cpu, Scheduler(c) PROVE ProcInv'
    BY <1>2, SchedulerRunInv, SchedulerSkipInv, SchedulerBackInv, Zenon DEF Scheduler
  <1>3. ASSUME NEW c \in Cpu, NEW p \in Slot, SyscallStep(c, p) PROVE ProcInv'
    BY <1>3, UserTrapRetInv, AllocFound, AllocPassed, ForkParentInv, ForkRunInv, TakeWaitLock,
       KillInv, ZenonT(40) DEF SyscallStep
  <1>4. ASSUME NEW c \in Cpu, NEW p \in Slot, ThreadStep(c, p) PROVE ProcInv'
    BY <1>4, SchedInv, UserTrapInv, YieldInv, YieldResumeInv, ForkretInv, ForkFailsInv,
       ForkCopyInv, ReparentInv, ReparentWakeupInv, ExitWakeupInv, ExitZombieInv,
       WaitScanInv, WaitReapInv, WaitCheckInv, SleepInv, SleepSetInv, SleepResumeInv,
       ZenonT(40) DEF ThreadStep
  <1>5. ASSUME NEW c \in Cpu, NEW p \in Slot, KernelTrap(c, p) PROVE ProcInv'
    BY <1>5, KernelTrapInv, Zenon
  <1> QED
    BY <1>1, <1>2, <1>3, <1>4, <1>5, Zenon DEF Next

(* The inductive invariant holds in every reachable state.                  *)
THEOREM ProcInvariant == Spec => []ProcInv
  <1>1. Init => ProcInv
    BY InitInv, Zenon
  <1>2. ProcInv /\ [Next]_vars => ProcInv'
    BY NextInv, Zenon
  <1> QED
    BY <1>1, <1>2, PTL DEF Spec

(* No two CPUs ever execute on the same kernel stack (scheduler and sched   *)
(* hand p->lock over across swtch).                                         *)
THEOREM ProcOneCpuPerStack == Spec => []OneCpuPerStack
  <1>1. ProcInv => OneCpuPerStack
    BY ZenonT(40) DEF OneCpuPerStack, CpuInv
  <1> QED
    BY <1>1, ProcInvariant, PTL

(* A slot that wait or fork has freed is on no CPU.                         *)
THEOREM ProcFreedIsOffCpu == Spec => []FreedIsOffCpu
  <1>1. ProcInv => FreedIsOffCpu
    BY FreshOff, Zenon DEF FreedIsOffCpu
  <1> QED
    BY <1>1, ProcInvariant, PTL

(* In a state that satisfies the invariant no check of sched fails.         *)
LEMMA SchedSafe ==
  ASSUME ProcInv
  PROVE  SchedNeverPanics
  <1> SUFFICES ASSUME NEW c \in Cpu, NEW p \in Slot, stack[c] = p, pc[p] \in AtSched
               PROVE  /\ plock[p] = c /\ waitLock # c
                      /\ \A q \in Slot \ {p} : plock[q] # c
                      /\ state[p] # "RUNNING"
    BY Zenon DEF SchedNeverPanics
  <1>1. plock[p] = c /\ curproc[c] = p
    BY OnCpu, ZenonT(40) DEF OwnLock
  <1>2. waitLock # c /\ pc[p] # "fork_copy" /\ state[p] # "RUNNING"
    BY Zenon DEF LockInv, Locked, AtSched, StateInv, Fits
  <1>3. ASSUME NEW q \in Slot \ {p} PROVE plock[q] # c
    <2>1. ~ Holds(c, q)
      BY <1>1, <1>2, Zenon DEF Holds
    <2> QED
      BY <2>1, Zenon DEF LockInv
  <1> QED
    BY <1>1, <1>2, <1>3, Zenon

(* The process table is sound: types, unique pids, a living parent for      *)
(* every process, and sched never panics.                                   *)
THEOREM ProcTableSound == Spec => []TableSound
  <1>1. ProcInv => NoOrphans
    BY ZenonT(40) DEF NoOrphans, ParentInv, Living
  <1>2. ProcInv => TableSound
    BY <1>1, SchedSafe, Zenon DEF TableSound, PidInv
  <1> QED
    BY <1>2, ProcInvariant, PTL

(* No parent sleeps in wait() on a zombie child, outside reparent's call of *)
(* wakeup(initproc).                                                        *)
THEOREM ProcNoLostWakeup == Spec => []NoLostWakeup
  <1>1. ProcInv => NoLostWakeup
    BY Zenon DEF NoLostWakeup, WakeInv, ReapInv, Sleepy
  <1> QED
    BY <1>1, ProcInvariant, PTL
=============================================================================
