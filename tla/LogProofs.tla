----------------------------- MODULE LogProofs ------------------------------
(***************************************************************************)
(* Proofs about Log for every set of processes, blocks and contents and    *)
(* every size of the log.  LogInv is inductive: one lemma per action shows *)
(* that the action preserves it.                                           *)
(*                                                                         *)
(* The space begin_op reserves is enough, for every number of processes.   *)
(* Each active call holds one token for every block it may still log; what *)
(* is in the log plus the tokens out never reaches the log's last block.   *)
(***************************************************************************)
EXTENDS Log, Counting, TLAPS

(* The empty log holds no block.                                            *)
LEMMA EmptyLog == Len(<<>>) = 0 /\ <<>> \in Seq(Block) /\ WellFormed(<<>>)
  BY SizeAssumption DEF WellFormed

(* The number of active calls is 0 exactly when there is none.              *)
LEMMA ActiveFinite ==
  ASSUME Counting
  PROVE  IsFiniteSet(Active)
  BY ProcAssumption, Zenon DEF Active, Counting, CountPart

(* mkfs and a machine switched on for the first time establish LogInv.      *)
LEMMA InitInv ==
  ASSUME Counting, Init
  PROVE  LogInv
  <1>1. TypeOK
    BY EmptyLog, Zenon DEF Init, TypeOK, PcState, BootState
  <1>2. ControlInv
    <2>1. Active = {}
      BY Zenon DEF Init, Active
    <2>2. Cardinality(Active) = 0
      BY <2>1, Zenon DEF Counting, CountNone
    <2> QED
      BY <2>1, <2>2 DEF Init, ControlInv, CommitPc
  <1>3. WellFormed(head) /\ WellFormed(lh)
    BY EmptyLog, Zenon DEF Init
  <1>4. CommitInv /\ RecoveryInv /\ CacheInv
    BY Zenon DEF Init, CommitInv, RecoveryInv, CacheInv
  <1> QED
    BY <1>1, <1>2, <1>3, <1>4, Zenon DEF LogInv
-----------------------------------------------------------------------------
(* Steps that leave the disk, the buffers and the log alone and move no     *)
(* process into, out of or within a commit keep the data invariants.        *)
SamePhase ==
  \A q \in Proc : (pc[q] \in CommitPc \/ pc'[q] \in CommitPc) => pc'[q] = pc[q]

(* What such a step leaves in place.                                        *)
LEMMA Frame ==
  ASSUME LogInv, UNCHANGED <<disk, cache, pins, lh, tail, boot>>, SamePhase
  PROVE  /\ WellFormed(head)' /\ WellFormed(lh)'
         /\ RecoveryInv' /\ CacheInv'
         /\ \A i : Installed(i)' <=> Installed(i)
  <1>1. \A i : Installed(i)' <=> Installed(i)
    BY Zenon DEF SamePhase, Installed, CommitPc
  <1>2. Pending' = Pending
    BY <1>1, Zenon DEF Pending
  <1>3. CacheInv'
    BY <1>2, Zenon DEF LogInv, CacheInv, disk
  <1>4. RecoveryInv'
    BY Zenon DEF LogInv, RecoveryInv, HomeTo, disk
  <1> QED
    BY <1>1, <1>3, <1>4, Zenon DEF LogInv, WellFormed, disk

(* begin_op preserves LogInv: it only admits a call or puts it to sleep.    *)
LEMMA BeginOpInv ==
  ASSUME Counting, LogInv, NEW p \in Proc, BeginOp(p)
  PROVE  LogInv'
  <1>1. SamePhase
    BY Zenon DEF SamePhase, BeginOp, LogInv, TypeOK, CommitPc
  <1>2. TypeOK'
    <2>1. pc' \in [Proc -> PcState]
      BY ZenonT(30) DEF BeginOp, LogInv, TypeOK, PcState
    <2>2. outstanding' \in Nat
      BY DEF BeginOp, LogInv, TypeOK
    <2> QED
      BY <2>1, <2>2, Zenon DEF BeginOp, LogInv, TypeOK, disk
  <1>3. ControlInv'
    <2>1. CASE NoRoom /\ pc' = [pc EXCEPT ![p] = "asleep"] /\ UNCHANGED outstanding
      <3>1. Active' = Active
        BY <2>1, Zenon DEF BeginOp, LogInv, TypeOK, Active
      <3> QED
        BY <2>1, <3>1, Zenon DEF BeginOp, Up, LogInv, ControlInv, TypeOK, CommitPc
    <2>2. CASE ~NoRoom /\ pc' = [pc EXCEPT ![p] = "op"] /\ outstanding' = outstanding + 1
      <3>1. Active' = Active \cup {p} /\ p \notin Active
        BY <2>2, Zenon DEF BeginOp, LogInv, TypeOK, Active
      <3>2. Cardinality(Active') = Cardinality(Active) + 1
        BY ZenonT(30), <3>1, ActiveFinite DEF Counting, CountMore
      <3> QED
        BY <2>2, <3>1, <3>2, Zenon DEF BeginOp, Up, NoRoom, LogInv, ControlInv, TypeOK, CommitPc
    <2> QED
      BY <2>1, <2>2, Zenon DEF BeginOp
  <1>4. WellFormed(head)' /\ WellFormed(lh)' /\ RecoveryInv' /\ CacheInv'
    BY <1>1, Frame, Zenon DEF BeginOp
  <1>5. CommitInv'
    BY <1>1, SMTT(40) DEF SamePhase, BeginOp, LogInv, TypeOK, CommitInv, CopiedTo, HomeTo, CommitPc, disk
  <1> QED
    BY <1>2, <1>3, <1>4, <1>5, Zenon DEF LogInv

(* While a call is active nobody commits, so every logged block is pending. *)
LEMMA ActiveFacts ==
  ASSUME LogInv, NEW p \in Proc, pc[p] \in {"op", "panic"}
  PROVE  /\ committing = 0 /\ boot = "up" /\ head = <<>>
         /\ \A q \in Proc : pc[q] \notin CommitPc
         /\ \A i : ~Installed(i)
         /\ Pending = Logged(lh)
  <1>1. committing = 0 /\ boot = "up"
    BY Zenon DEF LogInv, TypeOK, ControlInv, Active
  <1>2. \A q \in Proc : pc[q] \notin CommitPc
    BY <1>1 DEF LogInv, ControlInv
  <1>3. \A i : ~Installed(i)
    BY <1>2, Zenon DEF Installed, CommitPc
  <1>4. Pending = Logged(lh)
    BY <1>3, Zenon DEF Pending, Logged
  <1> QED
    BY <1>1, <1>2, <1>3, <1>4, Zenon DEF LogInv, CommitInv

(* Appending a new block to a header with room keeps it well formed.        *)
LEMMA AppendWellFormed ==
  ASSUME NEW h \in Seq(Block), WellFormed(h), NEW b \in Block, b \notin Logged(h),
         Len(h) < LogBlocks - 1
  PROVE  /\ Append(h, b) \in Seq(Block)
         /\ WellFormed(Append(h, b))
         /\ Logged(Append(h, b)) = Logged(h) \cup {b}
  <1> DEFINE g == Append(h, b)
  <1>1. /\ g \in Seq(Block) /\ Len(g) = Len(h) + 1 /\ g[Len(g)] = b
        /\ \A i \in 1 .. Len(h) : g[i] = h[i]
        /\ Len(h) \in Nat
    OBVIOUS
  <1>2. Logged(g) = Logged(h) \cup {b}
    <2> HIDE DEF g
    <2> QED
      BY <1>1 DEF Logged
  <1>3. WellFormed(g)
    <2> HIDE DEF g
    <2> QED
      BY <1>1, SizeAssumption, SMTT(40) DEF WellFormed, Logged
  <1> QED
    BY <1>1, <1>2, <1>3, Zenon

(* log_write preserves LogInv: a newly logged block is pinned and pending.  *)
LEMMA LogWriteInv ==
  ASSUME LogInv, NEW p \in Proc, NEW b \in Block, NEW v \in Val, LogWrite(p, b, v)
  PROVE  LogInv'
  <1>1. /\ committing = 0 /\ boot = "up" /\ head = <<>>
        /\ \A q \in Proc : pc[q] \notin CommitPc
        /\ \A i : ~Installed(i)
        /\ Pending = Logged(lh)
    BY ActiveFacts, Zenon DEF LogWrite
  <1>2. CASE LogWritePanics
    <2>1. pc' = [pc EXCEPT ![p] = "panic"] /\ pc[p] = "op"
          /\ UNCHANGED <<disk, cache, pins, lh, tail, boot, wrote, outstanding, committing>>
      BY <1>2, Zenon DEF LogWrite
    <2>2. SamePhase
      BY <2>1, Zenon DEF SamePhase, LogInv, TypeOK, CommitPc
    <2>3. TypeOK'
      <3>1. pc' \in [Proc -> PcState]
        BY <2>1, Zenon DEF LogInv, TypeOK, PcState
      <3> QED
        BY <2>1, <3>1, Zenon DEF LogInv, TypeOK, disk
    <2>4. Active' = Active
      BY <2>1, Zenon DEF LogInv, TypeOK, Active
    <2>5. ControlInv'
      BY <1>1, <2>1, <2>4, Zenon DEF LogInv, ControlInv, TypeOK, CommitPc
    <2>6. WellFormed(head)' /\ WellFormed(lh)' /\ RecoveryInv' /\ CacheInv'
      BY <2>1, <2>2, Frame, Zenon
    <2>7. CommitInv'
      BY <2>1, <2>2, <1>1, ZenonT(40) DEF SamePhase, LogInv, CommitInv, CommitPc, disk
    <2> QED
      BY <2>3, <2>5, <2>6, <2>7, Zenon DEF LogInv
  <1>3. CASE ~LogWritePanics
    <2>1. /\ cache' = [cache EXCEPT ![b] = v]
          /\ wrote' = [wrote EXCEPT ![p] = @ \cup {b}]
          /\ UNCHANGED <<disk, outstanding, committing, tail, boot, pc>>
      BY <1>3, Zenon DEF LogWrite
    <2>2. /\ Len(lh) < LogBlocks - 1
          /\ outstanding # 0
      BY <1>3, SizeAssumption DEF LogWritePanics, LogInv, TypeOK
    <2>3. /\ lh' \in Seq(Block) /\ WellFormed(lh)'
          /\ Logged(lh)' = Logged(lh) \cup {b}
          /\ pins' = [pins EXCEPT ![b] = 1]
      <3>1. CASE b \in Logged(lh)
        <4>1. lh' = lh /\ pins' = pins
          BY <1>3, <3>1, Zenon DEF LogWrite
        <4>2. pins[b] = 1
          BY <1>1, <3>1, Zenon DEF LogInv, CacheInv
        <4>3. lh \in Seq(Block) /\ WellFormed(lh) /\ pins = [pins EXCEPT ![b] = pins[b]]
          BY Zenon DEF LogInv, TypeOK
        <4>4. WellFormed(lh)' /\ Logged(lh)' = Logged(lh)
          BY <4>1, <4>3, ZenonT(40) DEF WellFormed, Logged
        <4>5. Logged(lh) \cup {b} = Logged(lh)
          BY <3>1, Zenon
        <4> QED
          BY <4>1, <4>2, <4>3, <4>4, <4>5, Zenon
      <3>2. CASE b \notin Logged(lh)
        <4>1. lh' = Append(lh, b) /\ pins' = [pins EXCEPT ![b] = @ + 1]
          BY <1>3, <3>2, Zenon DEF LogWrite
        <4>2. pins[b] = 0
          BY <1>1, <3>2, Zenon DEF LogInv, CacheInv
        <4>3. lh' \in Seq(Block) /\ WellFormed(lh') /\ Logged(lh') = Logged(lh) \cup {b}
          BY <2>2, <3>2, <4>1, AppendWellFormed, Zenon DEF LogInv, TypeOK
        <4> QED
          BY <4>1, <4>2, <4>3, SMTT(40) DEF LogInv, TypeOK, WellFormed, Logged
      <3> QED
        BY <3>1, <3>2, Zenon
    <2>4. TypeOK'
      <3>1. cache' \in [Block -> Val \cup {NotCached}]
        BY <2>1, Zenon DEF LogInv, TypeOK
      <3>2. wrote' \in [Proc -> SUBSET Block]
        BY <2>1, Zenon DEF LogInv, TypeOK
      <3>3. pins' \in [Block -> Nat]
        BY <2>3, Zenon DEF LogInv, TypeOK
      <3> QED
        BY <2>1, <2>3, <3>1, <3>2, <3>3, Zenon DEF LogInv, TypeOK, disk
    <2>5. ControlInv'
      BY <2>1, Zenon DEF LogInv, ControlInv, Active
    <2>6. Pending' = Logged(lh)'
      BY <1>1, <2>1, Zenon DEF Pending, Installed, Logged, CommitPc
    <2>7. CacheInv'
      BY <1>1, <2>1, <2>3, <2>6, ValAssumption, ZenonT(40) DEF LogInv, TypeOK, CacheInv, disk
    <2>8. CommitInv' /\ RecoveryInv' /\ WellFormed(head)'
      BY <1>1, <2>1, <2>2, SMTT(40) DEF LogInv, CommitInv, RecoveryInv, WellFormed, CommitPc, disk
    <2> QED
      BY <2>3, <2>4, <2>5, <2>7, <2>8, Zenon DEF LogInv
  <1> QED
    BY <1>2, <1>3, Zenon
(* end_op preserves LogInv: the last call out becomes the only committer.   *)
LEMMA EndOpInv ==
  ASSUME Counting, LogInv, NEW p \in Proc, EndOp(p)
  PROVE  LogInv'
  <1>1. /\ committing = 0 /\ boot = "up" /\ head = <<>>
        /\ \A q \in Proc : pc[q] \notin CommitPc
        /\ \A i : ~Installed(i)
        /\ Pending = Logged(lh)
    BY ActiveFacts, Zenon DEF EndOp
  <1>2. /\ pc[p] = "op" /\ outstanding' = outstanding - 1
        /\ wrote' = [wrote EXCEPT ![p] = {}]
        /\ UNCHANGED <<disk, cache, pins, lh, boot>>
    BY Zenon DEF EndOp
  <1>3. wrote' \in [Proc -> SUBSET Block]
    BY <1>2, Zenon DEF LogInv, TypeOK
  <1>4. outstanding \in Nat \ {0} /\ outstanding' \in Nat
    <2>1. p \in Active
      BY <1>2, Zenon DEF Active
    <2>2. Cardinality(Active) # 0
      BY <2>1, ActiveFinite, Zenon DEF Counting, CountNone
    <2> QED
      BY <1>2, <2>2 DEF LogInv, ControlInv, TypeOK
  <1>5. Cardinality(Active \ {p}) = outstanding'
    <2>1. p \in Active
      BY <1>2, Zenon DEF Active
    <2> QED
      BY ZenonT(30), <1>2, <1>4, <2>1, ActiveFinite DEF LogInv, ControlInv, Counting, CountLess
  <1>6. CASE outstanding' = 0
    <2>1. /\ committing' = 1 /\ tail' = 0
          /\ pc' = [pc EXCEPT ![p] = IF Len(lh) > 0 THEN "write_log" ELSE "commit_done"]
      <3>1. committing # 1
        BY <1>1
      <3> QED
        BY ZenonT(30), <1>6, <3>1 DEF EndOp
    <2>2. TypeOK'
      <3>1. pc' \in [Proc -> PcState]
        BY <2>1, Zenon DEF LogInv, TypeOK, PcState, CommitPc
      <3> QED
        BY <1>2, <1>3, <1>4, <2>1, <3>1, Zenon DEF LogInv, TypeOK, disk
    <2>3. Active' = Active \ {p}
      BY <2>1, Zenon DEF LogInv, TypeOK, Active
    <2>4. Active' = {}
      <3>1. IsFiniteSet(Active \ {p})
        BY ActiveFinite, Zenon DEF Counting, CountLess
      <3> QED
        BY <1>5, <1>6, <2>3, <3>1, Zenon DEF Counting, CountNone
    <2>5. ControlInv'
      BY <1>1, <1>2, <1>5, <2>1, <2>3, <2>4, Zenon DEF LogInv, ControlInv, TypeOK, CommitPc
    <2>6. \A q \in Proc : pc'[q] \notin {"write_head", "install_trans", "clear_head"}
      BY <1>1, <2>1, Zenon DEF LogInv, TypeOK, CommitPc
    <2>7. Pending' = Pending
      BY <1>1, <1>2, <2>6, Zenon DEF Pending, Installed
    <2>8. CacheInv' /\ WellFormed(head)' /\ WellFormed(lh)' /\ RecoveryInv'
      BY <1>1, <1>2, <2>7, SMTT(40) DEF LogInv, CacheInv, WellFormed, RecoveryInv, disk
    <2>9. CommitInv'
      <3>1. \A q \in Proc : pc'[q] = "write_log" => head' = <<>> /\ tail' < Len(lh') /\ CopiedTo(tail)'
        BY <1>1, <1>2, <2>1, SMTT(40) DEF LogInv, TypeOK, CommitPc, CopiedTo, disk
      <3>2. \A q \in Proc : pc'[q] = "commit_done" => head' = <<>> /\ lh' = <<>>
        BY <1>1, <1>2, <2>1, SMTT(40) DEF LogInv, TypeOK, CommitPc, disk
      <3> QED
        BY <2>1, <2>6, <3>1, <3>2, SMTT(40) DEF CommitInv
    <2> QED
      BY <2>2, <2>5, <2>8, <2>9, Zenon DEF LogInv
  <1>7. CASE outstanding' # 0
    <2>1. pc' = [Wake(pc) EXCEPT ![p] = "out"] /\ UNCHANGED <<committing, tail>>
      BY <1>1, <1>7 DEF EndOp
    <2>2. \A q \in Proc : pc'[q] = IF q = p THEN "out"
                                  ELSE IF pc[q] = "asleep" THEN "begin_op" ELSE pc[q]
      BY <2>1, Zenon DEF Wake
    <2>3. pc' \in [Proc -> PcState]
      BY <2>1, Zenon DEF Wake, LogInv, TypeOK, PcState
    <2>4. TypeOK'
      BY <1>2, <1>3, <1>4, <2>1, <2>3, Zenon DEF LogInv, TypeOK, disk
    <2>5. Active' = Active \ {p}
      BY <2>2, Zenon DEF Active
    <2>6. SamePhase
      BY <1>1, <2>2, Zenon DEF SamePhase, CommitPc
    <2>7. ControlInv'
      BY <1>1, <1>2, <1>5, <2>1, <2>2, <2>5, SMTT(40) DEF LogInv, ControlInv, CommitPc
    <2>8. WellFormed(head)' /\ WellFormed(lh)' /\ RecoveryInv' /\ CacheInv'
      BY <1>2, <2>1, <2>6, Frame, ZenonT(40)
    <2>9. CommitInv'
      BY <1>1, <1>2, <1>7, <2>1, <2>6, ZenonT(40) DEF SamePhase, LogInv, CommitInv, CommitPc, disk
    <2> QED
      BY <2>4, <2>7, <2>8, <2>9, Zenon DEF LogInv
  <1> QED
    BY <1>6, <1>7, Zenon

-----------------------------------------------------------------------------
(* commit                                                                   *)

(* The committing process is alone: no other process commits, no call is    *)
(* active, and its own place in commit tells what has been installed.       *)
LEMMA CommitterFacts ==
  ASSUME Counting, LogInv, NEW p \in Proc, pc[p] \in CommitPc
  PROVE  /\ boot = "up" /\ committing = 1 /\ Active = {} /\ outstanding = 0
         /\ \A q \in Proc : q # p => pc[q] \notin CommitPc
         /\ \A i : Installed(i) <=> \/ pc[p] = "install_trans" /\ i <= tail
                                    \/ pc[p] = "clear_head"
  <1>1. boot = "up" /\ committing = 1 /\ Active = {}
    BY Zenon DEF LogInv, ControlInv, CommitPc
  <1>2. outstanding = 0
    BY <1>1, Zenon DEF LogInv, ControlInv, Counting, CountNone
  <1>3. \A q \in Proc : q # p => pc[q] \notin CommitPc
    BY Zenon DEF LogInv, ControlInv
  <1>4. \A i : Installed(i) <=> \/ pc[p] = "install_trans" /\ i <= tail
                                \/ pc[p] = "clear_head"
    BY <1>3, Zenon DEF Installed, CommitPc
  <1> QED
    BY <1>1, <1>2, <1>3, <1>4, Zenon

(* A step from one stage of commit to another keeps the control invariant,  *)
(* and the committer stays alone.                                           *)
LEMMA CommitControl ==
  ASSUME Counting, LogInv, NEW p \in Proc, pc[p] \in CommitPc, NEW x \in CommitPc,
         pc' = [pc EXCEPT ![p] = x],
         UNCHANGED <<outstanding, committing, boot>>
  PROVE  /\ ControlInv' /\ pc' \in [Proc -> PcState] /\ pc'[p] = x
         /\ \A q \in Proc : q # p => pc'[q] \notin CommitPc
         /\ \A i : Installed(i)' <=> \/ x = "install_trans" /\ i <= tail'
                                     \/ x = "clear_head"
  <1>1. /\ boot = "up" /\ committing = 1 /\ Active = {} /\ outstanding = 0
        /\ \A q \in Proc : q # p => pc[q] \notin CommitPc
    BY CommitterFacts, Zenon
  <1>2. pc' \in [Proc -> PcState] /\ pc'[p] = x
    BY Zenon DEF LogInv, TypeOK, PcState
  <1>3. \A q \in Proc : q # p => pc'[q] = pc[q]
    BY Zenon DEF LogInv, TypeOK
  <1>4. \A q \in Proc : q # p => pc'[q] \notin CommitPc
    BY <1>1, <1>3, Zenon
  <1>5. Active' = {}
    BY <1>1, <1>2, <1>3, Zenon DEF Active, CommitPc
  <1>6. ControlInv'
    BY <1>1, <1>2, <1>4, <1>5, Zenon DEF ControlInv, LogInv
  <1>7. \A i : Installed(i)' <=> \/ x = "install_trans" /\ i <= tail'
                                 \/ x = "clear_head"
    BY <1>2, <1>4, Zenon DEF Installed, CommitPc
  <1> QED
    BY <1>2, <1>4, <1>6, <1>7, Zenon

(* One block of write_log: the log gets what the pinned buffer holds.       *)
LEMMA WriteLogInv ==
  ASSUME Counting, LogInv, NEW p \in Proc, WriteLog(p)
  PROVE  LogInv'
  <1> DEFINE x == IF tail + 1 < Len(lh) THEN "write_log" ELSE "write_head"
             b == lh[tail + 1]
  <1>1. pc[p] = "write_log" /\ pc[p] \in CommitPc /\ x \in CommitPc
    BY Zenon DEF WriteLog, CommitPc
  <1>2. /\ boot = "up" /\ committing = 1 /\ outstanding = 0
        /\ \A i : ~Installed(i)
    BY <1>1, CommitterFacts, Zenon
  <1>3. pc' = [pc EXCEPT ![p] = x] /\ UNCHANGED <<outstanding, committing, boot>>
    BY Zenon DEF WriteLog
  <1>4. /\ ControlInv' /\ pc' \in [Proc -> PcState] /\ pc'[p] = x
        /\ \A q \in Proc : q # p => pc'[q] \notin CommitPc
        /\ \A i : ~Installed(i)'
    <2> HIDE DEF x
    <2>1. x \in {"write_log", "write_head"}
      BY Zenon DEF x
    <2> QED
      BY ZenonT(30), <1>1, <1>3, <2>1, CommitControl
  <1>5. head = <<>> /\ tail < Len(lh) /\ CopiedTo(tail)
    BY <1>1, Zenon DEF LogInv, CommitInv
  <1>6. tail + 1 \in 1 .. Len(lh) /\ tail + 1 \in LogSlot /\ b \in Block
    BY <1>5, SizeAssumption DEF LogInv, TypeOK, WellFormed, LogSlot
  <1>7. Pending = Logged(lh) /\ Pending' = Pending
    BY <1>2, <1>4, Zenon DEF Pending, Logged, WriteLog
  <1>8. cache[b] \in Val /\ View(b) = cache[b]
    <2>1. b \in Pending
      BY <1>6, <1>7, Zenon DEF Logged
    <2> HIDE DEF b
    <2> QED
      BY <1>2, <1>6, <2>1, Zenon DEF LogInv, CacheInv, TypeOK, View
  <1>9. /\ cache' = cache /\ tail' = tail + 1
        /\ logdata' = [logdata EXCEPT ![tail + 1] = cache[b]]
        /\ UNCHANGED <<home, head, pins, lh, wrote, boot>>
    BY <1>6, <1>8, Zenon DEF WriteLog, LogInv, TypeOK
  <1>10. TypeOK'
    <2>1. logdata' \in [LogSlot -> Val]
      BY <1>6, <1>8, <1>9, Zenon DEF LogInv, TypeOK
    <2>2. tail' \in Nat
      BY <1>9, SMTT(40) DEF LogInv, TypeOK
    <2> QED
      BY <1>3, <1>4, <1>9, <2>1, <2>2, Zenon DEF LogInv, TypeOK
  <1>11. WellFormed(head)' /\ WellFormed(lh)' /\ RecoveryInv' /\ CacheInv'
    BY <1>2, <1>7, <1>9, SMTT(40) DEF LogInv, WellFormed, RecoveryInv, CacheInv
  <1>12. CopiedTo(tail)'
    <2>1. \A i \in 1 .. (tail + 1) : logdata'[i] = cache[lh[i]]
      BY <1>5, <1>6, <1>9, SMTT(40) DEF CopiedTo, LogInv, TypeOK, LogSlot
    <2> QED
      BY <1>9, <2>1, Zenon DEF CopiedTo
  <1>13. CommitInv'
    <2>1. CASE tail + 1 < Len(lh)
      <3>1. pc'[p] = "write_log"
        BY <1>4, <2>1, Zenon
      <3> QED
        BY <1>2, <1>3, <1>4, <1>5, <1>9, <1>12, <2>1, <3>1, SMTT(40) DEF CommitInv, CommitPc
    <2>2. CASE ~(tail + 1 < Len(lh))
      <3>1. pc'[p] = "write_head"
        BY <1>4, <2>2, Zenon
      <3>2. tail' = Len(lh') /\ Len(lh') > 0
        BY <1>6, <1>9, <2>2 DEF LogInv, TypeOK
      <3> QED
        BY <1>2, <1>3, <1>4, <1>5, <1>9, <1>12, <3>1, <3>2, SMTT(40) DEF CommitInv, CommitPc
    <2> QED
      BY <2>1, <2>2, Zenon
  <1> QED
    BY <1>4, <1>10, <1>11, <1>13, Zenon DEF LogInv

(* write_head: the header on disk now names the copied blocks.              *)
LEMMA WriteHeadInv ==
  ASSUME Counting, LogInv, NEW p \in Proc, WriteHead(p)
  PROVE  LogInv'
  <1>1. pc[p] = "write_head" /\ pc[p] \in CommitPc /\ "install_trans" \in CommitPc
    BY Zenon DEF WriteHead, CommitPc
  <1>2. /\ boot = "up" /\ committing = 1 /\ outstanding = 0
        /\ \A i : ~Installed(i)
    BY <1>1, CommitterFacts, Zenon
  <1>3. /\ pc' = [pc EXCEPT ![p] = "install_trans"] /\ head' = lh /\ tail' = 0
        /\ UNCHANGED <<home, logdata, cache, pins, lh, outstanding, committing, wrote, boot>>
    BY Zenon DEF WriteHead
  <1>4. /\ ControlInv' /\ pc' \in [Proc -> PcState] /\ pc'[p] = "install_trans"
        /\ \A q \in Proc : q # p => pc'[q] \notin CommitPc
        /\ \A i : Installed(i)' <=> i <= 0
    BY ZenonT(30), <1>1, <1>3, CommitControl
  <1>5. Len(lh) > 0 /\ CopiedTo(Len(lh)) /\ Len(lh) \in Nat
    BY <1>1 DEF LogInv, CommitInv, TypeOK
  <1>6. Pending' = Pending
    BY <1>2, <1>3, <1>4, <1>5 DEF Pending
  <1>7. TypeOK'
    BY <1>3, <1>4, Zenon DEF LogInv, TypeOK
  <1>8. WellFormed(head)' /\ WellFormed(lh)' /\ RecoveryInv' /\ CacheInv'
    BY <1>2, <1>3, <1>6, SMTT(40) DEF LogInv, WellFormed, RecoveryInv, CacheInv
  <1>9. CommitInv'
    BY <1>2, <1>3, <1>4, <1>5 DEF CommitInv, CommitPc, CopiedTo, HomeTo
  <1> QED
    BY <1>4, <1>7, <1>8, <1>9, Zenon DEF LogInv
(* One block of install_trans(0): it reaches home and is unpinned, once.    *)
LEMMA InstallTransInv ==
  ASSUME Counting, LogInv, NEW p \in Proc, InstallTrans(p)
  PROVE  LogInv'
  <1> DEFINE x == IF tail + 1 < Len(lh) THEN "install_trans" ELSE "clear_head"
             b == lh[tail + 1]
  <1>1. pc[p] = "install_trans" /\ pc[p] \in CommitPc /\ x \in CommitPc
    BY Zenon DEF InstallTrans, CommitPc
  <1>2. /\ boot = "up" /\ committing = 1 /\ outstanding = 0
        /\ \A i : Installed(i) <=> i <= tail
    BY <1>1, CommitterFacts, Zenon
  <1>3. /\ pc' = [pc EXCEPT ![p] = x] /\ tail' = tail + 1
        /\ UNCHANGED <<logdata, head, lh, outstanding, committing, wrote, boot>>
    BY Zenon DEF InstallTrans, InstallBlock
  <1>4. /\ ControlInv' /\ pc' \in [Proc -> PcState] /\ pc'[p] = x
        /\ \A q \in Proc : q # p => pc'[q] \notin CommitPc
        /\ \A i : Installed(i)' <=> \/ x = "install_trans" /\ i <= tail + 1
                                    \/ x = "clear_head"
    <2> HIDE DEF x
    <2> QED
      BY ZenonT(30), <1>1, <1>3, CommitControl
  <1>5. /\ head = lh /\ tail < Len(lh) /\ HomeTo(tail)
        /\ \A i \in (tail + 1) .. Len(lh) : logdata[i] = cache[lh[i]]
    BY <1>1, Zenon DEF LogInv, CommitInv
  <1>6. /\ tail + 1 \in 1 .. Len(lh) /\ tail + 1 \in LogSlot /\ b \in Block
        /\ tail \in Nat /\ Len(lh) \in Nat
    BY <1>5, SizeAssumption DEF LogInv, TypeOK, WellFormed, LogSlot
  <1>7. \A i \in 1 .. Len(lh) : lh[i] = b => i = tail + 1
    BY <1>6, Zenon DEF LogInv, WellFormed
  <1>8. \A i \in 1 .. Len(lh) : Installed(i)' <=> i <= tail + 1
    BY <1>4, <1>6
  <1>9. b \in Pending /\ Pending' = Pending \ {b}
    <2>1. b \in Pending
      BY <1>2, <1>6 DEF Pending
    <2>2. Pending = {lh[i] : i \in {j \in 1 .. Len(lh) : ~(j <= tail)}}
      BY <1>2, Zenon DEF Pending
    <2>3. Pending' = {lh[i] : i \in {j \in 1 .. Len(lh) : ~(j <= tail + 1)}}
      BY <1>3, <1>8, Zenon DEF Pending
    <2>4. ASSUME NEW c \in Pending' PROVE c \in Pending \ {b}
      <3>1. PICK i \in 1 .. Len(lh) : ~(i <= tail + 1) /\ c = lh[i]
        BY <2>3, <2>4, Zenon
      <3> HIDE DEF b
      <3> QED
        BY <1>6, <1>7, <2>2, <3>1
    <2>5. ASSUME NEW c \in Pending, c # b PROVE c \in Pending'
      <3>1. PICK i \in 1 .. Len(lh) : ~(i <= tail) /\ c = lh[i]
        BY <2>2, <2>5, Zenon
      <3>2. i # tail + 1
        BY <2>5, <3>1, Zenon
      <3> QED
        BY <1>6, <2>3, <3>1, <3>2
    <2> QED
      BY <2>1, <2>4, <2>5, Zenon
  <1>10. pins[b] = 1 /\ cache[b] = logdata[tail + 1] /\ logdata[tail + 1] \in Val
    <2>1. pins[b] = 1
      BY <1>2, <1>6, <1>9, Zenon DEF LogInv, CacheInv
    <2>2. cache[b] = logdata[tail + 1]
      BY <1>5, <1>6, SMTT(40)
    <2> QED
      BY <1>6, <2>1, <2>2, Zenon DEF LogInv, TypeOK
  <1>11. /\ cache' = cache
         /\ home' = [home EXCEPT ![b] = logdata[tail + 1]]
         /\ pins' = [pins EXCEPT ![b] = 0]
    BY <1>6, <1>10, SMTT(40) DEF InstallTrans, InstallBlock, LogInv, TypeOK
  <1>12. TypeOK'
    <2> HIDE DEF b
    <2>1. home' \in [Block -> Val] /\ pins' \in [Block -> Nat]
      BY <1>6, <1>10, <1>11, Zenon DEF LogInv, TypeOK
    <2> QED
      BY <1>3, <1>4, <1>6, <1>11, <2>1, SMTT(40) DEF LogInv, TypeOK
  <1>13. CacheInv'
    <2> SUFFICES ASSUME NEW c \in Block
                 PROVE  IF c \in Pending'
                          THEN pins'[c] = 1 /\ cache[c] # NotCached
                          ELSE pins'[c] = 0 /\ (cache[c] = NotCached \/ cache[c] = home'[c])
      BY <1>2, <1>3, <1>11, Zenon DEF CacheInv
    <2> HIDE DEF b
    <2>1. CASE c = b
      BY <1>6, <1>9, <1>10, <1>11, <2>1, ZenonT(40) DEF LogInv, TypeOK
    <2>2. CASE c # b
      BY <1>2, <1>6, <1>9, <1>11, <2>2, ZenonT(40) DEF LogInv, TypeOK, CacheInv
    <2> QED
      BY <2>1, <2>2, Zenon
  <1>14. HomeTo(tail)'
    <2>1. \A i \in 1 .. (tail + 1) : home'[lh[i]] = logdata[i]
      <3> SUFFICES ASSUME NEW i \in 1 .. (tail + 1) PROVE home'[lh[i]] = logdata[i]
        BY Zenon
      <3>1. i \in 1 .. Len(lh) /\ lh[i] \in Block
        BY <1>6 DEF LogInv, TypeOK
      <3>2. CASE i = tail + 1
        BY <1>6, <1>11, <3>2, Zenon DEF LogInv, TypeOK
      <3>3. CASE i # tail + 1
        <4>1. lh[i] # b /\ i \in 1 .. tail
          BY <1>6, <1>7, <3>1, <3>3, SMTT(40)
        <4>2. home'[lh[i]] = home[lh[i]]
          BY <1>11, <3>1, <4>1, ZenonT(40) DEF LogInv, TypeOK
        <4> QED
          BY <1>5, <4>1, <4>2, Zenon DEF HomeTo
      <3> QED
        BY <3>2, <3>3, Zenon
    <2> QED
      BY <1>3, <2>1, Zenon DEF HomeTo
  <1>15. WellFormed(head)' /\ WellFormed(lh)' /\ RecoveryInv'
    BY <1>2, <1>3, SMTT(40) DEF LogInv, WellFormed, RecoveryInv
  <1>16. CommitInv'
    <2>1. CASE tail + 1 < Len(lh)
      <3>1. pc'[p] = "install_trans"
        BY <1>4, <2>1, Zenon
      <3>2. \A i \in (tail' + 1) .. Len(lh') : logdata'[i] = cache'[lh'[i]]
        BY <1>3, <1>5, <1>6, <1>11, SMTT(40)
      <3> QED
        BY <1>2, <1>3, <1>4, <1>5, <1>14, <2>1, <3>1, <3>2, SMTT(40) DEF CommitInv, CommitPc
    <2>2. CASE ~(tail + 1 < Len(lh))
      <3>1. pc'[p] = "clear_head"
        BY <1>4, <2>2, Zenon
      <3>2. tail' = Len(lh')
        BY <1>3, <1>6, <2>2
      <3> QED
        BY <1>2, <1>3, <1>4, <1>5, <1>14, <3>1, <3>2, SMTT(40) DEF CommitInv, CommitPc
    <2> QED
      BY <2>1, <2>2, Zenon
  <1> QED
    BY <1>4, <1>12, <1>13, <1>15, <1>16, Zenon DEF LogInv
(* Emptying the header: every block is home, so nothing is pending.         *)
LEMMA ClearHeadInv ==
  ASSUME Counting, LogInv, NEW p \in Proc, ClearHead(p)
  PROVE  LogInv'
  <1>1. pc[p] = "clear_head" /\ pc[p] \in CommitPc /\ "commit_done" \in CommitPc
    BY Zenon DEF ClearHead, CommitPc
  <1>2. /\ boot = "up" /\ committing = 1 /\ outstanding = 0
        /\ \A i : Installed(i)
    BY <1>1, CommitterFacts, Zenon
  <1>3. /\ pc' = [pc EXCEPT ![p] = "commit_done"] /\ head' = <<>> /\ lh' = <<>> /\ tail' = 0
        /\ UNCHANGED <<home, logdata, cache, pins, outstanding, committing, wrote, boot>>
    BY Zenon DEF ClearHead
  <1>4. /\ ControlInv' /\ pc' \in [Proc -> PcState] /\ pc'[p] = "commit_done"
        /\ \A q \in Proc : q # p => pc'[q] \notin CommitPc
    BY ZenonT(30), <1>1, <1>3, CommitControl
  <1>5. Pending = {} /\ Pending' = {}
    BY <1>2, <1>3, EmptyLog DEF Pending
  <1>6. TypeOK'
    BY <1>3, <1>4, EmptyLog, Zenon DEF LogInv, TypeOK
  <1>7. CacheInv'
    BY <1>3, <1>5, Zenon DEF LogInv, CacheInv
  <1>8. WellFormed(head)' /\ WellFormed(lh)'
    <2>1. WellFormed(<<>>)
      BY EmptyLog, Zenon
    <2> QED
      BY <1>3, <2>1, ZenonT(40) DEF WellFormed
  <1>9. CommitInv' /\ RecoveryInv'
    BY <1>2, <1>3, <1>4, Zenon DEF CommitInv, RecoveryInv, CommitPc
  <1> QED
    BY <1>4, <1>6, <1>7, <1>8, <1>9, Zenon DEF LogInv

(* The end of a commit: the log is open again, for everyone who waited.     *)
LEMMA CommitDoneInv ==
  ASSUME Counting, LogInv, NEW p \in Proc, CommitDone(p)
  PROVE  LogInv'
  <1>1. pc[p] = "commit_done" /\ pc[p] \in CommitPc
    BY Zenon DEF CommitDone, CommitPc
  <1>2. /\ boot = "up" /\ Active = {} /\ outstanding = 0
        /\ \A q \in Proc : q # p => pc[q] \notin CommitPc
        /\ \A i : ~Installed(i)
    BY <1>1, CommitterFacts, Zenon
  <1>3. /\ pc' = [Wake(pc) EXCEPT ![p] = "out"] /\ committing' = 0
        /\ UNCHANGED <<home, logdata, head, cache, pins, lh, outstanding, tail, wrote, boot>>
    BY Zenon DEF CommitDone, disk
  <1>4. head = <<>> /\ lh = <<>>
    BY <1>1, Zenon DEF LogInv, CommitInv
  <1>5. \A q \in Proc : pc'[q] = IF q = p THEN "out"
                                ELSE IF pc[q] = "asleep" THEN "begin_op" ELSE pc[q]
    BY <1>3, Zenon DEF Wake
  <1>6. pc' \in [Proc -> PcState]
    BY <1>3, Zenon DEF Wake, LogInv, TypeOK, PcState
  <1>7. \A q \in Proc : pc'[q] \notin CommitPc
    BY <1>2, <1>5, Zenon DEF CommitPc
  <1>8. Active' = {}
    BY <1>2, <1>5, Zenon DEF Active
  <1>9. TypeOK'
    BY <1>3, <1>6, Zenon DEF LogInv, TypeOK
  <1>10. ControlInv'
    <2>1. outstanding' = Cardinality(Active')
      BY <1>2, <1>3, <1>8, Zenon DEF Counting, CountNone
    <2> QED
      BY <1>2, <1>3, <1>7, <1>8, <2>1 DEF ControlInv
  <1>11. Pending' = Pending
    <2>1. \A i : ~Installed(i)'
      BY <1>7, Zenon DEF Installed, CommitPc
    <2> QED
      BY <1>2, <1>3, <2>1, Zenon DEF Pending
  <1>12. CacheInv' /\ RecoveryInv' /\ WellFormed(head)' /\ WellFormed(lh)'
    BY <1>2, <1>3, <1>11, SMTT(40) DEF LogInv, CacheInv, RecoveryInv, WellFormed
  <1>13. CommitInv'
    BY <1>3, <1>4, <1>7, Zenon DEF CommitInv, CommitPc
  <1> QED
    BY <1>9, <1>10, <1>12, <1>13, Zenon DEF LogInv
(* Before initlog is done no process runs and no buffer is pinned.          *)
LEMMA BootFacts ==
  ASSUME Counting, LogInv, boot # "up"
  PROVE  /\ \A p \in Proc : pc[p] = "out"
         /\ \A i : ~Installed(i)
         /\ Active = {} /\ outstanding = 0 /\ committing = 0
         /\ \A b \in Block : pins[b] = 0 /\ (cache[b] = NotCached \/ cache[b] = home[b])
  <1>1. \A p \in Proc : pc[p] = "out"
    BY Zenon DEF LogInv, ControlInv
  <1>2. Active = {} /\ outstanding = 0
    BY <1>1, Zenon DEF Active, LogInv, ControlInv, Counting, CountNone
  <1>3. committing = 0
    BY <1>1, Zenon DEF LogInv, ControlInv, TypeOK, CommitPc
  <1> QED
    BY <1>1, <1>2, <1>3, Zenon DEF Installed, LogInv, CacheInv

(* A step of initlog that moves no process keeps the control invariant.     *)
LEMMA BootControl ==
  ASSUME Counting, LogInv, boot # "up", UNCHANGED <<pc, outstanding, committing>>
  PROVE  /\ ControlInv'
         /\ \A p \in Proc : pc'[p] = "out"
         /\ \A i : ~Installed(i)'
  <1>1. Active' = Active
    BY Zenon DEF Active
  <1> QED
    BY <1>1, BootFacts, Zenon DEF LogInv, ControlInv, Installed

(* read_head: the blocks to recover are the ones on disk.                   *)
LEMMA ReadHeadInv ==
  ASSUME Counting, LogInv, ReadHead
  PROVE  LogInv'
  <1>1. /\ boot = "read_head" /\ boot # "up" /\ lh' = head /\ tail' = 0
        /\ boot' = IF Len(head) > 0 THEN "install_trans" ELSE "clear_head"
        /\ UNCHANGED <<home, logdata, head, cache, pins, outstanding, committing, pc, wrote>>
    BY Zenon DEF ReadHead, disk
  <1>2. /\ ControlInv' /\ \A p \in Proc : pc'[p] = "out"
    BY <1>1, BootControl, Zenon
  <1>3. boot' # "up" /\ boot' # "read_head" /\ boot' \in BootState
    BY <1>1, Zenon DEF BootState
  <1>4. TypeOK'
    BY <1>1, <1>3, Zenon DEF LogInv, TypeOK
  <1>5. WellFormed(head)' /\ WellFormed(lh)'
    BY <1>1, ZenonT(40) DEF LogInv, WellFormed
  <1>6. CacheInv'
    BY <1>1, <1>3, BootFacts, Zenon DEF CacheInv
  <1>7. CommitInv'
    BY <1>2, <1>3, Zenon DEF CommitInv
  <1>8. RecoveryInv'
    <2>1. Len(head) \in Nat
      BY SMTT(40) DEF LogInv, TypeOK
    <2> QED
      BY <1>1, <1>3, <2>1 DEF RecoveryInv, HomeTo
  <1> QED
    BY <1>2, <1>4, <1>5, <1>6, <1>7, <1>8, Zenon DEF LogInv

(* One block of install_trans(1).                                           *)
LEMMA RecoverBlockInv ==
  ASSUME Counting, LogInv, RecoverBlock
  PROVE  LogInv'
  <1> DEFINE b == lh[tail + 1]
  <1>1. /\ boot = "install_trans" /\ boot # "up" /\ tail' = tail + 1
        /\ boot' = IF tail + 1 < Len(lh) THEN "install_trans" ELSE "clear_head"
        /\ UNCHANGED <<logdata, head, pins, lh, outstanding, committing, pc, wrote>>
        /\ home' = [home EXCEPT ![b] = logdata[tail + 1]]
        /\ cache' = [cache EXCEPT ![b] = logdata[tail + 1]]
    BY Zenon DEF RecoverBlock, InstallBlock
  <1>2. /\ ControlInv' /\ \A p \in Proc : pc'[p] = "out"
    BY <1>1, BootControl, Zenon
  <1>3. boot' # "up" /\ boot' # "read_head" /\ boot' \in BootState
    BY <1>1, Zenon DEF BootState
  <1>4. lh = head /\ tail < Len(lh) /\ HomeTo(tail)
    BY <1>1, Zenon DEF LogInv, RecoveryInv
  <1>5. /\ tail + 1 \in 1 .. Len(lh) /\ tail + 1 \in LogSlot /\ b \in Block
        /\ tail \in Nat /\ Len(lh) \in Nat /\ logdata[tail + 1] \in Val
    BY <1>4, SizeAssumption, SMTT(40) DEF LogInv, TypeOK, WellFormed, LogSlot
  <1>6. \A i \in 1 .. Len(lh) : lh[i] = b => i = tail + 1
    BY <1>5, Zenon DEF LogInv, WellFormed
  <1>7. TypeOK'
    <2> HIDE DEF b
    <2>1. home' \in [Block -> Val] /\ cache' \in [Block -> Val \cup {NotCached}]
      BY <1>1, <1>5, Zenon DEF LogInv, TypeOK
    <2> QED
      BY <1>1, <1>3, <1>5, <2>1, SMTT(40) DEF LogInv, TypeOK
  <1>8. WellFormed(head)' /\ WellFormed(lh)'
    BY <1>1, Zenon DEF LogInv, WellFormed
  <1>9. CacheInv'
    <2> HIDE DEF b
    <2>1. \A c \in Block : pins'[c] = 0 /\ (cache'[c] = NotCached \/ cache'[c] = home'[c])
      BY <1>1, <1>5, BootFacts, Zenon DEF LogInv, TypeOK
    <2> QED
      BY <1>3, <2>1, Zenon DEF CacheInv
  <1>10. CommitInv'
    BY <1>2, <1>3, Zenon DEF CommitInv
  <1>11. HomeTo(tail)'
    <2> SUFFICES ASSUME NEW i \in 1 .. (tail + 1) PROVE home'[lh[i]] = logdata[i]
      BY <1>1, Zenon DEF HomeTo
    <2>1. i \in 1 .. Len(lh) /\ lh[i] \in Block
      BY <1>5 DEF LogInv, TypeOK
    <2>2. CASE i = tail + 1
      BY <1>1, <1>5, <2>2, Zenon DEF LogInv, TypeOK
    <2>3. CASE i # tail + 1
      <3>1. lh[i] # b /\ i \in 1 .. tail
        BY <1>5, <1>6, <2>1, <2>3
      <3>2. home'[lh[i]] = home[lh[i]]
        BY <1>1, <2>1, <3>1, Zenon DEF LogInv, TypeOK
      <3> QED
        BY <1>4, <3>1, <3>2, Zenon DEF HomeTo
    <2> QED
      BY <2>2, <2>3, Zenon
  <1>12. RecoveryInv'
    <2>1. CASE tail + 1 < Len(lh)
      BY <1>1, <1>4, <1>11, <2>1, Zenon DEF RecoveryInv
    <2>2. CASE ~(tail + 1 < Len(lh))
      <3>1. tail' = Len(lh')
        BY <1>1, <1>5, <2>2
      <3> QED
        BY <1>1, <1>4, <1>11, <2>2, <3>1, Zenon DEF RecoveryInv
    <2> QED
      BY <2>1, <2>2, Zenon
  <1> QED
    BY <1>2, <1>7, <1>8, <1>9, <1>10, <1>12, Zenon DEF LogInv
(* The end of recover_from_log: the log is empty and nothing is pending.    *)
LEMMA RecoverDoneInv ==
  ASSUME Counting, LogInv, RecoverDone
  PROVE  LogInv'
  <1>1. /\ boot # "up" /\ boot' = "up" /\ lh' = <<>> /\ head' = <<>> /\ tail' = 0
        /\ UNCHANGED <<home, logdata, cache, pins, outstanding, committing, pc, wrote>>
    BY Zenon DEF RecoverDone
  <1>2. /\ ControlInv' /\ \A p \in Proc : pc'[p] = "out"
    BY <1>1, BootControl, Zenon
  <1>3. TypeOK'
    BY <1>1, EmptyLog, Zenon DEF LogInv, TypeOK, BootState
  <1>4. WellFormed(head)' /\ WellFormed(lh)'
    <2>1. WellFormed(<<>>)
      BY EmptyLog, Zenon
    <2> QED
      BY <1>1, <2>1, ZenonT(40) DEF WellFormed
  <1>5. CacheInv'
    <2>1. Pending' = {}
      BY <1>1, EmptyLog DEF Pending
    <2> QED
      BY <1>1, <2>1, BootFacts, Zenon DEF CacheInv
  <1>6. CommitInv' /\ RecoveryInv'
    BY <1>1, <1>2, Zenon DEF CommitInv, RecoveryInv
  <1> QED
    BY <1>2, <1>3, <1>4, <1>5, <1>6, Zenon DEF LogInv

(* A buffer whose block is not pending may be filled from home or dropped.  *)
LEMMA CacheStep ==
  ASSUME Counting, LogInv, NEW b \in Block, boot = "up" => b \notin Pending,
         NEW v \in {NotCached, home[b]}, cache' = [cache EXCEPT ![b] = v],
         UNCHANGED <<home, logdata, head, pins, lh, outstanding, committing, tail,
                     pc, wrote, boot>>
  PROVE  LogInv'
  <1>1. Pending' = Pending /\ Active' = Active
    BY Zenon DEF Pending, Installed, Active
  <1>2. \A c \in Block : cache'[c] = IF c = b THEN v ELSE cache[c]
    BY Zenon DEF LogInv, TypeOK
  <1>3. TypeOK'
    <2>1. cache' \in [Block -> Val \cup {NotCached}]
      BY Zenon DEF LogInv, TypeOK
    <2> QED
      BY <2>1, Zenon DEF LogInv, TypeOK
  <1>4. ControlInv' /\ WellFormed(head)' /\ WellFormed(lh)' /\ RecoveryInv'
    BY <1>1, SMTT(40) DEF LogInv, ControlInv, WellFormed, RecoveryInv, HomeTo
  <1>5. CacheInv'
    BY ZenonT(30), <1>1, <1>2 DEF LogInv, CacheInv
  <1>6. ASSUME boot = "up", NEW i \in 1 .. Len(lh), ~Installed(i)
        PROVE  cache'[lh[i]] = cache[lh[i]]
    <2>1. lh[i] \in Pending /\ lh[i] \in Block
      BY <1>6, SMTT(40) DEF Pending, LogInv, TypeOK
    <2> QED
      BY <1>2, <1>6, <2>1, Zenon
  <1>7. ASSUME NEW p \in Proc, pc[p] \in CommitPc
        PROVE  /\ boot = "up"
               /\ \A i : Installed(i) <=> \/ pc[p] = "install_trans" /\ i <= tail
                                          \/ pc[p] = "clear_head"
    BY <1>7, CommitterFacts, Zenon
  <1>8. CommitInv'
    <2> SUFFICES ASSUME NEW p \in Proc
        PROVE /\ pc[p] = "write_log" => CopiedTo(tail)'
              /\ pc[p] = "write_head" => CopiedTo(Len(lh))'
              /\ pc[p] = "install_trans" =>
                   \A i \in (tail + 1) .. Len(lh) : logdata[i] = cache'[lh[i]]
      BY DEF LogInv, CommitInv, HomeTo
    <2>1. ASSUME pc[p] = "write_log" PROVE CopiedTo(tail)'
      <3>1. boot = "up" /\ (\A i : ~Installed(i)) /\ tail < Len(lh) /\ CopiedTo(tail)
        BY <1>7, <2>1, ZenonT(40) DEF CommitPc, LogInv, CommitInv
      <3>2. \A i \in 1 .. tail : i \in 1 .. Len(lh)
        BY <3>1 DEF LogInv, TypeOK
      <3> QED
        BY <1>6, <3>1, <3>2, Zenon DEF CopiedTo
    <2>2. ASSUME pc[p] = "write_head" PROVE CopiedTo(Len(lh))'
      <3>1. boot = "up" /\ (\A i : ~Installed(i)) /\ CopiedTo(Len(lh))
        BY <1>7, <2>2, Zenon DEF CommitPc, LogInv, CommitInv
      <3> QED
        BY ZenonT(30), <1>6, <3>1 DEF CopiedTo
    <2>3. ASSUME pc[p] = "install_trans", NEW i \in (tail + 1) .. Len(lh)
          PROVE  logdata[i] = cache'[lh[i]]
      <3>1. boot = "up" /\ (Installed(i) <=> i <= tail) /\ logdata[i] = cache[lh[i]]
        BY <1>7, <2>3, ZenonT(40) DEF CommitPc, LogInv, CommitInv
      <3>2. i \in 1 .. Len(lh) /\ ~(i <= tail)
        BY DEF LogInv, TypeOK
      <3> QED
        BY <1>6, <3>1, <3>2, Zenon
    <2> QED
      BY <2>1, <2>2, <2>3, ZenonT(40)
  <1> QED
    BY <1>3, <1>4, <1>5, <1>8, Zenon DEF LogInv

(* bread fills a buffer from home, and only a block without a buffer.       *)
LEMMA BreadInv ==
  ASSUME Counting, LogInv, NEW b \in Block, Bread(b)
  PROVE  LogInv'
  <1>1. b \notin Pending
    BY Zenon DEF Bread, LogInv, CacheInv
  <1> QED
    BY ZenonT(30), <1>1, CacheStep DEF Bread, disk

(* bget recycles only unpinned buffers, and pending blocks are pinned.      *)
LEMMA RecycleInv ==
  ASSUME Counting, LogInv, NEW b \in Block, Recycle(b)
  PROVE  LogInv'
  <1>1. boot = "up" => b \notin Pending
    BY DEF Recycle, LogInv, CacheInv
  <1> QED
    BY ZenonT(30), <1>1, CacheStep DEF Recycle, disk

(* A crash keeps the disk and nothing else.                                 *)
LEMMA CrashInv ==
  ASSUME Counting, LogInv, Crash
  PROVE  LogInv'
  <1>1. TypeOK'
    BY EmptyLog, Zenon DEF Crash, LogInv, TypeOK, PcState, BootState, disk
  <1>2. ControlInv'
    <2>1. Active' = {}
      BY Zenon DEF Crash, Active
    <2>2. Cardinality(Active') = 0
      BY <2>1, Zenon DEF Counting, CountNone
    <2> QED
      BY <2>1, <2>2 DEF Crash, ControlInv, CommitPc
  <1>3. WellFormed(head)'
    BY Zenon DEF Crash, LogInv, WellFormed, disk
  <1>4. WellFormed(lh)'
    <2>1. WellFormed(<<>>)
      BY EmptyLog, Zenon
    <2> QED
      BY <2>1, ZenonT(40) DEF Crash, WellFormed
  <1>5. CommitInv'
    BY Zenon DEF Crash, CommitInv
  <1>6. RecoveryInv'
    BY Zenon DEF Crash, RecoveryInv
  <1>7. CacheInv'
    BY ZenonT(40) DEF Crash, CacheInv
  <1> QED
    BY <1>1, <1>2, <1>3, <1>4, <1>5, <1>6, <1>7, ZenonT(40) DEF LogInv

(* A step that changes nothing.                                             *)
LEMMA StutterInv ==
  ASSUME LogInv, UNCHANGED vars
  PROVE  LogInv'
  BY DEF LogInv, TypeOK, ControlInv, Active, WellFormed, CommitInv, RecoveryInv,
         CopiedTo, HomeTo, CacheInv, Pending, Installed, vars
-----------------------------------------------------------------------------
(* Every step preserves LogInv.                                             *)
LEMMA NextInv ==
  ASSUME Counting, LogInv, [Next]_vars
  PROVE  LogInv'
  <1>1. ASSUME NEW p \in Proc, BeginOp(p) PROVE LogInv'
    BY <1>1, BeginOpInv, Zenon
  <1>2. ASSUME NEW p \in Proc, NEW b \in Block, NEW v \in Val, LogWrite(p, b, v)
        PROVE  LogInv'
    BY <1>2, LogWriteInv, Zenon
  <1>3. ASSUME NEW p \in Proc, EndOp(p) PROVE LogInv'
    BY <1>3, EndOpInv, Zenon
  <1>4. ASSUME NEW p \in Proc, CommitStep(p) PROVE LogInv'
    BY <1>4, WriteLogInv, WriteHeadInv, InstallTransInv, ClearHeadInv, CommitDoneInv, Zenon
       DEF CommitStep
  <1>5. ASSUME Recovery PROVE LogInv'
    BY <1>5, ReadHeadInv, RecoverBlockInv, RecoverDoneInv, Zenon DEF Recovery
  <1>6. ASSUME NEW b \in Block, Bread(b) \/ Recycle(b) PROVE LogInv'
    BY <1>6, BreadInv, RecycleInv, Zenon
  <1>7. ASSUME Crash PROVE LogInv'
    BY <1>7, CrashInv, Zenon
  <1>8. ASSUME UNCHANGED vars PROVE LogInv'
    BY <1>8, StutterInv, Zenon
  <1> QED
    BY <1>1, <1>2, <1>3, <1>4, <1>5, <1>6, <1>7, <1>8, Zenon DEF Next, CommitStep, Recovery
-----------------------------------------------------------------------------
(* The reservations of begin_op                                             *)

(* No call logs all the blocks reserved for it, one reservation fits, and   *)
(* the log on disk, header included, has LOGSIZE blocks (mkfs).             *)
Sizes ==
  /\ OpBlocks < MAXOPBLOCKS
  /\ MAXOPBLOCKS < LOGSIZE
  /\ LOGSIZE <= LogBlocks

Tokens == {t \in Active \X (1 .. OpBlocks) : t[2] > Cardinality(wrote[t[1]])}

SpaceInv ==
  /\ NeverPanics
  /\ \A p \in Proc : /\ IsFiniteSet(wrote[p])
                     /\ wrote[p] \subseteq Logged(lh)
                     /\ p \notin Active => wrote[p] = {}
  /\ Active # {} => Len(lh) + Cardinality(Tokens) <= LOGSIZE - 2

(* There are at most OpBlocks tokens per active call.                       *)
LEMMA TokenBound ==
  ASSUME Counting, NEW A, IsFiniteSet(A), NEW T \in SUBSET (A \X (1 .. OpBlocks))
  PROVE  /\ IsFiniteSet(T)
         /\ Cardinality(T) \in Nat
         /\ Cardinality(T) <= Cardinality(A) * OpBlocks
  <1>1. IsFiniteSet(1 .. OpBlocks) /\ Cardinality(1 .. OpBlocks) = OpBlocks
    BY SizeAssumption DEF Counting, CountRange
  <1>2. /\ IsFiniteSet(A \X (1 .. OpBlocks))
        /\ Cardinality(A \X (1 .. OpBlocks)) = Cardinality(A) * OpBlocks
    BY ZenonT(30), <1>1 DEF Counting, CountPairs
  <1> QED
    BY <1>2, Zenon DEF Counting, CountPart, CountNat

(* A reservation that begin_op finds to fit leaves two blocks to spare.     *)
LEMMA Reserve ==
  ASSUME Sizes, NEW n \in Nat, NEW o \in Nat,
         n + (o + 1) * MAXOPBLOCKS <= LOGSIZE, o = 0 => n = 0
  PROVE  n + (o + 1) * OpBlocks <= LOGSIZE - 2
  <1>1. CASE o = 0
    BY <1>1, SizeAssumption, SMTT(40) DEF Sizes
  <1>2. CASE o # 0
    <2> DEFINE k == MAXOPBLOCKS - OpBlocks - 1
    <2>1. k \in Nat /\ MAXOPBLOCKS = OpBlocks + 1 + k
      BY SizeAssumption DEF Sizes
    <2>2. (o + 1) * k \in Nat /\ (o + 1) * OpBlocks \in Nat
      BY <2>1, SizeAssumption
    <2> HIDE DEF k
    <2>3. (o + 1) * MAXOPBLOCKS = (o + 1) * OpBlocks + (o + 1) + (o + 1) * k
      BY <2>1, SizeAssumption
    <2> QED
      BY <1>2, <2>2, <2>3, SizeAssumption, SMTT(40)
  <1> QED
    BY <1>1, <1>2, Zenon
(* begin_op lets a call in only if its tokens fit.                          *)
LEMMA BeginOpSpace ==
  ASSUME Counting, Sizes, LogInv, SpaceInv, NEW p \in Proc, BeginOp(p)
  PROVE  SpaceInv'
  <1>1. LogInv'
    BY BeginOpInv, Zenon
  <1>2. UNCHANGED <<lh, wrote, committing, boot>> /\ boot = "up"
    BY Zenon DEF BeginOp, Up
  <1>3. CASE pc' = [pc EXCEPT ![p] = "asleep"]
    <2>1. Active' = Active
      BY <1>3, Zenon DEF BeginOp, LogInv, TypeOK, Active
    <2>2. Tokens' = Tokens
      BY <1>2, <2>1, Zenon DEF Tokens
    <2>3. NeverPanics'
      BY <1>3, ZenonT(40) DEF SpaceInv, NeverPanics, LogInv, TypeOK
    <2> QED
      BY <1>2, <2>1, <2>2, <2>3, ZenonT(40) DEF SpaceInv, Logged
  <1>4. CASE ~NoRoom /\ pc' = [pc EXCEPT ![p] = "op"] /\ outstanding' = outstanding + 1
    <2>1. NeverPanics'
      BY <1>4, Zenon DEF SpaceInv, NeverPanics, LogInv, TypeOK
    <2>2. Active \subseteq Active'
      BY <1>4, Zenon DEF BeginOp, LogInv, TypeOK, Active
    <2>3. /\ Len(lh) \in Nat /\ outstanding \in Nat
          /\ Len(lh) + (outstanding + 1) * MAXOPBLOCKS <= LOGSIZE
          /\ outstanding = 0 => Len(lh) = 0
      <3>1. committing = 0
        BY <1>4, Zenon DEF NoRoom, LogInv, TypeOK
      <3>2. outstanding = 0 => lh = <<>>
        BY <1>2, <3>1, ZenonT(40) DEF LogInv, CommitInv
      <3>3. Len(lh) \in Nat /\ outstanding \in Nat /\ (outstanding + 1) * MAXOPBLOCKS \in Nat
        BY SizeAssumption DEF LogInv, TypeOK
      <3> QED
        BY <1>4, <3>2, <3>3, SizeAssumption, SMTT(40) DEF NoRoom
    <2>4. Len(lh) + (outstanding + 1) * OpBlocks <= LOGSIZE - 2
      BY <2>3, Reserve, Zenon
    <2>5. IsFiniteSet(Active') /\ Cardinality(Active') = outstanding + 1
      BY <1>1, <1>4, ProcAssumption, ZenonT(40) DEF LogInv, ControlInv, Active, Counting, CountPart
    <2>6. /\ Cardinality(Tokens') \in Nat
          /\ Cardinality(Tokens') <= (outstanding + 1) * OpBlocks
      <3>1. Tokens' \subseteq Active' \X (1 .. OpBlocks)
        BY Zenon DEF Tokens
      <3> QED
        BY <2>5, <3>1, TokenBound, Zenon
    <2>7. Len(lh) + Cardinality(Tokens') <= LOGSIZE - 2
      <3>1. (outstanding + 1) * OpBlocks \in Nat
        BY <2>3, SizeAssumption
      <3> QED
        BY <2>3, <2>4, <2>6, <3>1, SizeAssumption, SMTT(40)
    <2> QED
      BY <1>2, <2>1, <2>2, <2>7, ZenonT(40) DEF SpaceInv, Logged
  <1> QED
    BY <1>3, <1>4, Zenon DEF BeginOp

(* log_write never panics, and a newly logged block costs its call a token. *)
LEMMA LogWriteSpace ==
  ASSUME Counting, Sizes, LogInv, SpaceInv, NEW p \in Proc, NEW b \in Block, NEW v \in Val,
         LogWrite(p, b, v)
  PROVE  SpaceInv'
  <1> DEFINE w == wrote[p]
             w2 == wrote[p] \cup {b}
             t == <<p, Cardinality(w) + 1>>
  <1>1. p \in Active /\ pc[p] = "op" /\ Cardinality(w2) <= OpBlocks
    BY Zenon DEF LogWrite, Active
  <1>2. /\ IsFiniteSet(w) /\ Cardinality(w) \in Nat /\ IsFiniteSet(w2)
        /\ Cardinality(w2) \in Nat
        /\ Cardinality(w2) = IF b \in w THEN Cardinality(w) ELSE Cardinality(w) + 1
    BY ZenonT(40) DEF SpaceInv, Counting, CountMore, CountNat
  <1>3. /\ IsFiniteSet(Tokens) /\ Cardinality(Tokens) \in Nat /\ Len(lh) \in Nat
        /\ Len(lh) + Cardinality(Tokens) <= LOGSIZE - 2
    <2>1. Tokens \subseteq Active \X (1 .. OpBlocks)
      BY Zenon DEF Tokens
    <2> QED
      BY <1>1, <2>1, ActiveFinite, TokenBound, SMTT(40) DEF SpaceInv, LogInv, TypeOK
  <1>4. ~LogWritePanics
    <2>1. outstanding >= 1
      <3>1. Cardinality(Active) # 0
        BY <1>1, ActiveFinite, Zenon DEF Counting, CountNone
      <3> QED
        BY <3>1 DEF LogInv, ControlInv, TypeOK
    <2>2. outstanding \in Nat
      BY Zenon DEF LogInv, TypeOK
    <2> QED
      BY <1>3, <2>1, <2>2, SizeAssumption, SMTT(40) DEF LogWritePanics, Sizes
  <1>5. /\ wrote' = [wrote EXCEPT ![p] = w2] /\ UNCHANGED pc
        /\ lh' = IF b \in Logged(lh) THEN lh ELSE Append(lh, b)
    BY <1>4, Zenon DEF LogWrite
  <1>6. Active' = Active /\ NeverPanics'
    BY <1>5, Zenon DEF Active, NeverPanics, SpaceInv
  <1>7. Logged(lh') = Logged(lh) \cup {b}
    <2>1. CASE b \in Logged(lh)
      BY <1>5, <2>1, Zenon
    <2>2. CASE b \notin Logged(lh)
      <3>1. Len(lh) < LogBlocks - 1
        BY <1>3, SizeAssumption DEF Sizes
      <3> QED
        BY <1>5, <2>2, <3>1, AppendWellFormed, ZenonT(40) DEF LogInv, TypeOK
    <2> QED
      BY <2>1, <2>2, Zenon
  <1>8. \A q \in Proc : wrote'[q] = IF q = p THEN w2 ELSE wrote[q]
    BY <1>5, Zenon DEF LogInv, TypeOK
  <1>9. Tokens' \subseteq Tokens
    <2>1. Tokens' = {u \in Active \X (1 .. OpBlocks) : u[2] > Cardinality(wrote'[u[1]])}
      BY <1>6, Zenon DEF Tokens
    <2>2. ASSUME NEW q \in Active, NEW k \in 1 .. OpBlocks, k > Cardinality(wrote'[q])
          PROVE  k > Cardinality(wrote[q])
      <3>1. q \in Proc /\ k \in Nat
        BY DEF Active
      <3> HIDE DEF w, w2
      <3>2. CASE q = p
        BY <1>2, <1>8, <2>2, <3>1, <3>2, SMTT(40) DEF w
      <3>3. CASE q # p
        BY <1>8, <2>2, <3>1, <3>3, Zenon
      <3> QED
        BY <3>2, <3>3, Zenon
    <2>3. ASSUME NEW u \in Tokens' PROVE u \in Tokens
      <3>1. PICK q \in Active, k \in 1 .. OpBlocks : u = <<q, k>>
        BY <2>1
      <3> QED
        BY <2>1, <2>2, <3>1, Zenon DEF Tokens
    <2> QED
      BY <2>3, Zenon
  <1>10. Len(lh') + Cardinality(Tokens') <= LOGSIZE - 2
    <2>1. IsFiniteSet(Tokens') /\ Cardinality(Tokens') \in Nat
          /\ Cardinality(Tokens') <= Cardinality(Tokens)
      BY <1>3, <1>9, Zenon DEF Counting, CountPart, CountNat
    <2>2. CASE lh' = lh
      BY <1>3, <2>1, <2>2, SizeAssumption, SMTT(40)
    <2>3. CASE b \notin Logged(lh) /\ lh' = Append(lh, b)
      <3>1. b \notin w
        BY <2>3, Zenon DEF SpaceInv
      <3>2. t \in Tokens
        <4>1. Cardinality(w) + 1 \in 1 .. OpBlocks
          BY <1>1, <1>2, <3>1, SizeAssumption, SMTT(40)
        <4> QED
          BY <1>1, <1>2, <4>1, SMTT(40) DEF Tokens
      <3>3. t \notin Tokens'
        <4>1. Cardinality(wrote'[p]) = Cardinality(w) + 1
          BY ZenonT(30), <1>2, <1>8, <3>1
        <4> QED
          BY <1>2, <4>1 DEF Tokens
      <3>4. Cardinality(Tokens') <= Cardinality(Tokens \ {t})
        <4>1. Tokens' \subseteq Tokens \ {t}
          BY <1>9, <3>3, Zenon
        <4>2. IsFiniteSet(Tokens \ {t})
          BY ZenonT(30), <1>3 DEF Counting, CountLess
        <4> QED
          BY <4>1, <4>2, Zenon DEF Counting, CountPart
      <3>5. Cardinality(Tokens \ {t}) = Cardinality(Tokens) - 1
        BY ZenonT(30), <1>3, <3>2 DEF Counting, CountLess
      <3>6. Len(lh') = Len(lh) + 1
        BY <2>3 DEF LogInv, TypeOK
      <3> QED
        BY <1>3, <2>1, <3>4, <3>5, <3>6, SizeAssumption, SMTT(40)
    <2> QED
      BY <1>5, <2>2, <2>3, Zenon
  <1>11. \A q \in Proc : /\ IsFiniteSet(wrote'[q])
                         /\ wrote'[q] \subseteq Logged(lh')
                         /\ q \notin Active' => wrote'[q] = {}
    BY ZenonT(30), <1>1, <1>2, <1>6, <1>7, <1>8 DEF SpaceInv
  <1> QED
    BY <1>6, <1>10, <1>11, Zenon DEF SpaceInv, Logged

(* end_op returns its call's tokens.                                        *)
LEMMA EndOpSpace ==
  ASSUME Counting, Sizes, LogInv, SpaceInv, NEW p \in Proc, EndOp(p)
  PROVE  SpaceInv'
  <1>1. /\ p \in Active /\ UNCHANGED lh
        /\ wrote' = [wrote EXCEPT ![p] = {}]
    BY Zenon DEF EndOp, Active
  <1>2. /\ pc'[p] # "panic" /\ pc'[p] # "op"
        /\ \A q \in Proc : q # p => (pc'[q] = pc[q] \/ (pc'[q] = "begin_op" /\ pc[q] = "asleep"))
    <2>1. committing # 1
      BY ActiveFacts DEF EndOp
    <2>2. CASE pc' = [pc EXCEPT ![p] = IF Len(lh) > 0 THEN "write_log" ELSE "commit_done"]
      <3>1. pc'[p] # "panic" /\ pc'[p] # "op"
        BY <2>2, Zenon DEF LogInv, TypeOK
      <3>2. \A q \in Proc : q # p => pc'[q] = pc[q]
        BY <2>2, Zenon DEF LogInv, TypeOK
      <3> QED
        BY <3>1, <3>2, Zenon
    <2>3. CASE pc' = [Wake(pc) EXCEPT ![p] = "out"]
      <3>1. \A q \in Proc : pc'[q] = IF q = p THEN "out"
                                   ELSE IF pc[q] = "asleep" THEN "begin_op" ELSE pc[q]
        BY <2>3, Zenon DEF Wake
      <3> QED
        BY <3>1, Zenon
    <2> QED
      BY <2>1, <2>2, <2>3, Zenon DEF EndOp
  <1>3. NeverPanics' /\ Active' = Active \ {p}
    BY <1>2, Zenon DEF NeverPanics, SpaceInv, Active
  <1>4. \A q \in Proc : wrote'[q] = IF q = p THEN {} ELSE wrote[q]
    BY <1>1, Zenon DEF LogInv, TypeOK
  <1>5. Tokens' \subseteq Tokens
    <2>1. ASSUME NEW q \in Active', NEW k \in 1 .. OpBlocks, k > Cardinality(wrote'[q])
          PROVE  q \in Active /\ k > Cardinality(wrote[q])
      <3>1. q \in Active /\ q # p
        BY <1>3, Zenon
      <3>2. q \in Proc
        BY <3>1, Zenon DEF Active
      <3> QED
        BY <1>4, <2>1, <3>1, <3>2, Zenon
    <2>2. ASSUME NEW u \in Tokens' PROVE u \in Tokens
      <3>1. PICK q \in Active', k \in 1 .. OpBlocks :
              u = <<q, k>> /\ k > Cardinality(wrote'[q])
        BY DEF Tokens
      <3> QED
        BY <2>1, <3>1, Zenon DEF Tokens
    <2> QED
      BY <2>2, Zenon
  <1>6. Active' # {} => Len(lh') + Cardinality(Tokens') <= LOGSIZE - 2
    <2>1. Tokens \subseteq Active \X (1 .. OpBlocks)
      BY Zenon DEF Tokens
    <2>2. IsFiniteSet(Tokens) /\ Cardinality(Tokens) \in Nat
      BY <2>1, ActiveFinite, TokenBound, Zenon
    <2>3. Cardinality(Tokens') \in Nat /\ Cardinality(Tokens') <= Cardinality(Tokens)
      BY <1>5, <2>2, Zenon DEF Counting, CountPart, CountNat
    <2>4. Len(lh) \in Nat
      BY DEF LogInv, TypeOK
    <2> QED
      BY <1>1, <2>2, <2>3, <2>4, SizeAssumption DEF SpaceInv
  <1>7. \A q \in Proc : /\ IsFiniteSet(wrote'[q])
                        /\ wrote'[q] \subseteq Logged(lh')
                        /\ q \notin Active' => wrote'[q] = {}
    BY <1>1, <1>3, <1>4 DEF SpaceInv, Counting, CountNone
  <1> QED
    BY <1>3, <1>6, <1>7, Zenon DEF SpaceInv, Logged

(* Steps taken while no call is active cannot run the log out of space.     *)
LEMMA IdleSpace ==
  ASSUME Counting, SpaceInv, Active = {}, Active' = {}, UNCHANGED wrote, NeverPanics'
  PROVE  SpaceInv'
  <1>1. \A p \in Proc : wrote[p] = {}
    BY Zenon DEF SpaceInv
  <1> QED
    BY <1>1, Zenon DEF SpaceInv, Counting, CountNone

(* commit and recovery run while no call is active.                         *)
LEMMA CommitSpace ==
  ASSUME Counting, LogInv, LogInv', SpaceInv, Recovery \/ \E p \in Proc : CommitStep(p)
  PROVE  SpaceInv'
  <1>1. ASSUME NEW p \in Proc, CommitStep(p) PROVE SpaceInv'
    <2>1. pc[p] \in CommitPc /\ UNCHANGED wrote
      BY <1>1, Zenon DEF CommitStep, WriteLog, WriteHead, InstallTrans, ClearHead, CommitDone, CommitPc
    <2>2. Active = {}
      BY <2>1, CommitterFacts, Zenon
    <2>3. \A q \in Proc : pc'[q] \notin {"op", "panic"}
      <3>1. CASE CommitDone(p)
        BY <2>2, <3>1, Zenon DEF CommitDone, Wake, Active
      <3>2. CASE WriteLog(p)
        BY <2>2, <3>2, ZenonT(40) DEF WriteLog, Active, LogInv, TypeOK
      <3>3. CASE WriteHead(p)
        BY <2>2, <3>3, ZenonT(40) DEF WriteHead, Active, LogInv, TypeOK
      <3>4. CASE InstallTrans(p)
        BY <2>2, <3>4, ZenonT(40) DEF InstallTrans, Active, LogInv, TypeOK
      <3>5. CASE ClearHead(p)
        BY <2>2, <3>5, Zenon DEF ClearHead, Active, LogInv, TypeOK
      <3> QED
        BY <1>1, <3>1, <3>2, <3>3, <3>4, <3>5, Zenon DEF CommitStep
    <2> QED
      BY <2>1, <2>2, <2>3, IdleSpace, Zenon DEF Active, NeverPanics
  <1>2. ASSUME Recovery PROVE SpaceInv'
    <2>1. boot # "up" /\ UNCHANGED <<pc, wrote>>
      BY <1>2, Zenon DEF Recovery, ReadHead, RecoverBlock, RecoverDone
    <2>2. Active = {} /\ Active' = {} /\ NeverPanics'
      BY <2>1, BootFacts, Zenon DEF Active, NeverPanics
    <2> QED
      BY <2>1, <2>2, IdleSpace, Zenon
  <1> QED
    BY <1>1, <1>2, Zenon

(* The space invariant holds from the first boot on.                        *)
LEMMA InitSpace ==
  ASSUME Counting, Init
  PROVE  SpaceInv
  <1>1. Active = {}
    BY Zenon DEF Init, Active
  <1> QED
    BY <1>1, Zenon DEF Init, SpaceInv, NeverPanics, Counting, CountNone

(* Every step preserves SpaceInv.                                           *)
LEMMA NextSpace ==
  ASSUME Counting, Sizes, LogInv, LogInv', SpaceInv, [Next]_vars
  PROVE  SpaceInv'
  <1>1. ASSUME NEW p \in Proc, BeginOp(p) PROVE SpaceInv'
    BY <1>1, BeginOpSpace, Zenon
  <1>2. ASSUME NEW p \in Proc, NEW b \in Block, NEW v \in Val, LogWrite(p, b, v)
        PROVE  SpaceInv'
    BY <1>2, LogWriteSpace, Zenon
  <1>3. ASSUME NEW p \in Proc, EndOp(p) PROVE SpaceInv'
    BY <1>3, EndOpSpace, Zenon
  <1>4. ASSUME Recovery \/ \E p \in Proc : CommitStep(p) PROVE SpaceInv'
    BY <1>4, CommitSpace, Zenon
  <1>5. ASSUME UNCHANGED <<lh, pc, wrote>> PROVE SpaceInv'
    <2>1. Active' = Active
      BY <1>5, Zenon DEF Active
    <2>2. Tokens' = Tokens
      BY <1>5, <2>1, Zenon DEF Tokens
    <2> QED
      BY <1>5, <2>1, <2>2, ZenonT(40) DEF SpaceInv, NeverPanics, Logged
  <1>6. ASSUME Crash PROVE SpaceInv'
    <2>1. Active' = {}
      BY <1>6, Zenon DEF Crash, Active
    <2> QED
      BY <1>6, <2>1, Zenon DEF Crash, SpaceInv, NeverPanics, Counting, CountNone
  <1>7. ASSUME NEW b \in Block, Bread(b) \/ Recycle(b) PROVE SpaceInv'
    BY <1>5, <1>7, Zenon DEF Bread, Recycle
  <1>8. ASSUME UNCHANGED vars PROVE SpaceInv'
    BY <1>5, <1>8, Zenon DEF vars
  <1> QED
    BY <1>1, <1>2, <1>3, <1>4, <1>6, <1>7, <1>8, ZenonT(40) DEF Next, CommitStep, Recovery
-----------------------------------------------------------------------------
(***************************************************************************)
(* Log implements AtomicFs: initial states map to initial states, and each *)
(* step of the log maps to a step of the abstract disk or to a stutter.    *)
(* The durable contents change only at write_head, while no call is        *)
(* active, and become at once what processes read.                         *)
(***************************************************************************)

(* The value Log gives to AtomicFs's variable current.                      *)
Current == IF boot = "up" THEN [b \in Block |-> View(b)] ELSE Recovered

(* What recovery reads back, block by block.                                *)
LEMMA RecoveredAt ==
  ASSUME head \in Seq(Block), WellFormed(head)
  PROVE  /\ \A i \in 1 .. Len(head) : Recovered[head[i]] = logdata[i]
         /\ \A b \in Block : b \notin Logged(head) => Recovered[b] = home[b]
         /\ Recovered = [b \in Block |-> Recovered[b]]
  <1>1. ASSUME NEW i \in 1 .. Len(head) PROVE Recovered[head[i]] = logdata[i]
    <2>1. head[i] \in Block /\ head[i] \in Logged(head)
      BY DEF Logged
    <2>2. (CHOOSE j \in 1 .. Len(head) : head[j] = head[i]) = i
      BY Zenon DEF WellFormed
    <2> QED
      BY ZenonT(30), <2>1, <2>2 DEF Recovered
  <1>2. ASSUME NEW b \in Block, b \notin Logged(head) PROVE Recovered[b] = home[b]
    BY <1>2, Zenon DEF Recovered
  <1>3. Recovered = [b \in Block |-> Recovered[b]]
    BY DEF Recovered
  <1> QED
    BY <1>1, <1>2, <1>3, Zenon

(* With an empty header on disk, recovery changes nothing.                  *)
LEMMA RecoveredEmpty ==
  ASSUME home \in [Block -> Val], head = <<>>
  PROVE  Recovered = home
  <1>1. Logged(head) = {}
    BY EmptyLog DEF Logged
  <1> QED
    BY <1>1, Zenon DEF Recovered

(* Once every logged block is home, recovery changes nothing either.        *)
LEMMA RecoveredInstalled ==
  ASSUME LogInv, head = lh, HomeTo(Len(lh))
  PROVE  Recovered = home
  <1>1. \A i \in 1 .. Len(head) : Recovered[head[i]] = home[head[i]]
    BY RecoveredAt, SMTT(40) DEF LogInv, TypeOK, HomeTo
  <1>2. ASSUME NEW b \in Block PROVE Recovered[b] = home[b]
    <2>1. CASE b \in Logged(head)
      <3>1. PICK i \in 1 .. Len(head) : head[i] = b
        BY <2>1, Zenon DEF Logged
      <3> QED
        BY <1>1, <3>1, Zenon
    <2>2. CASE b \notin Logged(head)
      <3>1. head \in Seq(Block) /\ WellFormed(head)
        BY Zenon DEF LogInv, TypeOK
      <3> QED
        BY <2>2, <3>1, RecoveredAt, ZenonT(40)
    <2> QED
      BY <2>1, <2>2, Zenon
  <1>3. Recovered = [b \in Block |-> Recovered[b]]
    BY RecoveredAt, Zenon DEF LogInv, TypeOK
  <1> QED
    BY <1>2, <1>3, ZenonT(40) DEF LogInv, TypeOK

(* Steps that leave disk and buffers alone change neither disk image.       *)
LEMMA SameImages ==
  ASSUME UNCHANGED <<home, logdata, head, cache, boot>>
  PROVE  UNCHANGED <<Recovered, Current>>
  BY DEF Recovered, Current, View

(* begin_op admits a call, or only puts it to sleep.                        *)
LEMMA BeginOpRefines ==
  ASSUME LogInv, NEW p \in Proc, BeginOp(p)
  PROVE  /\ UNCHANGED <<Recovered, Current>>
         /\ Active' = Active \/ (p \notin Active /\ Active' = Active \cup {p})
  <1>1. UNCHANGED <<Recovered, Current>>
    BY SameImages, Zenon DEF BeginOp, disk
  <1>2. CASE pc' = [pc EXCEPT ![p] = "asleep"]
    BY <1>1, <1>2, ZenonT(40) DEF BeginOp, LogInv, TypeOK, Active
  <1>3. CASE pc' = [pc EXCEPT ![p] = "op"]
    BY <1>1, <1>3, ZenonT(40) DEF BeginOp, LogInv, TypeOK, Active
  <1> QED
    BY <1>2, <1>3, Zenon DEF BeginOp

(* log_write changes what processes read, at one block, and nothing durable. *)
LEMMA LogWriteRefines ==
  ASSUME LogInv, NEW p \in Proc, NEW b \in Block, NEW v \in Val, LogWrite(p, b, v)
  PROVE  /\ p \in Active /\ UNCHANGED <<Recovered, Active>>
         /\ Current' = Current \/ Current' = [Current EXCEPT ![b] = v]
  <1>1. p \in Active /\ boot = "up" /\ boot' = "up" /\ UNCHANGED disk
    BY Zenon DEF LogWrite, Up, Active
  <1>2. Recovered' = Recovered
    BY <1>1 DEF Recovered, disk
  <1>3. CASE pc' = [pc EXCEPT ![p] = "panic"] /\ UNCHANGED cache
    <2>1. Active' = Active
      BY <1>3, Zenon DEF LogWrite, LogInv, TypeOK, Active
    <2>2. Current' = Current
      BY <1>1, <1>2, <1>3, Zenon DEF Current, View, disk
    <2> QED
      BY <1>1, <1>2, <2>1, <2>2, Zenon
  <1>4. CASE UNCHANGED pc /\ cache' = [cache EXCEPT ![b] = v]
    <2>1. Active' = Active
      BY <1>4, Zenon DEF Active
    <2>2. Current' = [Current EXCEPT ![b] = v]
      BY ZenonT(30), <1>1, <1>4, ValAssumption DEF Current, View, disk, LogInv, TypeOK
    <2> QED
      BY <1>1, <1>2, <2>1, <2>2, Zenon
  <1> QED
    BY <1>3, <1>4, Zenon DEF LogWrite

(* end_op ends a call, whether or not it starts a commit.                   *)
LEMMA EndOpRefines ==
  ASSUME LogInv, NEW p \in Proc, EndOp(p)
  PROVE  p \in Active /\ Active' = Active \ {p} /\ UNCHANGED <<Recovered, Current>>
  <1>1. p \in Active /\ UNCHANGED <<Recovered, Current>>
    BY SameImages, Zenon DEF EndOp, disk, Active
  <1>2. committing # 1
    BY ActiveFacts DEF EndOp
  <1>3. CASE pc' = [pc EXCEPT ![p] = IF Len(lh) > 0 THEN "write_log" ELSE "commit_done"]
    BY <1>1, <1>3, Zenon DEF LogInv, TypeOK, Active
  <1>4. CASE pc' = [Wake(pc) EXCEPT ![p] = "out"]
    <2>1. \A q \in Proc : pc'[q] = IF q = p THEN "out"
                                 ELSE IF pc[q] = "asleep" THEN "begin_op" ELSE pc[q]
      BY <1>4, Zenon DEF Wake
    <2> QED
      BY <1>1, <2>1, Zenon DEF Active
  <1> QED
    BY <1>2, <1>3, <1>4, Zenon DEF EndOp
-----------------------------------------------------------------------------
(* No call is active at any step of a commit.                               *)
LEMMA CommitIdle ==
  ASSUME Counting, LogInv, LogInv', NEW p \in Proc, pc[p] \in CommitPc, UNCHANGED committing
  PROVE  boot = "up" /\ Active = {} /\ Active' = {}
  <1>1. boot = "up" /\ Active = {} /\ committing = 1
    BY CommitterFacts, Zenon
  <1> QED
    BY <1>1, Zenon DEF LogInv, ControlInv

(* write_log writes log blocks no header names yet: nothing changes.        *)
LEMMA WriteLogRefines ==
  ASSUME Counting, LogInv, NEW p \in Proc, WriteLog(p)
  PROVE  UNCHANGED <<Recovered, Current, Active>>
  <1>1. pc[p] \in CommitPc /\ UNCHANGED <<home, head, lh, pins, boot, committing>>
    BY Zenon DEF WriteLog, CommitPc
  <1>2. boot = "up" /\ UNCHANGED Active
    BY <1>1, WriteLogInv, CommitIdle, ZenonT(40)
  <1>3. head = <<>>
    BY Zenon DEF WriteLog, LogInv, CommitInv
  <1>4. Recovered' = Recovered
    <2>1. Logged(head) = {}
      BY <1>3, EmptyLog DEF Logged
    <2> QED
      BY <1>1, <2>1, Zenon DEF Recovered
  <1>5. \A b \in Block : View(b)' = View(b)
    <2>1. \A b \in Block : cache'[b] = IF b = lh[tail + 1] THEN View(b) ELSE cache[b]
      BY Zenon DEF WriteLog, LogInv, TypeOK
    <2> QED
      BY <1>1, <2>1, Zenon DEF View
  <1> QED
    BY <1>1, <1>2, <1>4, <1>5, Zenon DEF Current

(* write_head is the commit: what processes read becomes durable at once.   *)
LEMMA WriteHeadRefines ==
  ASSUME Counting, LogInv, NEW p \in Proc, WriteHead(p)
  PROVE  Active = {} /\ Recovered' = Current /\ UNCHANGED <<Current, Active>>
  <1>1. /\ pc[p] = "write_head" /\ pc[p] \in CommitPc /\ head' = lh
        /\ UNCHANGED <<home, logdata, cache, lh, boot, committing>>
    BY Zenon DEF WriteHead, CommitPc
  <1>2. LogInv'
    BY WriteHeadInv, Zenon
  <1>3. boot = "up" /\ Active = {} /\ Active' = {}
    BY <1>1, <1>2, CommitIdle, ZenonT(40)
  <1>4. Pending = Logged(lh) /\ CopiedTo(Len(lh))
    BY <1>1, CommitterFacts, ZenonT(40) DEF Pending, Logged, LogInv, CommitInv
  <1>5. Current = [b \in Block |-> View(b)] /\ Current' = Current
    BY <1>1, <1>3, Zenon DEF Current, View
  <1>6. ASSUME NEW b \in Block PROVE Recovered'[b] = View(b)
    <2>1. CASE b \in Logged(lh)
      <3>1. PICK i \in 1 .. Len(lh) : b = lh[i]
        BY <2>1, Zenon DEF Logged
      <3>2. View(b) = cache[b]
        BY <1>3, <1>4, <2>1, ZenonT(40) DEF LogInv, CacheInv, View
      <3>3. Recovered'[lh[i]] = logdata[i]
        <4>1. (CHOOSE j \in 1 .. Len(lh) : lh[j] = lh[i]) = i
          BY Zenon DEF LogInv, WellFormed
        <4>2. lh[i] \in Block /\ lh[i] \in Logged(lh) /\ Logged(head') = Logged(lh)
          BY <1>1, <2>1, <3>1, Zenon DEF Logged
        <4> QED
          BY ZenonT(30), <1>1, <4>1, <4>2 DEF Recovered
      <3> QED
        BY <1>4, <3>1, <3>2, <3>3, Zenon DEF CopiedTo
    <2>2. CASE b \notin Logged(lh)
      <3>1. View(b) = home[b]
        BY <1>4, <2>2, ZenonT(40) DEF LogInv, CacheInv, View
      <3> QED
        BY <1>1, <2>2, <3>1, Zenon DEF Recovered, Logged
    <2> QED
      BY <2>1, <2>2, Zenon
  <1>7. Recovered' = [b \in Block |-> Recovered'[b]]
    BY DEF Recovered
  <1> QED
    BY <1>3, <1>5, <1>6, <1>7, Zenon

(* Installing a block the header names changes neither image.               *)
LEMMA InstallRecovered ==
  ASSUME LogInv, head = lh, tail < Len(lh), InstallBlock, UNCHANGED <<logdata, head>>
  PROVE  Recovered' = Recovered
  <1>1. lh[tail + 1] \in Logged(head)
    BY DEF LogInv, TypeOK, Logged
  <1>2. \A b \in Block : b \notin Logged(head) => home'[b] = home[b]
    BY <1>1, Zenon DEF InstallBlock, LogInv, TypeOK
  <1> QED
    BY <1>2, SMTT(40) DEF Recovered, Logged

(* install_trans(0) writes home what the log already makes durable.         *)
LEMMA InstallTransRefines ==
  ASSUME Counting, LogInv, NEW p \in Proc, InstallTrans(p)
  PROVE  UNCHANGED <<Recovered, Current, Active>>
  <1>1. /\ pc[p] = "install_trans" /\ pc[p] \in CommitPc /\ InstallBlock
        /\ UNCHANGED <<logdata, head, lh, boot, committing>>
    BY Zenon DEF InstallTrans, CommitPc
  <1>2. boot = "up" /\ UNCHANGED Active
    BY <1>1, InstallTransInv, CommitIdle, ZenonT(40)
  <1>3. /\ head = lh /\ tail < Len(lh)
        /\ \A i \in (tail + 1) .. Len(lh) : logdata[i] = cache[lh[i]]
    BY <1>1, ZenonT(40) DEF LogInv, CommitInv
  <1>4. Recovered' = Recovered
    BY <1>1, <1>3, InstallRecovered, ZenonT(40)
  <1>5. /\ tail + 1 \in 1 .. Len(lh) /\ lh[tail + 1] \in Block
        /\ tail + 1 \in LogSlot /\ logdata[tail + 1] = cache[lh[tail + 1]]
    <2>1. /\ lh \in Seq(Block) /\ Len(lh) \in Nat /\ Len(lh) <= LogBlocks - 1
          /\ tail \in Nat /\ LogBlocks \in Nat
      BY SizeAssumption, SMTT(40) DEF LogInv, TypeOK, WellFormed
    <2>2. tail + 1 \in 1 .. Len(lh) /\ tail + 1 \in (tail + 1) .. Len(lh) /\ tail + 1 \in LogSlot
      BY <1>3, <2>1 DEF LogSlot
    <2>3. lh[tail + 1] \in Block
      BY <2>1, <2>2
    <2> QED
      BY <1>3, <2>2, <2>3, ZenonT(40)
  <1>6. cache[lh[tail + 1]] # NotCached
    BY <1>5, ValAssumption, ZenonT(40) DEF LogInv, TypeOK
  <1>7. \A b \in Block : View(b)' = View(b)
    BY <1>1, <1>5, <1>6, ZenonT(40) DEF View, InstallBlock, LogInv, TypeOK
  <1> QED
    BY <1>1, <1>2, <1>4, <1>7, Zenon DEF Current

(* Erasing the header loses nothing: every block it named is home.          *)
LEMMA ClearHeadRefines ==
  ASSUME Counting, LogInv, NEW p \in Proc, ClearHead(p)
  PROVE  UNCHANGED <<Recovered, Current, Active>>
  <1>1. /\ pc[p] = "clear_head" /\ pc[p] \in CommitPc /\ head' = <<>>
        /\ UNCHANGED <<home, cache, boot, committing>>
    BY Zenon DEF ClearHead, CommitPc
  <1>2. LogInv'
    BY ClearHeadInv, Zenon
  <1>3. boot = "up" /\ UNCHANGED Active
    BY <1>1, <1>2, CommitIdle, ZenonT(40)
  <1>4. Recovered = home
    BY <1>1, RecoveredInstalled, ZenonT(40) DEF LogInv, CommitInv
  <1>5. Recovered' = home'
    <2>1. Logged(head') = {}
      BY <1>1, EmptyLog, SMTT(40) DEF Logged
    <2> QED
      BY <1>2, <2>1, ZenonT(40) DEF Recovered, LogInv, TypeOK
  <1> QED
    BY <1>1, <1>3, <1>4, <1>5, Zenon DEF Current, View

(* The end of a commit only opens the log again.                            *)
LEMMA CommitDoneRefines ==
  ASSUME LogInv, NEW p \in Proc, CommitDone(p)
  PROVE  UNCHANGED <<Recovered, Current, Active>>
  <1>1. UNCHANGED <<Recovered, Current>>
    BY SameImages, Zenon DEF CommitDone, disk
  <1>2. \A q \in Proc : pc'[q] = IF q = p THEN "out"
                                ELSE IF pc[q] = "asleep" THEN "begin_op" ELSE pc[q]
    BY Zenon DEF CommitDone, Wake
  <1> QED
    BY <1>1, <1>2 DEF Active, CommitDone
-----------------------------------------------------------------------------
(* Recovery reads the header ...                                            *)
LEMMA ReadHeadRefines ==
  ASSUME LogInv, ReadHead
  PROVE  UNCHANGED <<Recovered, Current, Active>>
  BY DEF ReadHead, disk, Recovered, Current, Active

(* ... installs each block it names, however often it is interrupted ...    *)
LEMMA RecoverBlockRefines ==
  ASSUME LogInv, RecoverBlock
  PROVE  UNCHANGED <<Recovered, Current, Active>>
  <1>1. Recovered' = Recovered
    BY InstallRecovered, Zenon DEF RecoverBlock, LogInv, RecoveryInv
  <1> QED
    BY <1>1, Zenon DEF RecoverBlock, Current, Active

(* ... and erases it, leaving processes to read what is on the home blocks. *)
LEMMA RecoverDoneRefines ==
  ASSUME Counting, LogInv, RecoverDone
  PROVE  UNCHANGED <<Recovered, Current, Active>>
  <1>1. /\ boot = "clear_head" /\ boot' = "up" /\ head' = <<>>
        /\ UNCHANGED <<home, cache, pc>>
    BY Zenon DEF RecoverDone
  <1>2. LogInv'
    BY RecoverDoneInv, Zenon
  <1>3. Recovered = home
    BY <1>1, RecoveredInstalled, ZenonT(40) DEF LogInv, RecoveryInv
  <1>4. Recovered' = home'
    <2>1. Logged(head') = {}
      BY <1>1, EmptyLog DEF Logged
    <2> QED
      BY <1>2, <2>1, ZenonT(40) DEF Recovered, LogInv, TypeOK
  <1>5. \A b \in Block : View(b)' = home[b]
    BY <1>1, BootFacts, Zenon DEF View
  <1>6. Current' = home
    BY <1>1, <1>5, ZenonT(40) DEF Current, LogInv, TypeOK
  <1> QED
    BY <1>1, <1>3, <1>4, <1>6, Zenon DEF Current, Active

(* bread and bget's recycling never change what a process reads.            *)
LEMMA CacheRefines ==
  ASSUME LogInv, NEW b \in Block, Bread(b) \/ Recycle(b)
  PROVE  UNCHANGED <<Recovered, Current, Active>>
  <1>1. UNCHANGED <<home, logdata, head, pc, boot>>
    BY Zenon DEF Bread, Recycle, disk
  <1>2. UNCHANGED <<Recovered, Active>>
    BY <1>1 DEF Recovered, Active
  <1>3. ASSUME NEW c \in Block, boot = "up" PROVE View(c)' = View(c)
    <2>1. CASE Bread(b)
      BY <1>1, <1>3, <2>1, ZenonT(40) DEF Bread, View, LogInv, TypeOK
    <2>2. CASE Recycle(b)
      <3>1. cache[b] = home[b]
        BY <2>2, SMTT(40) DEF Recycle, LogInv, CacheInv
      <3> QED
        BY <1>1, <2>2, <3>1, ZenonT(40) DEF Recycle, View, LogInv, TypeOK
    <2> QED
      BY <2>1, <2>2, Zenon
  <1> QED
    BY <1>1, <1>2, <1>3, Zenon DEF Current

(* A crash loses what is not durable, and ends every call.                  *)
LEMMA CrashRefines ==
  ASSUME LogInv, Crash
  PROVE  Recovered' = Recovered /\ Current' = Recovered /\ Active' = {}
  BY DEF Crash, disk, Recovered, Current, Active

(* Switched on for the first time, processes will read what mkfs wrote.     *)
LEMMA InitRefines ==
  ASSUME Init
  PROVE  Recovered \in [Block -> Val] /\ Current = Recovered /\ Active = {}
  <1>1. Recovered = home
    BY RecoveredEmpty, Zenon DEF Init
  <1> QED
    BY <1>1, Zenon DEF Init, Current, Active

(* Every step is a step of the atomic disk or changes nothing it shows.     *)
LEMMA NextRefines ==
  ASSUME Counting, LogInv, [Next]_vars
  PROVE  Atomic!AbsNext \/ UNCHANGED <<Recovered, Current, Active>>
  <1>1. ASSUME NEW p \in Proc, BeginOp(p)
        PROVE  Atomic!AbsNext \/ UNCHANGED <<Recovered, Current, Active>>
    BY <1>1, BeginOpRefines, Zenon DEF Atomic!AbsNext, Atomic!Begin, Current, Active
  <1>2. ASSUME NEW p \in Proc, NEW b \in Block, NEW v \in Val, LogWrite(p, b, v)
        PROVE  Atomic!AbsNext \/ UNCHANGED <<Recovered, Current, Active>>
    <2>1. CASE Current' = Current
      BY <1>2, <2>1, LogWriteRefines, Zenon
    <2>2. CASE Current' = [Current EXCEPT ![b] = v]
      <3>1. Atomic!Write(p, b, v)
        <4>1. p \in Active /\ UNCHANGED <<Recovered, Active>>
          BY <1>2, LogWriteRefines, Zenon
        <4> QED
          BY <2>2, <4>1, Zenon DEF Atomic!Write, Current, Active
      <3> QED
        BY <3>1, Zenon DEF Atomic!AbsNext
    <2> QED
      BY <1>2, <2>1, <2>2, LogWriteRefines, Zenon
  <1>3. ASSUME NEW p \in Proc, EndOp(p)
        PROVE  Atomic!AbsNext
    BY <1>3, EndOpRefines, Zenon DEF Atomic!AbsNext, Atomic!End, Current, Active
  <1>4. ASSUME NEW p \in Proc, WriteHead(p)
        PROVE  Atomic!AbsNext
    BY <1>4, WriteHeadRefines, Zenon DEF Atomic!AbsNext, Atomic!Commit, Current, Active
  <1>5. ASSUME NEW p \in Proc,
               WriteLog(p) \/ InstallTrans(p) \/ ClearHead(p) \/ CommitDone(p)
        PROVE  UNCHANGED <<Recovered, Current, Active>>
    BY <1>5, WriteLogRefines, InstallTransRefines, ClearHeadRefines, CommitDoneRefines, Zenon
  <1>6. ASSUME Recovery
        PROVE  UNCHANGED <<Recovered, Current, Active>>
    BY <1>6, ReadHeadRefines, RecoverBlockRefines, RecoverDoneRefines, Zenon DEF Recovery
  <1>7. ASSUME NEW b \in Block, Bread(b) \/ Recycle(b)
        PROVE  UNCHANGED <<Recovered, Current, Active>>
    BY <1>7, CacheRefines, Zenon
  <1>8. ASSUME Crash
        PROVE  Atomic!AbsNext
    BY <1>8, CrashRefines, Zenon DEF Atomic!AbsNext, Atomic!Crash, Current, Active
  <1>9. ASSUME UNCHANGED vars
        PROVE  UNCHANGED <<Recovered, Current, Active>>
    BY <1>9, SameImages, Zenon DEF vars, Active
  <1> QED
    BY <1>1, <1>2, <1>3, <1>4, <1>5, <1>6, <1>7, <1>8, <1>9, ZenonT(40) DEF Next, Recovery

-----------------------------------------------------------------------------
(* The theorems.                                                            *)
INSTANCE FiniteSetTheorems

(* The library proves what was assumed about finite sets.                   *)
LEMMA CountingHolds == Counting
  <1>1. CountNat /\ CountNone
    BY FS_CardinalityType, FS_EmptySet, Zenon DEF CountNat, CountNone
  <1>2. CountMore /\ CountLess
    BY FS_AddElement, FS_RemoveElement, Zenon DEF CountMore, CountLess
  <1>3. CountPart /\ CountPairs
    BY FS_Subset, FS_Product, Zenon DEF CountPart, CountPairs
  <1>4. CountRange
    BY FS_Interval DEF CountRange
  <1> QED
    BY <1>1, <1>2, <1>3, <1>4, ZenonT(40) DEF Counting

(* LogInv holds in every state the log can reach, whatever the interleaving *)
(* of calls and wherever the machine stops.                                 *)
THEOREM LogInvariant == Spec => []LogInv
  <1>1. LogInv /\ [Next]_vars => LogInv'
    BY NextInv, CountingHolds, Zenon
  <1>2. Init => LogInv
    BY InitInv, CountingHolds, Zenon
  <1> QED
    BY <1>1, <1>2, PTL DEF Spec

(* log.c's memory and disk state is always of its type: in particular no    *)
(* bunpin ever takes a pin count below zero.                                *)
THEOREM TypeCorrect == Spec => []TypeOK
  <1>1. LogInv => TypeOK
    BY ZenonT(40) DEF LogInv
  <1> QED
    BY <1>1, LogInvariant, PTL

(* The buffer of a logged block stays pinned until install_trans has        *)
(* written the block home, and no longer.                                   *)
THEOREM PinsHold == Spec => []PinnedUntilInstalled
  <1>1. LogInv => PinnedUntilInstalled
    BY ZenonT(40) DEF LogInv, CacheInv, PinnedUntilInstalled
  <1> QED
    BY <1>1, LogInvariant, PTL

(* Between group commits the disk holds everything processes have seen.     *)
THEOREM QuiescentDurable == Spec => []QuiescentIsDurable
  <1>1. LogInv => QuiescentIsDurable
    <2> SUFFICES ASSUME LogInv, boot = "up", outstanding = 0, committing = 0
                 PROVE  head = <<>> /\ \A b \in Block : home[b] = View(b)
      BY Zenon DEF QuiescentIsDurable
    <2>1. head = <<>> /\ lh = <<>>
      BY Zenon DEF LogInv, CommitInv
    <2>2. Pending = {}
      BY <2>1, EmptyLog, SMTT(40) DEF Pending
    <2> QED
      BY <2>1, <2>2, ZenonT(40) DEF LogInv, CacheInv, View
  <1> QED
    BY <1>1, LogInvariant, PTL

(* The three together: the log is sound in every reachable state, crashes   *)
(* and recoveries included, for any number of processes and blocks.         *)
THEOREM LogAlwaysSound == Spec => []LogSound
  <1>1. TypeOK /\ PinnedUntilInstalled /\ QuiescentIsDurable => LogSound
    BY Zenon DEF LogSound
  <1> QED
    BY <1>1, TypeCorrect, PinsHold, QuiescentDurable, PTL

(* With sizes as mkfs and param.h set them, and calls that log fewer blocks *)
(* than are reserved for them, log_write and end_op never panic, however    *)
(* many processes make calls and wherever the machine stops.                *)
THEOREM EnoughSpace ==
  ASSUME Sizes
  PROVE  Spec => []NeverPanics
  <1>1. LogInv /\ LogInv' /\ SpaceInv /\ [Next]_vars => SpaceInv'
    BY NextSpace, CountingHolds, Zenon
  <1>2. SpaceInv => NeverPanics
    BY Zenon DEF SpaceInv
  <1>3. Init => SpaceInv
    BY InitSpace, CountingHolds, ZenonT(40)
  <1> QED
    BY <1>1, <1>2, <1>3, LogInvariant, PTL DEF Spec

(* The log implements the atomic disk: for every number of processes and    *)
(* blocks and every size of the log, whole groups of calls become durable   *)
(* in one step, and a crash at any disk write loses only uncommitted calls. *)
THEOREM LogIsAtomic == Spec => AtomicCommit
  <1>1. Init => Atomic!AbsInit
    BY InitRefines, Zenon DEF Atomic!AbsInit, Current, Active
  <1>2. LogInv /\ [Next]_vars => [Atomic!AbsNext]_(Atomic!absVars)
    BY NextRefines, CountingHolds, Zenon DEF Atomic!absVars, Current, Active
  <1> QED
    BY <1>1, <1>2, LogInvariant, PTL DEF Spec, AtomicCommit, Atomic!AbsSpec

=============================================================================
