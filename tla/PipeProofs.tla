----------------------------- MODULE PipeProofs -----------------------------
(***************************************************************************)
(* The pipe for any number of readers and writers and any size: its page   *)
(* is not used after it is freed, no wakeup is lost as long as writers are *)
(* not killed, and its bytes come out in the order they went in.           *)
(***************************************************************************)
EXTENDS Pipe, RingArith

-----------------------------------------------------------------------------
(* Who is inside the critical section of pi->lock.                          *)
Inside == {"write", "write_sleep", "read", "read_copy", "read_sleep"}

WritePc == {"write_lock", "write", "write_sleep", "write_asleep"}

ReadPc == {"read_lock", "read", "read_copy", "read_sleep", "read_asleep"}

(* One process at a time is inside, with its end of the pipe open; an end   *)
(* is closed only when no descriptor refers to it.                          *)
EndsInv ==
  /\ TypeOK
  /\ \A p \in Proc : pc[p] \in Inside <=> lock = p
  /\ \A p \in Proc : /\ pc[p] \in WritePc => p \in Writer
                     /\ pc[p] \in ReadPc => p \in Reader
                     /\ pc[p] # "out" => p \in open
  /\ readopen = 0 => open \cap Reader = {}
  /\ writeopen = 0 => open \cap Writer = {}
  /\ freed => readopen = 0 /\ writeopen = 0

(* A process that is asleep, or about to sleep, has a reason to, unless the *)
(* one that took the reason away is still inside and will wake it.          *)
SleepInv ==
  /\ \A p \in Proc : killed[p] => p \in Killable
  /\ \A p \in Proc : pc[p] = "read_sleep" => Empty /\ writeopen = 1
  /\ \A p \in Proc : pc[p] = "write_sleep" => Full /\ readopen = 1
  /\ \A p \in Proc : pc[p] = "read_asleep" =>
       (Empty /\ writeopen = 1) \/ \E q \in Proc : pc[q] = "write"
  /\ \A p \in Proc : pc[p] = "write_asleep" =>
       (Full /\ readopen = 1) \/ \E q \in Proc : pc[q] = "read_copy"

-----------------------------------------------------------------------------
(* The counters of type uint stay below the modulus when they wrap.         *)
LEMMA Wraps ==
  ASSUME NEW n \in Nat
  PROVE  n % UintMod \in 0 .. UintMod - 1
  <1>1. UintMod \in Nat \ {0}
    BY PipeAssumption, Zenon
  <1> QED
    BY <1>1

(* What the proofs use of the constants.                                    *)
LEMMA Parties ==
  /\ Reader \cap Writer = {} /\ None \notin Proc
  /\ UintMod \in Nat \ {0} /\ MaxCount \in Nat
  BY PipeAssumption, Zenon DEF Proc

(* pipealloc establishes EndsInv.                                           *)
LEMMA InitEnds == Init => EndsInv
  <1> SUFFICES ASSUME Init
               PROVE  EndsInv
    BY Zenon
  <1>1. freed \in BOOLEAN /\ killed \in [Proc -> BOOLEAN]
    BY Zenon DEF Init
  <1>2. TypeOK
    BY <1>1, Parties DEF Init, TypeOK
  <1> QED
    BY <1>2, Parties DEF Init, EndsInv, Inside, WritePc, ReadPc

(* The process inside wakes sleepers, and stays inside, leaves for its      *)
(* caller or falls asleep.                                                  *)
WakesOnly(p) ==
  /\ pc' \in [Proc -> {"out"} \cup WritePc \cup ReadPc]
  /\ \A q \in Proc \ {p} : \/ pc'[q] = pc[q]
                           \/ pc[q] = "read_asleep" /\ pc'[q] = "read_lock"
                           \/ pc[q] = "write_asleep" /\ pc'[q] = "write_lock"

Outcome(p) ==
  \/ pc'[p] = "out" /\ lock' = None
  \/ /\ pc'[p] \in IF p \in Writer THEN WritePc ELSE ReadPc
     /\ pc'[p] \notin {"write_lock", "read_lock"}
     /\ lock' = IF pc'[p] \in Inside THEN lock ELSE None

(* Such a step keeps EndsInv.                                               *)
LEMMA StepEnds ==
  ASSUME EndsInv, NEW p \in Proc, pc[p] \in Inside, UNCHANGED <<ends, killed>>,
         data' \in [0 .. PIPESIZE - 1 -> Byte],
         nread' \in 0 .. UintMod - 1, nwrite' \in 0 .. UintMod - 1,
         left' \in [Proc -> 0 .. MaxCount], WakesOnly(p), Outcome(p)
  PROVE  EndsInv'
  <1> USE DEF EndsInv, WakesOnly, Outcome, Inside, WritePc, ReadPc, ends
  <1>1. lock' \in Proc \cup {None}
    BY Zenon DEF TypeOK
  <1>2. TypeOK'
    <2>1. freed' \in BOOLEAN /\ killed' \in [Proc -> BOOLEAN]
      BY Zenon DEF TypeOK
    <2>2. pc' \in [Proc -> {"out", "write_lock", "write", "write_sleep", "write_asleep",
                      "read_lock", "read", "read_copy", "read_sleep", "read_asleep"}]
      BY Zenon
    <2>3. readopen' \in {0, 1} /\ writeopen' \in {0, 1} /\ open' \subseteq Proc
      BY Zenon DEF TypeOK
    <2> QED
      BY <1>1, <2>1, <2>2, <2>3, Zenon DEF TypeOK
  <1>3. ASSUME NEW q \in Proc
        PROVE  pc'[q] \in Inside <=> lock' = q
    <2>1. lock = p
      BY Zenon
    <2>2. CASE q = p
      BY <2>1, <2>2, Parties, ZenonT(40)
    <2>3. CASE q # p
      <3>1. pc[q] \notin Inside
        BY <2>1, <2>3, Zenon
      <3>2. pc'[q] \notin Inside
        BY <2>3, <3>1, Zenon
      <3>3. lock' # q
        BY <2>1, <2>3, Parties, ZenonT(40)
      <3> QED
        BY <3>2, <3>3, Zenon
    <2> QED
      BY <2>2, <2>3, Zenon
  <1>4. \A q \in Proc : /\ pc'[q] \in WritePc => q \in Writer
                        /\ pc'[q] \in ReadPc => q \in Reader
                        /\ pc'[q] # "out" => q \in open'
    BY Parties, ZenonT(40) DEF Proc
  <1> QED
    BY <1>2, <1>3, <1>4, Zenon

(* Every step of every process keeps EndsInv.                               *)
LEMMA NextEnds == EndsInv /\ [Next]_vars => EndsInv'
  <1> SUFFICES ASSUME EndsInv, [Next]_vars
               PROVE  EndsInv'
    BY Zenon
  <1> USE DEF EndsInv, Inside, WritePc, ReadPc
  <1>1. ASSUME NEW p \in Proc, Call(p)
        PROVE  EndsInv'
    BY <1>1, Parties, SMTT(40) DEF Call, counts, ends, Proc, TypeOK
  <1>2. ASSUME NEW p \in Proc, Acquire(p)
        PROVE  EndsInv'
    BY <1>2, Parties, ZenonT(40) DEF Acquire, counts, ends, Proc, TypeOK
  <1>3. ASSUME NEW p \in Proc, PipeWrite(p)
        PROVE  EndsInv'
    <2>1. pc[p] \in Inside /\ UNCHANGED <<ends, killed>> /\ p \in Writer
      BY <1>3, Zenon DEF PipeWrite
    <2>2. \/ Return(p, WakeReaders) /\ UNCHANGED counts
          \/ Return(p, pc) /\ UNCHANGED counts
          \/ pc' = [WakeReaders EXCEPT ![p] = "write_sleep"] /\ UNCHANGED <<counts, left, lock>>
          \/ /\ left[p] > 0
             /\ \E ch \in Byte : data' = [data EXCEPT ![nwrite % PIPESIZE] = ch]
             /\ nwrite' = (nwrite + 1) % UintMod
             /\ left' = [left EXCEPT ![p] = @ - 1]
             /\ UNCHANGED <<nread, pc, lock>>
      BY <1>3, Zenon DEF PipeWrite
    <2>3. data' \in [0 .. PIPESIZE - 1 -> Byte]
      BY <2>2 DEF counts, TypeOK
    <2>4. nread' \in 0 .. UintMod - 1 /\ nwrite' \in 0 .. UintMod - 1
      <3>1. nread + 1 \in Nat /\ nwrite + 1 \in Nat
        BY Parties DEF TypeOK
      <3>2. nread' = nread /\ nwrite' \in {nwrite, (nwrite + 1) % UintMod}
        BY <2>2, Zenon DEF counts
      <3> QED
        BY ZenonT(30), <3>1, <3>2, Wraps DEF TypeOK
    <2>5. left' \in [Proc -> 0 .. MaxCount]
      BY <2>2, Parties, SMTT(40) DEF Return, TypeOK
    <2>6. WakesOnly(p) /\ Outcome(p)
      <3>1. WakeReaders \in [Proc -> {"out"} \cup WritePc \cup ReadPc]
        BY Zenon DEF WakeReaders, TypeOK
      <3>2. CASE Return(p, WakeReaders)
        BY <2>1, <3>1, <3>2, Zenon DEF Return, WakeReaders, WakesOnly, Outcome, TypeOK
      <3>3. CASE Return(p, pc)
        BY <2>1, <3>3, Zenon DEF Return, WakesOnly, Outcome, TypeOK
      <3>4. CASE pc' = [WakeReaders EXCEPT ![p] = "write_sleep"] /\ UNCHANGED lock
        BY <2>1, <3>1, <3>4, Zenon DEF WakeReaders, WakesOnly, Outcome, TypeOK
      <3>5. CASE UNCHANGED <<pc, lock>>
        BY <1>3, <2>1, <3>5, Zenon DEF WakesOnly, Outcome, TypeOK, PipeWrite
      <3> QED
        BY <2>2, <3>2, <3>3, <3>4, <3>5, Zenon
    <2> QED
      BY <2>1, <2>3, <2>4, <2>5, <2>6, StepEnds, Zenon
  <1>4. ASSUME NEW p \in Proc, PipeRead(p)
        PROVE  EndsInv'
    <2>1. pc[p] \in Inside /\ UNCHANGED <<ends, killed, counts>> /\ p \in Reader
      BY <1>4, Zenon DEF PipeRead
    <2>2. \/ Return(p, pc)
          \/ pc' = [pc EXCEPT ![p] = "read_sleep"] /\ UNCHANGED <<left, lock>>
          \/ pc' = [pc EXCEPT ![p] = "read_copy"] /\ UNCHANGED <<left, lock>>
      BY <1>4, Zenon DEF PipeRead
    <2>3. left' \in [Proc -> 0 .. MaxCount]
      BY <2>2, Parties, SMTT(40) DEF Return, TypeOK
    <2>4. WakesOnly(p)
      BY <2>1, <2>2, Parties, SMTT(40) DEF Return, WakesOnly, TypeOK
    <2>5. Outcome(p)
      <3>1. CASE Return(p, pc)
        BY <3>1, Zenon DEF Return, Outcome, TypeOK
      <3>2. CASE /\ pc'[p] \in {"read_sleep", "read_copy"} /\ lock' = lock
        BY <2>1, <3>2, Parties, Zenon DEF Outcome, Inside, ReadPc
      <3>3. \/ Return(p, pc)
            \/ pc'[p] \in {"read_sleep", "read_copy"} /\ lock' = lock
        BY <2>2, Zenon DEF TypeOK
      <3> QED
        BY <3>1, <3>2, <3>3, Zenon
    <2> QED
      BY <2>1, <2>3, <2>4, <2>5, StepEnds, Zenon DEF counts, TypeOK
  <1>5. ASSUME NEW p \in Proc, ReadCopy(p)
        PROVE  EndsInv'
    <2>1. pc[p] \in Inside /\ UNCHANGED <<ends, killed>> /\ p \in Reader
      BY <1>5, Zenon DEF ReadCopy
    <2>2. /\ \/ Return(p, WakeWriters)
             \/ left[p] > 0 /\ left' = [left EXCEPT ![p] = @ - 1] /\ UNCHANGED <<pc, lock>>
          /\ \/ UNCHANGED counts
             \/ nread' = (nread + 1) % UintMod /\ UNCHANGED <<data, nwrite>>
      BY <1>5, Zenon DEF ReadCopy
    <2>3. data' \in [0 .. PIPESIZE - 1 -> Byte]
      BY <2>2, Zenon DEF counts, TypeOK
    <2>4. nread' \in 0 .. UintMod - 1 /\ nwrite' \in 0 .. UintMod - 1
      <3>1. nread + 1 \in Nat /\ nwrite + 1 \in Nat
        BY Parties DEF TypeOK
      <3> QED
        BY ZenonT(30), <2>2, <3>1, Wraps DEF counts, TypeOK
    <2>5. left' \in [Proc -> 0 .. MaxCount]
      BY <2>2, Parties DEF Return, TypeOK
    <2>6. WakesOnly(p) /\ Outcome(p)
      <3>1. WakeWriters \in [Proc -> {"out"} \cup WritePc \cup ReadPc]
        BY Zenon DEF WakeWriters, TypeOK
      <3>2. CASE Return(p, WakeWriters)
        BY <2>1, <3>1, <3>2, Zenon DEF Return, WakeWriters, WakesOnly, Outcome, TypeOK
      <3>3. CASE UNCHANGED <<pc, lock>>
        BY <1>5, <2>1, <3>3, Parties, Zenon DEF WakesOnly, Outcome, TypeOK, ReadCopy
      <3> QED
        BY <2>2, <3>2, <3>3, Zenon
    <2> QED
      BY <2>1, <2>3, <2>4, <2>5, <2>6, StepEnds, Zenon
  <1>6. ASSUME NEW p \in Proc, Sleep(p)
        PROVE  EndsInv'
    BY <1>6, Parties, ZenonT(40) DEF Sleep, counts, ends, Proc, TypeOK
  <1>7. ASSUME NEW p \in Proc, FileClose(p)
        PROVE  EndsInv'
    <2>1. pc[p] = "out" /\ p \in open /\ open' = open \ {p} /\ UNCHANGED <<counts, lock, killed, left>>
      BY <1>7, Zenon DEF FileClose
    <2>2. CASE UNCHANGED <<readopen, writeopen, pc, freed>>
      BY <2>1, <2>2, Parties, ZenonT(40) DEF counts, TypeOK
    <2>3. CASE PipeClose(p \in Writer) /\ open' \cap (IF p \in Writer THEN Writer ELSE Reader) = {}
      BY <2>1, <2>3, Parties, ZenonT(40) DEF PipeClose, WakeReaders, WakeWriters, counts, TypeOK, Proc
    <2> QED
      BY <1>7, <2>2, <2>3, Zenon DEF FileClose
  <1>8. ASSUME NEW p \in Proc, Kill(p)
        PROVE  EndsInv'
    BY <1>8, Parties, ZenonT(40) DEF Kill, counts, ends, Proc, TypeOK
  <1>9. CASE UNCHANGED vars
    BY <1>9, Zenon DEF vars, TypeOK
  <1> QED
    BY <1>1, <1>2, <1>3, <1>4, <1>5, <1>6, <1>7, <1>8, <1>9, Zenon DEF Next, Step

(* The invariant of the pipe's lock and ends.                               *)
LEMMA EndsAlways == Spec => []EndsInv
  BY InitEnds, NextEnds, PTL DEF Spec

(* The pipe's fields keep their types, the counters across their wrap.      *)
THEOREM PipeTypes == Spec => []TypeOK
  <1>1. EndsInv => TypeOK
    BY Zenon DEF EndsInv
  <1> QED
    BY <1>1, EndsAlways, PTL

(* Once pipeclose has freed the page, no process has the pipe open or is    *)
(* inside a call on it, whatever the order in which the ends are closed.    *)
THEOREM PipeNotUsedAfterFree == Spec => []NoUseAfterFree
  <1>1. EndsInv => NoUseAfterFree
    BY Zenon DEF EndsInv, TypeOK, NoUseAfterFree, Proc
  <1> QED
    BY <1>1, EndsAlways, PTL

-----------------------------------------------------------------------------
(* A new pipe has no sleepers.                                              *)
LEMMA InitSleep == Init => SleepInv
  BY Zenon DEF Init, SleepInv

(* Every step keeps SleepInv if no writer can be killed.                    *)
LEMMA NextSleep ==
  ASSUME Killable \cap Writer = {}, EndsInv, SleepInv, [Next]_vars
  PROVE  SleepInv'
  <1> USE DEF SleepInv, EndsInv, Inside, WritePc, ReadPc
  <1>0. \A p, q \in Proc : pc[p] \in Inside /\ pc[q] \in Inside => p = q
    BY Zenon
  <1>1. ASSUME NEW p \in Proc, Call(p)
        PROVE  SleepInv'
    BY <1>1, ZenonT(40) DEF Call, counts, ends, TypeOK, Empty, Full
  <1>2. ASSUME NEW p \in Proc, Acquire(p)
        PROVE  SleepInv'
    BY <1>2, ZenonT(40) DEF Acquire, counts, ends, TypeOK, Empty, Full
  <1>3. ASSUME NEW p \in Proc, PipeWrite(p)
        PROVE  SleepInv'
    <2>1. pc[p] = "write" /\ UNCHANGED <<ends, killed>> /\ p \in Writer /\ ~killed[p]
      BY <1>3, Zenon DEF PipeWrite
    <2>2. \A q \in Proc \ {p} : pc[q] \notin Inside
      BY <1>0, <2>1, Zenon
    <2>3. CASE Return(p, WakeReaders) /\ UNCHANGED counts
      BY ZenonT(30), <2>1, <2>2, <2>3 DEF Return, WakeReaders, counts, ends, TypeOK, Empty, Full
    <2>4. CASE Return(p, pc) /\ readopen = 0 /\ UNCHANGED counts
      BY <2>1, <2>2, <2>4, ZenonT(40) DEF Return, counts, ends, TypeOK, Empty, Full
    <2>5. CASE /\ pc' = [WakeReaders EXCEPT ![p] = "write_sleep"] /\ readopen = 1 /\ Full
               /\ UNCHANGED <<counts, left, lock>>
      BY <2>1, <2>2, <2>5, Zenon DEF WakeReaders, counts, ends, TypeOK, Empty, Full
    <2>6. CASE ~Full /\ UNCHANGED pc
      BY <2>1, <2>2, <2>6, Zenon DEF ends, TypeOK
    <2> QED
      BY <1>3, <2>1, <2>3, <2>4, <2>5, <2>6, ZenonT(40) DEF PipeWrite
  <1>4. ASSUME NEW p \in Proc, PipeRead(p)
        PROVE  SleepInv'
    BY <1>4, SMTT(40) DEF PipeRead, Return, counts, ends, TypeOK, Empty, Full
  <1>5. ASSUME NEW p \in Proc, ReadCopy(p)
        PROVE  SleepInv'
    <2>1. pc[p] = "read_copy" /\ UNCHANGED <<ends, killed>> /\ p \in Reader
      BY <1>5, Zenon DEF ReadCopy
    <2>2. \A q \in Proc \ {p} : pc[q] \notin Inside
      BY <1>0, <2>1, Zenon
    <2>3. CASE Return(p, WakeWriters) /\ UNCHANGED counts
      BY ZenonT(30), <2>1, <2>2, <2>3 DEF Return, WakeWriters, counts, ends, TypeOK, Empty, Full
    <2>4. CASE Return(p, WakeWriters) /\ ~Empty
      BY ZenonT(30), <2>1, <2>2, <2>4 DEF Return, WakeWriters, ends, TypeOK
    <2>5. CASE ~Empty /\ UNCHANGED pc
      BY <2>1, <2>2, <2>5, Zenon DEF ends, TypeOK
    <2> QED
      BY <1>5, <2>3, <2>4, <2>5, Zenon DEF ReadCopy
  <1>6. ASSUME NEW p \in Proc, Sleep(p)
        PROVE  SleepInv'
    BY <1>6, ZenonT(40) DEF Sleep, counts, ends, TypeOK, Empty, Full
  <1>7. ASSUME NEW p \in Proc, FileClose(p)
        PROVE  SleepInv'
    BY <1>7, Parties, SMTT(40) DEF FileClose, PipeClose, WakeReaders, WakeWriters, counts, TypeOK, Empty, Full
  <1>8. ASSUME NEW p \in Proc, Kill(p)
        PROVE  SleepInv'
    BY <1>8, ZenonT(40) DEF Kill, counts, ends, TypeOK, Empty, Full
  <1>9. CASE UNCHANGED vars
    BY <1>9, Zenon DEF vars, Empty, Full
  <1> QED
    BY <1>1, <1>2, <1>3, <1>4, <1>5, <1>6, <1>7, <1>8, <1>9, Zenon DEF Next, Step

(* Nobody is left asleep once pi->lock is free: the reason to sleep is      *)
(* still there.                                                             *)
LEMMA SleepNoLost == EndsInv /\ SleepInv => NoLostWakeup
  BY Parties DEF EndsInv, SleepInv, NoLostWakeup, Inside, TypeOK

(* No wakeup of a pipe is lost, for any number of readers and writers and   *)
(* any capacity, provided that no writer is killed.                         *)
THEOREM PipeWakeups == Killable \cap Writer = {} /\ Spec => []NoLostWakeup
  <1>1. Killable \cap Writer = {} /\ EndsInv /\ SleepInv /\ [Next]_vars => SleepInv'
    BY NextSleep, Zenon
  <1>2. CASE Killable \cap Writer = {}
    BY <1>1, <1>2, InitSleep, EndsAlways, SleepNoLost, PTL DEF Spec
  <1> QED
    BY <1>2, Zenon
-----------------------------------------------------------------------------
(* The pipe never holds more than fits.                                     *)
LengthInv == TypeOK /\ Length <= PIPESIZE

(* The counters and the buffer as those of a ring.                          *)
LEMMA Sizes ==
  /\ PIPESIZE \in Size /\ UintMod \in Size /\ PIPESIZE \in Counter(UintMod)
  /\ Divides(PIPESIZE, UintMod) /\ PIPESIZE < UintMod
  BY PipeAssumption DEF Size, Divides, Counter

(* Their types.                                                             *)
LEMMA RingTypes ==
  TypeOK => /\ nread \in Counter(UintMod) /\ nwrite \in Counter(UintMod)
            /\ data \in Buffer(PIPESIZE, Byte)
  BY Zenon DEF TypeOK, Counter, Buffer

(* The queue of the pipe is what the ring holds.                            *)
LEMMA QueueIs ==
  /\ Length = Ahead(nread, nwrite, UintMod)
  /\ Queue = Held(data, nread, nwrite, UintMod, PIPESIZE)
  BY Zenon DEF Length, Queue, Ahead, Held

(* The queue's length.                                                      *)
LEMMA QueueLength ==
  TypeOK => Queue \in Seq(Byte) /\ Len(Queue) = Length /\ Length \in Nat
  <1> HAVE TypeOK
  <1>1. /\ Held(data, nread, nwrite, UintMod, PIPESIZE) \in Seq(Byte)
        /\ Len(Held(data, nread, nwrite, UintMod, PIPESIZE)) = Ahead(nread, nwrite, UintMod)
    BY RingTypes, Sizes, HeldIsSeq, ZenonT(40)
  <1>2. Queue \in Seq(Byte) /\ Len(Queue) = Length
    BY <1>1, QueueIs, Zenon
  <1>3. Length \in Counter(UintMod)
    BY QueueIs, RingTypes, Sizes, Distance, Zenon
  <1> QED
    BY <1>2, <1>3, Sizes DEF Counter, Size

(* The tests of pipewrite and piperead on the counters.                     *)
LEMMA FullEmpty ==
  ASSUME TypeOK
  PROVE  Full <=> Length = PIPESIZE
  <1>1. nread \in Counter(UintMod) /\ nwrite \in Counter(UintMod)
    BY RingTypes, Zenon
  <1>2. UintMod \in Size /\ PIPESIZE \in Counter(UintMod)
    BY Sizes, Zenon
  <1>3. nwrite = (nread + PIPESIZE) % UintMod <=> Ahead(nread, nwrite, UintMod) = PIPESIZE
    BY <1>1, <1>2, DistanceIs
  <1> QED
    BY <1>3, QueueIs, Zenon DEF Full

(* A byte that pipewrite stores goes to the end of the queue.               *)
LEMMA PutAppends ==
  ASSUME LengthInv, ~Full, NEW ch \in Byte,
         Stores(data', data, nwrite % PIPESIZE, ch), nwrite' = (nwrite + 1) % UintMod, nread' = nread
  PROVE  Length' = Length + 1 /\ Length < PIPESIZE /\ Queue' = Append(Queue, ch)
  <1>1. Length < PIPESIZE /\ Length + 1 < UintMod
    BY FullEmpty, QueueLength, PipeAssumption DEF LengthInv
  <1>2. /\ nread \in Counter(UintMod) /\ nwrite \in Counter(UintMod)
        /\ data \in Buffer(PIPESIZE, Byte)
    BY RingTypes, Zenon DEF LengthInv
  <1>3. /\ Ahead(nread, nwrite, UintMod) < PIPESIZE
        /\ Ahead(nread, nwrite, UintMod) + 1 < UintMod
    BY <1>1, QueueIs, Zenon
  <1>4. Length' = Ahead(nread', nwrite', UintMod)
    BY Zenon DEF Length, Ahead
  <1>5. Queue' = Held(data', nread', nwrite', UintMod, PIPESIZE)
    BY Zenon DEF Length, Queue, Ahead, Held
  <1>6. Ahead(nread, (nwrite + 1) % UintMod, UintMod) = Ahead(nread, nwrite, UintMod) + 1
    BY <1>2, <1>3, Sizes, DistanceGrows, ZenonT(40)
  <1>7. Held(data', nread, (nwrite + 1) % UintMod, UintMod, PIPESIZE)
          = Append(Held(data, nread, nwrite, UintMod, PIPESIZE), ch)
    <2>1. IsRing(Byte, data, nread, nwrite, UintMod, PIPESIZE)
      BY <1>2, Sizes, ZenonT(30) DEF IsRing
    <2> QED
      BY <1>3, <2>1, RingPut, SMT
  <1> QED
    BY <1>1, <1>4, <1>5, <1>6, <1>7, QueueIs, ZenonT(30)

(* A byte that piperead takes comes from the front of the queue.            *)
LEMMA GetTakesFirst ==
  ASSUME LengthInv, ~Empty, nread' = (nread + 1) % UintMod, UNCHANGED <<data, nwrite>>
  PROVE  Length' = Length - 1 /\ Queue # <<>> /\ Queue' = Tail(Queue)
  <1>1. /\ nread \in Counter(UintMod) /\ nwrite \in Counter(UintMod) /\ nread # nwrite
        /\ data \in Buffer(PIPESIZE, Byte)
    BY RingTypes, Zenon DEF LengthInv, Empty
  <1>2. Length' = Ahead(nread', nwrite', UintMod)
    BY Zenon DEF Length, Ahead
  <1>3. Queue' = Held(data', nread', nwrite', UintMod, PIPESIZE)
    BY Zenon DEF Length, Queue, Ahead, Held
  <1>4. Ahead((nread + 1) % UintMod, nwrite, UintMod) = Ahead(nread, nwrite, UintMod) - 1
    BY <1>1, Sizes, DistanceShrinks, Zenon
  <1>5. /\ Held(data, nread, nwrite, UintMod, PIPESIZE) # <<>>
        /\ Held(data, (nread + 1) % UintMod, nwrite, UintMod, PIPESIZE)
             = Tail(Held(data, nread, nwrite, UintMod, PIPESIZE))
    <2>1. IsRing(Byte, data, nread, nwrite, UintMod, PIPESIZE)
      BY <1>1, Sizes, ZenonT(30) DEF IsRing
    <2> QED
      BY <1>1, <2>1, RingGet, SMT
  <1> QED
    BY <1>2, <1>3, <1>4, <1>5, QueueIs, Zenon

(* Every step puts one byte at the end, takes one from the front, or leaves *)
(* the queue alone.                                                         *)
LEMMA QueueStep ==
  ASSUME LengthInv, [Next]_vars
  PROVE  \/ \E ch \in Byte : Length' = Length + 1 /\ Length < PIPESIZE /\ Queue' = Append(Queue, ch)
         \/ Length' = Length - 1 /\ Queue # <<>> /\ Queue' = Tail(Queue)
         \/ Length' = Length /\ Queue' = Queue
  <1>1. \/ UNCHANGED counts
        \/ /\ ~Full /\ nread' = nread /\ nwrite' = (nwrite + 1) % UintMod
           /\ \E ch \in Byte : data' = [data EXCEPT ![nwrite % PIPESIZE] = ch]
        \/ ~Empty /\ nread' = (nread + 1) % UintMod /\ UNCHANGED <<data, nwrite>>
    BY ZenonT(60) DEF Next, Call, Acquire, Step, PipeWrite, PipeRead, ReadCopy, Sleep, FileClose, Kill,
                 vars, counts
  <1>2. CASE UNCHANGED counts
    BY <1>2, Zenon DEF counts, Length, Queue
  <1>3. CASE /\ ~Full /\ nread' = nread /\ nwrite' = (nwrite + 1) % UintMod
             /\ \E ch \in Byte : data' = [data EXCEPT ![nwrite % PIPESIZE] = ch]
    BY <1>3, PutAppends, ZenonT(30) DEF Stores
  <1>4. CASE ~Empty /\ nread' = (nread + 1) % UintMod /\ UNCHANGED <<data, nwrite>>
    BY <1>4, GetTakesFirst, Zenon
  <1> QED
    BY <1>1, <1>2, <1>3, <1>4, Zenon

(* The pipe is a bounded queue for any capacity and any width of its        *)
(* counters: bytes come out as they went in, across the wrap of nread and   *)
(* nwrite, and pipewrite never overwrites one that is not read yet.         *)
THEOREM PipeInOrder == Spec => InOrder
  <1>1. Init => Queue = <<>> /\ LengthInv
    <2> HAVE Init
    <2>1. TypeOK
      BY InitEnds, Zenon DEF EndsInv
    <2>2. 0 \in Counter(UintMod)
      BY Sizes DEF Counter, Size
    <2>3. Held(data, 0, 0, UintMod, PIPESIZE) = <<>>
      BY <2>2, Sizes, HeldEmpty, Zenon
    <2>4. Queue = <<>>
      BY <2>3, QueueIs, Zenon DEF Init
    <2>5. Length = 0
      BY <2>1, <2>4, QueueLength, Zenon
    <2> QED
      BY <2>1, <2>4, <2>5, PipeAssumption DEF LengthInv
  <1>2. LengthInv /\ TypeOK' /\ [Next]_vars => LengthInv'
    <2> SUFFICES ASSUME LengthInv, TypeOK', [Next]_vars
                 PROVE  LengthInv'
      BY Zenon
    <2>1. Length \in Nat /\ PIPESIZE \in Nat /\ Length <= PIPESIZE
      BY QueueLength, PipeAssumption, Zenon DEF LengthInv
    <2>2. \/ Length' = Length + 1 /\ Length < PIPESIZE
          \/ Length' = Length - 1
          \/ Length' = Length
      BY QueueStep, Zenon
    <2>3. Length' <= PIPESIZE
      BY <2>1, <2>2
    <2> QED
      BY <2>3, Zenon DEF LengthInv
  <1>3. LengthInv /\ [Next]_vars => [Bytes!FifoNext]_Queue
    <2> SUFFICES ASSUME LengthInv, [Next]_vars
                 PROVE  Bytes!FifoNext \/ Queue' = Queue
      BY Zenon
    <2>1. Len(Queue) = Length
      BY QueueLength, Zenon DEF LengthInv
    <2> QED
      BY <2>1, QueueStep, Zenon DEF Bytes!FifoNext, Bytes!Put, Bytes!Get
  <1> QED
    BY <1>1, <1>2, <1>3, PipeTypes, PTL DEF Spec, InOrder, Bytes!FifoSpec
=============================================================================
