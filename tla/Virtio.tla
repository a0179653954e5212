------------------------------- MODULE Virtio -------------------------------
(***************************************************************************)
(* The disk driver of kernel/virtio_disk.c and the device that it shares   *)
(* memory with.  A process is identified with the buffer that it reads or  *)
(* writes: it holds the buffer's sleep-lock, and each buffer is of a block *)
(* of its own.                                                             *)
(*                                                                         *)
(* A critical section of vdisk_lock is one action, but for the interrupt   *)
(* handler, which the device may overtake: it holds the lock over several  *)
(* actions.  Indices of the rings are 16 bits wide in the code, and count  *)
(* modulo WIDTH here.                                                      *)
(***************************************************************************)
EXTENDS Integers, FiniteSets, FiniteSetsExt

CONSTANTS Proc, NUM, WIDTH,
          First,     \* the indices at the start of a behaviour
          MaxOps     \* bound: requests made from there on

Desc == 0 .. NUM - 1
None == "none"

ASSUME DiskAssumption ==
  /\ NUM \in Nat \ {0} /\ WIDTH \in Nat /\ First \in 0 .. WIDTH - 1
  /\ WIDTH % NUM = 0 /\ WIDTH > NUM
  /\ None \notin Proc

VARIABLES
  pc,                 \* of virtio_disk_rw: idle, alloc, slot (asleep on
                      \* &free[0]), wait, sleep (asleep on b)
  op, ops,            \* what a process asks for, "in" or "out" (dir) and the
                      \* version to be moved (ver); requests made so far
  idx,                \* idx[0] of a process in wait or sleep
  buf, disk,          \* version of the data in the buffer, and on the disk
  bdisk,              \* b->disk
  free, desc, info,   \* free descriptors; descriptors; info[].b and .status
  avail, availIdx,    \* the ring the driver writes
  used, usedIdx,      \* the ring the device writes
  seen,               \* disk.used_idx
  lock,               \* whether virtio_disk_intr holds vdisk_lock
  taken, inflight,    \* device: how far it read avail; chains it works on
  pending             \* device: interrupt status

driver == <<pc, op, ops, idx, bdisk, free, desc, avail, availIdx>>
device == <<used, usedIdx, taken, inflight>>
vars == <<pc, op, ops, idx, buf, disk, bdisk, free, desc, info, avail, availIdx,
          used, usedIdx, seen, lock, taken, inflight, pending>>

NoDesc == [is |-> None, of |-> None, next |-> 0]
NoInfo == [b |-> None, status |-> 0]

Init ==
  /\ pc = [p \in Proc |-> "idle"]
  /\ op = [p \in Proc |-> [dir |-> "in", ver |-> 0]]
  /\ ops = 0
  /\ idx = [p \in Proc |-> 0]
  /\ buf = [p \in Proc |-> 0]
  /\ disk = [p \in Proc |-> 0]
  /\ bdisk = [p \in Proc |-> FALSE]
  /\ free = Desc
  /\ desc = [d \in Desc |-> NoDesc]
  /\ info = [d \in Desc |-> NoInfo]
  /\ avail = [d \in Desc |-> 0]
  /\ used = [d \in Desc |-> 0]
  /\ availIdx = First /\ usedIdx = First /\ seen = First /\ taken = First
  /\ lock = FALSE
  /\ inflight = {}
  /\ pending = FALSE

Succ(i) == (i + 1) % WIDTH

\* sleep releases vdisk_lock; wakeup makes every sleeper of the channel run.
WakeSlot(f) == [p \in Proc |-> IF f[p] = "slot" THEN "alloc" ELSE f[p]]

-----------------------------------------------------------------------------
\* bread and bwrite call virtio_disk_rw.  The buffer differs from the disk: a
\* writer has changed the data, a reader finds those of an earlier block.
Start(p) ==
  /\ pc[p] = "idle" /\ ops < MaxOps
  /\ \E o \in {"in", "out"} :
       op' = [op EXCEPT ![p] =
                [dir |-> o, ver |-> IF o = "in" THEN disk[p] ELSE 1 - disk[p]]]
  /\ buf' = [buf EXCEPT ![p] = 1 - disk[p]]
  /\ ops' = ops + 1
  /\ pc' = [pc EXCEPT ![p] = "alloc"]
  /\ UNCHANGED <<idx, disk, bdisk, free, desc, info, avail, availIdx, seen, lock,
                 pending, device>>

\* alloc3_desc finds fewer than three: it gives back those it took, and
\* free_desc wakes the sleepers; then sleep(&disk.free[0]).
AllocFails(p) ==
  /\ pc[p] = "alloc" /\ ~ lock
  /\ Cardinality(free) < 3
  /\ pc' = [(IF free = {} THEN pc ELSE WakeSlot(pc)) EXCEPT ![p] = "slot"]
  /\ UNCHANGED <<op, ops, idx, buf, disk, bdisk, free, desc, info, avail,
                 availIdx, seen, lock, pending, device>>

\* Mutant: b->disk is not set.
SubmitUnmarked(p) ==
  LET a == Min(free)
      b == Min(free \ {a})
      c == Min(free \ {a, b})
  IN
  /\ pc[p] = "alloc" /\ ~ lock
  /\ Cardinality(free) >= 3
  /\ free' = free \ {a, b, c}
  /\ desc' = [desc EXCEPT ![a] = [is |-> op[p].dir, of |-> p, next |-> b],
                          ![b] = [is |-> "data", of |-> p, next |-> c],
                          ![c] = [is |-> "status", of |-> a, next |-> 0]]
  /\ info' = [info EXCEPT ![a] = [b |-> p, status |-> 255]]
  /\ avail' = [avail EXCEPT ![availIdx % NUM] = a]
  /\ availIdx' = Succ(availIdx)
  /\ idx' = [idx EXCEPT ![p] = a]
  /\ pc' = [pc EXCEPT ![p] = "sleep"]
  /\ UNCHANGED <<op, ops, buf, disk, bdisk, seen, lock, pending, device>>

\* Three descriptors, the request, and the notification of the device.
Submit(p) ==
  LET a == Min(free)
      b == Min(free \ {a})
      c == Min(free \ {a, b})
  IN
  /\ pc[p] = "alloc" /\ ~ lock
  /\ Cardinality(free) >= 3
  /\ free' = free \ {a, b, c}
  /\ desc' = [desc EXCEPT ![a] = [is |-> op[p].dir, of |-> p, next |-> b],
                          ![b] = [is |-> "data", of |-> p, next |-> c],
                          ![c] = [is |-> "status", of |-> a, next |-> 0]]
  /\ info' = [info EXCEPT ![a] = [b |-> p, status |-> 255]]
  /\ bdisk' = [bdisk EXCEPT ![p] = TRUE]
  /\ avail' = [avail EXCEPT ![availIdx % NUM] = a]
  /\ availIdx' = Succ(availIdx)
  /\ idx' = [idx EXCEPT ![p] = a]
  /\ pc' = [pc EXCEPT ![p] = "sleep"]
  /\ UNCHANGED <<op, ops, buf, disk, seen, lock, pending, device>>

\* The chain from i, as free_chain walks it.
Chain(i) == {i, desc[i].next, desc[desc[i].next].next}

\* Mutants: the status descriptor is not freed; freeing wakes nobody.
FinishFreesTwo(p) ==
  /\ pc[p] = "wait" /\ ~ lock
  /\ ~ bdisk[p]
  /\ free' = free \cup {idx[p], desc[idx[p]].next}
  /\ pc' = [WakeSlot(pc) EXCEPT ![p] = "idle"]
  /\ UNCHANGED <<op, ops, idx, buf, disk, bdisk, desc, info, avail, availIdx, seen,
                 lock, pending, device>>
FinishNoWakeup(p) ==
  /\ pc[p] = "wait" /\ ~ lock
  /\ ~ bdisk[p]
  /\ free' = free \cup Chain(idx[p])
  /\ pc' = [pc EXCEPT ![p] = "idle"]
  /\ UNCHANGED <<op, ops, idx, buf, disk, bdisk, desc, info, avail, availIdx, seen,
                 lock, pending, device>>

\* The process is woken: the request has finished, and it frees the chain.
Finish(p) ==
  /\ pc[p] = "wait" /\ ~ lock
  /\ ~ bdisk[p]
  /\ info' = [info EXCEPT ![idx[p]].b = None]
  /\ free' = free \cup Chain(idx[p])
  /\ desc' = [d \in Desc |-> IF d \in Chain(idx[p]) THEN NoDesc ELSE desc[d]]
  /\ pc' = [WakeSlot(pc) EXCEPT ![p] = "idle"]
  /\ idx' = [idx EXCEPT ![p] = 0]
  /\ UNCHANGED <<op, ops, buf, disk, bdisk, avail, availIdx, seen, lock, pending,
                 device>>

\* Interrupts reach virtio_disk_intr through devintr; it acknowledges first.
IntrStart ==
  /\ pending /\ ~ lock
  /\ lock' = TRUE
  /\ pending' = FALSE
  /\ UNCHANGED <<driver, buf, disk, info, seen, device>>

\* One entry of the used ring.
IntrEntry ==
  LET b == info[used[seen % NUM]].b IN
  /\ lock /\ seen # usedIdx
  /\ info[used[seen % NUM]].status = 0 /\ b # None
  /\ bdisk' = [bdisk EXCEPT ![b] = FALSE]
  /\ pc' = [pc EXCEPT ![b] = IF @ = "sleep" THEN "wait" ELSE @]
  /\ seen' = Succ(seen)
  /\ UNCHANGED <<op, ops, idx, buf, disk, free, desc, info, avail, availIdx, lock,
                 pending, device>>

IntrEnd ==
  /\ lock /\ seen = usedIdx
  /\ lock' = FALSE
  /\ UNCHANGED <<driver, buf, disk, info, seen, pending, device>>

-----------------------------------------------------------------------------
\* The device takes requests in order and finishes them in any.
DeviceTake ==
  /\ taken # availIdx
  /\ inflight' = inflight \cup {avail[taken % NUM]}
  /\ taken' = Succ(taken)
  /\ UNCHANGED <<driver, buf, disk, info, used, usedIdx, seen, lock, pending>>

DeviceFinish ==
  \E h \in inflight :
    LET data == desc[desc[h].next]
        status == desc[data.next]
        p == data.of
    IN
    /\ data.is = "data" /\ status.is = "status"
    /\ IF desc[h].is = "in"
       THEN buf' = [buf EXCEPT ![p] = disk[desc[h].of]] /\ UNCHANGED disk
       ELSE disk' = [disk EXCEPT ![desc[h].of] = buf[p]] /\ UNCHANGED buf
    /\ info' = [info EXCEPT ![status.of].status = 0]
    /\ used' = [used EXCEPT ![usedIdx % NUM] = h]
    /\ usedIdx' = Succ(usedIdx)
    /\ inflight' = inflight \ {h}
    /\ pending' = TRUE
    /\ UNCHANGED <<driver, seen, lock, taken>>

Next ==
  \/ \E p \in Proc : Start(p) \/ AllocFails(p) \/ Submit(p) \/ Finish(p)
  \/ IntrStart \/ IntrEntry \/ IntrEnd
  \/ DeviceTake \/ DeviceFinish

\* The scheduler runs every runnable process, and interrupts and the device
\* are not held up for ever.
Fairness ==
  /\ \A p \in Proc : WF_vars(AllocFails(p) \/ Submit(p)) /\ WF_vars(Finish(p))
  /\ WF_vars(IntrStart) /\ WF_vars(IntrEntry) /\ WF_vars(IntrEnd)
  /\ WF_vars(DeviceTake) /\ WF_vars(DeviceFinish)

Spec == Init /\ [][Next]_vars /\ Fairness

-----------------------------------------------------------------------------
\* Type correctness of the driver: its 16-bit ring indices stay in range.
TypeOK ==
  /\ pc \in [Proc -> {"idle", "alloc", "slot", "wait", "sleep"}]
  /\ free \subseteq Desc /\ inflight \subseteq Desc
  /\ {availIdx, usedIdx, seen, taken} \subseteq 0 .. WIDTH - 1

Busy == {p \in Proc : pc[p] \in {"wait", "sleep"}}

\* The descriptors in use are exactly the chains of the requests under way,
\* three each and apart: no request loses a descriptor to another, and none is
\* lost when a request ends.
ChainsPartition ==
  /\ \A p \in Busy : Cardinality(Chain(idx[p])) = 3
  /\ \A p, q \in Busy : p # q => Chain(idx[p]) \cap Chain(idx[q]) = {}
  /\ Desc \ free = UNION {Chain(idx[p]) : p \in Busy}

\* While a used entry waits for the handler its request still owns its chain:
\* the status is that of the finished request and the buffer is the one it
\* transferred, so neither panic of the handler nor a wrong wakeup happens,
\* when the indices wrap too.
EntriesAreLive ==
  \A k \in 0 .. ((usedIdx - seen + WIDTH) % WIDTH) - 1 :
    LET h == used[(seen + k) % NUM] IN
    /\ info[h].status = 0
    /\ info[h].b \in Busy /\ idx[info[h].b] = h /\ bdisk[info[h].b]

\* The rings and the descriptors agree on which requests are under way.
RingsSound == TypeOK /\ ChainsPartition /\ EntriesAreLive

\* The device only works on buffers whose request is under way, and a request
\* that returns has moved its data the right way: a read has brought what was on
\* the disk, a write has put there what was in the buffer.
DataMoved ==
  /\ \A h \in inflight : desc[h].of \in Busy /\ bdisk[desc[h].of]
  /\ \A p \in Proc : pc[p] = "wait" /\ ~ bdisk[p] => buf[p] = op[p].ver /\ disk[p] = op[p].ver

\* Every request returns: no completion is lost between the acknowledgement
\* and the release of the lock, and nobody waits for ever for descriptors.
RequestsEnd == \A p \in Proc : pc[p] = "alloc" ~> pc[p] = "idle"

=============================================================================
