-------------------------------- MODULE Pipe --------------------------------
(***************************************************************************)
(* A pipe, kernel/pipe.c: pipewrite, piperead and pipeclose on one pipe    *)
(* shared by several processes, with the reference counts of fileclose     *)
(* (kernel/file.c) that decide when an end is closed.                      *)
(*                                                                         *)
(* pi->lock is explicit.  killed() is tested and sleep() called in         *)
(* separate steps, since kill() does not take pi->lock.                    *)
(***************************************************************************)
EXTENDS Naturals, Sequences

CONSTANTS Reader, Writer,  \* processes with the read or the write end open
          Killable,        \* processes that may be killed
          Byte,
          PIPESIZE,
          UintMod,         \* nread and nwrite are uint: they wrap here
          MaxCount,        \* bound: most bytes one call asks for
          None

(* 2^32 is a multiple of 512, so that the index n % PIPESIZE wraps with n.  *)
ASSUME PipeAssumption ==
  /\ PIPESIZE \in Nat \ {0} /\ UintMod \in Nat \ {0} /\ MaxCount \in Nat
  /\ UintMod % PIPESIZE = 0 /\ UintMod > PIPESIZE
  /\ Reader \cap Writer = {} /\ None \notin Reader \cup Writer

Proc == Reader \cup Writer

VARIABLES
  data, nread, nwrite, readopen, writeopen,  \* fields of struct pipe
  lock,     \* pi->lock: the process that holds it, or None
  freed,    \* the page has gone back to kalloc
  open,     \* processes whose descriptor refers to the pipe
  killed,   \* p->killed
  pc,       \* where each process is
  left      \* bytes the call still has to move: n - i

vars == <<data, nread, nwrite, readopen, writeopen, lock, freed, open, killed, pc, left>>

counts == <<data, nread, nwrite>>
ends == <<readopen, writeopen, freed, open>>

(* pipealloc, then forks and closes that leave each process with one end.   *)
Init ==
  /\ data \in [0 .. PIPESIZE - 1 -> Byte]
  /\ nread = 0 /\ nwrite = 0
  /\ readopen = 1 /\ writeopen = 1
  /\ lock = None
  /\ freed = FALSE
  /\ open = Proc
  /\ killed = [p \in Proc |-> FALSE]
  /\ pc = [p \in Proc |-> "out"]
  /\ left = [p \in Proc |-> 0]

(* pc after wakeup on a channel, the address of nread or of nwrite.         *)
WakeReaders == [q \in Proc |-> IF pc[q] = "read_asleep" THEN "read_lock" ELSE pc[q]]

WakeWriters == [q \in Proc |-> IF pc[q] = "write_asleep" THEN "write_lock" ELSE pc[q]]

(* Release pi->lock and return to the caller.                               *)
Return(p, pcs) ==
  /\ pc' = [pcs EXCEPT ![p] = "out"]
  /\ left' = [left EXCEPT ![p] = 0]
  /\ lock' = None

-----------------------------------------------------------------------------
(* read() or write() on the pipe; usertrap lets no killed process make a    *)
(* call.                                                                    *)
Call(p) ==
  /\ pc[p] = "out" /\ p \in open /\ ~killed[p]
  /\ \E n \in 1 .. MaxCount : left' = [left EXCEPT ![p] = n]
  /\ pc' = [pc EXCEPT ![p] = IF p \in Writer THEN "write_lock" ELSE "read_lock"]
  /\ UNCHANGED <<counts, ends, lock, killed>>

(* acquire(&pi->lock), on entry and when sleep returns.                     *)
Acquire(p) ==
  /\ pc[p] \in {"write_lock", "read_lock"}
  /\ lock = None
  /\ lock' = p
  /\ pc' = [pc EXCEPT ![p] = IF @ = "write_lock" THEN "write" ELSE "read"]
  /\ UNCHANGED <<counts, ends, killed, left>>

(* Mutant of pipewrite: the test for a full pipe is off by one.             *)
FullLate == nwrite = (nread + PIPESIZE + 1) % UintMod

Full == nwrite = (nread + PIPESIZE) % UintMod

Empty == nread = nwrite

(* One turn of pipewrite's loop, and what follows the loop.                 *)
PipeWrite(p) ==
  /\ pc[p] = "write"
  /\ \/ /\ left[p] = 0
        /\ Return(p, WakeReaders)
        /\ UNCHANGED counts
     \/ /\ left[p] > 0 /\ (readopen = 0 \/ killed[p])
        /\ Return(p, pc)
        /\ UNCHANGED counts
     \/ /\ left[p] > 0 /\ readopen = 1 /\ ~killed[p] /\ Full
        /\ pc' = [WakeReaders EXCEPT ![p] = "write_sleep"]
        /\ UNCHANGED <<counts, left, lock>>
     \/ /\ left[p] > 0 /\ readopen = 1 /\ ~killed[p] /\ ~Full
        /\ \/ /\ Return(p, WakeReaders)   \* copyin fails
              /\ UNCHANGED counts
           \/ /\ \E ch \in Byte : data' = [data EXCEPT ![nwrite % PIPESIZE] = ch]
              /\ nwrite' = (nwrite + 1) % UintMod
              /\ left' = [left EXCEPT ![p] = @ - 1]
              /\ UNCHANGED <<nread, pc, lock>>
  /\ UNCHANGED <<ends, killed>>

(* Mutant of piperead: with the writers gone it tries an empty pipe again.  *)
PipeReadRetries(p) ==
  /\ pc[p] = "read"
  /\ IF Empty
       THEN IF killed[p]
              THEN Return(p, pc)
              ELSE /\ IF writeopen = 1
                        THEN pc' = [pc EXCEPT ![p] = "read_sleep"] /\ UNCHANGED lock
                        ELSE pc' = [pc EXCEPT ![p] = "read_lock"] /\ lock' = None
                   /\ UNCHANGED left
       ELSE pc' = [pc EXCEPT ![p] = "read_copy"] /\ UNCHANGED <<left, lock>>
  /\ UNCHANGED <<counts, ends, killed>>

(* piperead: wait while the pipe is empty and can still be written.         *)
PipeRead(p) ==
  /\ pc[p] = "read"
  /\ IF Empty /\ writeopen = 1
       THEN IF killed[p]
              THEN Return(p, pc)
              ELSE pc' = [pc EXCEPT ![p] = "read_sleep"] /\ UNCHANGED <<left, lock>>
       ELSE pc' = [pc EXCEPT ![p] = "read_copy"] /\ UNCHANGED <<left, lock>>
  /\ UNCHANGED <<counts, ends, killed>>

(* Mutant of piperead: writers are woken only if the pipe is now empty.     *)

ReadCopyWakesIfEmpty(p) ==
  /\ pc[p] = "read_copy"
  /\ \/ /\ left[p] = 0 \/ Empty
        /\ Return(p, IF Empty THEN WakeWriters ELSE pc)
        /\ UNCHANGED counts
     \/ /\ left[p] > 0 /\ ~Empty
        /\ nread' = (nread + 1) % UintMod
        /\ left' = [left EXCEPT ![p] = @ - 1]
        /\ UNCHANGED <<data, nwrite, pc, lock>>
  /\ UNCHANGED <<ends, killed>>

(* One turn of the copy loop, and what follows it.  A byte is gone from the *)
(* pipe even if copyout fails.                                              *)
ReadCopy(p) ==
  /\ pc[p] = "read_copy"
  /\ \/ /\ left[p] = 0 \/ Empty
        /\ Return(p, WakeWriters)
        /\ UNCHANGED counts
     \/ /\ left[p] > 0 /\ ~Empty
        /\ nread' = (nread + 1) % UintMod
        /\ \/ Return(p, WakeWriters)      \* copyout fails
           \/ left' = [left EXCEPT ![p] = @ - 1] /\ UNCHANGED <<pc, lock>>
        /\ UNCHANGED <<data, nwrite>>
  /\ UNCHANGED <<ends, killed>>

(* sleep(&pi->nread or &pi->nwrite, &pi->lock)                              *)
Sleep(p) ==
  /\ pc[p] \in {"write_sleep", "read_sleep"}
  /\ pc' = [pc EXCEPT ![p] = IF @ = "write_sleep" THEN "write_asleep" ELSE "read_asleep"]
  /\ lock' = None
  /\ UNCHANGED <<counts, ends, killed, left>>

(* Mutant of pipeclose: the page is freed with the first end.               *)
PipeCloseFrees(writable) ==
  /\ writeopen' = IF writable THEN 0 ELSE writeopen
  /\ readopen' = IF writable THEN readopen ELSE 0
  /\ pc' = IF writable THEN WakeReaders ELSE WakeWriters
  /\ freed' = (readopen' = 0 \/ writeopen' = 0)

PipeClose(writable) ==
  /\ writeopen' = IF writable THEN 0 ELSE writeopen
  /\ readopen' = IF writable THEN readopen ELSE 0
  /\ pc' = IF writable THEN WakeReaders ELSE WakeWriters
  /\ freed' = (readopen' = 0 /\ writeopen' = 0)

(* close() or exit(): the last reference to an end calls pipeclose.         *)
FileClose(p) ==
  /\ pc[p] = "out" /\ p \in open
  /\ open' = open \ {p}
  /\ IF open' \cap (IF p \in Writer THEN Writer ELSE Reader) = {}
       THEN lock = None /\ PipeClose(p \in Writer)
       ELSE UNCHANGED <<readopen, writeopen, pc, freed>>
  /\ UNCHANGED <<counts, lock, killed, left>>

(* kill(): a sleeping victim wakes up.                                      *)
Kill(p) ==
  /\ p \in Killable /\ p \in open /\ ~killed[p]
  /\ killed' = [killed EXCEPT ![p] = TRUE]
  /\ pc' = [pc EXCEPT ![p] = CASE @ = "write_asleep" -> "write_lock"
                               [] @ = "read_asleep" -> "read_lock"
                               [] OTHER -> @]
  /\ UNCHANGED <<counts, ends, lock, left>>

Step(p) == PipeWrite(p) \/ PipeRead(p) \/ ReadCopy(p) \/ Sleep(p)

Next ==
  \E p \in Proc : Call(p) \/ Acquire(p) \/ Step(p) \/ FileClose(p) \/ Kill(p)

Spec == Init /\ [][Next]_vars

(* A process inside the kernel keeps running, and one that spins on pi->lock *)
(* gets it in the end; nobody has to make calls or to close anything.        *)
Fairness == \A p \in Proc : WF_vars(Step(p)) /\ SF_vars(Acquire(p))

FairSpec == Spec /\ Fairness

-----------------------------------------------------------------------------
(* Type correctness of the pipe: the counters stay in the range of uint.    *)
TypeOK ==
  /\ data \in [0 .. PIPESIZE - 1 -> Byte]
  /\ nread \in 0 .. UintMod - 1 /\ nwrite \in 0 .. UintMod - 1
  /\ readopen \in {0, 1} /\ writeopen \in {0, 1}
  /\ lock \in Proc \cup {None}
  /\ freed \in BOOLEAN
  /\ open \subseteq Proc
  /\ killed \in [Proc -> BOOLEAN]
  /\ pc \in [Proc -> {"out", "write_lock", "write", "write_sleep", "write_asleep",
                      "read_lock", "read", "read_copy", "read_sleep", "read_asleep"}]
  /\ left \in [Proc -> 0 .. MaxCount]

(* The bytes in the pipe, oldest first.                                     *)
Length == (nwrite + UintMod - nread) % UintMod

Queue == [k \in 1 .. Length |-> data[(nread + k - 1) % PIPESIZE]]

(* The pipe implements a bounded queue: bytes come out in the order they    *)
(* went in, none is overwritten or read twice, also when nread and nwrite   *)
(* wrap around.                                                             *)
Bytes == INSTANCE Fifo WITH queue <- Queue, Capacity <- PIPESIZE

InOrder == Bytes!FifoSpec

(* The page of a pipe is never touched after pipeclose has freed it.        *)
NoUseAfterFree == freed => \A p \in Proc : pc[p] = "out" /\ p \notin open

(* Nobody sleeps for what is already there: once pi->lock is free, no       *)
(* reader sleeps on a pipe with bytes or without writers, no writer on a    *)
(* pipe with room or without readers.                                       *)
NoLostWakeup ==
  lock = None =>
    /\ (~Empty \/ writeopen = 0) => \A p \in Proc : pc[p] # "read_asleep"
    /\ (~Full \/ readopen = 0) => \A p \in Proc : pc[p] # "write_asleep"

(* A call returns once the other end is closed: readers see end of file,    *)
(* writers the broken pipe.                                                 *)
CallsEnd ==
  /\ \A p \in Reader : (pc[p] # "out" /\ writeopen = 0) ~> pc[p] = "out"
  /\ \A p \in Writer : (pc[p] # "out" /\ readopen = 0) ~> pc[p] = "out"
=============================================================================
