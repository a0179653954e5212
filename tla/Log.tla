-------------------------------- MODULE Log --------------------------------
(***************************************************************************)
(* The redo log of the file system, kernel/log.c: begin_op, log_write,     *)
(* end_op, the commit that the last end_op runs without holding log.lock,  *)
(* and the recovery that initlog runs at boot.                             *)
(*                                                                         *)
(* Everything a system call does between acquire(&log.lock) and the        *)
(* matching release is one action.  Every bwrite is an action of its own,  *)
(* since the machine can stop between two of them.                         *)
(*                                                                         *)
(* The buffer cache is kept to what the log relies on: the copy of a home  *)
(* block in memory, and the pin that stops bget from recycling it.  Log    *)
(* blocks are always written through (bwrite right after memmove), so      *)
(* their cached and disk copies agree and only the disk copy is modelled.  *)
(***************************************************************************)
EXTENDS Naturals, Sequences, FiniteSets

CONSTANTS Proc,         \* processes that make file-system calls
          Block,        \* home block numbers
          Val,          \* contents of a block
          NotCached,    \* "no valid buffer holds this block"
          LOGSIZE,      \* param.h: blocks begin_op reserves from
          MAXOPBLOCKS,  \* param.h: blocks begin_op reserves per call
          LogBlocks,    \* log.size = sb.nlog: header block + data blocks
          OpBlocks      \* most distinct blocks one call really logs

ASSUME ValAssumption == NotCached \notin Val

ASSUME ProcAssumption == IsFiniteSet(Proc)

ASSUME SizeAssumption ==
  /\ LOGSIZE \in Nat
  /\ MAXOPBLOCKS \in Nat
  /\ LogBlocks \in Nat \ {0}
  /\ OpBlocks \in Nat

VARIABLES
  home,         \* disk: the home blocks
  logdata,      \* disk: the data blocks of the log
  head,         \* disk: the header block, as the list block[0 .. n-1]
  cache,        \* memory: the buffer of each home block, if there is one
  pins,         \* memory: references bpin has taken on it
  lh,           \* memory: log.lh, as the list block[0 .. n-1]
  outstanding,  \* memory: log.outstanding
  committing,   \* memory: log.committing
  tail,         \* memory: loop index of write_log and install_trans
  pc,           \* where each process is
  wrote,        \* blocks each process has logged in its current call
  boot          \* where initlog is

disk == <<home, logdata, head>>
vars == <<home, logdata, head, cache, pins, lh, outstanding, committing, tail,
          pc, wrote, boot>>

LogSlot == 1 .. (LogBlocks - 1)

CommitPc == {"write_log", "write_head", "install_trans", "clear_head", "commit_done"}

PcState == {"out", "begin_op", "asleep", "op", "panic"} \cup CommitPc

BootState == {"read_head", "install_trans", "clear_head", "up"}

(* The blocks of a header, and the contents bread returns for a home block. *)
Logged(h) == {h[i] : i \in 1 .. Len(h)}

View(b) == IF cache[b] = NotCached THEN home[b] ELSE cache[b]

(* A panic keeps log.lock for ever: nothing that needs the lock moves.      *)
Up == boot = "up" /\ \A p \in Proc : pc[p] # "panic"

(* wakeup(&log)                                                             *)
Wake(pcs) == [q \in Proc |-> IF pcs[q] = "asleep" THEN "begin_op" ELSE pcs[q]]

(* mkfs zeroes the log and leaves an empty header; the machine is off.      *)
Init ==
  /\ home \in [Block -> Val]
  /\ logdata \in {[i \in LogSlot |-> v] : v \in Val}
  /\ head = <<>>
  /\ cache = [b \in Block |-> NotCached]
  /\ pins = [b \in Block |-> 0]
  /\ lh = <<>>
  /\ outstanding = 0
  /\ committing = 0
  /\ tail = 0
  /\ pc = [p \in Proc |-> "out"]
  /\ wrote = [p \in Proc |-> {}]
  /\ boot = "read_head"

-----------------------------------------------------------------------------
(* Mutant of begin_op's test: it does not count the call that asks.         *)
NoRoomForOthers == committing = 1 \/ Len(lh) + outstanding * MAXOPBLOCKS > LOGSIZE

(* begin_op: sleep while a commit runs or the call might not fit.           *)
NoRoom == committing = 1 \/ Len(lh) + (outstanding + 1) * MAXOPBLOCKS > LOGSIZE

BeginOp(p) ==
  /\ Up
  /\ pc[p] \in {"out", "begin_op"}
  /\ \/ /\ NoRoom
        /\ pc' = [pc EXCEPT ![p] = "asleep"]
        /\ UNCHANGED outstanding
     \/ /\ ~NoRoom
        /\ pc' = [pc EXCEPT ![p] = "op"]
        /\ outstanding' = outstanding + 1
  /\ UNCHANGED <<disk, cache, pins, lh, committing, tail, wrote, boot>>

(* The panics of log_write, tested before absorption is looked for.         *)
LogWritePanics ==
  Len(lh) >= LOGSIZE \/ Len(lh) >= LogBlocks - 1 \/ outstanding < 1

(* Mutant of log_write: the buffer of a newly logged block is not pinned.   *)
LogWriteNoPin(p, b, v) ==
  /\ Up
  /\ pc[p] = "op"
  /\ Cardinality(wrote[p] \cup {b}) <= OpBlocks
  /\ ~LogWritePanics
  /\ cache' = [cache EXCEPT ![b] = v]
  /\ wrote' = [wrote EXCEPT ![p] = @ \cup {b}]
  /\ lh' = IF b \in Logged(lh) THEN lh ELSE Append(lh, b)
  /\ UNCHANGED <<disk, pins, pc, outstanding, committing, tail, boot>>

(* A call reads a block, changes it and hands it to log_write, all under    *)
(* the buffer's sleep-lock.  A call logs at most OpBlocks distinct blocks.  *)
(* If log_write panics the changed buffer stays locked and nobody sees it.  *)
LogWrite(p, b, v) ==
  /\ Up
  /\ pc[p] = "op"
  /\ Cardinality(wrote[p] \cup {b}) <= OpBlocks
  /\ \/ /\ LogWritePanics
        /\ pc' = [pc EXCEPT ![p] = "panic"]
        /\ UNCHANGED <<cache, lh, pins, wrote>>
     \/ /\ ~LogWritePanics
        /\ cache' = [cache EXCEPT ![b] = v]
        /\ wrote' = [wrote EXCEPT ![p] = @ \cup {b}]
        /\ IF b \in Logged(lh)
             THEN UNCHANGED <<lh, pins>>
             ELSE /\ lh' = Append(lh, b)
                  /\ pins' = [pins EXCEPT ![b] = @ + 1]
        /\ UNCHANGED pc
  /\ UNCHANGED <<disk, outstanding, committing, tail, boot>>

(* end_op: the last call out commits; the others wake who waits for room.   *)
EndOp(p) ==
  /\ Up
  /\ pc[p] = "op"
  /\ outstanding' = outstanding - 1
  /\ \/ /\ committing = 1
        /\ pc' = [pc EXCEPT ![p] = "panic"]
        /\ UNCHANGED <<committing, tail>>
     \/ /\ committing = 0
        /\ outstanding' = 0
        /\ committing' = 1
        /\ tail' = 0
        /\ pc' = [pc EXCEPT ![p] = IF Len(lh) > 0 THEN "write_log" ELSE "commit_done"]
     \/ /\ committing = 0
        /\ outstanding' # 0
        /\ pc' = [Wake(pc) EXCEPT ![p] = "out"]
        /\ UNCHANGED <<committing, tail>>
  /\ wrote' = [wrote EXCEPT ![p] = {}]
  /\ UNCHANGED <<disk, cache, pins, lh, boot>>

-----------------------------------------------------------------------------
(* commit, run by the process p that found outstanding = 0.                 *)

(* Mutant of write_log: the header, and with it the commit, is on disk      *)
(* before the last block is.                                                *)
WriteLogHeadFirst(p) ==
  /\ pc[p] = "write_log"
  /\ logdata' = [logdata EXCEPT ![tail + 1] = View(lh[tail + 1])]
  /\ cache' = [cache EXCEPT ![lh[tail + 1]] = View(lh[tail + 1])]
  /\ tail' = tail + 1
  /\ head' = IF tail + 1 < Len(lh) THEN lh ELSE head
  /\ pc' = [pc EXCEPT ![p] = IF tail + 1 < Len(lh) THEN "write_log" ELSE "write_head"]
  /\ UNCHANGED <<home, pins, lh, outstanding, committing, wrote, boot>>

(* write_log: copy one block of the cache to its place in the log.          *)
WriteLog(p) ==
  /\ pc[p] = "write_log"
  /\ logdata' = [logdata EXCEPT ![tail + 1] = View(lh[tail + 1])]
  /\ cache' = [cache EXCEPT ![lh[tail + 1]] = View(lh[tail + 1])]
  /\ tail' = tail + 1
  /\ pc' = [pc EXCEPT ![p] = IF tail + 1 < Len(lh) THEN "write_log" ELSE "write_head"]
  /\ UNCHANGED <<home, head, pins, lh, outstanding, committing, wrote, boot>>

(* write_head: the real commit.                                             *)
WriteHead(p) ==
  /\ pc[p] = "write_head"
  /\ head' = lh
  /\ tail' = 0
  /\ pc' = [pc EXCEPT ![p] = "install_trans"]
  /\ UNCHANGED <<home, logdata, cache, pins, lh, outstanding, committing, wrote, boot>>

(* One iteration of install_trans: the home block on disk and its buffer.   *)
InstallBlock ==
  /\ home' = [home EXCEPT ![lh[tail + 1]] = logdata[tail + 1]]
  /\ cache' = [cache EXCEPT ![lh[tail + 1]] = logdata[tail + 1]]
  /\ tail' = tail + 1

(* install_trans(0)                                                         *)
InstallTrans(p) ==
  /\ pc[p] = "install_trans"
  /\ InstallBlock
  /\ pins' = [pins EXCEPT ![lh[tail + 1]] = @ - 1]
  /\ pc' = [pc EXCEPT ![p] = IF tail + 1 < Len(lh) THEN "install_trans" ELSE "clear_head"]
  /\ UNCHANGED <<logdata, head, lh, outstanding, committing, wrote, boot>>

(* lh.n = 0 and write_head: erase the transaction from the log.             *)
ClearHead(p) ==
  /\ pc[p] = "clear_head"
  /\ lh' = <<>>
  /\ head' = <<>>
  /\ tail' = 0
  /\ pc' = [pc EXCEPT ![p] = "commit_done"]
  /\ UNCHANGED <<home, logdata, cache, pins, outstanding, committing, wrote, boot>>

(* Mutant of end_op: no wakeup after the commit.                            *)
CommitDoneNoWakeup(p) ==
  /\ pc[p] = "commit_done"
  /\ committing' = 0
  /\ pc' = [pc EXCEPT ![p] = "out"]
  /\ UNCHANGED <<disk, cache, pins, lh, outstanding, tail, wrote, boot>>

(* Back in end_op: committing = 0, wakeup(&log).                            *)
CommitDone(p) ==
  /\ pc[p] = "commit_done"
  /\ committing' = 0
  /\ pc' = [Wake(pc) EXCEPT ![p] = "out"]
  /\ UNCHANGED <<disk, cache, pins, lh, outstanding, tail, wrote, boot>>

-----------------------------------------------------------------------------
(* initlog and recover_from_log.                                            *)
ReadHead ==
  /\ boot = "read_head"
  /\ lh' = head
  /\ tail' = 0
  /\ boot' = IF Len(head) > 0 THEN "install_trans" ELSE "clear_head"
  /\ UNCHANGED <<disk, cache, pins, outstanding, committing, pc, wrote>>

(* install_trans(1): the blocks were never pinned, so nothing is unpinned.  *)
RecoverBlock ==
  /\ boot = "install_trans"
  /\ InstallBlock
  /\ boot' = IF tail + 1 < Len(lh) THEN "install_trans" ELSE "clear_head"
  /\ UNCHANGED <<logdata, head, pins, lh, outstanding, committing, pc, wrote>>

RecoverDone ==
  /\ boot = "clear_head"
  /\ lh' = <<>>
  /\ head' = <<>>
  /\ tail' = 0
  /\ boot' = "up"
  /\ UNCHANGED <<home, logdata, cache, pins, outstanding, committing, pc, wrote>>

-----------------------------------------------------------------------------
(* Environment.                                                             *)

(* A reader outside any transaction (fileread) brings a block into memory.  *)
Bread(b) ==
  /\ boot = "up"
  /\ cache[b] = NotCached
  /\ cache' = [cache EXCEPT ![b] = home[b]]
  /\ UNCHANGED <<disk, pins, lh, outstanding, committing, tail, pc, wrote, boot>>

(* bget recycles a buffer whose refcnt is 0.                                *)
Recycle(b) ==
  /\ cache[b] # NotCached
  /\ pins[b] = 0
  /\ cache' = [cache EXCEPT ![b] = NotCached]
  /\ UNCHANGED <<disk, pins, lh, outstanding, committing, tail, pc, wrote, boot>>

(* The machine stops and is switched on again: only the disk survives.      *)
Crash ==
  /\ cache' = [b \in Block |-> NotCached]
  /\ pins' = [b \in Block |-> 0]
  /\ lh' = <<>>
  /\ outstanding' = 0
  /\ committing' = 0
  /\ tail' = 0
  /\ pc' = [p \in Proc |-> "out"]
  /\ wrote' = [p \in Proc |-> {}]
  /\ boot' = "read_head"
  /\ UNCHANGED disk

CommitStep(p) ==
  WriteLog(p) \/ WriteHead(p) \/ InstallTrans(p) \/ ClearHead(p) \/ CommitDone(p)

Recovery == ReadHead \/ RecoverBlock \/ RecoverDone

Next ==
  \/ \E p \in Proc :
       \/ BeginOp(p)
       \/ \E b \in Block, v \in Val : LogWrite(p, b, v)
       \/ EndOp(p)
       \/ WriteLog(p)
       \/ WriteHead(p)
       \/ InstallTrans(p)
       \/ ClearHead(p)
       \/ CommitDone(p)
  \/ ReadHead
  \/ RecoverBlock
  \/ RecoverDone
  \/ \E b \in Block : Bread(b) \/ Recycle(b)
  \/ Crash

Spec == Init /\ [][Next]_vars

(* A process that holds log.lock or that was woken keeps running (the       *)
(* scheduler is round robin), every call reaches end_op, the committing     *)
(* process never waits for another one, and initlog runs to its end.        *)
Fairness ==
  /\ \A p \in Proc : /\ WF_vars(pc[p] = "begin_op" /\ BeginOp(p))
                     /\ WF_vars(EndOp(p))
                     /\ WF_vars(CommitStep(p))
  /\ WF_vars(Recovery)

FairSpec == Spec /\ Fairness

-----------------------------------------------------------------------------
(* Type correctness of the log's memory and disk state.                     *)
TypeOK ==
  /\ home \in [Block -> Val]
  /\ logdata \in [LogSlot -> Val]
  /\ head \in Seq(Block)
  /\ cache \in [Block -> Val \cup {NotCached}]
  /\ pins \in [Block -> Nat]
  /\ lh \in Seq(Block)
  /\ outstanding \in Nat
  /\ committing \in {0, 1}
  /\ tail \in Nat
  /\ pc \in [Proc -> PcState]
  /\ wrote \in [Proc -> SUBSET Block]
  /\ boot \in BootState

(* The reservation made by begin_op is enough: none of the panics of        *)
(* log_write ("too big a transaction", "log_write outside of trans") and    *)
(* end_op ("log.committing") is ever reached.                               *)
NeverPanics == \A p \in Proc : pc[p] # "panic"

(* What recovery would leave on the home blocks if the machine stopped now. *)
Recovered ==
  [b \in Block |-> IF b \in Logged(head)
                     THEN logdata[CHOOSE i \in 1 .. Len(head) : head[i] = b]
                     ELSE home[b]]

(* The log implements a disk with atomic group commit: log.c's promise that *)
(* a commit never writes an uncommitted call's updates, that a crash at any *)
(* bwrite, during recovery included, leaves the last committed group, and   *)
(* that running processes read their own latest updates.                    *)
Atomic ==
  INSTANCE AtomicFs WITH
    durable <- Recovered,
    current <- IF boot = "up" THEN [b \in Block |-> View(b)] ELSE Recovered,
    active  <- {p \in Proc : pc[p] \in {"op", "panic"}}

\* The log implements atomic, durable transactions (AtomicFs): a crash at any
\* step leaves the disk as the last commit left it.
AtomicCommit == Atomic!AbsSpec

(* The blocks of log.lh that install_trans has yet to write home.           *)
Installed(i) ==
  \E p \in Proc : \/ pc[p] = "install_trans" /\ i <= tail
                  \/ pc[p] = "clear_head"

Pending == {lh[i] : i \in {j \in 1 .. Len(lh) : ~Installed(j)}}

(* A block in the log is pinned once, so bget cannot recycle its buffer     *)
(* before install_trans has written it home; no other block stays pinned.   *)
PinnedUntilInstalled ==
  boot = "up" => \A b \in Block : pins[b] = IF b \in Pending THEN 1 ELSE 0

(* When no call is active and no commit runs, nothing is left to write: the *)
(* log is empty on disk and the home blocks hold what processes read.       *)
QuiescentIsDurable ==
  (boot = "up" /\ outstanding = 0 /\ committing = 0) =>
    /\ head = <<>>
    /\ \A b \in Block : home[b] = View(b)

(* The log is sound: its fields have their types, the cache keeps what is   *)
(* logged until it is installed, and a quiet log leaves nothing to recover. *)
LogSound == TypeOK /\ PinnedUntilInstalled /\ QuiescentIsDurable

(* Nobody sleeps in begin_op for ever: the end_op or the commit that makes  *)
(* room always follows the test that found none, and wakes the sleeper.     *)
SleepersWake == \A p \in Proc : pc[p] = "asleep" ~> pc[p] # "asleep"
-----------------------------------------------------------------------------
(* The inductive invariant behind the safety properties.                    *)

Active == {p \in Proc : pc[p] \in {"op", "panic"}}

(* At most one process commits, and no call is active while it does.        *)
ControlInv ==
  /\ \A p, q \in Proc : (pc[p] \in CommitPc /\ pc[q] \in CommitPc) => p = q
  /\ committing = 1 <=> \E p \in Proc : pc[p] \in CommitPc
  /\ committing = 1 => Active = {}
  /\ outstanding = Cardinality(Active)
  /\ boot # "up" => \A p \in Proc : pc[p] = "out"

(* A header lists no block twice and no more blocks than the log holds.     *)
WellFormed(h) ==
  /\ \A i, j \in 1 .. Len(h) : h[i] = h[j] => i = j
  /\ Len(h) <= LogBlocks - 1

CopiedTo(k) == \A i \in 1 .. k : logdata[i] = cache[lh[i]]

HomeTo(k) == \A i \in 1 .. k : home[lh[i]] = logdata[i]

(* What the log's disk blocks hold at each stage of a commit.               *)
CommitInv ==
  /\ (boot = "up" /\ committing = 0) => head = <<>>
  /\ (boot = "up" /\ committing = 0 /\ outstanding = 0) => lh = <<>>
  /\ \A p \in Proc :
       /\ pc[p] = "write_log" => head = <<>> /\ tail < Len(lh) /\ CopiedTo(tail)
       /\ pc[p] = "write_head" => /\ head = <<>> /\ Len(lh) > 0
                                  /\ CopiedTo(Len(lh))
       /\ pc[p] = "install_trans" =>
            /\ head = lh /\ tail < Len(lh) /\ HomeTo(tail)
            /\ \A i \in (tail + 1) .. Len(lh) : logdata[i] = cache[lh[i]]
       /\ pc[p] = "clear_head" => head = lh /\ HomeTo(Len(lh))
       /\ pc[p] = "commit_done" => head = <<>> /\ lh = <<>>

(* ... and at each stage of recovery.                                       *)
RecoveryInv ==
  /\ boot = "read_head" => lh = <<>>
  /\ boot = "install_trans" => lh = head /\ tail < Len(lh) /\ HomeTo(tail)
  /\ boot = "clear_head" => lh = head /\ HomeTo(Len(lh))

(* A buffer differs from its home block only while it is logged and pinned. *)
CacheInv ==
  \A b \in Block :
    IF boot = "up" /\ b \in Pending
      THEN pins[b] = 1 /\ cache[b] # NotCached
      ELSE pins[b] = 0 /\ (cache[b] = NotCached \/ cache[b] = home[b])

LogInv ==
  /\ TypeOK
  /\ ControlInv
  /\ WellFormed(head) /\ WellFormed(lh)
  /\ CommitInv
  /\ RecoveryInv
  /\ CacheInv
=============================================================================
