# Verification of minios

This directory holds TLA+ models of the system in `src/`, an xv6 for RISC-V with
an added `trace` system call, of its shell and utilities and of the builder of
its file-system image, together with TLC configurations and TLAPS proofs. A
definition is a translation of the C lines that the map in `PROJECT.json` gives
for it; the same file lists the parts of the system with their status, and the
hazards at the line where each one bites.

## 1. The system and its modules

| Part | Modules | What is hard |
|---|---|---|
| Redo log, `log.c` | `Log`; promise: `AtomicFs` | crash between any two disk writes, commit outside `log.lock`, space reservation |
| Buffer cache and sleep-locks, `bio.c`, `sleeplock.c` | `Bio`; promise: `BlockStore` | one buffer per block, recycling under sleepers, pins |
| Processes, `proc.c`, `trap.c` | `Proc` | lock hand-over across `swtch`, lost wakeups, orphans |
| Pipes, `pipe.c` | `Pipe`; promise: `Fifo` | counters that wrap, several sleepers, partial writes, close against sleep |
| Inodes and directories, `fs.c`, `sysfile.c` | `Names` | locks taken one after the other, the last `iput`, link counts, crashes |
| File contents and open files, `fs.c`, `file.c`, `sysfile.c` | `Files`; promise: `AtomicFile` | writes that fail half way, shared offsets, reference counts, size of transactions |
| Disk driver, `virtio_disk.c` | `Virtio` | too few descriptors, completion in any order, index wrap |
| Console and UART, `console.c`, `uart.c` | `Console` | two ring buffers between handlers and sleepers |
| Memory and exec, `kalloc.c`, `vm.c`, `exec.c`, `trace` | `Vm`; promise: `Images` | memory that runs out at any allocation |
| Shell and init, `sh.c`, `init.c` | `Shell`, `Parse` | who holds which end of a pipe, who waits for whom |
| Utilities, library, `malloc`, `mkfs` | `User` over `Grep`, `Lib`, `Umalloc`, `Mkfs`, `Parse` | boundaries: buffers, pages, overlaps, the least int |

How they fit together. A system call of `Names` or `Files` runs between
`begin_op` and `end_op` of `Log`, whose promise (`AtomicFs`) is what `Names`
assumes of the disk: the end of the last active call makes everything durable
and a crash goes back to that point. `Log` reads and pins through `Bio`, and
`Bio` reads through `Virtio`. Everybody who sleeps relies on `Proc` for the rule
that a wakeup under the caller's lock is not lost. `Shell` uses descriptors,
pipes, `exit` and `wait` as `Files`, `Pipe` and `Proc` provide them.

### Log, AtomicFs

What runs between `acquire(&log.lock)` and the matching `release` is one action
(`BeginOp`, `LogWrite`, `EndOp`, `CommitDone`). `commit` runs without the lock,
so each of its disk writes is an action: `WriteLog` (one block), `WriteHead`,
`InstallTrans` (one block), `ClearHead`. `ReadHead`, `RecoverBlock` and
`RecoverDone` are the boot path. `Crash` may strike anywhere, recovery included;
only `home`, `logdata` and `head` survive. A write of one block is atomic, as
the code assumes of the header block. `Bread` and `Recycle` are the other users
of the cache. A panic keeps `log.lock`, so nothing that needs the lock moves
after it.

`AtomicFs`: calls update a current view; a commit makes the whole view durable,
only while no call is active; a crash goes back to the durable view. The
refinement mapping takes as durable what recovery would leave on the home blocks.

### Proc

The process table and the CPUs, lock by lock. `stack[c]` says whose kernel stack
CPU `c` executes on, `curproc[c]` is `c->proc`; the two differ during `swtch`.
Loops over the table take one action per slot. The timer may preempt a process
wherever it holds no spin-lock (`KernelTrap`). The only sleep is the one in
`wait`; a fault, which makes `usertrap` kill its own process, appears as a call
of `exit`; no program kills init. `fork` may run out of memory (`ForkFails`);
what it does with memory is in `Vm`.

### Bio, BlockStore

`next` and `prev` as in the code; `brelse` relinks them in the order of its
assignments. `Bget` is the part of `bget` under `bcache.lock`. The holder of a
buffer may change and pin it (`LogWrite`), write it through (`Bwrite`) or, as
the log does, write a pinned block home and unpin it (`WriteHome`). When every
buffer is in use `bget` panics with `bcache.lock` held, and nothing that needs
the lock moves any more (`BcacheFree`). A call that holds two buffers counts as
two processes. `newer` is a history variable:
the pairs of unreferenced buffers of which the first was released after the
second. `BlockStore` is the promise
in `bio.c`'s header comment: one copy of each block, changed only by its holder.

### Pipe, Fifo

One pipe with its lock and the descriptors that refer to it. Each turn of the
loops of `pipewrite` and `piperead` is an action. The test of `killed` and the
`sleep` are separate, since `kill` does not take `pi->lock`. `copyin` and
`copyout` may fail at any byte. Counters wrap at `UintMod`, which stands for
2^32; like 2^32 and 512 it is a multiple of `PIPESIZE`.

### Names

The inode table (`ref`, `valid`, the sleep-lock) and the inodes on disk (type,
`nlink`, entries). `open` with and without creation, `mkdir`, `mknod`, `link`,
`unlink`, `chdir` and `close` are sequences of actions: what a call does between
getting one inode's lock and waiting for the next is one action, and every
`iunlock` and `iput` that ends it is a step of its own (`todo`), since `iput` may
free the inode. `NamexStep` is one turn of `namex`. `iget` panics when all
`NINODE` entries of the table are in use (`NoInodes`). `Crash` goes back to what
the log has made durable. Every change of an inode in memory is followed by
`iupdate` under the same lock, so one copy stands for both. `lost` is a history
variable: the names that were written into a directory after its removal and
went with it, which the link counts still count.

### Files, AtomicFile

The bitmap, block map and contents of files, the file table, the pages of pipes
and the descriptors. `balloc`, `bmap`, `itrunc`, `readi` and `writei` are operators on
the disk that return what they changed; `Chunk` is one turn of `filewrite`'s
loop, a transaction under the inode's lock, so that other processes come in
between two chunks. The disk may be full and the user's address bad at any
byte: a `copyin` that fails in the middle of a block leaves what it copied in the
buffer, not logged, where readers see it until the buffer is recycled (`Evict`)
or logged by a later write. `PipeFile`, `PipePage`, `PipeFds` and `PipeClose` are
the steps of `pipealloc` and `sys_pipe`, each of which may fail. `AtomicFile`
knows no blocks: a file is a sequence of bytes (`content`) and what of it is sure
to stay (`stable`). A chunk replaces a part of both, at the shared offset, by as
much as was written, and a failed one may leave further bytes in `content` only,
which `Forget` takes back.

### Virtio

`Submit` is `virtio_disk_rw` up to its first sleep, `Finish` the rest;
`AllocFails` is the turn in which three descriptors are not to be had. The
interrupt handler holds `vdisk_lock` over several actions (`IntrStart`,
`IntrEntry`, `IntrEnd`), because the device goes on meanwhile. `DeviceTake` and
`DeviceFinish` are the external device: it takes requests in ring order and
finishes them in any order. `buf` and `disk` are versions of data, which differ
when a request starts; `op` has the version that its end must find in both.

### Console

`consoleread` (`ReadTest`, `ReadSleep`, `Read`), `consoleintr` with its editing keys,
`consolewrite` over `uartputc` (`WriteWait`, `Write`), `uartstart` and
`uartintr`. A critical section of `cons.lock` or `uart_tx_lock` is one action,
but for the test of `killed` and the `sleep`, since `kill` takes `p->lock` only.
The external UART receives keys (`Type`) and becomes idle (`Sent`). `lines` and
`output` are history variables: input completed and not yet read, output
written and not yet sent.

### Vm, Images

Frames, the free list, page tables with their three levels. The functions of
`vm.c` and `exec.c` are operators on a record with the free list, the contents of
frames and the table they work on; each may fail where the code may. A system
call is one action, since processes share only the free list; `PipeAlloc` and
`PipeClose` take and return pages between calls, so that memory runs out at
every point of a call. Contents are kept per page; sizes are in bytes and wrap
as the code's unsigned arithmetic makes them. `Images` has no frames: a process
has a size, contents and a trace mask; a failed call changes none of them.

### Shell, Parse

`Shell` runs parsed commands: each process is at a point of `runcmd` or of a
program, with its descriptors. `fork` and `pipe` may fail (`panic("fork")`,
`panic("pipe")`). `Parse`
is the recursive-descent parser on tokens; its reference, `Grammar`, splits a
line at the operators outside parentheses.

### User and the modules below it

A state is one job: an operator of `Grep`, `Lib`, `Mkfs` or `Parse` with its
input, or the heap of `Umalloc` after some calls. `Umalloc` keeps `malloc`'s
circular list pointer by pointer. `Mkfs` builds the image file by file.

## 2. Runs

| Run | Instance | Checks |
|---|---|---|
| `log` | 2 processes, 3 blocks, log area of 4 blocks, reservations of 2, crashes unbounded | `LogSound`, `NeverPanics`, `AtomicCommit`; who sleeps in `begin_op` wakes (`SleepersWake`) |
| `proc_safe` | 3 slots, 2 CPUs, 3 pids, one of which may be killed; no timer interrupt within `kill` | one CPU per kernel stack, nobody freed while on a CPU, no lost wakeup, `TableSound` (pids, parents, the checks of `sched`) |
| `proc_live` | 3 slots, 1 CPU, 3 pids | `RunnableRuns`, `InitReapsZombies` |
| `bio` | 3 processes, 4 blocks, 2 buffers, 2 pins | `CacheSound` (the ring in its order, `bget`'s panic only when every buffer is in use and no other panic, sleepers), `KeepsItsBlock`, `OneCopy` |
| `pipe` | 2 readers, of which one may be killed, and a writer that is not; 2 slots, counters mod 4, calls of up to 2 bytes | `InOrder` (refinement of `Fifo`), `NoLostWakeup`, `NoUseAfterFree`, `CallsEnd` |
| `names` | 2 processes with 2 calls each (`open`, `mkdir`, `link`, `unlink`, `chdir`, `close`), 4 inodes, 3 entries of the inode table, 2 names, 1 crash | `RefsSound` (exact reference counts; the comment of `iput` that its `acquiresleep` will not block), `NoDanglingNames` (exact link counts), `PanicsOnlyWhenFull`, `NoLockCycle` |
| `files` | 2 processes, 2 files, 2 entries of the file table, 5 blocks of 2 bytes, 1 direct and 2 indirect, 1 page for pipes, 5 calls | `NothingLeaks`, `OpFits`, `ReadsAllocateNothing`, `ImplementsAtomicFile` |
| `virtio` | 3 processes, 8 descriptors, indices mod 16 from 15, 3 requests | `RingsSound`, `DataMoved`, `RequestsEnd` |
| `console` | reader and writer, both buffers of 2, indices mod 4 from 3, 3 keys, 3 bytes | `InOrder`, `NothingForgotten`, `WritesEnd` |
| `vm` | 2 slots, 18 frames, 3 programs, 3 calls | `MemorySound`, `ImplementsImages` |
| `shell` | 2 of 3 commands with pipes, redirections, list and background, 1 failing fork or pipe | `RunsAsWritten`, `CommandsEnd` |
| `user` | patterns up to 4, files up to 6, lines up to 5 tokens, paths up to 6, 8-bit ints, trees of 3 directories, heaps of 12 units | `ProgramsRight`, `ParseIsGrammar`, `LibraryRight`, `ImageIsSound`, `HeapSound` |

Why the bounds are enough. Log: two calls share a group or one waits for room or
for the commit, one block is absorbed, and without the reservation the three
blocks would fill the log. Proc: init, a parent and a child
that outlives it, so that reparenting happens. `KillNotPreempted` keeps the timer
out of `kill`; the other CPU comes in between any two slots that it looks at, and
the proofs have no such bound. Bio: the processes and pins can
have all buffers, two processes sleep on one of them, and four blocks force
recycling. Pipe: a second call of the writer finds the pipe full, and the counters
wrap after two fillings. Names: one process makes,
enters, opens and removes a directory while the other creates, links and unlinks
in it; four inodes in use are one more than the table holds. Files: the second
block of a file needs the indirect block, five blocks run out, six blocks per
transaction cut a write of four bytes in two, and a pipe needs all of the file
table. Virtio: eight
descriptors serve two requests, so the third process must sleep for them; the
indices wrap at the second request. Three requests in all: a process that makes
two of them reuses the descriptors of a finished one. Console: both buffers fill
up and both counters wrap; longer sessions are left to the proofs. Vm: a process
of the largest program leaves too little for a
second one, so that fork, exec and sbrk fail at each of their allocations. Shell:
a pipe of three programs has two levels of `runcmd`, and a pipe smaller than what
is written makes the order of closing matter.

Several invariants of one component are checked under one name: `TableSound`,
for instance, is the conjunction of the component's type invariant, `PidsUnique`,
`NoOrphans` and `SchedNeverPanics`, each with its own comment in the module.

Deadlock is not checked where behaviours end by a bound on calls or because all
processes are done (`pipe`, `names`, `files`, `virtio`, `console`, `vm`,
`shell`, `user`).

Fairness. A process in the kernel keeps running: the scheduler is round robin
and the timer preempts, which `proc_live` shows for `Proc` itself. There each CPU
keeps executing, whatever runs on it (`CpuStep`), and each CPU's timer ticks
(`Timer`) but leaves a process time for a step of its own between two ticks
(`SyscallStep`): no fairness is asked for a process that is not on a CPU, that is
what `RunnableRuns` shows. init calls `wait` for ever as `init.c` does. Strong
fairness is needed since a lock may be taken, and the timer be off, now and then. In
`Log` every call reaches `end_op` and boot completes. In `Pipe` nobody has to
call or close anything. In `Virtio` the device finishes what it has taken and
interrupts are not held up for ever; a process that finds descriptors free need
not be the one that gets them. In `Console` the UART sends what it has been
given; nobody has to type. In `Shell` some process that can run does.

## 3. Disagreements found while modelling

Each configuration below is in this directory and makes TLC print the behaviour.
They are kept apart from the runs, which check what does hold, if need be under a
condition that leaves the behaviour out (see below the table).

| Configuration | What the code does | What it says |
|---|---|---|
| `LogFull.cfg` (MCLog) | if calls logged all of their MAXOPBLOCKS blocks, `log_write` would panic (`log.c:221`): `mkfs` counts the header in the log's blocks (`mkfs.c:25`). None of this kernel's calls logs that many, and `EnoughSpace` proves that one block less is enough | `param.h:10`: LOGSIZE is "max data blocks in on-disk log" |
| `ProcKill.cfg` (Proc) | a kill between `wait`'s test of `killed` and its `sleep` (`proc.c:440`) leaves the victim asleep until a child exits | `proc.c:613` "Wake process from sleep()" |
| `ProcKillFree.cfg` (Proc) | `kill(0)` matches a free slot, whose pid is 0; the next process in the slot is born killed (`proc.c:610`) | `proc.c:600` "Kill the process with the given pid" |
| `ConsoleKill.cfg` (Console) | the same in `consoleread` (`console.c:92`): the victim stays asleep until somebody types | `proc.c:613` as above |
| `PipeKill.cfg` (Pipe) | a writer killed after it has put bytes into the pipe returns without waking the readers (`pipe.c:84`) | readers sleep only while the pipe is empty (`pipe.c:113`) |
| `NamesNested.cfg` (MCNames) | a process sits in a removed directory whose parent is removed too; `..` leads to the freed parent and `ilock` panics (`fs.c:314`) | the panic "ilock: no type" is meant to be out of reach |
| `NamesIput.cfg` (MCNames) | one process's `iput` has freed an inode on disk and not yet decremented `ref` when another's `ialloc` takes the same number; that `create` then fails and puts it with `ref` 2, and the first decrement, which comes last, no longer tests (`fs.c:341`): the inode stays allocated without a name | `fs.c:332` "If that was the last reference and the inode has no links to it, free the inode" |

So of `names`, the part of `PanicsOnlyWhenFull` about `ilock` is a claim about
directories in the root (`Flat`), and so is all that the run shows, as it makes
no others. `NoLostWakeup` of `pipe` and theorem `PipeWakeups` are about writers
that are not killed. `NeverPanics` of `log` is about calls that log fewer than
MAXOPBLOCKS blocks.

Two tables have a limit that the code does not guard, and the runs reach it:

- `bget` panics when every buffer is in use. NBUF is LOGSIZE (30), so the pins of
  the log alone can take them all, and NPROC is 64. `CacheSound` shows that
  nothing else makes it panic, theorem `PanicTakesMany` how many users it takes.
- `iget` panics when every entry is in use. NFILE (100) files and NPROC (64)
  working directories can hold more than NINODE (50) inodes. `PanicsOnlyWhenFull`
  shows that at least NINODE inodes are really held then, none by a leaked
  reference.

Smaller ones, visible in the definitions:

- `mkfs.c` rounds the root directory's size up to a whole block and always adds
  one (`ImageIsSound` excludes the case): when the entries fill the last block
  exactly, the root has a hole that the first read of it would fill.
- `sbrk` below zero wraps, is no shrinking at all, and returns success.
- `exec` takes an empty first segment for a failed allocation.
- `grep` stops at a line longer than its buffer and ignores a last line without a
  newline (`GrepFindsLines` says so in its condition).
- Of several redirections of one descriptor in a line, the innermost, that is
  the first, wins.
- An inode without a name that was open at a crash stays allocated: nothing
  reclaims it at boot.
- `create` and `link` write names into a directory that was removed while in use.
  The directory is freed with them, and the files they name keep a link count
  that is too high (`NoDanglingNames` accounts for them by `lost`).
- A write that faults in the middle of a block reports nothing written, and readers
  see some of its bytes until the buffer is recycled.

## 4. Proofs

All for arbitrary sets of processes, blocks and contents and arbitrary sizes.

`LogProofs` proves `LogInvariant`, `Spec => []LogInv`. Assumptions: `NotCached` is
not a block's contents, `Proc` is finite, sizes are naturals and the log has at
least its header block. `LogSound` is not inductive: whether a crash is harmless
in the middle of `install_trans` depends on what the log area holds, which
depends on what `write_log` copied earlier. `LogInv` therefore adds

- `ControlInv`: one process commits at a time, none is inside a call meanwhile,
  and `outstanding` counts the active calls;
- `WellFormed`: a header lists no block twice and fits the log;
- `CommitInv` and `RecoveryInv`: at each stage of commit and recovery, which log
  blocks equal the cache and which home blocks equal the log;
- `CacheInv`: every pending block is cached and pinned once, every other cached
  block agrees with its home block.

There is one lemma per action. `LogAlwaysSound` (`LogSound`) follows from
`TypeCorrect`, `PinsHold` and `QuiescentDurable`.

The lemmas that count processes or blocks have the facts of module `Counting` as
a hypothesis, and `CountingHolds` proves those from the library's theorems on
finite sets before the first theorem; `BioProofs` does the same. Nothing is
assumed: it only keeps the library out of sight of the provers where they do not
need it, which halves their time.

`LogProofs` also proves `LogIsAtomic`, `Spec => AtomicCommit`. The step that maps
to the abstract commit is `WriteHead`; `InstallTrans`, `ClearHead` and recovery
leave the durable view unchanged; `Crash` maps to the abstract crash.

And it proves `EnoughSpace`: no panic if `OpBlocks < MAXOPBLOCKS <
LOGSIZE <= LogBlocks`. The invariant gives every active call one token for each
block it may still log; the log's length plus the tokens stay at least two below
LOGSIZE.

`PipeProofs` proves `PipeTypes`, `PipeNotUsedAfterFree`, `PipeWakeups` and
`PipeInOrder`. The invariant `EndsInv` relates the lock to the one process inside,
the open flags to the processes that still hold an end, and both to the freed
page; `SleepInv` says why each sleeper sleeps. `PipeWakeups` assumes that no writer is killed, which is
the condition that `PipeKill.cfg` shows to be needed. `PipeAssumption` asks that
the counters' modulus be a multiple of the capacity. `PipeInOrder` is the
refinement of `Fifo`: between `nread` and `nwrite` there are never more bytes than
the buffer holds, a `pipewrite` of a byte maps to `Put`, a `piperead` of one to
`Get`, and every other step leaves the queue alone.

`RingArith` has what this and the next two need about ring buffers under wrapping
counters, for any size and any modulus that it divides: the distance between two
counters and how it grows, shrinks and splits; slots at different distances below
the size are different; the sequence between two counters (`Held`) changes at its
ends only when one puts (`RingPut`) or gets (`RingGet`), is what it was when a slot
beyond its end changes (`RingKeeps`), and is extended by what a later counter takes
in (`RingJoin`).

`VirtioProofs` proves `DiskRingsSound` and `DiskDataMoved`, for any number of
processes, descriptors and requests. `DiskAssumption` asks that the indices'
modulus be a proper multiple of the number of descriptors: 2^16 and 8 in the code.
With a modulus equal to it a full ring would look empty. That the interrupt finds
live entries depends on where each request is between `Submit` and `Finish`, so
the invariant `IInv` says

- `ChainInv`: the three descriptors of each request under way are linked and
  labelled as `virtio_disk_rw` set them, chains do not overlap, and together they
  are the descriptors that are not free;
- `EntryInv`: the headers that are posted and not taken, that the device works on,
  and that are returned and not seen are all different, each the header of a
  request under way that still waits (`b->disk` set); for those returned, and for
  those whose `b->disk` is clear, the data has been moved.

`WayInv`, proved on top of it, says that the source of a request (the disk for a
read, the buffer for a write) has the version that the request asks for and that
its descriptor is labelled with its direction, so that what the device does gives
both sides that version.

Since an unfinished request owns three descriptors and stands in one place once,
no ring ever holds more than `NUM` entries; that is what makes the 16-bit
differences of the code right.

`ConsoleProofs` proves `ConsoleInOrder` and `ConsoleNothingForgotten`, for any
number of readers and writers, any two buffer sizes and any modulus that is a
proper multiple of both (`SizeAssumption`). The invariant says that `w` lies between
`r` and `e`, `e` at most a buffer ahead of `r`, and that a full buffer has no
unfinished line (`w = e`). The last is needed because a full input buffer that
waited for a newline would never be read: it is what lets a reader asleep be sure
that a key can still wake it. Kill line walks back from `e` until a newline or `w`;
`KilledIs` shows that it stops between the two, at the least place that stops it.
A reader between its test of `killed` and its sleep still holds `cons.lock`
(`ConsFree`), so no key comes in between.

`BioProofs` proves `BufferKeepsItsBlock`, `SleepersWait`, `ListStaysLru`,
`CacheStaysSound` and `PanicTakesMany`, for any number of processes, blocks and
buffers. The invariant `BioInv` says

- `CacheInv`: `refcnt` counts the processes that have the buffer, plus its pin,
  and a locked buffer's holder is one of them. A buffer with a user is thus never
  unused, and `bget` recycles only unused ones;
- `ListInv`: there is a sequence of all nodes, head first, whose neighbours are
  those that `next` and `prev` link, and in which unreferenced buffers stand as
  `newer` says. With this witness no induction over the list is needed: the walk
  of `bget` is the sequence itself, as both satisfy the same recursion and a least
  place where they differ is impossible. `brelse` moves one place of the sequence
  to the front, which `MovedLinks` shows is what its six assignments do;
- `NoDup`, `DataInv`, `PinInv`: a block has one buffer, a valid buffer that is not
  pinned agrees with the disk, and at most `MaxPins` buffers are pinned.

For `CacheStaysSound`, `PanicInv` says that once `bget` has panicked all buffers
have references and, `bcache.lock` being held for ever, keep them; by `CacheInv`
each is then pinned or with another process. `PanicTakesMany` counts them: at
least NBUF users and pins.

It also proves `CacheIsOneCopy`, `Spec => OneCopy`. `AcquireSleep` maps to
`Acquire` when it gets the lock, `LogWrite` and `Bwrite` to `Update`,
`ReleaseSleep` to `Release`. The other steps must leave `Contents` alone, which
is what `DataInv` is for: recycling drops a copy that agrees with the disk, and
`bread` fetches what `Contents` already says.

`ProcProofs` proves `ProcInvariant`, `Spec => []ProcInv`, and from it all that
`proc_safe` checks: `ProcOneCpuPerStack`, `ProcFreedIsOffCpu`, `ProcTableSound`
and `ProcNoLostWakeup`, for any number of slots and CPUs. Assumptions: there is a
slot and a CPU, and nobody kills init, whose exit would panic
(`KillPid \subseteq Nat \ {1}`). None of the four is inductive: that two CPUs do not run on
one stack depends on who holds `p->lock` while `swtch` is half done, and that no
parent sleeps through a child's exit on how far `wakeup` has come in its loop.
`ProcInv` (module `ProcInductive`) says

- `CpuInv`, `LockInv`: every lock's owner follows from where the CPUs are. A CPU
  holds the lock of `c->proc` from `scheduler`'s acquire until the process has
  passed its resumption point, and again from `yield`, `sleep` or `exit` on;
- `StateInv` and `LocalInv`: `p->state` and the loop counters fit the point the
  process is at, a preemption by the timer in between or not;
- `ForkInv`, `PidInv`, `ParentInv`: one fork owns a USED slot, pids are below
  `nextpid`, parents are alive, and `reparent` leaves no child behind it;
- `WakeInv`: `wait` has passed no zombie, and `exit`'s wakeup has not passed a
  parent that sleeps.

`ProcFrames` has the steps of the scheduler and of traps, and what a step that
changes one process leaves intact; `ProcProofs` has `yield`, `fork`, `sleep`,
`kill`, `exit` and `wait`. `ProcInductive.cfg` lets TLC check
`ProcInv` on three slots and two CPUs.

Only model-checked: liveness (fairness is outside the prover's reach), and
`Names`, `Files`, `Vm`, `Shell` and `User`. `Files`, `Vm` and the algorithms
below `User` are recursions and folds over sequences and trees, whose results for
every input only an induction over data would give. What `Shell` claims depends on
the command, which is a tree. In `Names` the panic of `ilock` is out of reach only
for directories in the root.

## 5. Simplifications

- `Names`: an inode's entry of the inode table is found by its number, and at most
  `NINODE` are in use. The run has no `mknod`, which is `create` with another type;
  `NamesIput.cfg` has it. File contents are in `Files`.
- `Files`: each bitmap block stands for one block, which makes `OpFits` as tight as
  it can be. The steps of `open` after `filealloc`, which hold the inode's lock, are
  one action. Reads and writes of pipes are in `Pipe`.
- `Bio`: a process holds one buffer at a time.
- `Pipe`: the run has one writer. The proofs have any number.
- `Console`: control-P (`procdump`) is left out; echo goes to the UART directly,
  as `uartputc_sync` does, and does not count as output of `Write`.
- `Umalloc`: requests are below 2 GB (`IntAssumption`): `morecore` passes the bytes
  it wants to `sbrk` as an int.
- `Vm`: calls are atomic, see above. `growproc` has no test against the
  trapframe; memory runs out first, here as there.
- `Shell`: the built-in `cd` is left out; characters inside tokens are left to
  the parser's input. That init itself cannot fork is left out.
- `find` has each directory opened successfully and a path that fits; where the
  code prints or runs a command, the model lists the path.

## 6. Not modelled

Register saving, `swtch` and trap vectors, page-table bits, the kernel's own page
table, plic and clint set-up, boot: hardware configuration and register moves.
The atomic instruction and interrupt nesting of `spinlock.c`: critical sections
are actions instead, and `SchedNeverPanics` covers the check of the nesting depth
in `sched`. `filestat`, `copyin`, argument fetching and the printing in
`syscall`: copying without state of their own. The formatting of `printf` beyond
numbers, the one-loop routines of `string.c` and `ulib.c`, and the programs that
make one system call per argument. The test programs (`usertests.c`, `grind.c`
and others), which are half of `user/`, were read for what they expect of the
kernel.

## 7. Running

    tlc -workers 2 -config Log.cfg MCLog
    tlapm LogProofs.tla

Each `X.cfg` belongs to the module given in `PROJECT.json` or in the table of
section 3. The longest run takes about two minutes on two cores.
