--------------------------------- MODULE Vm ---------------------------------
(***************************************************************************)
(* User memory: kernel/kalloc.c, vm.c and exec.c, with the parts of proc.c *)
(* and sysproc.c that allocate, copy, resize and free it, and trace_mask.  *)
(*                                                                         *)
(* Pages of physical memory are frames; a page table has its three levels, *)
(* with ENT entries in a page-table page.  Processes share no memory but   *)
(* the free list, so a call is one action; what other calls hold of it     *)
(* meanwhile is taken and returned by PipeAlloc and PipeClose, so that an  *)
(* allocation may fail at any point of a call.  Sizes are in bytes,        *)
(* virtual addresses in pages.                                             *)
(*                                                                         *)
(* The operators that model functions of vm.c take and return a record s:  *)
(* the free list, the contents of frames, the page table they work on, and *)
(* what they return: ok for success, r for a size, panic.                  *)
(***************************************************************************)
EXTENDS Integers, Sequences, FiniteSets, FiniteSetsExt, SequencesExt, Functions, TLC

CONSTANTS Proc, initproc, Frames,
          PGSIZE, ENT,
          Programs,     \* programs: sequences of segments [va, memsz, filesz, w]
          Sbrks,        \* arguments of sbrk
          Masks,        \* arguments of trace
          MaxArgs,      \* bound: arguments of exec
          MaxCalls      \* bound: system calls

MAXVA == ENT * ENT * ENT
TRAMPOLINE == MAXVA - 1
TRAPFRAME == MAXVA - 2
Kernel == 0    \* the frame of the trampoline
None == 0      \* no frame

\* walk panics at MAXVA, and mappages at a page that is mapped: memory runs out
\* before a process reaches the trapframe.
ASSUME MemoryAssumption ==
  Frames \subseteq Nat \ {0} /\ IsFiniteSet(Frames) /\ Cardinality(Frames) <= TRAPFRAME

VARIABLES free,       \* kmem.freelist, as a set
          data,       \* contents of frames
          piped,      \* frames in use as pipe buffers and by others
          proc,       \* the process table
          panicked,
          calls       \* counter for the bound

vars == <<free, data, piped, proc, panicked, calls>>

NoTable == [root |-> None, tabs |-> <<>>, pte |-> <<>>]
Unused == [state |-> "UNUSED", sz |-> 0, trapframe |-> None, t |-> NoTable, mask |-> 0]

-----------------------------------------------------------------------------
\* kalloc.c.  A page that is freed twice would be on the list twice.
kfree(s, S) ==
  [s EXCEPT !.free = @ \cup S,
            !.data = [f \in Frames |-> IF f \in S THEN "junk" ELSE @[f]],
            !.panic = @ \/ S \cap s.free # {} \/ ~ S \subseteq Frames]

\* kalloc, and what the caller fills the page with; the page is then NewFrame(s)
\* of the state before.
NewFrame(s) == Min(s.free)
kalloc(s, fill) == [s EXCEPT !.free = @ \ {NewFrame(s)}, !.data[NewFrame(s)] = fill]

Failed(s) == [s EXCEPT !.ok = FALSE, !.r = 0]
Panic(s) == [s EXCEPT !.panic = TRUE]

\* One level of walk(va, 1).
Enter(s, key) ==
  IF ~ s.ok \/ key \in DOMAIN s.t.tabs THEN s
  ELSE IF s.free = {} THEN Failed(s)
  ELSE [kalloc(s, "table") EXCEPT !.t.tabs = @ @@ (key :> NewFrame(s))]
walk(s, va) == Enter(Enter(s, <<1, va \div (ENT * ENT)>>), <<0, va \div ENT>>)

\* mappages, for one page; Install is what follows walk.
Install(s, va, pte) ==
  IF ~ s.ok THEN s
  ELSE IF va \in DOMAIN s.t.pte \/ va >= MAXVA THEN Panic(s)
  ELSE [s EXCEPT !.t.pte = @ @@ (va :> pte)]
mappages(s, va, frame, w, u) ==
  Install(walk(s, va), va, [frame |-> frame, w |-> w, u |-> u])

uvmunmap(s, va, npages, do_free) ==
  LET range == va .. va + npages - 1 IN
  IF ~ range \subseteq DOMAIN s.t.pte THEN Panic(s)
  ELSE LET q == [s EXCEPT !.t.pte = Restrict(@, DOMAIN @ \ range)] IN
       IF do_free THEN kfree(q, {s.t.pte[v].frame : v \in range}) ELSE q

uvmcreate(s) ==
  IF s.free = {} THEN Failed(s)
  ELSE [kalloc(s, "table") EXCEPT !.t = [NoTable EXCEPT !.root = NewFrame(s)]]

PagesIn(sz) == (sz + PGSIZE - 1) \div PGSIZE
PageSeq(a, b) == [i \in 1 .. b - a |-> a + i - 1]   \* a, a + 1, ..., b - 1

uvmdealloc(s, oldsz, newsz) ==
  IF newsz >= oldsz THEN [s EXCEPT !.r = oldsz]
  ELSE [uvmunmap(s, PagesIn(newsz), PagesIn(oldsz) - PagesIn(newsz), TRUE)
          EXCEPT !.r = newsz]

\* The end of the loops of uvmalloc and uvmcopy when memory is full: the pages
\* from first on go, and with them the page f that could not be mapped at va.
Unwind(s, first, va) == Failed(uvmunmap(s, first, va - first, TRUE))
Added(s, f, va, first) == IF s.ok THEN s ELSE Unwind(kfree(s, {f}), first, va)

\* Mutant: the page is not freed when the page table cannot grow.
AddPageLeaks(s, va, first, content, w, u) ==
  LET q == mappages(kalloc(s, content), va, NewFrame(s), w, u)
  IN  IF s.free = {} THEN Unwind(s, first, va) ELSE IF q.ok THEN q ELSE Unwind(q, first, va)

\* A new page at va, after those from first on.
AddPage(s, va, first, content, w, u) ==
  IF s.free = {} THEN Unwind(s, first, va)
  ELSE Added(mappages(kalloc(s, content), va, NewFrame(s), w, u), NewFrame(s), va, first)

\* Mutant: no memset.
uvmallocJunk(s, oldsz, newsz, w) ==
  LET first == PagesIn(oldsz)
      Grow(q, va) == IF q.ok THEN AddPage(q, va, first, "junk", w, TRUE) ELSE q
  IN  IF newsz < oldsz THEN [s EXCEPT !.r = oldsz]
      ELSE FoldLeft(Grow, [s EXCEPT !.r = newsz], PageSeq(first, PagesIn(newsz)))

uvmalloc(s, oldsz, newsz, w) ==
  LET first == PagesIn(oldsz)
      Grow(q, va) == IF q.ok THEN AddPage(q, va, first, "zero", w, TRUE) ELSE q
  IN  IF newsz < oldsz THEN [s EXCEPT !.r = oldsz]
      ELSE FoldLeft(Grow, [s EXCEPT !.r = newsz], PageSeq(first, PagesIn(newsz)))

\* Frees the page-table pages.
freewalk(s) ==
  IF DOMAIN s.t.pte # {} THEN Panic(s)
  ELSE [kfree(s, Range(s.t.tabs) \cup {s.t.root}) EXCEPT !.t = NoTable]

uvmfree(s, sz) == freewalk(IF sz > 0 THEN uvmunmap(s, 0, PagesIn(sz), TRUE) ELSE s)

\* s has the new page table, old is the parent's.
uvmcopy(old, s, sz) ==
  LET Copy(q, va) ==
        IF ~ q.ok THEN q
        ELSE IF va \notin DOMAIN old.pte THEN Panic(q)
        ELSE AddPage(q, va, 0, q.data[old.pte[va].frame], old.pte[va].w, old.pte[va].u)
  IN  FoldLeft(Copy, s, PageSeq(0, PagesIn(sz)))

uvmclear(s, va) ==
  IF va \notin DOMAIN s.t.pte THEN Panic(s) ELSE [s EXCEPT !.t.pte[va].u = FALSE]

\* copyout: pages va to va + n - 1, up to the first that the user cannot write.
CanWrite(t, va) == va \in DOMAIN t.pte /\ t.pte[va].u /\ t.pte[va].w
copyout(s, va, n, content) ==
  LET Put(q, v) == IF q.ok /\ CanWrite(s.t, v)
                   THEN [q EXCEPT !.data[s.t.pte[v].frame] = content]
                   ELSE Failed(q)
  IN  FoldLeft(Put, s, PageSeq(va, va + n))

-----------------------------------------------------------------------------
\* proc.c.  The trampoline and the trapframe are mapped for the kernel only;
\* Undo is what follows a mappages that failed, with n of the two mapped.
Undo(s, n) ==
  IF s.ok \/ s.t = NoTable THEN s
  ELSE uvmfree(uvmunmap(s, TRAMPOLINE, n, FALSE), 0)
proc_pagetable(s, trapframe) ==
  Undo(mappages(Undo(mappages(uvmcreate(s), TRAMPOLINE, Kernel, FALSE, FALSE), 0),
                TRAPFRAME, trapframe, TRUE, FALSE), 1)

proc_freepagetable(s, sz) ==
  uvmfree(uvmunmap(uvmunmap(s, TRAMPOLINE, 1, FALSE), TRAPFRAME, 1, FALSE), sz)

\* The memory that freeproc frees; trapframe and page table may be missing.
FreeTable(s, sz) == IF s.t = NoTable THEN s ELSE proc_freepagetable(s, sz)
freeproc(s, trapframe, sz) ==
  FreeTable(IF trapframe = None THEN s ELSE kfree(s, {trapframe}), sz)

\* allocproc: the trapframe is NewFrame(s).
FreeUnlessOk(s, trapframe) == IF s.ok THEN s ELSE freeproc(s, trapframe, 0)
allocproc(s) ==
  IF s.free = {} THEN Failed(s)
  ELSE FreeUnlessOk(proc_pagetable(kalloc(s, "trapframe"), NewFrame(s)), NewFrame(s))

Memory(t) == [free |-> free, data |-> data, t |-> t, ok |-> TRUE, r |-> 0, panic |-> FALSE]

\* The outcome s of a call: memory, and the process table.
Outcome(s, table) ==
  /\ free' = s.free /\ data' = s.data /\ panicked' = s.panic
  /\ proc' = table
  /\ calls' = calls + 1
  /\ UNCHANGED piped

\* kinit and userinit.
Booted == [free |-> Frames, data |-> [f \in Frames |-> "junk"], t |-> NoTable,
           ok |-> TRUE, r |-> 0, panic |-> FALSE]
Init ==
  \E s \in {AddPage(allocproc(Booted), 0, 0, "init", TRUE, TRUE)} :
    /\ free = s.free /\ data = s.data /\ panicked = s.panic
    /\ proc = [p \in Proc |-> IF p # initproc THEN Unused ELSE
         [state |-> "RUNNABLE", sz |-> PGSIZE, trapframe |-> NewFrame(Booted), t |-> s.t,
          mask |-> 0]]
    /\ piped = {} /\ calls = 0

Runs(p) == proc[p].state = "RUNNABLE" /\ calls < MaxCalls /\ ~ panicked

\* s is the memory after allocproc, q after uvmcopy.
Fork(p) ==
  /\ Runs(p)
  /\ \E c \in Proc, s \in {allocproc(Memory(NoTable))} :
     \E q \in {uvmcopy(proc[p].t, s, proc[p].sz)} :
       LET trapframe == NewFrame(Memory(NoTable)) IN
       /\ proc[c].state = "UNUSED"
       /\ IF ~ s.ok THEN Outcome(s, proc)
          ELSE IF ~ q.ok THEN Outcome(freeproc(q, trapframe, 0), proc)
          ELSE Outcome([q EXCEPT !.data[trapframe] = q.data[proc[p].trapframe]],
                 [proc EXCEPT ![c] =
                   [state |-> "RUNNABLE", sz |-> proc[p].sz, trapframe |-> trapframe,
                    t |-> q.t, mask |-> proc[p].mask]])

\* growproc.  Below zero the new size wraps around, to more than the old one.
growproc(s, sz, n) ==
  IF n > 0 THEN uvmalloc(s, sz, sz + n, TRUE)
  ELSE IF n < 0 THEN uvmdealloc(s, sz, IF sz + n < 0 THEN sz + 1 ELSE sz + n)
  ELSE [s EXCEPT !.r = sz]
Sbrk(p, n) ==
  /\ Runs(p)
  /\ \E s \in {growproc(Memory(proc[p].t), proc[p].sz, n)} :
       Outcome(s, [proc EXCEPT ![p].t = s.t,
                               ![p].sz = IF n > 0 /\ s.r = 0 THEN @ ELSE s.r])

-----------------------------------------------------------------------------
\* exec.c.  loadseg: the pages of the segment that the file fills.
loadseg(s, seg) ==
  LET Load(q, v) == IF v \notin DOMAIN q.t.pte \/ ~ q.t.pte[v].u THEN Panic(q)
                    ELSE [q EXCEPT !.data[q.t.pte[v].frame] = "text"]
      first == seg.va \div PGSIZE
  IN  FoldLeft(Load, s, PageSeq(first, first + PagesIn(seg.filesz)))

\* One segment; r is the size reached, 0 if uvmalloc has failed.
Loaded(s, seg) == IF s.r = 0 THEN Failed(s) ELSE [loadseg(s, seg) EXCEPT !.sz = s.r]
LoadSegment(s, seg) ==
  IF ~ s.ok THEN s ELSE Loaded(uvmalloc(s, s.sz, seg.va + seg.memsz, seg.w), seg)

\* Two more pages above sz, the lower one a guard, and the arguments in the
\* upper one, unless they do not fit.
PushArgs(s, sz, fit) ==
  LET top == sz \div PGSIZE IN
  IF s.r = 0 THEN Failed([s EXCEPT !.sz = sz])
  ELSE [copyout([uvmclear(s, top) EXCEPT !.sz = sz + 2 * PGSIZE], top + 1, 1, "args")
          EXCEPT !.ok = @ /\ fit]
Stack(s, good, fit) ==
  LET sz == PagesIn(s.sz) * PGSIZE IN
  IF ~ (s.ok /\ good) THEN Failed(s)
  ELSE PushArgs(uvmalloc(s, sz, sz + 2 * PGSIZE, TRUE), sz, fit)

\* The new page table, or with ok = FALSE its remains, of size sz.  The file may
\* be found bad after any number of segments (good), the arguments not to fit
\* the stack (fit).
Load(s, trapframe, prog, good, fit) ==
  Stack(FoldLeft(LoadSegment, proc_pagetable(s, trapframe) @@ [sz |-> 0], prog), good, fit)

\* exec, after its file was found and has the right magic number: from commit
\* and bad on, s has the new page table or its remains.
Commit(p, s) ==
  IF s.ok THEN [proc_freepagetable([s EXCEPT !.t = proc[p].t], proc[p].sz)
                  EXCEPT !.t = s.t, !.sz = s.sz]
  ELSE [FreeTable(s, s.sz) EXCEPT !.t = proc[p].t, !.sz = proc[p].sz]
exec(p, s, prog, good, fit) ==
  Commit(p, Load(s, proc[p].trapframe, prog, good, fit))

\* The first n frames of the free list.
Lowest(n) == {f \in free : Cardinality({g \in free : g <= f}) <= n}

\* sys_exec: one page for each argument, freed when exec returns.
SysExec(p) ==
  /\ Runs(p)
  /\ \E argc \in 0 .. MaxArgs, prog \in Programs, good, fit \in BOOLEAN :
       IF argc > Cardinality(free) THEN Outcome(Memory(NoTable), proc)
       ELSE \E s \in {exec(p, [Memory(NoTable) EXCEPT !.free = @ \ Lowest(argc)],
                          prog, good, fit)} :
              Outcome(kfree(s, Lowest(argc)), [proc EXCEPT ![p].t = s.t, ![p].sz = s.sz])

-----------------------------------------------------------------------------
\* A system call that writes to user memory, or a store of the program.
Store(p) ==
  /\ Runs(p)
  /\ \E va \in 0 .. TRAMPOLINE, n \in 1 .. 2 :
       /\ va \in DOMAIN proc[p].t.pte
       /\ Outcome(copyout(Memory(proc[p].t), va, n, "data"), proc)

SysTrace(p, k) ==
  /\ Runs(p)
  /\ Outcome(Memory(NoTable), [proc EXCEPT ![p].mask = k])

\* exit, and freeproc when the parent waits.
Exit(p) ==
  /\ Runs(p)
  /\ p # initproc
  /\ Outcome(Memory(NoTable), [proc EXCEPT ![p].state = "ZOMBIE"])
Wait(p) ==
  /\ proc[p].state = "ZOMBIE" /\ ~ panicked
  /\ \E s \in {freeproc(Memory(proc[p].t), proc[p].trapframe, proc[p].sz)} :
     /\ free' = s.free /\ data' = s.data /\ panicked' = s.panic
     /\ proc' = [proc EXCEPT ![p] = Unused]
     /\ UNCHANGED <<piped, calls>>

\* Others take frames and give them back.
PipeAlloc ==
  /\ piped = {}
  /\ \E n \in 1 .. Cardinality(free) : piped' = Lowest(n)
  /\ free' = free \ piped'
  /\ data' = [f \in Frames |-> IF f \in piped' THEN "pipe" ELSE data[f]]
  /\ UNCHANGED <<proc, panicked, calls>>
PipeClose ==
  /\ piped # {}
  /\ piped' = {} /\ free' = free \cup piped
  /\ data' = [f \in Frames |-> IF f \in piped THEN "junk" ELSE data[f]]
  /\ UNCHANGED <<proc, panicked, calls>>

Next ==
  \/ \E p \in Proc : \/ Fork(p) \/ SysExec(p) \/ Store(p) \/ Exit(p) \/ Wait(p)
                     \/ \E n \in Sbrks : Sbrk(p, n)
                     \/ \E k \in Masks : SysTrace(p, k)
  \/ PipeAlloc \/ PipeClose

Spec == Init /\ [][Next]_vars

-----------------------------------------------------------------------------
\* Types; a process has a trapframe and a page table just when it is in use.
TypeOK ==
  /\ free \subseteq Frames /\ piped \subseteq Frames
  /\ DOMAIN data = Frames
  /\ \A p \in Proc :
       /\ proc[p].state \in {"UNUSED", "RUNNABLE", "ZOMBIE"}
       /\ proc[p].state = "UNUSED" <=> proc[p] = Unused
       /\ proc[p].state # "UNUSED" =>
            {proc[p].trapframe, proc[p].t.root} \subseteq Frames
       /\ proc[p].sz >= 0

\* The frames of a process, each for one purpose.
UserFrames(p) == {proc[p].t.pte[v].frame : v \in DOMAIN proc[p].t.pte \ {TRAMPOLINE, TRAPFRAME}}
TableFrames(p) == Range(proc[p].t.tabs) \cup ({proc[p].t.root} \ {None})
Owned(p) == UserFrames(p) \cup TableFrames(p) \cup ({proc[p].trapframe} \ {None})

\* Every frame is free or has exactly one user: no page is lost when a call
\* fails half way, and none is shared or used when free.
FramesPartition ==
  /\ \A p \in Proc :
       Cardinality(Owned(p)) =
         Cardinality(DOMAIN proc[p].t.pte \ {TRAMPOLINE, TRAPFRAME})
         + Cardinality(DOMAIN proc[p].t.tabs) + (IF proc[p] = Unused THEN 0 ELSE 2)
  /\ \A p, q \in Proc : p # q => Owned(p) \cap Owned(q) = {}
  /\ free \cup piped \cup UNION {Owned(p) : p \in Proc} = Frames
  /\ free \cap piped = {}
  /\ (free \cup piped) \cap UNION {Owned(p) : p \in Proc} = {}

\* No sequence of calls makes vm.c panic (remap, not mapped, leaf, pte should
\* exist) or frees a page twice.
NeverPanics == ~ panicked

\* Memory is sound: types, one user for each frame, and none of the panics that
\* guard the page tables and the free list.
MemorySound == TypeOK /\ FramesPartition /\ NeverPanics

\* The memory that a process sees through its page table.
ImageOf(p) ==
  IF proc[p] = Unused THEN [live |-> FALSE, sz |-> 0, pages |-> <<>>]
  ELSE [live |-> TRUE, sz |-> proc[p].sz,
        pages |-> [v \in DOMAIN proc[p].t.pte \ {TRAMPOLINE, TRAPFRAME} |->
          [data |-> data[proc[p].t.pte[v].frame],
           w |-> proc[p].t.pte[v].w, u |-> proc[p].t.pte[v].u]]]
Abstract == INSTANCE Images WITH image <- [p \in Proc |-> ImageOf(p)],
                                 mask <- [p \in Proc |-> proc[p].mask]
\* Each process has the memory that the calls it made gave it, whatever failed
\* and whatever the others do; trace_mask goes to children and to nobody else.
ImplementsImages == Abstract!Spec

=============================================================================
