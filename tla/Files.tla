-------------------------------- MODULE Files --------------------------------
(***************************************************************************)
(* What is in files, and open files: block allocation, bmap, itrunc, readi *)
(* and writei of kernel/fs.c, kernel/file.c, and the calls of              *)
(* kernel/sysfile.c on descriptors.                                        *)
(*                                                                         *)
(* A transaction under the inode's sleep-lock is one action: a chunk of a  *)
(* write, a read, an open, the iput of the last close.  Processes          *)
(* interleave between the chunks of a write and between the steps of pipe. *)
(***************************************************************************)
EXTENDS Naturals, Sequences, FiniteSets, FiniteSetsExt, Functions

CONSTANTS Proc,        \* processes, who write their own number as data
          Inode, File, \* inodes; entries of the file table
          Page,        \* pages that pipes may be given
          Blocks,      \* data blocks are 1 .. Blocks
          BSIZE, NDIRECT, NINDIRECT, NOFILE, MAXOPBLOCKS,
          BPB,         \* blocks that one bitmap block stands for
          Modes,       \* ways of opening a file: "r", "w", "rw"
          MaxWrite,    \* bound: bytes of one write
          MaxCalls     \* bound: calls made in all

Block == 1 .. Blocks
Fd == 0 .. NOFILE - 1
MAXFILE == NDIRECT + NINDIRECT
Zeros == [k \in 0 .. BSIZE - 1 |-> 0]
NoPtrs == [k \in 0 .. NINDIRECT - 1 |-> 0]
NoAddrs == [k \in 0 .. NDIRECT |-> 0]

VARIABLES
  disk,   \* used: the bitmap; size, addrs: of inodes; data, ptrs: a block as
          \* bytes and as an indirect block; home: the bytes when the block
          \* was last logged, which data differs from while the buffer cache
          \* keeps bytes of a failed write; wr: blocks the last call logged
  named,  \* inodes that have a name
  file,   \* the file table: ref, type, ip (for a pipe its page), off, mode
  pipe,   \* the ends of each pipe page that are open; none: the page is free
  ofile,  \* p->ofile
  call,   \* the call in progress (pc): filewrite with the file, the bytes asked
          \* for and done; pipe with the files it has allocated (todo)
  left    \* calls that may still be made

vars == <<disk, named, file, pipe, ofile, call, left>>

NoFile == [ref |-> 0, type |-> "none", ip |-> 0, off |-> 0, mode |-> "r"]
NoCall == [pc |-> "user", f |-> 0, n |-> 0, i |-> 0, todo |-> <<>>]

Init ==
  /\ disk = [used |-> {}, wr |-> {},
             size |-> [i \in Inode |-> 0], addrs |-> [i \in Inode |-> NoAddrs],
             data |-> [b \in Block |-> Zeros], home |-> [b \in Block |-> Zeros],
             ptrs |-> [b \in Block |-> NoPtrs]]
  /\ named = Inode
  /\ file = [f \in File |-> NoFile]
  /\ pipe = [pi \in Page |-> {}]
  /\ ofile = [p \in Proc |-> [k \in Fd |-> 0]]
  /\ call = [p \in Proc |-> NoCall]
  /\ left = MaxCalls

-----------------------------------------------------------------------------
\* Blocks.  These operators take the disk d and give the disk after, with the
\* address or the count that the code returns.

\* balloc and bzero.
balloc(d) ==
  LET free == Block \ d.used
      b == Min(free)
  IN  IF free = {} THEN [d |-> d, addr |-> 0]
      ELSE [d |-> [d EXCEPT !.used = @ \cup {b}, !.data[b] = Zeros,
                            !.home[b] = Zeros, !.ptrs[b] = NoPtrs,
                            !.wr = @ \cup {<<"bitmap", b \div BPB>>, <<"block", b>>}],
            addr |-> b]

\* The block in slot k of addrs, allocated if there is none.
Slot(d, i, k) ==
  LET new == balloc(d) IN
  IF d.addrs[i][k] # 0 THEN [d |-> d, addr |-> d.addrs[i][k]]
  ELSE IF new.addr = 0 THEN new
  ELSE [new EXCEPT !.d.addrs[i][k] = new.addr]

bmap(d, i, bn) ==
  LET top == Slot(d, i, NDIRECT)
      k == bn - NDIRECT
      new == balloc(top.d)
  IN
  IF bn < NDIRECT THEN Slot(d, i, bn)
  ELSE IF top.addr = 0 THEN top
  ELSE IF top.d.ptrs[top.addr][k] # 0
    THEN [top EXCEPT !.addr = top.d.ptrs[top.addr][k]]
  ELSE IF new.addr = 0 THEN new
  ELSE [new EXCEPT !.d.ptrs[top.addr][k] = new.addr,
                   !.d.wr = @ \cup {<<"block", top.addr>>}]

\* The blocks of inode i: data, and the indirect block.
Direct(d, i) == {d.addrs[i][k] : k \in 0 .. NDIRECT} \ {0}
Indirect(d, i) ==
  IF d.addrs[i][NDIRECT] = 0 THEN {}
  ELSE {d.ptrs[d.addrs[i][NDIRECT]][k] : k \in 0 .. NINDIRECT - 1} \ {0}
BlocksOf(d, i) == Direct(d, i) \cup Indirect(d, i)

\* itrunc, with bfree of every block.
itrunc(d, i) ==
  [d EXCEPT !.used = @ \ BlocksOf(d, i), !.addrs[i] = NoAddrs, !.size[i] = 0,
            !.wr = @ \cup {<<"bitmap", b \div BPB>> : b \in BlocksOf(d, i)}
                     \cup {<<"inode", i>>}]

\* Bytes v from place k on in the buffer of block b, m of them; log_write of it.
copyin(d, b, v, k, m) ==
  [d EXCEPT !.data[b] = [j \in DOMAIN @ |-> IF j \in k .. k + m - 1 THEN v ELSE @[j]]]
log_write(d, b) ==
  [d EXCEPT !.home[b] = d.data[b], !.wr = @ \cup {<<"block", b>>}]

\* The loop of writei: n bytes v at off, of which copyin reaches the first good
\* ones.  It copies page by page: the bytes before the bad address may be in the
\* buffer when it fails, and the buffer is released without log_write.
RECURSIVE WriteLoop(_, _, _, _, _, _)
WriteLoop(d, i, v, off, n, good) ==
  LET at == bmap(d, i, off \div BSIZE)
      from == off % BSIZE
      m == Min({n, BSIZE - from})
      put == copyin(at.d, at.addr, v, from, Min({m, good}))
  IN  IF n = 0 THEN [d |-> d, off |-> off]
      ELSE IF at.addr = 0 THEN [d |-> at.d, off |-> off]
      ELSE IF good < m THEN [d |-> put, off |-> off]
      ELSE WriteLoop(log_write(put, at.addr), i, v, off + m, n - m, good - m)

\* writei: r is the number of bytes written; -1 is told apart by ok.
writei(d, i, v, off, n, good) ==
  LET w == WriteLoop(d, i, v, off, n, good) IN
  IF off > d.size[i] \/ off + n > MAXFILE * BSIZE
  THEN [d |-> d, r |-> 0, ok |-> FALSE]
  ELSE [d |-> [w.d EXCEPT !.size[i] = Max({@, w.off}),
                          !.wr = @ \cup {<<"inode", i>>}],
        r |-> w.off - off, ok |-> TRUE]

\* Mutant: the count is not cut at the end of the file.
readiUncut(d, i, off, n, good) ==
  [d |-> FoldSet(LAMBDA bn, e : bmap(e, i, bn).d, d,
                 {(off + k) \div BSIZE : k \in 0 .. n - 1} \cap 0 .. MAXFILE - 1),
   r |-> IF off > d.size[i] THEN 0 ELSE Min({n, d.size[i] - off})]

\* readi: bmap looks for the blocks of the bytes that it copies out.  When
\* copyout fails after the first good bytes, nothing counts (-1, as r = 0).
readi(d, i, off, n, good) ==
  LET r == IF off > d.size[i] THEN 0 ELSE Min({n, d.size[i] - off})
      bns == {(off + k) \div BSIZE : k \in 0 .. Min({r, good + 1}) - 1}
  IN  [d |-> FoldSet(LAMBDA bn, e : bmap(e, i, bn).d, d, bns),
       r |-> IF good < r THEN 0 ELSE r]

-----------------------------------------------------------------------------
\* Open files.  These operators take and give t: the disk, the file table and
\* the pipes.  A call starts with an empty transaction.
Fresh == [disk EXCEPT !.wr = {}]
Now == [disk |-> Fresh, file |-> file, pipe |-> pipe]
Becomes(t) == disk' = t.disk /\ file' = t.file /\ pipe' = t.pipe
Calls(p) == call[p] = NoCall /\ left > 0 /\ left' = left - 1

FreeFiles == {f \in File : file[f].ref = 0}
FreeFds(p) == {k \in Fd : ofile[p][k] = 0}
UsersIn(tab, i) == {f \in File : tab[f].type = "inode" /\ tab[f].ip = i}
Users(i) == UsersIn(file, i)

\* filealloc takes the first free entry, Min(FreeFiles), if there is one.
filealloc(t) == [t EXCEPT !.file[Min(FreeFiles)].ref = 1]

\* Mutant: the type stays.
filecloseKeepsType(t, f) ==
  LET it == t.file[f] IN
  IF it.ref > 1 THEN [t EXCEPT !.file[f].ref = @ - 1]
  ELSE IF it.type = "pipe"
    THEN [t EXCEPT !.file[f].ref = 0, !.pipe[it.ip] = @ \ {it.mode}]
  ELSE IF UsersIn(t.file, it.ip) = {f} /\ it.ip \notin named
    THEN [t EXCEPT !.file[f].ref = 0, !.disk = itrunc(@, it.ip)]
  ELSE [t EXCEPT !.file[f].ref = 0]

\* fileclose, with pipeclose, or with the iput that frees an inode without name.
fileclose(t, f) ==
  LET it == t.file[f] IN
  IF it.ref > 1 THEN [t EXCEPT !.file[f].ref = @ - 1]
  ELSE IF it.type = "pipe"
    THEN [t EXCEPT !.file[f] = NoFile, !.pipe[it.ip] = @ \ {it.mode}]
  ELSE IF UsersIn(t.file, it.ip) = {f} /\ it.ip \notin named
    THEN [t EXCEPT !.file[f] = NoFile, !.disk = itrunc(@, it.ip)]
  ELSE [t EXCEPT !.file[f] = NoFile]

-----------------------------------------------------------------------------
\* The calls.

\* sys_open, with O_CREATE when the name is not there, with or without
\* O_TRUNC.  It fails without a file or, giving the file back, a descriptor.
Open(p) ==
  \E i \in Inode, mode \in Modes, trunc \in BOOLEAN :
    LET f == Min(FreeFiles)
        t == filealloc(Now)
    IN
    /\ Calls(p)
    /\ i \in named \/ Users(i) = {}
    /\ named' = named \cup {i}
    /\ \/ FreeFiles = {} /\ Becomes(Now) /\ UNCHANGED ofile
       \/ /\ FreeFiles # {} /\ FreeFds(p) = {}
          /\ Becomes(fileclose(t, f))
          /\ UNCHANGED ofile
       \/ /\ FreeFiles # {} /\ FreeFds(p) # {}
          /\ Becomes([t EXCEPT !.disk = IF trunc THEN itrunc(@, i) ELSE @,
               !.file[f] = [ref |-> 1, type |-> "inode", ip |-> i, off |-> 0, mode |-> mode]])
          /\ ofile' = [ofile EXCEPT ![p][Min(FreeFds(p))] = f]
    /\ UNCHANGED call

\* pipe goes on, or gives up and closes the files it has.
PipeOn(p, files) == call' = [call EXCEPT ![p] = [NoCall EXCEPT !.pc = "pipe", !.todo = files]]
PipeBad(p, files) ==
  call' = [call EXCEPT ![p] =
             IF files = <<>> THEN NoCall ELSE [NoCall EXCEPT !.pc = "bad", !.todo = files]]

\* pipealloc: the file of each end,
PipeFile(p) ==
  LET files == call[p].todo IN
  /\ \/ Calls(p)
     \/ call[p].pc = "pipe" /\ Len(files) = 1 /\ UNCHANGED left
  /\ IF FreeFiles = {}
     THEN Becomes(Now) /\ PipeBad(p, files)
     ELSE Becomes(filealloc(Now)) /\ PipeOn(p, Append(files, Min(FreeFiles)))
  /\ UNCHANGED <<named, ofile>>

\* and their page, which kalloc may not have.
PipePage(p) ==
  LET files == call[p].todo
      End(pi, m) == [NoFile EXCEPT !.ref = 1, !.type = "pipe", !.ip = pi, !.mode = m]
  IN
  /\ call[p].pc = "pipe" /\ Len(files) = 2 /\ file[files[1]].type # "pipe"
  /\ \/ Becomes(Now) /\ PipeBad(p, files)
     \/ \E pi \in Page :
          /\ pipe[pi] = {}
          /\ Becomes([Now EXCEPT !.pipe[pi] = {"r", "w"},
                       !.file[files[1]] = End(pi, "r"), !.file[files[2]] = End(pi, "w")])
          /\ PipeOn(p, files)
  /\ UNCHANGED <<named, ofile, left>>

\* The rest of sys_pipe: two descriptors, which are copied out to the program.
\* If there are not two, or copyout fails, none is left.
PipeFds(p) ==
  LET files == call[p].todo
      a == Min(FreeFds(p))
      b == Min(FreeFds(p) \ {a})
  IN
  /\ call[p].pc = "pipe" /\ Len(files) = 2 /\ file[files[1]].type = "pipe"
  /\ \/ PipeBad(p, files) /\ UNCHANGED ofile
     \/ /\ Cardinality(FreeFds(p)) >= 2
        /\ ofile' = [ofile EXCEPT ![p][a] = files[1], ![p][b] = files[2]]
        /\ call' = [call EXCEPT ![p] = NoCall]
  /\ UNCHANGED <<disk, named, file, pipe, left>>

\* The files are closed one by one.
PipeClose(p) ==
  /\ call[p].pc = "bad"
  /\ Becomes(fileclose(Now, Head(call[p].todo)))
  /\ PipeBad(p, Tail(call[p].todo))
  /\ UNCHANGED <<named, ofile, left>>

\* sys_dup: the descriptor first, then filedup.
Dup(p) ==
  \E k \in Fd \ FreeFds(p) :
    /\ Calls(p)
    /\ FreeFds(p) # {}
    /\ ofile' = [ofile EXCEPT ![p][Min(FreeFds(p))] = ofile[p][k]]
    /\ file' = [file EXCEPT ![ofile[p][k]].ref = @ + 1]
    /\ UNCHANGED <<disk, named, pipe, call>>

\* The loop of fork over the descriptors; q is new.
Fork(p) ==
  \E q \in Proc \ {p} :
    /\ Calls(p)
    /\ FreeFds(q) = Fd /\ call[q] = NoCall
    /\ ofile' = [ofile EXCEPT ![q] = ofile[p]]
    /\ file' = [f \in File |->
         [file[f] EXCEPT !.ref = @ + Cardinality({k \in Fd : ofile[p][k] = f})]]
    /\ UNCHANGED <<disk, named, pipe, call>>

\* sys_close.
Close(p) ==
  \E k \in Fd \ FreeFds(p) :
    /\ Calls(p)
    /\ ofile' = [ofile EXCEPT ![p][k] = 0]
    /\ Becomes(fileclose(Now, ofile[p][k]))
    /\ UNCHANGED <<named, call>>

\* sys_unlink of the only name.
Unlink(p) ==
  \E i \in named :
    /\ Calls(p)
    /\ named' = named \ {i}
    /\ disk' = IF Users(i) = {} THEN itrunc(Fresh, i) ELSE Fresh
    /\ UNCHANGED <<file, pipe, ofile, call>>

\* sys_read and fileread of an inode.
Read(p) ==
  \E k \in Fd \ FreeFds(p), n \in 1 .. MaxWrite, good \in 0 .. MaxWrite :
    LET f == ofile[p][k]
        got == readi(Fresh, file[f].ip, file[f].off, n, good)
    IN
    /\ Calls(p)
    /\ file[f].type = "inode" /\ file[f].mode # "w"
    /\ disk' = got.d
    /\ file' = [file EXCEPT ![f].off = @ + got.r]
    /\ UNCHANGED <<named, pipe, ofile, call>>

\* sys_write and filewrite of an inode: the loop starts.
Write(p) ==
  \E k \in Fd \ FreeFds(p), n \in 1 .. MaxWrite :
    LET f == ofile[p][k] IN
    /\ Calls(p)
    /\ file[f].type = "inode" /\ file[f].mode # "r"
    /\ call' = [call EXCEPT ![p] = [NoCall EXCEPT !.pc = "write", !.f = f, !.n = n]]
    /\ UNCHANGED <<disk, named, file, pipe, ofile>>

\* Mutant: no slop for writes that are not aligned.
MaxChunkNoSlop == ((MAXOPBLOCKS - 1 - 1) \div 2) * BSIZE

\* The most bytes that one transaction of filewrite writes.
MaxChunk == ((MAXOPBLOCKS - 1 - 1 - 2) \div 2) * BSIZE

\* What writei may come to, with n bytes of p at the offset of f: copyin fails
\* after some of them, or not.
Written(p, f, n) ==
  {writei(Fresh, file[f].ip, p, file[f].off, n, good) : good \in 0 .. n}

\* Mutant: a short write does not move the offset.
ChunkShortStays(p) ==
  LET c == call[p]
      n1 == Min({c.n - c.i, MaxChunk})
  IN
  /\ c.pc = "write"
  /\ \E w \in Written(p, c.f, n1) :
       /\ disk' = w.d
       /\ file' = [file EXCEPT ![c.f].off = IF w.r = n1 THEN @ + w.r ELSE @]
       /\ call' = [call EXCEPT ![p] = IF w.r # n1 \/ c.i + w.r = c.n THEN NoCall
                                      ELSE [c EXCEPT !.i = @ + w.r]]
  /\ UNCHANGED <<named, pipe, ofile, left>>

\* One transaction of filewrite.
Chunk(p) ==
  LET c == call[p]
      n1 == Min({c.n - c.i, MaxChunk})
  IN
  /\ c.pc = "write"
  /\ \E w \in Written(p, c.f, n1) :
       /\ disk' = w.d
       /\ file' = [file EXCEPT ![c.f].off = @ + w.r]
       /\ call' = [call EXCEPT ![p] =
            IF ~ w.ok \/ w.r # n1 \/ c.i + w.r = c.n THEN NoCall
            ELSE [c EXCEPT !.i = @ + w.r]]
  /\ UNCHANGED <<named, pipe, ofile, left>>

\* The buffer of a block is used for another block, and the bytes of a failed
\* write that were in it only are gone.
Evict(b) ==
  /\ b \in disk.used /\ disk.data[b] # disk.home[b]
  /\ disk' = [Fresh EXCEPT !.data[b] = disk.home[b]]
  /\ UNCHANGED <<named, file, pipe, ofile, call, left>>

Next == \/ \E p \in Proc :
             \/ Open(p) \/ PipeFile(p) \/ PipePage(p) \/ PipeFds(p) \/ PipeClose(p)
             \/ Dup(p) \/ Fork(p) \/ Close(p) \/ Unlink(p) \/ Read(p)
             \/ Write(p) \/ Chunk(p)
        \/ \E b \in Block : Evict(b)

Spec == Init /\ [][Next]_vars

-----------------------------------------------------------------------------
\* Type correctness: every block of an inode lies on the disk, no file grows
\* past MAXFILE blocks, and descriptors name entries of the file table.
TypeOK ==
  /\ disk.used \subseteq Block
  /\ named \subseteq Inode
  /\ \A i \in Inode : /\ disk.size[i] \in 0 .. MAXFILE * BSIZE
                      /\ disk.addrs[i] \in [0 .. NDIRECT -> Block \cup {0}]
  /\ \A f \in File : file[f].ip \in Inode \cup Page \cup {0} /\ file[f].off \in Nat
  /\ ofile \in [Proc -> [Fd -> File \cup {0}]]

\* The bitmap marks exactly the blocks that some inode uses, and each has one
\* user: whatever fails in the middle of a write (no block for the data after
\* the indirect block was allocated, a bad user address), no block is lost and
\* none is shared, so itrunc never frees a free block.
BitmapExact ==
  /\ disk.used = UNION {BlocksOf(disk, i) : i \in Inode}
  /\ \A i, j \in Inode : i # j => BlocksOf(disk, i) \cap BlocksOf(disk, j) = {}
  /\ \A i \in Inode : Direct(disk, i) \cap Indirect(disk, i) = {}
  /\ \A i \in Inode :
       i \notin named /\ Users(i) = {} => BlocksOf(disk, i) = {}

\* f->ref counts the descriptors of all processes, and the calls of pipe under
\* way, that refer to f.
FileRefs ==
  \A f \in File :
    file[f].ref = Cardinality({<<p, k>> \in Proc \X Fd : ofile[p][k] = f})
                  + Cardinality({p \in Proc : f \in Range(call[p].todo)})

\* Each end of a pipe is open as long as a file stands for it, and its page is
\* freed with the last.
PipesExact ==
  \A pi \in Page :
    pipe[pi] = {file[f].mode : f \in {g \in File : file[g].type = "pipe" /\ file[g].ip = pi}}

\* Nothing leaks and nothing is used twice: blocks on disk, entries of the file
\* table, pages of pipes, whatever fails in open, write, pipe and close.
NothingLeaks == TypeOK /\ BitmapExact /\ FileRefs /\ PipesExact

\* The comment of filewrite on max: what one transaction logs (data, allocation
\* and indirect blocks, the inode) never exceeds MAXOPBLOCKS.
OpFits == Cardinality(disk.wr) <= MAXOPBLOCKS

\* fileread runs outside a transaction: bmap, called by readi, never finds a
\* block missing below the size of the file, so it never allocates one there.
ReadsAllocateNothing ==
  [][\A p \in Proc : Read(p) => disk'.used = disk.used /\ disk'.wr = {}]_vars

\* The bytes of inode i, found as readi finds them, in the blocks' bytes.
Contents(i, bytes) ==
  [k \in 1 .. disk.size[i] |->
     LET bn == (k - 1) \div BSIZE
         b == IF bn < NDIRECT THEN disk.addrs[i][bn]
              ELSE disk.ptrs[disk.addrs[i][NDIRECT]][bn - NDIRECT]
     IN  bytes[b][(k - 1) % BSIZE]]

Atomic == INSTANCE AtomicFile WITH
  Byte <- Proc,
  content <- [i \in Inode |-> Contents(i, disk.data)],
  stable <- [i \in Inode |-> Contents(i, disk.home)],
  ip <- [f \in File |-> IF file[f].type = "inode" THEN file[f].ip ELSE 0],
  off <- [f \in File |-> file[f].off]

\* The files, through block allocation, the indirect block, truncation,
\* failures and shared offsets, are the byte sequences of AtomicFile.
ImplementsAtomicFile == Atomic!Spec

=============================================================================
