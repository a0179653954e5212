-------------------------------- MODULE Mkfs --------------------------------
(***************************************************************************)
(* mkfs/mkfs.c: the file system image that it builds for files of given    *)
(* sizes, block by block.  Sizes are in bytes, BSIZE bytes to a block.     *)
(***************************************************************************)
EXTENDS Integers, Sequences, FiniteSets, SequencesExt

CONSTANTS BSIZE, NDIRECT, NINDIRECT,
          DirentSize,    \* sizeof(struct dirent)
          nmeta          \* blocks before the first data block

MAXFILE == NDIRECT + NINDIRECT

\* The image: free counters, and for each inode its size, direct addresses,
\* indirect block and the addresses in it (0 for none); failed for an assertion.
NoInode == [size |-> 0, addrs |-> [k \in 0 .. NDIRECT - 1 |-> 0], ind |-> 0,
            indirect |-> [k \in 0 .. NINDIRECT - 1 |-> 0]]
EmptyImage == [freeblock |-> nmeta, inodes |-> <<>>, failed |-> FALSE]

ialloc(im) == [im EXCEPT !.inodes = Append(@, NoInode)]

\* The loop of iappend, a block at a time: n bytes more at offset off.
RECURSIVE AppendBlocks(_, _, _, _)

\* Mutant: the indirect block is not counted.
AppendForgets(im, inum, off, n) ==
  LET fbn == off \div BSIZE
      room == (fbn + 1) * BSIZE - off
      n1 == IF n < room THEN n ELSE room
      din == im.inodes[inum]
      new == im.freeblock
      d == IF fbn < NDIRECT
           THEN [din EXCEPT !.addrs[fbn] = IF @ = 0 THEN new ELSE @]
           ELSE [din EXCEPT !.ind = IF @ = 0 THEN new ELSE @,
                            !.indirect[fbn - NDIRECT] = IF @ = 0 THEN new ELSE @]
  IN  IF n = 0 THEN [im EXCEPT !.inodes[inum].size = off]
      ELSE IF fbn >= MAXFILE THEN [im EXCEPT !.failed = TRUE]
      ELSE AppendBlocks([im EXCEPT !.inodes[inum] = d,
                                   !.freeblock = IF d = din THEN @ ELSE @ + 1],
                        inum, off + n1, n - n1)

AppendBlocks(im, inum, off, n) ==
  LET fbn == off \div BSIZE
      room == (fbn + 1) * BSIZE - off
      n1 == IF n < room THEN n ELSE room
      din == im.inodes[inum]
      needs == fbn >= NDIRECT /\ din.ind = 0     \* the indirect block
      new == im.freeblock + (IF needs THEN 1 ELSE 0)
      d == IF fbn < NDIRECT
           THEN [din EXCEPT !.addrs[fbn] = IF @ = 0 THEN new ELSE @]
           ELSE [din EXCEPT !.ind = IF @ = 0 THEN im.freeblock ELSE @,
                            !.indirect[fbn - NDIRECT] = IF @ = 0 THEN new ELSE @]
  IN  IF n = 0 THEN [im EXCEPT !.inodes[inum].size = off]
      ELSE IF fbn >= MAXFILE THEN [im EXCEPT !.failed = TRUE]
      ELSE AppendBlocks([im EXCEPT !.inodes[inum] = d,
                                   !.freeblock = IF d = din THEN @ ELSE new + 1],
                        inum, off + n1, n - n1)

iappend(im, inum, n) == AppendBlocks(im, inum, im.inodes[inum].size, n)

\* main: the root directory with "." and "..", then each file and its entry;
\* files are read BSIZE bytes at a time.
RECURSIVE AppendFile(_, _, _)
AppendFile(im, inum, n) ==
  IF n = 0 THEN im
  ELSE LET cc == IF n < BSIZE THEN n ELSE BSIZE
       IN  AppendFile(iappend(im, inum, cc), inum, n - cc)
AddFile(im, size) ==
  LET im1 == ialloc(im)
      inum == Len(im1.inodes)
  IN  AppendFile(iappend(im1, 1, DirentSize), inum, size)
FixRoot(im) == [im EXCEPT !.inodes[1].size = (@ \div BSIZE + 1) * BSIZE]
main(sizes) ==
  FixRoot(FoldLeft(AddFile,
                   iappend(iappend(ialloc(EmptyImage), 1, DirentSize), 1, DirentSize),
                   sizes))

\* balloc: the bitmap marks the first freeblock blocks.
Marked(im) == 0 .. im.freeblock - 1

-----------------------------------------------------------------------------
Blocks(din) == {din.addrs[k] : k \in DOMAIN din.addrs} \cup {din.ind}
               \cup {din.indirect[k] : k \in DOMAIN din.indirect}
AllUsed(im) == UNION {Blocks(im.inodes[i]) \ {0} : i \in DOMAIN im.inodes}
CountOf(din) ==
  Cardinality({k \in DOMAIN din.addrs : din.addrs[k] # 0}) + (IF din.ind = 0 THEN 0 ELSE 1)
  + Cardinality({k \in DOMAIN din.indirect : din.indirect[k] # 0})
Mapped(din, fbn) == IF fbn < NDIRECT THEN din.addrs[fbn] # 0
                    ELSE din.ind # 0 /\ din.indirect[fbn - NDIRECT] # 0

\* Marked blocks are the metadata and the blocks of the inodes, each block of one
\* inode in one place.
BlocksCounted(im) ==
  /\ AllUsed(im) = Marked(im) \ (0 .. nmeta - 1)
  /\ FoldLeft(LAMBDA n, din : n + CountOf(din), 0, im.inodes) = Cardinality(AllUsed(im))

\* Every block below the size of an inode is there, so that reading allocates
\* none.
NoHoles(im) ==
  \A i \in DOMAIN im.inodes :
    \A fbn \in 0 .. (im.inodes[i].size + BSIZE - 1) \div BSIZE - 1 : Mapped(im.inodes[i], fbn)

=============================================================================
