------------------------------- MODULE Umalloc -------------------------------
(***************************************************************************)
(* user/umalloc.c: malloc and free on a circular list of free blocks.      *)
(*                                                                         *)
(* Addresses and sizes count units of sizeof(Header).  base has address 0, *)
(* below the heap, which sbrk extends at brk.  Only headers are modelled.  *)
(***************************************************************************)
EXTENDS Integers, FiniteSets

CONSTANTS NALLOC,      \* least number of units asked of sbrk (4096)
          MaxBrk,      \* memory: sbrk fails beyond
          Sizes        \* units asked of malloc, header included

\* morecore passes nu * sizeof(Header) to sbrk, which takes an int: only requests
\* below 2 GB are modelled, where nothing is cut off (a unit has 16 bytes).
ASSUME IntAssumption == NALLOC < 2^27 /\ \A n \in Sizes : n < 2^27

VARIABLES hdr,         \* headers of base and of all blocks: [ptr, size]
          freep,       \* Null before the first malloc
          brk,
          used         \* addresses of the blocks in use

heap == <<hdr, freep, brk, used>>
Null == -1
base == 0
Start == 2   \* the heap does not touch base

\* Headers h with that of a set to [ptr, size], and without that of a.
Set(h, a, ptr, size) ==
  [b \in DOMAIN h \cup {a} |-> IF b = a THEN [ptr |-> ptr, size |-> size] ELSE h[b]]
Without(h, a) == [b \in DOMAIN h \ {a} |-> h[b]]

HeapInit == hdr = <<>> /\ freep = Null /\ brk = Start /\ used = {}

-----------------------------------------------------------------------------
\* free: where block bp goes into list h, searching from p.
RECURSIVE Place(_, _, _)
Place(h, bp, p) ==
  LET next == h[p].ptr IN
  IF p < bp /\ bp < next THEN p
  ELSE IF p >= next /\ (bp > p \/ bp < next) THEN p
  ELSE Place(h, bp, next)

\* Mutant: a block is not joined to the one below it.
InsertApart(h, bp, p) ==
  LET next == h[p].ptr
      up == IF bp + h[bp].size = next
            THEN Set(Without(h, next), bp, h[next].ptr, h[bp].size + h[next].size)
            ELSE Set(h, bp, next, h[bp].size)
  IN  Set(up, p, bp, h[p].size)

\* The list with bp put after p, joined to the blocks that it touches.
Insert(h, bp, p) ==
  LET next == h[p].ptr
      up == IF bp + h[bp].size = next
            THEN Set(Without(h, next), bp, h[next].ptr, h[bp].size + h[next].size)
            ELSE Set(h, bp, next, h[bp].size)
  IN  IF p + h[p].size = bp
      THEN Set(Without(up, bp), p, up[bp].ptr, h[p].size + up[bp].size)
      ELSE Set(up, p, bp, h[p].size)

\* malloc: the first block from p on, after prev, with nunits; prev = freep at the
\* start.  None when the search is back at start.
RECURSIVE FirstFit(_, _, _, _)
FirstFit(h, start, prev, nunits) ==
  LET p == h[prev].ptr IN
  IF h[p].size >= nunits THEN prev
  ELSE IF p = start THEN Null
  ELSE FirstFit(h, start, p, nunits)

\* Take nunits from the block after prev: all of it, or its tail.
Take(h, prev, nunits) ==
  LET p == h[prev].ptr
      tail == p + h[p].size - nunits
  IN  IF h[p].size = nunits
      THEN [hdr |-> Set(h, prev, h[p].ptr, h[prev].size), block |-> p]
      ELSE [hdr |-> Set(Set(h, p, h[p].ptr, h[p].size - nunits), tail, Null, nunits),
            block |-> tail]

\* malloc, with morecore when no block fits: sbrk gives a block that is freed
\* into the list and the search goes on from there, or fails.
malloc(nunits) ==
  LET h0 == IF freep = Null THEN Set(hdr, base, base, 0) ELSE hdr
      f0 == IF freep = Null THEN base ELSE freep
      fit == FirstFit(h0, f0, f0, nunits)
      nu == IF nunits < NALLOC THEN NALLOC ELSE nunits
      grown == Set(h0, brk, Null, nu)
      at == Place(grown, brk, f0)
      h1 == Insert(grown, brk, at)
      fit1 == FirstFit(h1, at, at, nunits)
      Got(h, prev) == LET t == Take(h, prev, nunits) IN
        hdr' = t.hdr /\ freep' = prev /\ used' = used \cup {t.block}
  IN  IF fit # Null THEN Got(h0, fit) /\ UNCHANGED brk
      ELSE IF brk + nu > MaxBrk THEN hdr' = h0 /\ freep' = f0 /\ UNCHANGED <<used, brk>>
      ELSE Got(h1, fit1) /\ brk' = brk + nu

free(bp) ==
  LET at == Place(hdr, bp, freep) IN
  /\ hdr' = Insert(hdr, bp, at)
  /\ freep' = at
  /\ used' = used \ {bp}
  /\ UNCHANGED brk

HeapNext == (\E n \in Sizes : malloc(n)) \/ (\E bp \in used : free(bp))

-----------------------------------------------------------------------------
\* The free blocks: those that the list from base reaches.
RECURSIVE Listed(_, _)
Listed(p, S) == IF p \in S THEN S ELSE Listed(hdr[p].ptr, S \cup {p})
FreeBlocks == IF freep = Null THEN {} ELSE Listed(base, {}) \ {base}
Units(b) == b .. b + hdr[b].size - 1

\* The blocks in use and the free blocks are all the memory from sbrk, and no
\* two overlap: nobody is given memory that is in use, and none is lost.
BlocksPartition ==
  /\ UNION {Units(b) : b \in used \cup FreeBlocks} = Start .. brk - 1
  /\ \A b, c \in used \cup FreeBlocks : b # c => Units(b) \cap Units(c) = {}
  /\ used \cap FreeBlocks = {}

\* free joins a block to the free blocks on both its sides: no two that touch
\* stay apart, so that a request never fails for want of joining.
NoFreeNeighbours ==
  \A b, c \in FreeBlocks : b + hdr[b].size # c

\* malloc and free keep the heap whole: every unit in one block, free blocks
\* joined.
HeapSound == BlocksPartition /\ NoFreeNeighbours

=============================================================================
