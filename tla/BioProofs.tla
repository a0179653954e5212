----------------------------- MODULE BioProofs -----------------------------
(***************************************************************************)
(* The buffer cache for any number of processes, blocks and buffers: a     *)
(* buffer's reference count is the number of its users, so that bget never *)
(* recycles a buffer in use, and nobody is left asleep on a free buffer;   *)
(* the list stays a ring in the order of release, a block has one buffer,  *)
(* and a buffer that is not pinned agrees with the disk.  And Bio          *)
(* implements BlockStore: one current copy of every block, changed only by *)
(* its holder.                                                             *)
(***************************************************************************)
EXTENDS Bio, Counting, TLAPS

(* Two more facts on finite sets, and one on sets of numbers, to count with. *)
CountUnion ==
  \A S, T : IsFiniteSet(S) /\ IsFiniteSet(T) =>
    /\ IsFiniteSet(S \cup T)
    /\ Cardinality(S) \in Nat /\ Cardinality(S \cup T) \in Nat
    /\ Cardinality(S \cup T) <= Cardinality(S) + Cardinality(T)

CountImage ==
  \A S, f : IsFiniteSet(S) =>
    IsFiniteSet({f[x] : x \in S}) /\ Cardinality({f[x] : x \in S}) <= Cardinality(S)

LeastNumber == \A S \in SUBSET Nat : S # {} => \E k \in S : \A j \in S : k <= j

Known == Counting /\ CountUnion /\ CountImage /\ LeastNumber

Holders(b) == {p \in Proc : pc[p] \in Active /\ buf[p] = b}

Pin(b) == IF b \in pinned THEN 1 ELSE 0

Locked == {"bread", "use"}

Types ==
  /\ pc \in [Proc -> Active \cup {"out", "panic", "nobufs"}]
  /\ buf \in [Proc -> Node]
  /\ want \in [Proc -> Block \cup {None}]
  /\ refcnt \in [Buf -> Nat]
  /\ blockno \in [Buf -> Block \cup {None}]
  /\ lkpid \in [Buf -> Proc \cup {None}]
  /\ pinned \subseteq Buf

(* Who is between bget and brelse has a buffer, and that for its block.     *)
InUse == \A p \in Proc : pc[p] \in Active => buf[p] \in Buf /\ blockno[buf[p]] = want[p]

(* References are counted exactly: one per user and one for the log.        *)
Counted == \A b \in Buf : refcnt[b] = Cardinality(Holders(b)) + Pin(b)

(* The sleep-lock names its holder, and only a held lock is slept on.       *)
LockInv ==
  /\ \A p \in Proc : pc[p] \in Locked => lkpid[buf[p]] = p
  /\ \A b \in Buf : lkpid[b] # None => pc[lkpid[b]] \in Locked /\ buf[lkpid[b]] = b
  /\ \A p \in Proc : pc[p] = "asleep" => lkpid[buf[p]] # None

CacheInv == Types /\ InUse /\ Counted /\ LockInv

-----------------------------------------------------------------------------
(* Where the entry at place k > 1 was before place i moved to the front.    *)
Before(i, k) == IF k <= i THEN k - 1 ELSE k

(* The order of two places stays.                                           *)
LEMMA PlaceOrder ==
  ASSUME NEW i \in Nat, NEW j \in Nat, NEW k \in Nat, NEW x \in Nat, NEW y \in Nat,
         x = Before(i, j), y = Before(i, k), x # y
  PROVE  x < y <=> j < k
  BY SMTT(40) DEF Before

(* The search of bget through the list returns a buffer of the kind it      *)
(* looks for, or the list head.                                             *)
LEMMA FirstIsHit ==
  ASSUME Known, NEW link, NEW bufs
  PROVE  First(link, bufs) \in bufs \cup {ListHead}
  <1> DEFINE at == Walk(link)
             hits == {k \in Node : at[k] \in bufs}
  <1> HIDE DEF at
  <1>1. CASE hits = {}
    BY <1>1, Zenon DEF First, at
  <1>2. CASE hits # {}
    <2>1. hits \in SUBSET Nat
      BY BioAssumption DEF Node
    <2>2. \E k \in hits : \A j \in hits : k <= j
      BY ZenonT(30), <1>2, <2>1 DEF Known, LeastNumber
    <2>3. (CHOOSE k \in hits : \A j \in hits : k <= j) \in hits
      BY <2>2, Zenon
    <2> QED
      BY <1>2, <2>3, Zenon DEF First, at
  <1> QED
    BY <1>1, <1>2, Zenon

(* Users of a buffer are finitely many, and none if their number is 0.      *)
LEMMA HoldersFinite ==
  ASSUME Known, NEW b
  PROVE  /\ IsFiniteSet(Holders(b))
         /\ Cardinality(Holders(b)) \in Nat
         /\ Cardinality(Holders(b)) = 0 => Holders(b) = {}
  <1>1. Holders(b) \in SUBSET Proc /\ IsFiniteSet(Proc)
    BY BioAssumption, Zenon DEF Holders
  <1>2. IsFiniteSet(Holders(b))
    BY <1>1, Zenon DEF Known, Counting, CountPart
  <1> QED
    BY <1>2, Zenon DEF Known, Counting, CountNat, CountNone

(* binit establishes the invariant.                                         *)
LEMMA InitCache ==
  ASSUME Known
  PROVE  Init => CacheInv
  <1> SUFFICES ASSUME Init
               PROVE  CacheInv
    BY Zenon
  <1>1. Types /\ InUse /\ LockInv
    BY BioAssumption DEF Init, Types, InUse, LockInv, Locked, Active, Buf, Node, ListHead
  <1>2. ASSUME NEW b \in Buf
        PROVE  refcnt[b] = Cardinality(Holders(b)) + Pin(b)
    <2>1. Holders(b) = {}
      BY Zenon DEF Init, Holders, Active
    <2> QED
      BY <2>1 DEF Known, Counting, CountNone, Init, Pin
  <1> QED
    BY <1>1, <1>2, Zenon DEF CacheInv, Counted

(* bget makes p a user of b and of no other buffer.                         *)
LEMMA HoldersGrow ==
  ASSUME Known, Types, NEW p \in Proc, NEW b \in Buf, pc[p] \notin Active,
         pc' = [pc EXCEPT ![p] = "acquiresleep"], buf' = [buf EXCEPT ![p] = b]
  PROVE  /\ Cardinality(Holders(b)') = Cardinality(Holders(b)) + 1
         /\ \A c \in Buf \ {b} : Holders(c)' = Holders(c)
  <1>1. Holders(b)' = Holders(b) \cup {p} /\ p \notin Holders(b)
    BY Zenon DEF Types, Holders, Active
  <1>2. \A c \in Buf \ {b} : Holders(c)' = Holders(c)
    BY Zenon DEF Types, Holders, Active
  <1>3. IsFiniteSet(Holders(b))
    BY HoldersFinite, Zenon
  <1>4. Cardinality(Holders(b) \cup {p}) = Cardinality(Holders(b)) + 1
    BY <1>1, <1>3, Zenon DEF Known, Counting, CountMore
  <1> QED
    BY <1>1, <1>2, <1>4, Zenon

(* brelse ends p's use of its buffer.                                       *)
LEMMA HoldersShrink ==
  ASSUME Known, Types, NEW p \in Proc, NEW b \in Buf, pc[p] \in Active, buf[p] = b,
         pc' = [pc EXCEPT ![p] = "out"], buf' = [buf EXCEPT ![p] = ListHead]
  PROVE  /\ Cardinality(Holders(b)') = Cardinality(Holders(b)) - 1
         /\ \A c \in Buf \ {b} : Holders(c)' = Holders(c)
  <1>1. Holders(b)' = Holders(b) \ {p} /\ p \in Holders(b)
    BY Zenon DEF Types, Holders, Active
  <1>2. \A c \in Buf \ {b} : Holders(c)' = Holders(c)
    BY Zenon DEF Types, Holders, Active
  <1>3. IsFiniteSet(Holders(b))
    BY HoldersFinite, Zenon
  <1>4. Cardinality(Holders(b) \ {p}) = Cardinality(Holders(b)) - 1
    BY ZenonT(30), <1>1, <1>3 DEF Known, Counting, CountLess
  <1> QED
    BY <1>1, <1>2, <1>4, Zenon

(* A step that leaves buffers and their users alone leaves the counts right. *)
LEMMA HoldersSame ==
  ASSUME Types, Counted, UNCHANGED <<buf, refcnt, pinned>>,
         \A q \in Proc : pc'[q] \in Active <=> pc[q] \in Active
  PROVE  Counted'
  <1>1. \A b : Holders(b)' = Holders(b)
    BY Zenon DEF Holders
  <1> QED
    BY <1>1, Zenon DEF Counted, Pin

-----------------------------------------------------------------------------
(* bget: the buffer it recycles has no users.                               *)
LEMMA BgetCache ==
  ASSUME Known, CacheInv, NEW p \in Proc, NEW bno \in Block, Bget(p, bno)
  PROVE  CacheInv'
  <1> USE DEF CacheInv
  <1>1. pc[p] = "out" /\ want' = [want EXCEPT ![p] = bno] /\ UNCHANGED <<lkpid, pinned>>
    BY Zenon DEF Bget
  <1>2. ASSUME NEW b \in Buf, pc' = [pc EXCEPT ![p] = "acquiresleep"],
               buf' = [buf EXCEPT ![p] = b], refcnt' = [refcnt EXCEPT ![b] = @ + 1],
               blockno' = [blockno EXCEPT ![b] = bno], blockno[b] = bno \/ Holders(b) = {}
        PROVE  CacheInv'
    <2>1. Types'
      <3>1. b \in Node
        BY <1>2 DEF Buf, Node
      <3> QED
        BY <1>1, <1>2, <3>1 DEF Types, Active
    <2>2. InUse'
      BY <1>1, <1>2, ZenonT(40) DEF Types, InUse, Active, Holders
    <2>3. Counted'
      <3>1. /\ Cardinality(Holders(b)') = Cardinality(Holders(b)) + 1
            /\ \A c \in Buf \ {b} : Holders(c)' = Holders(c)
        BY ZenonT(30), <1>1, <1>2, HoldersGrow DEF Active
      <3> QED
        BY <1>1, <1>2, <3>1, HoldersFinite DEF Counted, Types, Pin
    <2>4. LockInv'
      BY <1>1, <1>2 DEF Types, LockInv, Locked
    <2> QED
      BY <2>1, <2>2, <2>3, <2>4, Zenon
  <1>3. CASE Cached(bno) # ListHead
    <2> DEFINE b == Cached(bno)
    <2>1. b \in Buf /\ blockno[b] = bno
      BY <1>3, FirstIsHit, Zenon DEF Cached
    <2>2. /\ pc' = [pc EXCEPT ![p] = "acquiresleep"] /\ buf' = [buf EXCEPT ![p] = b]
          /\ refcnt' = [refcnt EXCEPT ![b] = @ + 1] /\ UNCHANGED blockno
      BY <1>3, Zenon DEF Bget
    <2> HIDE DEF b
    <2>3. blockno' = [blockno EXCEPT ![b] = bno]
      BY <2>1, <2>2, Zenon DEF Types
    <2> QED
      BY ZenonT(30), <1>2, <2>1, <2>2, <2>3
  <1>4. CASE Cached(bno) = ListHead /\ Unused # ListHead
    <2> DEFINE b == Unused
    <2>1. b \in Buf /\ refcnt[b] = 0
      BY <1>4, FirstIsHit, Zenon DEF Unused
    <2>2. /\ pc' = [pc EXCEPT ![p] = "acquiresleep"] /\ buf' = [buf EXCEPT ![p] = b]
          /\ refcnt' = [refcnt EXCEPT ![b] = 1] /\ blockno' = [blockno EXCEPT ![b] = bno]
      BY <1>4, Zenon DEF Bget
    <2> HIDE DEF b
    <2>3. refcnt' = [refcnt EXCEPT ![b] = @ + 1]
      BY <2>1, <2>2 DEF Types
    <2>4. Holders(b) = {}
      BY <2>1, HoldersFinite, SMTT(40) DEF Counted, Pin
    <2> QED
      BY ZenonT(30), <1>2, <2>1, <2>2, <2>3, <2>4
  <1>5. CASE Cached(bno) = ListHead /\ Unused = ListHead
    <2>1. pc' = [pc EXCEPT ![p] = "nobufs"] /\ UNCHANGED <<blockno, refcnt, buf>>
      BY <1>5, Zenon DEF Bget
    <2>2. Counted'
      BY <1>1, <2>1, HoldersSame, Zenon DEF Types, Active
    <2> QED
      BY <1>1, <2>1, <2>2, SMTT(40) DEF Types, InUse, LockInv, Locked, Active
  <1> QED
    BY <1>3, <1>4, <1>5, Zenon

(* The steps on a buffer that p has keep the invariant.                     *)
LEMMA HolderCache ==
  ASSUME Known, CacheInv, NEW p \in Proc,
         \/ AcquireSleep(p) \/ Bread(p) \/ HolderStep(p) \/ ReleaseSleep(p) \/ Brelse(p)
  PROVE  CacheInv'
  <1> USE DEF CacheInv
  <1>1. CASE AcquireSleep(p)
    <2>1. Counted'
      BY <1>1, HoldersSame, Zenon DEF AcquireSleep, Types, Active
    <2>2. Types' /\ InUse'
      BY <1>1, ZenonT(40) DEF AcquireSleep, Types, InUse, Active
    <2>3. LockInv'
      BY <1>1, BioAssumption, SMTT(40) DEF AcquireSleep, Types, InUse, LockInv, Locked, Active
    <2> QED
      BY <2>1, <2>2, <2>3, Zenon
  <1>2. CASE Bread(p)
    <2>1. Counted'
      BY <1>2, HoldersSame, Zenon DEF Bread, Types, Active
    <2> QED
      BY <1>2, <2>1, SMTT(40) DEF Bread, Types, InUse, LockInv, Locked, Active
  <1>3. ASSUME NEW v \in Val, LogWrite(p, v)
        PROVE  CacheInv'
    <2>1. /\ pinned' = pinned \cup {buf[p]} /\ buf[p] \in Buf /\ UNCHANGED <<blockno, lkpid, local>>
          /\ refcnt' = [refcnt EXCEPT ![buf[p]] = IF buf[p] \in pinned THEN @ ELSE @ + 1]
      BY <1>3, Zenon DEF LogWrite, InUse, Active
    <2>2. \A b : Holders(b)' = Holders(b)
      BY <2>1, Zenon DEF Holders, local
    <2>3. Counted'
      BY <2>1, <2>2, HoldersFinite, SMTT(40) DEF Counted, Types, Pin
    <2> QED
      BY <2>1, <2>3, SMTT(40) DEF Types, InUse, LockInv, local
  <1>4. ASSUME NEW v \in Val, Bwrite(p, v)
        PROVE  CacheInv'
    <2>1. lkpid[buf[p]] = p /\ UNCHANGED <<pc, blockno, refcnt, lkpid, pinned, buf, want>>
      BY <1>4, Zenon DEF Bwrite, LockInv, Locked
    <2>2. Counted'
      BY <2>1, HoldersSame, Zenon
    <2> QED
      BY <2>1, <2>2, Zenon DEF Types, InUse, LockInv
  <1>5. CASE WriteHome(p)
    <2>1. /\ lkpid[buf[p]] = p /\ buf[p] \in pinned /\ pinned' = pinned \ {buf[p]} /\ buf[p] \in Buf
          /\ refcnt' = [refcnt EXCEPT ![buf[p]] = @ - 1]
          /\ UNCHANGED <<pc, blockno, lkpid, buf, want>>
      BY <1>5, Zenon DEF WriteHome, LockInv, Locked, InUse, Active
    <2>2. \A b : Holders(b)' = Holders(b)
      BY <2>1, Zenon DEF Holders
    <2>3. Counted' /\ refcnt' \in [Buf -> Nat]
      BY <2>1, <2>2, HoldersFinite, SMTT(40) DEF Counted, Types, Pin
    <2> QED
      BY <2>1, <2>3, Zenon DEF Types, InUse, LockInv
  <1>6. CASE ReleaseSleep(p)
    <2>1. /\ pc[p] = "use" /\ lkpid[buf[p]] = p /\ buf[p] \in Buf
          /\ lkpid' = [lkpid EXCEPT ![buf[p]] = None]
          /\ UNCHANGED <<blockno, refcnt, pinned, buf, want>>
          /\ pc' = [q \in Proc |->
                        IF q = p THEN "brelse"
                        ELSE IF pc[q] = "asleep" /\ buf[q] = buf[p] THEN "acquiresleep"
                        ELSE pc[q]]
      BY <1>6, Zenon DEF ReleaseSleep, LockInv, Locked, InUse, Active
    <2>2. Counted'
      BY <2>1, HoldersSame, Zenon DEF Types, Active
    <2>3. Types' /\ InUse'
      BY <2>1, Zenon DEF Types, InUse, Active
    <2>4. LockInv'
      BY <2>1, BioAssumption DEF Types, InUse, LockInv, Locked, Active
    <2> QED
      BY <2>2, <2>3, <2>4, Zenon
  <1>7. CASE Brelse(p)
    <2>1. /\ pc[p] = "brelse" /\ buf[p] \in Buf /\ UNCHANGED <<blockno, lkpid, pinned>>
          /\ refcnt' = [refcnt EXCEPT ![buf[p]] = @ - 1]
          /\ pc' = [pc EXCEPT ![p] = "out"] /\ buf' = [buf EXCEPT ![p] = ListHead]
          /\ want' = [want EXCEPT ![p] = None]
      BY <1>7, Zenon DEF Brelse, InUse, Active
    <2>b. PICK b \in Buf : b = buf[p]
      BY <2>1, Zenon
    <2>2. /\ Cardinality(Holders(b)') = Cardinality(Holders(b)) - 1
          /\ \A c \in Buf \ {b} : Holders(c)' = Holders(c)
      BY ZenonT(30), <2>1, <2>b, HoldersShrink DEF Active
    <2>3. Cardinality(Holders(b)) # 0
      <3>1. p \in Holders(b)
        BY <2>1, <2>b, Zenon DEF Holders, Active
      <3> QED
        BY <3>1, HoldersFinite, Zenon
    <2>4. Counted' /\ refcnt' \in [Buf -> Nat]
      BY <2>1, <2>b, <2>2, <2>3, HoldersFinite, SMTT(40) DEF Counted, Types, Pin
    <2>5. Types' /\ InUse'
      <3>1. ListHead \in Node
        BY BioAssumption, SMTT(40) DEF ListHead, Node
      <3> QED
        BY <2>1, <2>4, <3>1, Zenon DEF Types, InUse, Active
    <2>6. LockInv'
      BY <2>1 DEF Types, LockInv, Locked
    <2> QED
      BY <2>4, <2>5, <2>6, Zenon
  <1> QED
    BY <1>1, <1>2, <1>3, <1>4, <1>5, <1>6, <1>7, Zenon DEF HolderStep

(* A buffer that bget has returned is not recycled for another block before *)
-----------------------------------------------------------------------------
Up(k) == IF k = NBUF THEN 0 ELSE k + 1

(* s lists the nodes of the ring in the order of the next pointers, from    *)
(* the list head on, and against that of the prev pointers.                 *)
IsOrder(s) ==
  /\ s \in [Node -> Node] /\ s[0] = ListHead
  /\ \A j, k \in Node : s[j] = s[k] => j = k
  /\ \A n \in Node : \E k \in Node : s[k] = n
  /\ \A k \in Node : next[s[k]] = s[Up(k)] /\ prev[s[Up(k)]] = s[k]

(* The place of the successor.                                              *)
LEMMA UpFacts ==
  /\ 0 \in Node /\ NBUF \in Node /\ Up(NBUF) = 0
  /\ \A k \in Node : Up(k) \in Node /\ Up(k) # k /\ (k # NBUF => Up(k) = k + 1)
  /\ \A k \in Node : k # 0 => k - 1 \in Node /\ Up(k - 1) = k
  BY BioAssumption DEF Up, Node

(* The body of Walk's definition.                                           *)
IsWalk(w, link) ==
  w = [k \in Node |-> IF k = 0 THEN link[ListHead]
                      ELSE IF w[k - 1] = ListHead THEN ListHead ELSE link[w[k - 1]]]

(* Walk is the only function that satisfies its recursive definition.       *)
LEMMA WalkUnique ==
  ASSUME Known, NEW link, NEW w, IsWalk(w, link)
  PROVE  Walk(link) = w
  <1> DEFINE at == Walk(link)
  <1>1. IsWalk(at, link)
    BY Zenon DEF Walk, IsWalk
  <1> HIDE DEF at
  <1> DEFINE S == {k \in Node : at[k] # w[k]}
  <1>2. ASSUME S # {} PROVE FALSE
    <2>1. S \in SUBSET Nat
      BY BioAssumption DEF Node
    <2>2. PICK k \in S : \A j \in S : k <= j
      BY <1>2, <2>1, Zenon DEF Known, LeastNumber
    <2>3. k \in Node /\ at[k] # w[k]
      BY <2>2, Zenon
    <2>4. CASE k = 0
      BY <1>1, <2>3, <2>4, Zenon DEF IsWalk
    <2>5. CASE k # 0
      <3>1. k - 1 \in Node /\ ~(k <= k - 1)
        BY <2>3, <2>5, BioAssumption DEF Node
      <3>2. k - 1 \notin S
        BY <2>2, <3>1, Zenon
      <3>3. at[k - 1] = w[k - 1]
        BY <3>1, <3>2, Zenon
      <3>4. at[k] = IF at[k - 1] = ListHead THEN ListHead ELSE link[at[k - 1]]
        BY <1>1, <2>3, <2>5, Zenon DEF IsWalk
      <3>5. w[k] = IF w[k - 1] = ListHead THEN ListHead ELSE link[w[k - 1]]
        BY <2>3, <2>5, Zenon DEF IsWalk
      <3> QED
        BY <2>3, <3>3, <3>4, <3>5, Zenon
    <2> QED
      BY <2>4, <2>5, Zenon
  <1>3. at = [k \in Node |-> at[k]] /\ w = [k \in Node |-> w[k]]
    BY <1>1, Zenon DEF IsWalk
  <1>4. \A k \in Node : at[k] = w[k]
    BY <1>2, Zenon
  <1>5. [k \in Node |-> at[k]] = [k \in Node |-> w[k]]
    BY <1>4, Zenon
  <1> QED
    BY <1>3, <1>5, Zenon DEF at

(* Following next from the head visits the order forwards.                  *)
LEMMA WalkNext ==
  ASSUME Known, NEW s, IsOrder(s)
  PROVE  Walk(next) = [k \in Node |-> s[Up(k)]]
  <1> DEFINE w == [k \in Node |-> s[Up(k)]]
  <1>1. ASSUME NEW k \in Node
        PROVE  w[k] = IF k = 0 THEN next[ListHead]
                      ELSE IF w[k - 1] = ListHead THEN ListHead ELSE next[w[k - 1]]
    <2>1. CASE k = 0
      BY <2>1, UpFacts, Zenon DEF IsOrder
    <2>2. CASE k # 0
      <3>1. k - 1 \in Node /\ w[k - 1] = s[k]
        BY <2>2, UpFacts, Zenon
      <3>2. s[k] # ListHead
        BY <2>2, UpFacts, Zenon DEF IsOrder
      <3> QED
        BY <2>2, <3>1, <3>2, ZenonT(40) DEF IsOrder
    <2> QED
      BY <2>1, <2>2, Zenon
  <1>2. IsWalk(w, next)
    BY <1>1, Zenon DEF IsWalk
  <1> HIDE DEF w
  <1>3. Walk(next) = w
    BY <1>2, WalkUnique, Zenon
  <1> QED
    BY <1>3, Zenon DEF w

(* Following prev from the head visits the order backwards.                 *)
LEMMA WalkPrev ==
  ASSUME Known, NEW s, IsOrder(s)
  PROVE  Walk(prev) = [k \in Node |-> s[NBUF - k]]
  <1> DEFINE w == [k \in Node |-> s[NBUF - k]]
  <1>1. ASSUME NEW k \in Node
        PROVE  w[k] = IF k = 0 THEN prev[ListHead]
                      ELSE IF w[k - 1] = ListHead THEN ListHead ELSE prev[w[k - 1]]
    <2>1. CASE k = 0
      <3>1. NBUF - k = NBUF /\ s[Up(NBUF)] = ListHead
        BY <2>1, BioAssumption, UpFacts, SMTT(40) DEF IsOrder
      <3> QED
        BY <2>1, <3>1, UpFacts, Zenon DEF IsOrder
    <2>2. CASE k # 0
      <3>1. PICK j \in Node : j = NBUF - k /\ Up(j) = NBUF - (k - 1) /\ Up(j) # 0
        BY <2>2, BioAssumption, SMTT(40) DEF Up, Node
      <3>2. k - 1 \in Node /\ w[k - 1] = s[Up(j)] /\ w[k] = s[j]
        BY <2>2, <3>1, UpFacts, Zenon
      <3>3. s[Up(j)] # ListHead
        BY <3>1, UpFacts, Zenon DEF IsOrder
      <3> QED
        BY <2>2, <3>2, <3>3, ZenonT(40) DEF IsOrder
    <2> QED
      BY <2>1, <2>2, Zenon
  <1>2. IsWalk(w, prev)
    BY <1>1, Zenon DEF IsWalk
  <1> HIDE DEF w
  <1>3. Walk(prev) = w
    BY <1>2, WalkUnique, Zenon
  <1> QED
    BY <1>3, Zenon DEF w

(* bget's search, forwards or backwards, misses no buffer.                  *)
LEMMA FirstFinds ==
  ASSUME Known, NEW s, IsOrder(s), NEW bufs \in SUBSET Buf
  PROVE  /\ First(next, bufs) = ListHead => bufs = {}
         /\ First(prev, bufs) = ListHead => bufs = {}
  <1>1. ASSUME NEW link, NEW b \in bufs, NEW k \in Node, Walk(link)[k] = b
        PROVE  First(link, bufs) # ListHead
    <2> DEFINE at == Walk(link)
               hits == {j \in Node : at[j] \in bufs}
    <2> HIDE DEF at
    <2>1. k \in hits /\ hits \in SUBSET Nat
      BY <1>1, BioAssumption DEF Node, at
    <2>2. \E i \in hits : \A j \in hits : i <= j
      BY ZenonT(30), <2>1 DEF Known, LeastNumber
    <2>3. (CHOOSE i \in hits : \A j \in hits : i <= j) \in hits
      BY <2>2, Zenon
    <2>4. First(link, bufs) \in bufs
      BY <2>1, <2>3, Zenon DEF First, at
    <2> QED
      BY <2>4 DEF Buf, ListHead
  <1>2. ASSUME NEW b \in bufs
        PROVE  /\ \E k \in Node : Walk(next)[k] = b
               /\ \E k \in Node : Walk(prev)[k] = b
    <2>1. PICK j \in Node : s[j] = b
      BY SMTT(40) DEF IsOrder, Buf, Node
    <2>2. j # 0
      BY <2>1 DEF IsOrder, Buf, ListHead
    <2>3. Walk(next)[j - 1] = b /\ j - 1 \in Node
      BY <2>1, <2>2, UpFacts, WalkNext, SMTT(40)
    <2>4. NBUF - j \in Node /\ NBUF - (NBUF - j) = j
      BY BioAssumption DEF Node
    <2>5. Walk(prev)[NBUF - j] = b
      BY <2>1, <2>4, WalkPrev, ZenonT(40)
    <2> QED
      BY <2>3, <2>4, <2>5, Zenon
  <1> QED
    BY <1>1, <1>2, Zenon

-----------------------------------------------------------------------------
(* The order after the i-th node has been moved behind the head.            *)
Moved(s, i) ==
  [k \in Node |-> IF k = 0 THEN ListHead ELSE IF k = 1 THEN s[i]
                  ELSE IF k <= i THEN s[k - 1] ELSE s[k]]

(* The assignments of brelse, value by value.                               *)
LEMMA MovedLinks ==
  ASSUME NEW s, IsOrder(s), next \in [Node -> Node], prev \in [Node -> Node],
         NEW i \in Node, i # 0, MoveToHead(s[i])
  PROVE  LET front == IF i = 1 THEN s[Up(1)] ELSE s[1]
         IN  /\ next' \in [Node -> Node] /\ prev' \in [Node -> Node]
             /\ \A n \in Node :
                  /\ next'[n] = IF n = s[0] THEN s[i] ELSE IF n = s[i] THEN front
                                ELSE IF n = s[i - 1] THEN s[Up(i)] ELSE next[n]
                  /\ prev'[n] = IF n = front THEN s[i] ELSE IF n = s[i] THEN s[0]
                                ELSE IF n = s[Up(i)] THEN s[i - 1] ELSE prev[n]
  <1> DEFINE front == IF i = 1 THEN s[Up(1)] ELSE s[1]
             b == s[i]
             prev1 == [prev EXCEPT ![next[b]] = prev[b]]
             next1 == [next EXCEPT ![prev1[b]] = next[b]]
             next2 == [next1 EXCEPT ![b] = next1[ListHead]]
             prev2 == [prev1 EXCEPT ![b] = ListHead]
  <1>1. /\ i - 1 \in Node /\ Up(i) \in Node /\ 1 \in Node /\ Up(1) \in Node /\ 0 \in Node
        /\ Up(i - 1) = i /\ Up(i) # i /\ Up(0) = 1
    <2>1. i - 1 \in Node /\ Up(i) \in Node /\ 0 \in Node /\ Up(i - 1) = i /\ Up(i) # i
      BY UpFacts, Zenon
    <2>2. 1 \in Node /\ Up(0) = 1
      BY BioAssumption, SMTT(40) DEF Up, Node
    <2> QED
      BY <2>1, <2>2, UpFacts, Zenon
  <1>2. /\ s[i] \in Node /\ s[i - 1] \in Node /\ s[Up(i)] \in Node /\ s[0] = ListHead
        /\ s[i] # s[0] /\ s[Up(i)] # s[i] /\ front \in Node /\ ListHead \in Node
    BY <1>1, ZenonT(40) DEF IsOrder
  <1>3. next[b] = s[Up(i)] /\ prev[b] = s[i - 1] /\ next[ListHead] = s[1]
    BY <1>1, Zenon DEF IsOrder
  <1>4. prev1 = [prev EXCEPT ![s[Up(i)]] = s[i - 1]] /\ prev1[b] = s[i - 1]
    BY <1>2, <1>3, Zenon
  <1>5. next1 = [next EXCEPT ![s[i - 1]] = s[Up(i)]]
    BY <1>3, <1>4, Zenon
  <1>6. next1[ListHead] = front
    <2>1. CASE i = 1
      BY <2>1, <1>1, <1>2, <1>5, SMTT(40)
    <2>2. CASE i # 1
      <3>1. s[i - 1] # ListHead
        BY <2>2, <1>1, Zenon DEF IsOrder
      <3> QED
        BY <2>2, <3>1, <1>2, <1>3, <1>5, Zenon
    <2> QED
      BY <2>1, <2>2, Zenon
  <1>7. next2[ListHead] = front
    BY <1>2, <1>5, <1>6, Zenon
  <1>8. prev' = [prev2 EXCEPT ![next2[ListHead]] = b] /\ next' = [next2 EXCEPT ![ListHead] = b]
    BY Zenon DEF MoveToHead
  <1>9. next2 = [next1 EXCEPT ![b] = front]
    BY <1>6, Zenon
  <1>10. prev' = [prev2 EXCEPT ![front] = b]
    BY <1>7, <1>8, ZenonT(40)
  <1>11. next1 \in [Node -> Node] /\ \A n \in Node : next1[n] = IF n = s[i - 1] THEN s[Up(i)] ELSE next[n]
    BY <1>2, <1>5, Zenon
  <1>12. prev1 \in [Node -> Node] /\ \A n \in Node : prev1[n] = IF n = s[Up(i)] THEN s[i - 1] ELSE prev[n]
    BY <1>2, <1>4, Zenon
  <1> HIDE DEF prev1, next1, next2, prev2, front, b
  <1>13. next2 \in [Node -> Node] /\ \A n \in Node : next2[n] = IF n = s[i] THEN front ELSE next1[n]
    BY <1>2, <1>9, <1>11, Zenon DEF b
  <1>14. prev2 \in [Node -> Node] /\ \A n \in Node : prev2[n] = IF n = s[i] THEN s[0] ELSE prev1[n]
    BY <1>2, <1>12, Zenon DEF b, prev2
  <1>15. next' \in [Node -> Node] /\ \A n \in Node : next'[n] = IF n = s[0] THEN s[i] ELSE next2[n]
    BY <1>2, <1>8, <1>13, Zenon DEF b
  <1>16. prev' \in [Node -> Node] /\ \A n \in Node : prev'[n] = IF n = front THEN s[i] ELSE prev2[n]
    BY <1>2, <1>10, <1>14, Zenon DEF b
  <1>17. \A n \in Node : next'[n] = IF n = s[0] THEN s[i] ELSE IF n = s[i] THEN front
                                ELSE IF n = s[i - 1] THEN s[Up(i)] ELSE next[n]
    BY <1>11, <1>13, <1>15, ZenonT(40)
  <1>18. \A n \in Node : prev'[n] = IF n = front THEN s[i] ELSE IF n = s[i] THEN s[0]
                                ELSE IF n = s[Up(i)] THEN s[i - 1] ELSE prev[n]
    BY <1>12, <1>14, <1>16, Zenon
  <1> QED
    BY <1>15, <1>16, <1>17, <1>18, Zenon DEF front

(* MoveToHead keeps the list a ring: its order is the old one with the      *)
(* buffer taken out and put behind the head.                                *)
LEMMA MovedIsOrder ==
  ASSUME NEW s, IsOrder(s), next \in [Node -> Node], prev \in [Node -> Node],
         NEW i \in Node, i # 0, MoveToHead(s[i])
  PROVE  /\ next' \in [Node -> Node] /\ prev' \in [Node -> Node]
         /\ IsOrder(Moved(s, i))'
  <1> DEFINE t == Moved(s, i)
             front == IF i = 1 THEN s[Up(1)] ELSE s[1]
  <1>1. /\ next' \in [Node -> Node] /\ prev' \in [Node -> Node]
        /\ \A n \in Node :
              /\ next'[n] = IF n = s[0] THEN s[i] ELSE IF n = s[i] THEN front
                            ELSE IF n = s[i - 1] THEN s[Up(i)] ELSE next[n]
              /\ prev'[n] = IF n = front THEN s[i] ELSE IF n = s[i] THEN s[0]
                            ELSE IF n = s[Up(i)] THEN s[i - 1] ELSE prev[n]
    BY MovedLinks, SMTT(40)
  <1>2. \A k \in Node : t[k] = IF k = 0 THEN s[0] ELSE IF k = 1 THEN s[i]
                               ELSE IF k <= i THEN s[k - 1] ELSE s[k]
    BY Zenon DEF Moved, IsOrder
  <1>3. t = [k \in Node |-> t[k]]
    BY Zenon DEF Moved
  <1> HIDE DEF t
  <1>4. /\ \A k \in Node : k # 0 => k - 1 \in Node
        /\ NBUF \in Nat /\ NBUF > 0 /\ \A k : k \in Node <=> k \in Nat /\ k <= NBUF
    BY UpFacts, BioAssumption, SMTT(40) DEF Node
  <1>5. s[0] = ListHead /\ \A k \in Node : s[k] \in Node
    BY UpFacts, Zenon DEF IsOrder
  <1>d. \A j, k \in Node : j # k => s[j] # s[k]
    BY Zenon DEF IsOrder
  <1>s. \A n \in Node : \E k \in Node : s[k] = n
    BY Zenon DEF IsOrder
  <1>l. \A k \in Node : next[s[k]] = s[Up(k)] /\ prev[s[Up(k)]] = s[k]
    BY ZenonT(40) DEF IsOrder
  <1>6. t \in [Node -> Node]
    BY <1>2, <1>3, <1>4, <1>5, ZenonT(40)
  <1>7. \A j, k \in Node : t[j] = t[k] => j = k
    BY <1>2, <1>4, <1>d, SMTT(40)
  <1>8. ASSUME NEW n \in Node PROVE \E k \in Node : t[k] = n
    <2>1. PICK j \in Node : s[j] = n
      BY <1>s, Zenon
    <2>2. CASE j = i
      <3>1. 1 \in Node /\ 1 # 0
        BY <1>4
      <3> QED
        BY <2>1, <2>2, <3>1, <1>2, Zenon
    <2>3. CASE j = 0 \/ j > i
      BY <2>1, <2>3, <1>2, <1>4
    <2>4. CASE j # 0 /\ j < i
      <3>1. j + 1 \in Node /\ t[j + 1] = s[j]
        BY <2>4, <1>2, <1>4, SMTT(40)
      <3> QED
        BY <2>1, <3>1, Zenon
    <2> QED
      BY <2>2, <2>3, <2>4, <1>4, SMTT(40)
  <1>9. ASSUME NEW k \in Node
        PROVE  next'[t[k]] = t[Up(k)] /\ prev'[t[Up(k)]] = t[k]
    <2>0. Up(k) \in Node /\ t[k] \in Node /\ t[Up(k)] \in Node
      BY UpFacts, <1>6, Zenon
    <2>1. CASE k = 0
      <3>1. t[k] = s[0] /\ t[Up(k)] = s[i]
        BY <2>1, <1>2, <1>4, SMTT(40) DEF Up
      <3>2. s[i] # front
        BY <1>4, <1>d DEF Up
      <3> QED
        BY <3>1, <3>2, <1>1, <2>0, Zenon
    <2>2. CASE k = 1
      <3>1. t[k] = s[i] /\ s[i] # s[0]
        BY <2>2, <1>2, <1>4, <1>d, SMTT(40)
      <3>2. t[Up(k)] = front
        BY <2>2, <1>2, <1>4, SMTT(40) DEF Up
      <3> QED
        BY <3>1, <3>2, <1>1, <2>0, Zenon
    <2>3. CASE k > 1 /\ k < i
      <3>1. PICK j \in Node : j = k - 1 /\ Up(j) = k /\ j # 0 /\ j < i - 1
        BY <2>3, <1>4 DEF Up
      <3>2. t[k] = s[j] /\ t[Up(k)] = s[k] /\ front = s[1]
        <4>1. Up(k) = k + 1 /\ k + 1 \in Node /\ k + 1 <= i /\ (k + 1) - 1 = k
          BY <2>3, <1>4, SMTT(40) DEF Up
        <4>2. t[k] = s[k - 1]
          BY <2>3, <1>2, <1>4, SMTT(40)
        <4>3. t[k + 1] = s[(k + 1) - 1]
          BY <2>3, <4>1, <1>2, <1>4, SMTT(40)
        <4>4. i # 1
          BY <2>3, <1>4, SMTT(40)
        <4> QED
          BY <3>1, <4>1, <4>2, <4>3, <4>4, ZenonT(40)
      <3>3. /\ 0 \in Node /\ 1 \in Node /\ i - 1 \in Node /\ Up(i) \in Node
            /\ j # i /\ j # i - 1 /\ k # 1 /\ k # i /\ k # Up(i)
        <4>1. 0 \in Node /\ 1 \in Node /\ i - 1 \in Node
          BY <2>3, <1>4, SMTT(40)
        <4>2. Up(i) \in Node /\ k # Up(i)
          BY <2>3, <1>4, SMTT(40) DEF Up
        <4>3. j # i /\ j # i - 1 /\ k # 1 /\ k # i
          BY <2>3, <3>1, <1>4, SMTT(40)
        <4> QED
          BY <4>1, <4>2, <4>3, Zenon
      <3>4. s[j] # s[0] /\ s[j] # s[i] /\ s[j] # s[i - 1]
        BY <3>1, <3>3, <1>d, Zenon
      <3>5. s[k] # s[1] /\ s[k] # s[i] /\ s[k] # s[Up(i)]
        BY <3>3, <1>d, Zenon
      <3>6. next[s[j]] = s[k] /\ prev[s[k]] = s[j]
        BY <3>1, <1>l, Zenon
      <3>7. next'[s[j]] = s[k] /\ prev'[s[k]] = s[j]
        BY <3>2, <3>4, <3>5, <3>6, <1>1, <1>5, ZenonT(40)
      <3> QED
        BY <3>2, <3>7, ZenonT(40)
    <2>4. CASE k > 1 /\ k = i
      <3>1. t[k] = s[i - 1] /\ t[Up(k)] = s[Up(i)]
        BY <2>4, <1>2, <1>4, SMTT(40) DEF Up
      <3>2. s[i - 1] # s[0] /\ s[i - 1] # s[i] /\ front = s[1] /\ s[Up(i)] # s[1] /\ s[Up(i)] # s[i]
        BY <2>4, <1>4, <1>d, SMTT(40) DEF Up
      <3> QED
        BY <3>1, <3>2, <1>1, <2>0, Zenon
    <2>5. CASE k > 1 /\ k > i
      <3>1. t[k] = s[k] /\ t[Up(k)] = s[Up(k)]
        BY <2>5, <1>2, <1>4, SMTT(40) DEF Up
      <3>2. s[k] # s[0] /\ s[k] # s[i] /\ s[k] # s[i - 1]
        BY <2>5, <1>4, <1>d, SMTT(40)
      <3>3. s[Up(k)] # front /\ s[Up(k)] # s[i] /\ s[Up(k)] # s[Up(i)]
        BY <2>5, <1>4, <1>d, SMTT(40) DEF Up
      <3> QED
        BY <3>1, <3>2, <3>3, <1>1, <1>l, <2>0, SMTT(40)
    <2> QED
      BY <2>1, <2>2, <2>3, <2>4, <2>5, <1>4, SMTT(40)
  <1>10. t[0] = ListHead
    BY <1>2, <1>4, <1>5, SMTT(40)
  <1> QED
    BY <1>1, <1>6, <1>7, <1>8, <1>9, <1>10, ZenonT(40) DEF IsOrder, t

-----------------------------------------------------------------------------
(* Along s, unreferenced buffers come in the order of their release.        *)
Aged(s) ==
  \A j, k \in Node \ {0} :
    refcnt[s[j]] = 0 /\ refcnt[s[k]] = 0 /\ j # k => (<<s[j], s[k]>> \in newer <=> j < k)

(* The list is a ring in the order of release; newer is about unreferenced  *)
(* buffers only.                                                            *)
ListInv ==
  /\ next \in [Node -> Node] /\ prev \in [Node -> Node]
  /\ newer \subseteq Buf \X Buf
  /\ \A b, c \in Buf : <<b, c>> \in newer => refcnt[b] = 0 /\ refcnt[c] = 0
  /\ \E s : IsOrder(s) /\ Aged(s)

(* Every place but the first holds a buffer, and every buffer has a place.  *)
LEMMA Places ==
  ASSUME NEW s, IsOrder(s)
  PROVE  /\ \A k \in Node \ {0} : s[k] \in Buf
         /\ \A b \in Buf : \E k \in Node \ {0} : s[k] = b
  <1>1. \A n : n \in Buf <=> n \in Node /\ n # ListHead
    BY BioAssumption DEF Buf, Node, ListHead
  <1>2. \A k \in Node \ {0} : s[k] \in Node /\ s[k] # ListHead
    BY UpFacts, Zenon DEF IsOrder
  <1> QED
    BY <1>1, <1>2, Zenon DEF IsOrder

(* binit builds a ring, the buffer inserted last in front.                  *)
LEMMA InitList == Init => ListInv
  <1> SUFFICES ASSUME Init PROVE ListInv
    BY Zenon
  <1> DEFINE s == [k \in Node |-> IF k = 0 THEN 0 ELSE NBUF + 1 - k]
  <1>0. /\ NBUF \in Nat /\ NBUF > 0 /\ \A k : k \in Node <=> k \in Nat /\ k <= NBUF
    BY BioAssumption, SMTT(40) DEF Node
  <1>1. next \in [Node -> Node] /\ prev \in [Node -> Node]
    BY <1>0 DEF Init, BinitPrev, ListHead
  <1>2. \A k \in Node : s[k] = IF k = 0 THEN 0 ELSE NBUF + 1 - k
    BY Zenon
  <1>3. s \in [Node -> Node]
    BY <1>0, SMTT(40)
  <1>4. \A n \in Node : /\ next[n] = IF n = 0 THEN NBUF ELSE n - 1
                        /\ prev[n] = IF n = NBUF THEN 0 ELSE n + 1
    BY Zenon DEF Init, BinitPrev, ListHead
  <1> HIDE DEF s
  <1>5. \A j, k \in Node : s[j] = s[k] => j = k
    BY <1>0, <1>2, SMTT(40)
  <1>6. ASSUME NEW n \in Node PROVE \E k \in Node : s[k] = n
    <2>1. CASE n = 0
      BY <1>0, <1>2, <2>1, Zenon
    <2>2. CASE n # 0
      <3>1. NBUF + 1 - n \in Node /\ s[NBUF + 1 - n] = n
        BY <1>0, <1>2, <2>2, SMTT(40)
      <3> QED
        BY <3>1, Zenon
    <2> QED
      BY <2>1, <2>2, Zenon
  <1>7. ASSUME NEW k \in Node
        PROVE  next[s[k]] = s[Up(k)] /\ prev[s[Up(k)]] = s[k]
    <2>1. Up(k) \in Node /\ s[k] \in Node /\ s[Up(k)] \in Node
      BY UpFacts, <1>3, Zenon
    <2>2. CASE k = 0
      <3>1. s[k] = 0 /\ s[Up(k)] = NBUF
        BY <2>2, <1>0, <1>2, SMTT(40) DEF Up
      <3> QED
        BY <1>0, <1>4, <2>1, <3>1, Zenon
    <2>3. CASE k # 0 /\ k # NBUF
      <3>1. s[k] = NBUF + 1 - k /\ s[Up(k)] = NBUF - k
        BY <2>3, <2>1, <1>0, <1>2, SMTT(40) DEF Up
      <3> QED
        BY <1>0, <1>4, <2>1, <2>3, <3>1, SMTT(40)
    <2>4. CASE k = NBUF
      <3>1. s[k] = 1 /\ s[Up(k)] = 0
        BY <2>4, <1>0, <1>2, SMTT(40) DEF Up
      <3> QED
        BY <1>0, <1>4, <2>1, <3>1, SMTT(40)
    <2> QED
      BY <2>2, <2>3, <2>4, Zenon
  <1>8. IsOrder(s)
    <2>1. s[0] = ListHead
      BY <1>0, <1>2 DEF ListHead
    <2> QED
      BY <2>1, <1>3, <1>5, <1>6, <1>7, ZenonT(40) DEF IsOrder
  <1>9. Aged(s)
    <2>1. \A b, c \in Buf : <<b, c>> \in newer <=> b > c
      BY Zenon DEF Init
    <2>2. ASSUME NEW j \in Node \ {0}, NEW k \in Node \ {0} PROVE s[j] > s[k] <=> j < k
      BY <1>0, <1>2, SMTT(40)
    <2> QED
      BY <1>8, <2>1, <2>2, Places, ZenonT(40) DEF Aged
  <1>10. newer \subseteq Buf \X Buf /\ \A b \in Buf : refcnt[b] = 0
    BY Zenon DEF Init
  <1> QED
    BY <1>1, <1>8, <1>9, <1>10, Zenon DEF ListInv

(* A step that leaves the list and the set of unreferenced buffers alone.   *)
LEMMA ListSame ==
  ASSUME ListInv, UNCHANGED <<list, newer>>, \A b \in Buf : refcnt'[b] = 0 <=> refcnt[b] = 0
  PROVE  ListInv'
  <1>1. PICK s : IsOrder(s) /\ Aged(s)
    BY Zenon DEF ListInv
  <1>2. IsOrder(s)'
    BY <1>1, Zenon DEF IsOrder, list
  <1>3. Aged(s)'
    BY <1>1, Places, Zenon DEF Aged
  <1> QED
    BY <1>2, <1>3, Zenon DEF ListInv, list

(* bget takes b off the unreferenced buffers, where it stands.              *)
LEMMA ListTaken ==
  ASSUME ListInv, NEW b \in Buf, UNCHANGED list,
         newer' = {r \in newer : b \notin {r[1], r[2]}},
         \A c \in Buf : refcnt'[c] = 0 <=> c # b /\ refcnt[c] = 0
  PROVE  ListInv'
  <1>1. PICK s : IsOrder(s) /\ Aged(s)
    BY Zenon DEF ListInv
  <1>2. IsOrder(s)'
    BY <1>1, Zenon DEF IsOrder, list
  <1>3. /\ newer' \subseteq Buf \X Buf
        /\ \A c, d \in Buf : <<c, d>> \in newer' <=> <<c, d>> \in newer /\ c # b /\ d # b
    BY Zenon DEF ListInv
  <1>4. Aged(s)'
    BY <1>1, <1>3, Places, Zenon DEF Aged
  <1>5. (\A c, d \in Buf : <<c, d>> \in newer => refcnt[c] = 0 /\ refcnt[d] = 0)'
    BY <1>3, Zenon DEF ListInv
  <1> QED
    BY <1>2, <1>3, <1>4, <1>5, Zenon DEF ListInv, list

(* brelse of the last reference puts b in front of the unreferenced ones.   *)
LEMMA ListReturned ==
  ASSUME ListInv, NEW b \in Buf, refcnt[b] # 0, MoveToHead(b),
         newer' = newer \cup {<<b, c>> : c \in {d \in Buf : refcnt[d] = 0}},
         \A c \in Buf : refcnt'[c] = 0 <=> c = b \/ refcnt[c] = 0
  PROVE  ListInv'
  <1>1. PICK s : IsOrder(s) /\ Aged(s)
    BY Zenon DEF ListInv
  <1>2. PICK i \in Node \ {0} : s[i] = b
    BY <1>1, Places, ZenonT(40)
  <1> DEFINE t == Moved(s, i)
  <1>3. next' \in [Node -> Node] /\ prev' \in [Node -> Node] /\ IsOrder(t)'
    BY <1>1, <1>2, MovedIsOrder, Zenon DEF ListInv
  <1>4. \A c, d \in Buf : <<c, d>> \in newer' <=> <<c, d>> \in newer \/ (c = b /\ refcnt[d] = 0)
    BY Zenon
  <1>5. newer' \subseteq Buf \X Buf
    BY DEF ListInv
  <1>6. (\A c, d \in Buf : <<c, d>> \in newer => refcnt[c] = 0 /\ refcnt[d] = 0)'
    BY <1>4, Zenon DEF ListInv
  <1>7. \A c, d \in Buf : <<c, d>> \in newer => refcnt[c] = 0 /\ refcnt[d] = 0
    BY Zenon DEF ListInv
  <1>8. \A k \in Node \ {0} : s[k] \in Buf
    BY <1>1, Places, Zenon
  <1>9. ASSUME NEW k \in Node \ {0}, t[k] # b
        PROVE  k # 1 /\ \E j \in Node \ {0} : /\ t[k] = s[j]
                                              /\ j = Before(i, k)
    <2>1. t[k] = IF k = 1 THEN s[i] ELSE IF k <= i THEN s[k - 1] ELSE s[k]
      BY Zenon DEF Moved
    <2>2. k # 1 => k - 1 \in Node \ {0}
      BY BioAssumption, SMTT(40) DEF Node
    <2> QED
      BY <1>2, <1>9, <2>1, <2>2, ZenonT(40) DEF Before
  <1>10. t[1] = b
    BY <1>2, BioAssumption DEF Moved, Node
  <1>11. \A j, k \in Node : t[j] = t[k] => j = k
    BY <1>3, Zenon DEF IsOrder, Moved
  <1>12. \A k \in Node \ {0} : t[k] \in Buf
    BY <1>2, <1>8, <1>9, ZenonT(40)
  <1> HIDE DEF t
  <1>13. ASSUME NEW j \in Node \ {0}, NEW k \in Node \ {0},
                refcnt'[t[j]] = 0, refcnt'[t[k]] = 0, j # k
         PROVE  <<t[j], t[k]>> \in newer' <=> j < k
    <2>0. 1 \in Node /\ j \in Nat /\ k \in Nat /\ t[j] # t[k]
      BY <1>11, <1>13, BioAssumption, SMTT(40) DEF Node
    <2>1. CASE t[j] = b
      <3>1. j = 1 /\ j < k
        BY <1>10, <1>11, <1>13, <2>0, <2>1, SMTT(40)
      <3>2. refcnt[t[k]] = 0
        BY <1>12, <1>13, <2>0, <2>1, ZenonT(40)
      <3> QED
        BY <1>4, <1>12, <2>1, <3>1, <3>2, ZenonT(40)
    <2>2. CASE t[k] = b
      <3>1. ~(j < k)
        BY <1>10, <1>11, <1>13, <2>0, <2>2, SMTT(40)
      <3>2. <<t[j], t[k]>> \notin newer
        BY <1>7, <1>12, <2>2, Zenon
      <3> QED
        BY <1>4, <1>12, <2>0, <2>2, <3>1, <3>2, ZenonT(40)
    <2>3. CASE t[j] # b /\ t[k] # b
      <3>1. PICK x \in Node \ {0} : t[j] = s[x] /\ x = Before(i, j)
        BY <1>9, <2>3, Zenon
      <3>2. PICK y \in Node \ {0} : t[k] = s[y] /\ y = Before(i, k)
        BY <1>9, <2>3, ZenonT(40)
      <3>3. (x < y <=> j < k) /\ x # y
        <4>1. x # y
          BY <2>0, <3>1, <3>2, ZenonT(40)
        <4>2. i \in Nat /\ x \in Nat /\ y \in Nat
          BY BioAssumption DEF Node
        <4> QED
          BY <2>0, <3>1, <3>2, <4>1, <4>2, PlaceOrder, ZenonT(40)
      <3>4. refcnt[s[x]] = 0 /\ refcnt[s[y]] = 0
        BY <1>12, <1>13, <2>3, <3>1, <3>2, ZenonT(40)
      <3>5. <<s[x], s[y]>> \in newer <=> x < y
        BY <1>1, <3>3, <3>4, Zenon DEF Aged
      <3> QED
        BY <1>4, <1>12, <2>3, <3>1, <3>2, <3>3, <3>5, ZenonT(40)
    <2> QED
      BY <2>1, <2>2, <2>3, Zenon
  <1>14. Aged(t)'
    BY <1>13, Zenon DEF Aged, t, Moved
  <1> QED
    BY <1>3, <1>5, <1>6, <1>14, Zenon DEF ListInv

-----------------------------------------------------------------------------
(* No block has two buffers.                                                *)
NoDup == \A b, c \in Buf : blockno[b] = blockno[c] /\ blockno[b] # None => b = c

(* What valid promises: a holder that uses a buffer finds it read in, and   *)
(* unless the log has pinned it, it agrees with the disk.                   *)
DataInv ==
  /\ disk \in [Block -> Val] /\ valid \in [Buf -> BOOLEAN] /\ data \in [Buf -> Val]
  /\ \A p \in Proc : pc[p] \in Active => want[p] \in Block
  /\ \A p \in Proc : pc[p] = "use" => valid[buf[p]]
  /\ \A b \in Buf : valid[b] => blockno[b] \in Block
  /\ \A b \in pinned : valid[b]
  /\ \A b \in Buf \ pinned : valid[b] => data[b] = disk[blockno[b]]

(* The log keeps to its number of pinned buffers.                           *)
PinInv == Cardinality(pinned) <= MaxPins

BioInv == CacheInv /\ ListInv /\ NoDup /\ DataInv /\ PinInv

-----------------------------------------------------------------------------
(* The three outcomes of bget: it finds the block, recycles an unreferenced *)
(* buffer, or finds none.                                                   *)
Found(p, bno, b) ==
  /\ blockno[b] = bno
  /\ refcnt' = [refcnt EXCEPT ![b] = @ + 1]
  /\ buf' = [buf EXCEPT ![p] = b]
  /\ pc' = [pc EXCEPT ![p] = "acquiresleep"]
  /\ newer' = {r \in newer : b \notin {r[1], r[2]}}
  /\ UNCHANGED <<blockno, valid>>

Recycled(p, bno, b) ==
  /\ refcnt[b] = 0 /\ b \notin pinned /\ Holders(b) = {} /\ \A c \in Buf : blockno[c] # bno
  /\ blockno' = [blockno EXCEPT ![b] = bno]
  /\ valid' = [valid EXCEPT ![b] = FALSE]
  /\ refcnt' = [refcnt EXCEPT ![b] = 1]
  /\ buf' = [buf EXCEPT ![p] = b]
  /\ pc' = [pc EXCEPT ![p] = "acquiresleep"]
  /\ newer' = {r \in newer : b \notin {r[1], r[2]}}

NoneLeft(p) ==
  /\ \A c \in Buf : refcnt[c] # 0
  /\ pc' = [pc EXCEPT ![p] = "nobufs"]
  /\ UNCHANGED <<blockno, valid, refcnt, buf, newer>>

(* bget in terms of its outcomes: the search misses no buffer.              *)
LEMMA BgetOutcome ==
  ASSUME Known, CacheInv, ListInv, NEW p \in Proc, NEW bno \in Block, Bget(p, bno)
  PROVE  /\ pc[p] = "out" /\ want' = [want EXCEPT ![p] = bno]
         /\ UNCHANGED <<disk, data, list, lkpid, pinned>>
         /\ (\E b \in Buf : Found(p, bno, b) \/ Recycled(p, bno, b)) \/ NoneLeft(p)
  <1>1. PICK s : IsOrder(s)
    BY Zenon DEF ListInv
  <1>2. CASE Cached(bno) # ListHead
    <2> DEFINE b == Cached(bno)
    <2>1. b \in Buf /\ blockno[b] = bno
      BY <1>2, FirstIsHit, Zenon DEF Cached
    <2>2. Found(p, bno, b)
      BY <1>2, <2>1, Zenon DEF Bget, Found
    <2> QED
      BY <2>1, <2>2, ZenonT(40) DEF Bget
  <1>3. ASSUME Cached(bno) = ListHead PROVE \A c \in Buf : blockno[c] # bno
    <2>1. {c \in Buf : blockno[c] = bno} \in SUBSET Buf
      BY Zenon
    <2>2. {c \in Buf : blockno[c] = bno} = {}
      BY <1>1, <1>3, <2>1, FirstFinds, ZenonT(40) DEF Cached
    <2> QED
      BY <2>2, Zenon
  <1>4. CASE Cached(bno) = ListHead /\ Unused # ListHead
    <2> DEFINE b == Unused
    <2>1. b \in Buf /\ refcnt[b] = 0
      BY <1>4, FirstIsHit, Zenon DEF Unused
    <2> HIDE DEF b
    <2>2. Holders(b) = {} /\ b \notin pinned
      BY <2>1, HoldersFinite, SMTT(40) DEF CacheInv, Counted, Pin
    <2>3. Recycled(p, bno, b)
      BY <1>3, <1>4, <2>1, <2>2, ZenonT(40) DEF Bget, Recycled, b
    <2> QED
      BY <2>1, <2>3, ZenonT(40) DEF Bget
  <1>5. CASE Cached(bno) = ListHead /\ Unused = ListHead
    <2>1. {c \in Buf : refcnt[c] = 0} \in SUBSET Buf
      BY Zenon
    <2>2. {c \in Buf : refcnt[c] = 0} = {}
      BY <1>1, <1>5, <2>1, FirstFinds, ZenonT(40) DEF Unused
    <2>3. NoneLeft(p)
      BY <1>5, <2>2, ZenonT(40) DEF Bget, NoneLeft
    <2> QED
      BY <2>3, ZenonT(40) DEF Bget
  <1> QED
    BY <1>2, <1>4, <1>5, Zenon

(* A process between bget and brelse has a counted reference, and a pinned  *)
(* buffer has another one.                                                  *)
LEMMA UserCounts ==
  ASSUME Known, CacheInv, NEW p \in Proc, pc[p] \in Active
  PROVE  /\ buf[p] \in Buf /\ blockno[buf[p]] = want[p]
         /\ refcnt[buf[p]] \in Nat \ {0}
         /\ buf[p] \in pinned => refcnt[buf[p]] > 1
  <1>1. buf[p] \in Buf /\ blockno[buf[p]] = want[p]
    BY ZenonT(40) DEF CacheInv, InUse
  <1>2. PICK b \in Buf : b = buf[p]
    BY <1>1, Zenon
  <1>3. p \in Holders(b)
    BY <1>2, Zenon DEF Holders
  <1>4. Cardinality(Holders(b)) \in Nat \ {0}
    BY <1>3, HoldersFinite, Zenon
  <1>5. refcnt[b] = Cardinality(Holders(b)) + Pin(b)
    BY Zenon DEF CacheInv, Counted
  <1> QED
    BY <1>1, <1>2, <1>4, <1>5, SMTT(40) DEF Pin

-----------------------------------------------------------------------------
(* Every step keeps the list a ring in the order of release.                *)
LEMMA BgetList ==
  ASSUME Known, CacheInv, ListInv, NEW p \in Proc, NEW bno \in Block, Bget(p, bno)
  PROVE  ListInv'
  <1>1. ASSUME NEW b \in Buf, Found(p, bno, b) \/ Recycled(p, bno, b)
        PROVE  ListInv'
    <2>1. newer' = {r \in newer : b \notin {r[1], r[2]}} /\ UNCHANGED list
      BY <1>1, BgetOutcome, ZenonT(40) DEF Found, Recycled
    <2>2. \A c \in Buf : refcnt'[c] = 0 <=> c # b /\ refcnt[c] = 0
      BY <1>1 DEF Found, Recycled, CacheInv, Types
    <2> QED
      BY <2>1, <2>2, ListTaken, ZenonT(40)
  <1>2. ASSUME NoneLeft(p) PROVE ListInv'
    BY <1>2, BgetOutcome, ListSame, Zenon DEF NoneLeft
  <1> QED
    BY <1>1, <1>2, BgetOutcome, ZenonT(40)

(* Every other step, too: only brelse of a last reference moves a buffer.   *)
LEMMA HolderList ==
  ASSUME Known, CacheInv, ListInv, NEW p \in Proc,
         \/ AcquireSleep(p) \/ Bread(p) \/ HolderStep(p) \/ ReleaseSleep(p) \/ Brelse(p)
  PROVE  ListInv'
  <1>1. CASE AcquireSleep(p) \/ Bread(p) \/ ReleaseSleep(p) \/ \E v \in Val : Bwrite(p, v)
    <2>1. UNCHANGED <<refcnt, list, newer>>
      BY <1>1, Zenon DEF AcquireSleep, Bread, ReleaseSleep, Bwrite
    <2> QED
      BY <2>1, ListSame, Zenon
  <1>2. CASE (\E v \in Val : LogWrite(p, v)) \/ WriteHome(p)
    <2>1. pc[p] \in Active /\ UNCHANGED <<list, newer>>
      BY <1>2, Zenon DEF LogWrite, WriteHome, Active
    <2>2. PICK b \in Buf : b = buf[p] /\ refcnt[b] \in Nat \ {0} /\ (b \in pinned => refcnt[b] > 1)
      BY <2>1, UserCounts, ZenonT(40)
    <2>3. \/ refcnt' = refcnt
          \/ refcnt' = [refcnt EXCEPT ![b] = @ + 1]
          \/ b \in pinned /\ refcnt' = [refcnt EXCEPT ![b] = @ - 1]
      BY <1>2, <2>2, SMTT(40) DEF LogWrite, WriteHome, CacheInv, Types
    <2>4. \A c \in Buf : refcnt'[c] = 0 <=> refcnt[c] = 0
      BY <2>2, <2>3, SMTT(40) DEF CacheInv, Types
    <2> QED
      BY <2>1, <2>4, ListSame, Zenon
  <1>3. CASE Brelse(p)
    <2>1. pc[p] \in Active
      BY <1>3, Zenon DEF Brelse, Active
    <2>2. PICK b \in Buf : b = buf[p] /\ refcnt[b] \in Nat \ {0}
      BY <2>1, UserCounts, Zenon
    <2>3. refcnt' = [refcnt EXCEPT ![b] = @ - 1]
      BY <1>3, <2>2, ZenonT(40) DEF Brelse
    <2>4. CASE refcnt[b] = 1
      <3>1. /\ MoveToHead(b)
            /\ newer' = newer \cup {<<b, c>> : c \in {d \in Buf : refcnt[d] = 0}}
        <4>1. refcnt[buf[p]] = 1
          BY <2>2, <2>4, ZenonT(40)
        <4>2. /\ MoveToHead(buf[p])
              /\ newer' = newer \cup {<<buf[p], c>> : c \in {d \in Buf : refcnt[d] = 0}}
          BY <1>3, <4>1, ZenonT(40) DEF Brelse
        <4> QED
          BY <2>2, <4>2, ZenonT(40)
      <3>2. \A c \in Buf : refcnt'[c] = 0 <=> c = b \/ refcnt[c] = 0
        BY <2>3, <2>4, SMTT(40) DEF CacheInv, Types
      <3>3. refcnt[b] # 0
        BY <2>4, SMTT(40)
      <3> QED
        BY <3>1, <3>2, <3>3, ListReturned, ZenonT(40)
    <2>5. CASE refcnt[b] # 1
      <3>1. UNCHANGED <<list, newer>>
        BY <1>3, <2>2, <2>5, ZenonT(40) DEF Brelse
      <3>2. \A c \in Buf : refcnt'[c] = 0 <=> refcnt[c] = 0
        BY <2>2, <2>3, <2>5, SMTT(40) DEF CacheInv, Types
      <3> QED
        BY <3>1, <3>2, ListSame, ZenonT(40)
    <2> QED
      BY <2>4, <2>5, Zenon
  <1> QED
    BY <1>1, <1>2, <1>3, Zenon DEF HolderStep

-----------------------------------------------------------------------------
(* The pinned buffers are finitely many.                                    *)
LEMMA PinsFinite ==
  ASSUME Known, NEW S \in SUBSET Buf
  PROVE  IsFiniteSet(S) /\ Cardinality(S) \in Nat
  <1>1. IsFiniteSet(Buf)
    BY BioAssumption, SMTT(40) DEF Known, Counting, CountRange, Buf
  <1> QED
    BY <1>1, ZenonT(40) DEF Known, Counting, CountPart, CountNat

(* At the start no buffer has a block.                                      *)
LEMMA InitStore ==
  ASSUME Known
  PROVE  Init => NoDup /\ DataInv /\ PinInv
  <1> SUFFICES ASSUME Init PROVE NoDup /\ DataInv /\ PinInv
    BY Zenon
  <1>1. NoDup
    BY Zenon DEF Init, NoDup
  <1>2. DataInv
    BY Zenon DEF Init, DataInv, Active
  <1>3. PinInv
    BY BioAssumption, SMTT(40) DEF Known, Counting, CountNone, Init, PinInv
  <1> QED
    BY <1>1, <1>2, <1>3, Zenon

(* bget gives the block one buffer, and contents only what it had.          *)
LEMMA BgetStore ==
  ASSUME Known, BioInv, NEW p \in Proc, NEW bno \in Block, Bget(p, bno)
  PROVE  NoDup' /\ DataInv' /\ PinInv'
  <1> USE DEF BioInv
  <1>1. /\ pc[p] = "out" /\ want' = [want EXCEPT ![p] = bno]
        /\ UNCHANGED <<disk, data, list, lkpid, pinned>>
    BY BgetOutcome, Zenon
  <1>2. PinInv'
    BY <1>1, Zenon DEF PinInv
  <1>3. ASSUME NEW b \in Buf, Found(p, bno, b)
        PROVE  NoDup' /\ DataInv'
    <2>1. NoDup'
      BY <1>3, ZenonT(40) DEF NoDup, Found
    <2>2. DataInv'
      BY <1>1, <1>3, ZenonT(40) DEF DataInv, Found, CacheInv, Types, Active
    <2> QED
      BY <2>1, <2>2, Zenon
  <1>4. ASSUME NEW b \in Buf, Recycled(p, bno, b)
        PROVE  NoDup' /\ DataInv'
    <2>1. NoDup'
      BY <1>4, Zenon DEF NoDup, Recycled, CacheInv, Types
    <2>2. /\ disk' \in [Block -> Val] /\ valid' \in [Buf -> BOOLEAN] /\ data' \in [Buf -> Val]
          /\ \A q \in Proc : pc'[q] \in Active => want'[q] \in Block
      BY <1>1, <1>4, Zenon DEF DataInv, Recycled, CacheInv, Types
    <2>3. \A c \in Buf : /\ valid'[c] => c # b /\ valid[c]
                         /\ c # b => valid'[c] = valid[c] /\ blockno'[c] = blockno[c]
      BY <1>4, ZenonT(40) DEF DataInv, Recycled, CacheInv, Types
    <2>4. ASSUME NEW q \in Proc, pc'[q] = "use" PROVE valid'[buf'[q]]
      <3>1. q # p /\ pc[q] = "use" /\ buf'[q] = buf[q]
        BY <1>4, <2>4, Zenon DEF Recycled, CacheInv, Types
      <3>2. buf[q] \in Buf /\ buf[q] # b
        BY <1>4, <3>1, Zenon DEF Recycled, CacheInv, InUse, Holders, Active
      <3> QED
        BY <2>3, <3>1, <3>2, Zenon DEF DataInv
    <2>5. \A c \in Buf : valid'[c] => blockno'[c] \in Block
      BY <2>3, ZenonT(40) DEF DataInv
    <2>6. \A c \in pinned' : valid'[c]
      BY <1>1, <1>4, <2>3, ZenonT(40) DEF DataInv, Recycled, CacheInv, Types
    <2>7. \A c \in Buf \ pinned' : valid'[c] => data'[c] = disk'[blockno'[c]]
      BY <1>1, <2>3, ZenonT(40) DEF DataInv
    <2>8. DataInv'
      BY <2>2, <2>4, <2>5, <2>6, <2>7, Zenon DEF DataInv
    <2> QED
      BY <2>1, <2>8, Zenon
  <1>5. ASSUME NoneLeft(p) PROVE NoDup' /\ DataInv'
    <2>1. NoDup'
      BY <1>5, ZenonT(40) DEF NoDup, NoneLeft
    <2>2. DataInv'
      BY <1>1, <1>5, ZenonT(40) DEF DataInv, NoneLeft, CacheInv, Types, Active
    <2> QED
      BY <2>1, <2>2, Zenon
  <1> QED
    BY <1>2, <1>3, <1>4, <1>5, BgetOutcome, ZenonT(40)

(* The steps of holders: a buffer that is not pinned is written to disk     *)
(* whenever it changes.                                                     *)
LEMMA HolderStore ==
  ASSUME Known, BioInv, NEW p \in Proc,
         \/ AcquireSleep(p) \/ Bread(p) \/ HolderStep(p) \/ ReleaseSleep(p) \/ Brelse(p)
  PROVE  NoDup' /\ DataInv' /\ PinInv'
  <1> USE DEF BioInv
  <1>1. NoDup'
    <2>1. UNCHANGED blockno
      BY Zenon DEF AcquireSleep, Bread, HolderStep, LogWrite, Bwrite, WriteHome, ReleaseSleep, Brelse
    <2> QED
      BY <2>1, ZenonT(40) DEF NoDup
  <1>2. PinInv'
    <2>1. ASSUME NEW v \in Val, LogWrite(p, v) PROVE PinInv'
      <3>1. pinned' = pinned \cup {buf[p]} /\ (buf[p] \in pinned \/ Cardinality(pinned) < MaxPins)
        BY <2>1, Zenon DEF LogWrite
      <3>2. IsFiniteSet(pinned) /\ Cardinality(pinned) \in Nat
        BY PinsFinite, Zenon DEF CacheInv, Types
      <3>3. CASE buf[p] \in pinned
        <4>1. pinned' = pinned
          BY <3>1, <3>3, Zenon
        <4> QED
          BY <4>1, Zenon DEF PinInv
      <3>4. CASE buf[p] \notin pinned
        <4>1. Cardinality(pinned') = Cardinality(pinned) + 1
          BY <3>1, <3>2, <3>4, ZenonT(40) DEF Known, Counting, CountMore
        <4> QED
          BY <3>1, <3>2, <3>4, <4>1, BioAssumption, SMTT(40) DEF PinInv
      <3> QED
        BY <3>3, <3>4, Zenon
    <2>2. CASE WriteHome(p)
      <3>1. pinned' = pinned \/ pinned' = pinned \ {buf[p]}
        BY <2>2, Zenon DEF WriteHome
      <3>2. IsFiniteSet(pinned) /\ Cardinality(pinned) \in Nat
        BY PinsFinite, ZenonT(40) DEF CacheInv, Types
      <3>3. pinned' \subseteq pinned
        BY <3>1, Zenon
      <3>4. Cardinality(pinned') \in Nat /\ Cardinality(pinned') <= Cardinality(pinned)
        BY <3>2, <3>3, ZenonT(40) DEF Known, Counting, CountPart, CountNat
      <3> QED
        BY <3>2, <3>4, BioAssumption, SMTT(40) DEF PinInv
    <2>3. CASE AcquireSleep(p) \/ Bread(p) \/ ReleaseSleep(p) \/ Brelse(p) \/ \E v \in Val : Bwrite(p, v)
      <3>1. UNCHANGED pinned
        BY <2>3, ZenonT(40) DEF AcquireSleep, Bread, Bwrite, ReleaseSleep, Brelse
      <3> QED
        BY <3>1, Zenon DEF PinInv
    <2> QED
      BY <2>1, <2>2, <2>3, ZenonT(40) DEF HolderStep
  <1>3. ASSUME AcquireSleep(p) PROVE DataInv'
    BY <1>3, ZenonT(40) DEF AcquireSleep, DataInv, CacheInv, Types, Active
  <1>4. ASSUME ReleaseSleep(p) PROVE DataInv'
    BY <1>4, SMTT(40) DEF ReleaseSleep, DataInv, CacheInv, Types, Active
  <1>5. ASSUME Brelse(p) PROVE DataInv'
    BY <1>5, ZenonT(40) DEF Brelse, DataInv, CacheInv, Types, Active
  <1>6. ASSUME pc[p] \in {"bread", "use"} PROVE buf[p] \in Buf /\ blockno[buf[p]] \in Block
    BY <1>6, UserCounts, ZenonT(40) DEF Active, DataInv
  <1>7. ASSUME Bread(p) PROVE DataInv'
    BY <1>6, <1>7, SMTT(40) DEF Bread, DataInv, CacheInv, Types, Active
  <1>8. ASSUME NEW v \in Val, LogWrite(p, v) PROVE DataInv'
    BY <1>6, <1>8, ZenonT(40) DEF LogWrite, DataInv, CacheInv, Types, Active, local
  <1>9. ASSUME pc[p] = "use", NEW b \in Buf, b = buf[p], NEW v \in Val,
               data' = [data EXCEPT ![b] = v], disk' = [disk EXCEPT ![blockno[b]] = v],
               pinned' = pinned \ {b}, UNCHANGED <<pc, want, buf, blockno, valid>>
        PROVE  DataInv'
    <2>1. blockno[b] \in Block
      BY <1>6, <1>9, ZenonT(40)
    <2>2. disk' \in [Block -> Val] /\ data' \in [Buf -> Val]
      BY <1>9, <2>1, Zenon DEF DataInv
    <2>3. ASSUME NEW c \in Buf \ pinned', valid'[c] PROVE data'[c] = disk'[blockno'[c]]
      <3>1. CASE c = b
        BY <1>9, <2>1, <3>1, Zenon DEF DataInv
      <3>2. CASE c # b
        <4>1. valid[c] /\ blockno[c] \in Block /\ blockno[c] # blockno[b] /\ c \notin pinned
          BY <1>9, <2>3, <3>2, BioAssumption, ZenonT(40) DEF DataInv, NoDup
        <4>2. data[c] = disk[blockno[c]]
          BY <4>1, Zenon DEF DataInv
        <4> QED
          BY <1>9, <3>2, <4>1, <4>2, Zenon DEF DataInv
      <3> QED
        BY <3>1, <3>2, Zenon
    <2> QED
      BY <1>9, <2>2, <2>3, ZenonT(40) DEF DataInv
  <1>10. ASSUME NEW v \in Val, Bwrite(p, v) PROVE DataInv'
    <2>1. pc[p] = "use" /\ lkpid[buf[p]] = p /\ buf[p] \in Buf
      BY <1>6, <1>10, ZenonT(40) DEF Bwrite, CacheInv, LockInv, Locked
    <2>2. pinned' = pinned \ {buf[p]}
      BY <1>10, Zenon DEF Bwrite
    <2>3. /\ data' = [data EXCEPT ![buf[p]] = v] /\ disk' = [disk EXCEPT ![blockno[buf[p]]] = v]
          /\ UNCHANGED <<pc, want, buf, blockno, valid>>
      BY <1>10, <2>1, ZenonT(40) DEF Bwrite
    <2> QED
      BY <1>9, <2>1, <2>2, <2>3, ZenonT(40)
  <1>11. ASSUME WriteHome(p) PROVE DataInv'
    <2>1. pc[p] = "use" /\ lkpid[buf[p]] = p /\ buf[p] \in Buf
      BY <1>6, <1>11, ZenonT(40) DEF WriteHome, CacheInv, LockInv, Locked
    <2>2. /\ disk' = [disk EXCEPT ![blockno[buf[p]]] = data[buf[p]]] /\ pinned' = pinned \ {buf[p]}
          /\ UNCHANGED <<pc, want, buf, blockno, valid, data>>
      BY <1>11, <2>1, ZenonT(40) DEF WriteHome
    <2>3. data' = [data EXCEPT ![buf[p]] = data[buf[p]]] /\ data[buf[p]] \in Val
      BY <2>1, <2>2, ZenonT(40) DEF DataInv
    <2>4. PICK v \in Val : v = data[buf[p]]
      BY <2>3, Zenon
    <2>5. data' = [data EXCEPT ![buf[p]] = v] /\ disk' = [disk EXCEPT ![blockno[buf[p]]] = v]
      BY <2>2, <2>3, <2>4, ZenonT(40)
    <2>6. pinned' = pinned \ {buf[p]} /\ UNCHANGED <<pc, want, buf, blockno, valid>>
      BY <2>2, Zenon
    <2> QED
      BY <1>9, <2>1, <2>4, <2>5, <2>6, ZenonT(40)
  <1> QED
    BY <1>1, <1>2, <1>3, <1>4, <1>5, <1>7, <1>8, <1>10, <1>11, ZenonT(40) DEF HolderStep

-----------------------------------------------------------------------------
(* Every step keeps the invariant of the cache, its list and its contents.  *)
LEMMA NextBio ==
  ASSUME Known, BioInv, [Next]_vars
  PROVE  BioInv'
  <1>1. CacheInv /\ ListInv
    BY Zenon DEF BioInv
  <1>2. CASE UNCHANGED vars
    <2>1. UNCHANGED <<disk, blockno, valid, refcnt, data, list, newer, lkpid, pinned, pc, buf, want>>
      BY <1>2, Zenon DEF vars, list
    <2>2. ListInv'
      BY <1>1, <2>1, ListSame, ZenonT(40)
    <2>3. CacheInv'
      <3>1. \A b : Holders(b)' = Holders(b)
        BY <2>1, ZenonT(40) DEF Holders
      <3> QED
        BY <1>1, <2>1, <3>1, ZenonT(40) DEF CacheInv, Types, InUse, Counted, Pin, LockInv
    <2>4. NoDup' /\ DataInv' /\ PinInv'
      BY <2>1, ZenonT(40) DEF BioInv, NoDup, DataInv, PinInv
    <2> QED
      BY <2>2, <2>3, <2>4, ZenonT(40) DEF BioInv
  <1>3. ASSUME NEW p \in Proc, NEW bno \in Block, Bget(p, bno) PROVE BioInv'
    BY <1>1, <1>3, BgetCache, BgetList, BgetStore, ZenonT(40) DEF BioInv
  <1>4. ASSUME NEW p \in Proc,
               \/ AcquireSleep(p) \/ Bread(p) \/ HolderStep(p) \/ ReleaseSleep(p) \/ Brelse(p)
        PROVE  BioInv'
    BY <1>1, <1>4, HolderCache, HolderList, HolderStore, ZenonT(40) DEF BioInv
  <1> QED
    BY <1>2, <1>3, <1>4, ZenonT(40) DEF Next

(* A list with an order is what LruList asks for.                           *)
LEMMA OrderIsLru ==
  ASSUME Known
  PROVE  BioInv => LruList
  <1> SUFFICES ASSUME BioInv PROVE LruList
    BY Zenon
  <1>1. PICK s : IsOrder(s) /\ Aged(s)
    BY Zenon DEF BioInv, ListInv
  <1>2. ASSUME NEW n \in Node PROVE prev[next[n]] = n /\ next[prev[n]] = n
    <2>1. PICK k \in Node : s[k] = n
      BY <1>1, ZenonT(40) DEF IsOrder
    <2>2. PICK j \in Node : Up(j) = k
      <3>1. CASE k = 0
        BY <3>1, UpFacts, Zenon
      <3>2. CASE k # 0
        BY <3>2, UpFacts, Zenon
      <3> QED
        BY <3>1, <3>2, Zenon
    <2>3. /\ next[s[k]] = s[Up(k)] /\ prev[s[Up(k)]] = s[k]
          /\ next[s[j]] = s[Up(j)] /\ prev[s[Up(j)]] = s[j]
      BY <1>1, Zenon DEF IsOrder
    <2> QED
      BY <2>1, <2>2, <2>3, ZenonT(40)
  <1> DEFINE at == Walk(next)
             Place == 0 .. NBUF - 1
  <1>3. \A k \in Place : k + 1 \in Node \ {0} /\ k \in Node /\ Up(k) = k + 1
    BY BioAssumption, SMTT(40) DEF Node, Up
  <1>4. \A k \in Place : at[k] = s[k + 1]
    BY <1>1, <1>3, WalkNext, SMTT(40)
  <1> HIDE DEF at
  <1>5. Buf = {at[k] : k \in Place}
    <2>1. ASSUME NEW k \in Place PROVE at[k] \in Buf
      BY <1>1, <1>3, <1>4, Places, ZenonT(40)
    <2>2. ASSUME NEW b \in Buf PROVE \E k \in Place : at[k] = b
      <3>1. PICK j \in Node \ {0} : s[j] = b
        BY <1>1, Places, ZenonT(40)
      <3>2. j - 1 \in Place /\ (j - 1) + 1 = j
        BY BioAssumption DEF Node
      <3> QED
        BY <1>4, <3>1, <3>2, Zenon
    <2> QED
      BY <2>1, <2>2, Zenon
  <1>6. ASSUME NEW j \in Place, NEW k \in Place, refcnt[at[j]] = 0, refcnt[at[k]] = 0, j # k
        PROVE  <<at[j], at[k]>> \in newer <=> j < k
    <2>1. PICK x \in Node \ {0} : x = j + 1 /\ at[j] = s[x]
      BY <1>3, <1>4, Zenon
    <2>2. PICK y \in Node \ {0} : y = k + 1 /\ at[k] = s[y]
      BY <1>3, <1>4, Zenon
    <2>3. (x < y <=> j < k) /\ x # y
      BY <1>6, <2>1, <2>2, SMTT(40)
    <2>4. <<s[x], s[y]>> \in newer <=> x < y
      BY <1>1, <1>6, <2>1, <2>2, <2>3, ZenonT(40) DEF Aged
    <2> QED
      BY <2>1, <2>2, <2>3, <2>4, ZenonT(40)
  <1> QED
    BY <1>2, <1>5, <1>6, ZenonT(40) DEF LruList, at

-----------------------------------------------------------------------------
(* A buffer with a reference is with a process or pinned.                   *)
LEMMA ReferencedIsUsed ==
  ASSUME Known, BioInv, NEW b \in Buf, refcnt[b] # 0
  PROVE  b \in pinned \/ \E q \in Proc : pc[q] \in Active /\ buf[q] = b
  <1>1. CASE b \in pinned
    BY <1>1, Zenon
  <1>2. CASE b \notin pinned
    <2>1. Holders(b) # {}
      BY <1>2, SMTT(40) DEF Known, Counting, CountNone, BioInv, CacheInv, Counted, Pin
    <2> QED
      BY <2>1, Zenon DEF Holders
  <1> QED
    BY <1>1, <1>2, Zenon

(* Who panics does so in bget, which holds bcache.lock then: references     *)
(* stay as bget found them.                                                 *)
PanicInv ==
  /\ \A p \in Proc : pc[p] # "panic"
  /\ ~BcacheFree => \A b \in Buf : refcnt[b] # 0

(* Every step keeps it.                                                     *)
LEMMA NextPanic ==
  ASSUME Known, BioInv, PanicInv, [Next]_vars
  PROVE  PanicInv'
  <1>1. ASSUME NEW p \in Proc, NEW bno \in Block, Bget(p, bno) PROVE PanicInv'
    <2>1. /\ BcacheFree /\ pc \in [Proc -> Active \cup {"out", "panic", "nobufs"}]
          /\ \A q \in Proc : pc[q] # "panic"
      BY <1>1, Zenon DEF Bget, BioInv, CacheInv, Types, PanicInv
    <2>2. (\E b \in Buf : Found(p, bno, b) \/ Recycled(p, bno, b)) \/ NoneLeft(p)
      BY <1>1, BgetOutcome, Zenon DEF BioInv
    <2>3. CASE \E b \in Buf : Found(p, bno, b) \/ Recycled(p, bno, b)
      <3>1. pc' = [pc EXCEPT ![p] = "acquiresleep"]
        BY <2>3, Zenon DEF Found, Recycled
      <3> QED
        BY <2>1, <3>1, ZenonT(40) DEF PanicInv, BcacheFree
    <2>4. CASE NoneLeft(p)
      <3>1. \A q \in Proc : pc'[q] # "panic"
        BY <2>1, <2>4, Zenon DEF NoneLeft
      <3>2. \A b \in Buf : refcnt'[b] # 0
        BY <2>4, Zenon DEF NoneLeft
      <3> QED
        BY <3>1, <3>2, Zenon DEF PanicInv
    <2> QED
      BY <2>2, <2>3, <2>4, Zenon
  <1>2. ASSUME NEW p \in Proc,
               \/ AcquireSleep(p) \/ Bread(p) \/ HolderStep(p) \/ ReleaseSleep(p) \/ Brelse(p)
        PROVE  PanicInv'
    <2>1. /\ pc[p] = "use" => lkpid[buf[p]] = p
          /\ pc \in [Proc -> Active \cup {"out", "panic", "nobufs"}]
      BY ZenonT(40) DEF BioInv, CacheInv, Types, LockInv, Locked
    <2>2. \A q \in Proc : pc'[q] \in {pc[q], "asleep", "bread", "use", "brelse", "acquiresleep", "out"}
      <3>1. CASE AcquireSleep(p) \/ Bread(p) \/ Brelse(p)
        BY <2>1, <3>1, ZenonT(40) DEF AcquireSleep, Bread, Brelse
      <3>2. CASE HolderStep(p)
        BY <2>1, <3>2, ZenonT(40) DEF HolderStep, LogWrite, Bwrite, WriteHome, local
      <3>3. CASE ReleaseSleep(p)
        BY <2>1, <3>3, ZenonT(40) DEF ReleaseSleep
      <3> QED
        BY <1>2, <3>1, <3>2, <3>3, Zenon
    <2>3. refcnt' = refcnt \/ BcacheFree
      BY <1>2, ZenonT(40) DEF AcquireSleep, Bread, HolderStep, LogWrite, Bwrite, WriteHome,
                              ReleaseSleep, Brelse
    <2>4. BcacheFree => BcacheFree'
      BY <2>2, ZenonT(40) DEF BcacheFree
    <2>5. \A q \in Proc : pc'[q] # "panic"
      BY <2>2, ZenonT(40) DEF PanicInv
    <2> QED
      BY <2>3, <2>4, <2>5, Zenon DEF PanicInv
  <1>3. CASE UNCHANGED vars
    BY <1>3, Zenon DEF vars, PanicInv, BcacheFree
  <1> QED
    BY <1>1, <1>2, <1>3, ZenonT(40) DEF Next

(* bget's panic, as the code states it.                                     *)
LEMMA PanicIsFull ==
  ASSUME Known, BioInv, PanicInv
  PROVE  PanicsOnlyWhenFull
  BY ReferencedIsUsed, Zenon DEF PanicInv, BcacheFree, PanicsOnlyWhenFull

(* The processes between bget and brelse.                                   *)
Users == {q \in Proc : pc[q] \in Active}

(* bget has panicked only if users and pins are as many as the buffers.     *)
PanicsOnlyWhenMany ==
  (\E p \in Proc : pc[p] = "nobufs") => NBUF <= Cardinality(Users) + Cardinality(pinned)

(* Each buffer is somebody's or pinned, so they are no more than those.     *)
LEMMA PanicIsMany ==
  ASSUME Known, BioInv, PanicInv
  PROVE  PanicsOnlyWhenMany
  <1> SUFFICES ASSUME NEW p \in Proc, pc[p] = "nobufs"
               PROVE  NBUF <= Cardinality(Users) + Cardinality(pinned)
    BY Zenon DEF PanicsOnlyWhenMany
  <1> DEFINE had == {buf[q] : q \in Users}
  <1>1. ASSUME NEW b \in Buf PROVE b \in had \cup pinned
    <2>1. b \in pinned \/ \E q \in Proc : pc[q] \in Active /\ buf[q] = b
      BY PanicIsFull, Zenon DEF PanicsOnlyWhenFull
    <2> QED
      BY <2>1, Zenon DEF Users
  <1>2. IsFiniteSet(Users) /\ Cardinality(Users) \in Nat
    <2>1. Users \in SUBSET Proc /\ IsFiniteSet(Proc)
      BY BioAssumption, Zenon DEF Users
    <2> QED
      BY <2>1, ZenonT(40) DEF Known, Counting, CountPart, CountNat
  <1>3. IsFiniteSet(had) /\ Cardinality(had) <= Cardinality(Users)
    <2> DEFINE f == [q \in Users |-> buf[q]]
    <2>1. had = {f[q] : q \in Users}
      BY Zenon
    <2> QED
      BY <1>2, <2>1, ZenonT(40) DEF Known, CountImage
  <1>4. IsFiniteSet(pinned) /\ Cardinality(pinned) \in Nat
    BY PinsFinite, Zenon DEF BioInv, CacheInv, Types
  <1> HIDE DEF had
  <1>5. /\ IsFiniteSet(had \cup pinned)
        /\ Cardinality(had) \in Nat /\ Cardinality(had \cup pinned) \in Nat
        /\ Cardinality(had \cup pinned) <= Cardinality(had) + Cardinality(pinned)
    BY <1>3, <1>4, ZenonT(40) DEF Known, CountUnion
  <1>6. Cardinality(Buf) = NBUF /\ NBUF \in Nat
    BY BioAssumption, SMTT(40) DEF Known, Counting, CountRange, Buf
  <1>7. Buf \subseteq had \cup pinned
    BY <1>1, Zenon
  <1>8. NBUF <= Cardinality(had \cup pinned)
    BY <1>5, <1>6, <1>7, ZenonT(40) DEF Known, Counting, CountPart
  <1> QED
    BY <1>2, <1>3, <1>4, <1>5, <1>6, <1>8, SMTT(40)

-----------------------------------------------------------------------------
(* The refinement.  Update is what LogWrite and Bwrite do; Acquire and      *)
(* Release are the steps of the sleep-lock; bget, bread, brelse and the     *)
(* write of a pinned block home leave the abstract store alone.             *)

(* c is a buffer with valid contents of block n; q holds block n.           *)
HasCopy(c, n) == blockno[c] = n /\ valid[c]

Holds(q, n) == pc[q] \in Locked /\ want[q] = n

(* The contents of a block are those of its valid buffer, or the disk's;    *)
(* its holder is the process with the lock of its buffer.                   *)
ContentsRight ==
  /\ Contents = [n \in Block |-> Contents[n]]
  /\ \A n \in Block, c \in Buf : HasCopy(c, n) => Contents[n] = data[c]
  /\ \A n \in Block : (\A c \in Buf : ~HasCopy(c, n)) => Contents[n] = disk[n]

HolderRight ==
  /\ Holder = [n \in Block |-> Holder[n]]
  /\ \A n \in Block, q \in Proc : Holds(q, n) => Holder[n] = q
  /\ \A n \in Block : (\A q \in Proc : ~Holds(q, n)) => Holder[n] = None
  /\ \A n \in Block, p, q \in Proc : Holds(p, n) /\ Holds(q, n) => p = q

(* A block has one valid buffer at most.                                    *)
LEMMA ContentsIs == BioInv => ContentsRight
  <1> SUFFICES ASSUME BioInv PROVE ContentsRight
    BY Zenon
  <1>1. Contents = [n \in Block |-> Contents[n]]
    BY DEF Contents
  <1> DEFINE copies(n) == {b \in Buf : blockno[b] = n /\ valid[b]}
  <1>2. ASSUME NEW n \in Block
        PROVE  Contents[n] = IF copies(n) = {} THEN disk[n] ELSE data[CHOOSE b \in copies(n) : TRUE]
    BY Zenon DEF Contents
  <1>3. ASSUME NEW n \in Block, NEW c \in Buf, HasCopy(c, n) PROVE Contents[n] = data[c]
    <2>1. c \in copies(n)
      BY <1>3, Zenon DEF HasCopy
    <2>2. \A b \in copies(n) : b = c
      BY <1>3, BioAssumption, Zenon DEF BioInv, NoDup, HasCopy
    <2>3. (CHOOSE b \in copies(n) : TRUE) = c
      BY <2>1, <2>2, Zenon
    <2> QED
      BY <1>2, <2>1, <2>3, Zenon
  <1>4. ASSUME NEW n \in Block, \A c \in Buf : ~HasCopy(c, n) PROVE Contents[n] = disk[n]
    <2>1. copies(n) = {}
      BY <1>4, Zenon DEF HasCopy
    <2> QED
      BY <1>2, <2>1, Zenon
  <1> QED
    BY <1>1, <1>3, <1>4, Zenon DEF ContentsRight

(* At most one process is between acquiresleep and releasesleep for a block. *)
LEMMA OneHolder ==
  ASSUME BioInv, NEW n \in Block, NEW p \in Proc, NEW q \in Proc, Holds(p, n), Holds(q, n)
  PROVE  p = q
  <1>1. pc[p] \in Active /\ pc[q] \in Active
    BY Zenon DEF Locked, Active, Holds
  <1>2. buf[p] \in Buf /\ buf[q] \in Buf /\ blockno[buf[p]] = n /\ blockno[buf[q]] = n
    BY <1>1, Zenon DEF BioInv, CacheInv, InUse, Holds
  <1>3. buf[p] = buf[q]
    BY <1>2, BioAssumption, Zenon DEF BioInv, NoDup
  <1>4. lkpid[buf[p]] = p /\ lkpid[buf[q]] = q
    BY Zenon DEF BioInv, CacheInv, LockInv, Holds
  <1> QED
    BY <1>3, <1>4, Zenon

(* Holder names the one process that holds the lock of the block's buffer.  *)
LEMMA HolderIs == BioInv => HolderRight
  <1> SUFFICES ASSUME BioInv PROVE HolderRight
    BY Zenon
  <1>1. Holder = [n \in Block |-> Holder[n]]
    BY DEF Holder
  <1> DEFINE holders(n) == {p \in Proc : pc[p] \in {"bread", "use"} /\ want[p] = n}
  <1>2. ASSUME NEW n \in Block
        PROVE  Holder[n] = IF holders(n) = {} THEN None ELSE CHOOSE p \in holders(n) : TRUE
    BY Zenon DEF Holder
  <1>3. \A n : holders(n) = {p \in Proc : Holds(p, n)}
    BY Zenon DEF Holds, Locked
  <1> HIDE DEF holders
  <1>4. ASSUME NEW n \in Block, NEW q \in Proc, Holds(q, n) PROVE Holder[n] = q
    <2>1. q \in holders(n)
      BY <1>3, <1>4, Zenon
    <2>2. \A p \in holders(n) : p = q
      BY <1>3, <1>4, OneHolder, Zenon
    <2>3. (CHOOSE p \in holders(n) : TRUE) = q
      BY <2>1, <2>2, Zenon
    <2> QED
      BY <1>2, <2>1, <2>3, Zenon
  <1>5. ASSUME NEW n \in Block, \A q \in Proc : ~Holds(q, n) PROVE Holder[n] = None
    <2>1. holders(n) = {}
      BY <1>3, <1>5, Zenon
    <2> QED
      BY <1>2, <2>1, Zenon
  <1> QED
    BY <1>1, <1>4, <1>5, OneHolder, ZenonT(40) DEF HolderRight

(* Where no buffer becomes or ceases to be a copy, the contents stay.       *)
LEMMA ContentsSame ==
  ASSUME ContentsRight, ContentsRight', NEW n \in Block,
         \A c \in Buf : HasCopy(c, n)' <=> HasCopy(c, n),
         \A c \in Buf : HasCopy(c, n) => data'[c] = data[c],
         disk'[n] = disk[n] \/ \E c \in Buf : HasCopy(c, n)
  PROVE  Contents'[n] = Contents[n]
  <1>1. CASE \E c \in Buf : HasCopy(c, n)
    <2>1. PICK c \in Buf : HasCopy(c, n)
      BY <1>1, Zenon
    <2>2. Contents[n] = data[c]
      BY <2>1, Zenon DEF ContentsRight
    <2>3. HasCopy(c, n)'
      BY <2>1, Zenon
    <2>4. Contents'[n] = data'[c]
      BY <2>3, Zenon DEF ContentsRight
    <2> QED
      BY <2>1, <2>2, <2>4, Zenon
  <1>2. CASE \A c \in Buf : ~HasCopy(c, n)
    <2>1. Contents[n] = disk[n]
      BY <1>2, Zenon DEF ContentsRight
    <2>2. \A c \in Buf : ~HasCopy(c, n)'
      BY <1>2, Zenon
    <2>3. Contents'[n] = disk'[n]
      BY <2>2, Zenon DEF ContentsRight
    <2> QED
      BY <1>2, <2>1, <2>3, Zenon
  <1> QED
    BY <1>1, <1>2, Zenon

(* Where nobody gets or gives up a lock, the holder stays.                  *)
LEMMA HolderSame ==
  ASSUME HolderRight, HolderRight', NEW n \in Block,
         \A q \in Proc : Holds(q, n)' <=> Holds(q, n)
  PROVE  Holder'[n] = Holder[n]
  <1>1. CASE \E q \in Proc : Holds(q, n)
    <2>1. PICK q \in Proc : Holds(q, n)
      BY <1>1, Zenon
    <2>2. Holder[n] = q
      BY <2>1, Zenon DEF HolderRight
    <2>3. Holds(q, n)'
      BY <2>1, Zenon
    <2>4. Holder'[n] = q
      BY <2>3, Zenon DEF HolderRight
    <2> QED
      BY <2>2, <2>4, Zenon
  <1>2. CASE \A q \in Proc : ~Holds(q, n)
    <2>1. Holder[n] = None
      BY <1>2, Zenon DEF HolderRight
    <2>2. \A q \in Proc : ~Holds(q, n)'
      BY <1>2, Zenon
    <2>3. Holder'[n] = None
      BY <2>2, Zenon DEF HolderRight
    <2> QED
      BY <2>1, <2>3, Zenon
  <1> QED
    BY <1>1, <1>2, Zenon

(* Maps that agree on every block are the same.                             *)
LEMMA AllSame ==
  /\ ContentsRight /\ ContentsRight' /\ (\A n \in Block : Contents'[n] = Contents[n])
       => Contents' = Contents
  /\ HolderRight /\ HolderRight' /\ (\A n \in Block : Holder'[n] = Holder[n])
       => Holder' = Holder
  BY Zenon DEF ContentsRight, HolderRight

-----------------------------------------------------------------------------
(* bget moves no contents: what it recycles is on disk.                     *)
LEMMA BgetMaps ==
  ASSUME Known, BioInv, BioInv', NEW p \in Proc, NEW bno \in Block, Bget(p, bno)
  PROVE  Contents' = Contents /\ Holder' = Holder
  <1>0. ContentsRight /\ ContentsRight' /\ HolderRight /\ HolderRight'
    BY ContentsIs, HolderIs, PTL
  <1>1. pc[p] = "out" /\ want' = [want EXCEPT ![p] = bno] /\ UNCHANGED <<disk, data, pinned>>
    BY BgetOutcome, Zenon DEF BioInv
  <1>2. \E v \in {"acquiresleep", "nobufs"} : pc' = [pc EXCEPT ![p] = v]
    BY BgetOutcome, Zenon DEF BioInv, Found, Recycled, NoneLeft
  <1>3. Holder' = Holder
    <2>1. ASSUME NEW n \in Block, NEW q \in Proc PROVE Holds(q, n)' <=> Holds(q, n)
      BY <1>1, <1>2, ZenonT(40) DEF Locked, Holds, BioInv, CacheInv, Types
    <2> QED
      BY <1>0, <2>1, HolderSame, AllSame, ZenonT(40)
  <1>4. ASSUME UNCHANGED <<blockno, valid>> PROVE Contents' = Contents
    <2>1. \A n, c : HasCopy(c, n)' <=> HasCopy(c, n)
      BY <1>4, Zenon DEF HasCopy
    <2> QED
      BY <1>0, <1>1, <2>1, ContentsSame, AllSame, ZenonT(40)
  <1>5. ASSUME NEW b \in Buf, Recycled(p, bno, b) PROVE Contents' = Contents
    <2>1. ASSUME NEW n \in Block, NEW c \in Buf PROVE HasCopy(c, n)' <=> c # b /\ HasCopy(c, n)
      <3>1. valid' = [valid EXCEPT ![b] = FALSE] /\ blockno' = [blockno EXCEPT ![b] = bno]
        BY <1>5, Zenon DEF Recycled
      <3>2. valid \in [Buf -> BOOLEAN] /\ blockno \in [Buf -> Block \cup {None}]
        BY Zenon DEF BioInv, DataInv, CacheInv, Types
      <3>3. (valid'[c] <=> c # b /\ valid[c])
        BY <3>1, <3>2, Zenon
      <3>4. c # b => blockno'[c] = blockno[c]
        BY <3>1, <3>2, Zenon
      <3> QED
        BY <3>3, <3>4, Zenon DEF HasCopy
    <2>2. ASSUME NEW n \in Block, HasCopy(b, n) PROVE data[b] = disk[n]
      BY <1>5, <2>2, Zenon DEF BioInv, DataInv, Recycled, HasCopy
    <2>3. ASSUME NEW n \in Block PROVE Contents'[n] = Contents[n]
      <3>1. CASE HasCopy(b, n)
        <4>1. Contents[n] = disk[n]
          BY <1>0, <2>2, <3>1, ZenonT(40) DEF ContentsRight
        <4>2. \A c \in Buf : ~HasCopy(c, n)'
          BY <2>1, <3>1, BioAssumption, ZenonT(40) DEF HasCopy, BioInv, NoDup
        <4>3. Contents'[n] = disk'[n]
          BY <1>0, <4>2, Zenon DEF ContentsRight
        <4> QED
          BY <1>1, <4>1, <4>3, Zenon
      <3>2. CASE ~HasCopy(b, n)
        <4>1. \A c \in Buf : HasCopy(c, n)' <=> HasCopy(c, n)
          BY <2>1, <3>2, Zenon
        <4> QED
          BY <1>0, <1>1, <4>1, ContentsSame, Zenon
      <3> QED
        BY <3>1, <3>2, ZenonT(40)
    <2> QED
      BY <1>0, <2>3, AllSame, ZenonT(40)
  <1> QED
    BY <1>3, <1>4, <1>5, BgetOutcome, ZenonT(40) DEF BioInv, Found, NoneLeft

(* bread changes nothing that anybody can see: it fetches the one copy.     *)
LEMMA BreadMaps ==
  ASSUME Known, BioInv, BioInv', NEW p \in Proc, Bread(p)
  PROVE  Contents' = Contents /\ Holder' = Holder
  <1>0. ContentsRight /\ ContentsRight' /\ HolderRight /\ HolderRight'
    BY ContentsIs, HolderIs, PTL
  <1>1. pc[p] \in Active
    BY Zenon DEF Bread, Active
  <1>2. PICK b \in Buf : b = buf[p]
    BY <1>1, UserCounts, ZenonT(40) DEF BioInv
  <1>3. /\ data' = [data EXCEPT ![b] = IF valid[b] THEN data[b] ELSE disk[blockno[b]]]
        /\ valid' = [valid EXCEPT ![b] = TRUE]
        /\ pc[p] = "bread" /\ pc' = [pc EXCEPT ![p] = "use"] /\ UNCHANGED <<disk, blockno, want>>
    BY <1>2, Zenon DEF Bread
  <1>4. Holder' = Holder
    <2>1. ASSUME NEW n \in Block, NEW q \in Proc PROVE Holds(q, n)' <=> Holds(q, n)
      BY <1>3, Zenon DEF Locked, Holds, BioInv, CacheInv, Types
    <2> QED
      BY <1>0, <2>1, HolderSame, AllSame, ZenonT(40)
  <1>5. valid \in [Buf -> BOOLEAN] /\ data \in [Buf -> Val]
    BY Zenon DEF BioInv, DataInv
  <1>6. \A c \in Buf : valid'[c] <=> c = b \/ valid[c]
    BY <1>3, <1>5, Zenon
  <1>7. \A c \in Buf : c # b \/ valid[b] => data'[c] = data[c]
    BY <1>3, <1>5, Zenon
  <1>8. ASSUME NEW n \in Block PROVE Contents'[n] = Contents[n]
    <2>1. CASE blockno[b] = n /\ ~valid[b]
      <3>1. \A c \in Buf : ~HasCopy(c, n)
        BY <2>1, BioAssumption, Zenon DEF HasCopy, BioInv, NoDup
      <3>2. Contents[n] = disk[n]
        BY <1>0, <3>1, Zenon DEF ContentsRight
      <3>3. HasCopy(b, n)'
        BY <1>3, <1>6, <2>1, Zenon DEF HasCopy
      <3>4. Contents'[n] = data'[b]
        BY <1>0, <3>3, Zenon DEF ContentsRight
      <3>5. data'[b] = disk[n]
        BY <1>3, <1>5, <2>1, ZenonT(40)
      <3> QED
        BY <3>2, <3>4, <3>5, ZenonT(40)
    <2>2. CASE blockno[b] # n \/ valid[b]
      <3>1. \A c \in Buf : HasCopy(c, n)' <=> HasCopy(c, n)
        BY <1>3, <1>6, <2>2, ZenonT(40) DEF HasCopy
      <3>2. \A c \in Buf : HasCopy(c, n) => data'[c] = data[c]
        BY <1>7, <2>2, ZenonT(40) DEF HasCopy
      <3>3. disk'[n] = disk[n]
        BY <1>3, Zenon
      <3> QED
        BY <1>0, <3>1, <3>2, <3>3, ContentsSame, ZenonT(40)
    <2> QED
      BY <2>1, <2>2, ZenonT(40)
  <1> QED
    BY <1>0, <1>4, <1>8, AllSame, Zenon

(* A holder that changes its buffer updates the block, also when it writes  *)
(* it to disk.                                                              *)
LEMMA WriteMaps ==
  ASSUME Known, BioInv, BioInv', NEW p \in Proc, NEW v \in Val, LogWrite(p, v) \/ Bwrite(p, v)
  PROVE  \E n \in Block : Store!Update(p, n, v)
  <1>0. ContentsRight /\ ContentsRight' /\ HolderRight /\ HolderRight'
    BY ContentsIs, HolderIs, PTL
  <1>1. pc[p] = "use" /\ pc[p] \in Active /\ pc[p] \in Locked
    BY Zenon DEF LogWrite, Bwrite, Active, Locked
  <1>2. PICK b \in Buf : b = buf[p] /\ blockno[b] = want[p] /\ valid[b] /\ lkpid[b] = p
    BY <1>1, UserCounts, Zenon DEF BioInv, DataInv, CacheInv, LockInv
  <1>3. PICK n \in Block : n = want[p]
    BY <1>1, Zenon DEF BioInv, DataInv
  <1>4. /\ data' = [data EXCEPT ![b] = v] /\ UNCHANGED <<pc, want, blockno, valid>>
        /\ disk' = disk \/ disk' = [disk EXCEPT ![n] = v]
    BY <1>2, <1>3, Zenon DEF LogWrite, Bwrite, local
  <1>5. Holder' = Holder
    <2>1. \A m, q : Holds(q, m)' <=> Holds(q, m)
      BY <1>4, Zenon DEF Holds
    <2> QED
      BY <1>0, <2>1, HolderSame, AllSame, ZenonT(40)
  <1>6. Holder[n] = p
    BY <1>0, <1>1, <1>3, ZenonT(40) DEF HolderRight, Holds
  <1>7. \A m, c : HasCopy(c, m)' <=> HasCopy(c, m)
    BY <1>4, Zenon DEF HasCopy
  <1>8. data \in [Buf -> Val] /\ disk \in [Block -> Val]
    BY Zenon DEF BioInv, DataInv
  <1>9. Contents'[n] = v
    <2>1. HasCopy(b, n)'
      BY <1>2, <1>3, <1>7, ZenonT(40) DEF HasCopy
    <2>2. Contents'[n] = data'[b]
      BY <1>0, <2>1, Zenon DEF ContentsRight
    <2> QED
      BY <1>4, <1>8, <2>2, ZenonT(40)
  <1>10. ASSUME NEW m \in Block, m # n PROVE Contents'[m] = Contents[m]
    <2>1. \A c \in Buf : HasCopy(c, m) => data'[c] = data[c]
      BY <1>2, <1>3, <1>4, <1>8, <1>10, ZenonT(40) DEF HasCopy
    <2>2. disk'[m] = disk[m]
      BY <1>4, <1>8, <1>10, ZenonT(40)
    <2> QED
      BY <1>0, <1>7, <2>1, <2>2, ContentsSame, ZenonT(40)
  <1>11. Contents' = [Contents EXCEPT ![n] = v]
    BY <1>0, <1>9, <1>10, ZenonT(40) DEF ContentsRight
  <1> QED
    BY <1>5, <1>6, <1>11, ZenonT(40) DEF Store!Update

(* Writing a pinned block home changes nothing.                             *)
LEMMA WriteHomeMaps ==
  ASSUME Known, BioInv, BioInv', NEW p \in Proc, WriteHome(p)
  PROVE  Contents' = Contents /\ Holder' = Holder
  <1>0. ContentsRight /\ ContentsRight' /\ HolderRight /\ HolderRight'
    BY ContentsIs, HolderIs, PTL
  <1>1. pc[p] = "use" /\ pc[p] \in Active /\ pc[p] \in Locked
    BY Zenon DEF WriteHome, Active, Locked
  <1>2. PICK b \in Buf : b = buf[p] /\ valid[b] /\ lkpid[b] = p
    BY <1>1, UserCounts, ZenonT(40) DEF BioInv, DataInv, CacheInv, LockInv
  <1>3. /\ disk' = [disk EXCEPT ![blockno[b]] = data[b]]
        /\ UNCHANGED <<pc, want, blockno, valid, data>>
    BY <1>2, ZenonT(40) DEF WriteHome
  <1>4. Holder' = Holder
    <2>1. \A m, q : Holds(q, m)' <=> Holds(q, m)
      BY <1>3, Zenon DEF Holds
    <2> QED
      BY <1>0, <2>1, HolderSame, AllSame, ZenonT(40)
  <1>5. \A m, c : HasCopy(c, m)' <=> HasCopy(c, m)
    BY <1>3, Zenon DEF HasCopy
  <1>6. ASSUME NEW n \in Block PROVE Contents'[n] = Contents[n]
    <2>1. disk'[n] = disk[n] \/ \E c \in Buf : HasCopy(c, n)
      <3>1. CASE blockno[b] = n
        BY <1>2, <3>1, ZenonT(40) DEF HasCopy
      <3>2. CASE blockno[b] # n
        BY <1>3, <3>2, SMTT(40) DEF BioInv, DataInv
      <3> QED
        BY <3>1, <3>2, Zenon
    <2> QED
      BY <1>0, <1>3, <1>5, <2>1, ContentsSame, ZenonT(40)
  <1> QED
    BY <1>0, <1>4, <1>6, AllSame, Zenon

(* Steps on the lock or on the list leave all contents alone.               *)
LEMMA LockMaps ==
  ASSUME BioInv, BioInv', UNCHANGED <<disk, blockno, valid, data>>
  PROVE  Contents' = Contents
  <1>0. ContentsRight /\ ContentsRight'
    BY ContentsIs, PTL
  <1>1. \A m, c : HasCopy(c, m)' <=> HasCopy(c, m)
    BY Zenon DEF HasCopy
  <1> QED
    BY <1>0, <1>1, ContentsSame, AllSame, ZenonT(40)

(* acquiresleep gives p its block, if it does not put p to sleep.           *)
LEMMA AcquireMaps ==
  ASSUME BioInv, BioInv', NEW p \in Proc, AcquireSleep(p)
  PROVE  Holder' = Holder \/ \E n \in Block : Store!Acquire(p, n)
  <1>0. HolderRight /\ HolderRight'
    BY HolderIs, PTL
  <1>1. pc[p] \in Active /\ pc[p] \notin Locked /\ UNCHANGED want
    BY Zenon DEF AcquireSleep, Active, Locked
  <1>2. PICK n \in Block : n = want[p]
    BY <1>1, ZenonT(40) DEF BioInv, DataInv
  <1>3. CASE pc' = [pc EXCEPT ![p] = "asleep"]
    <2>1. ASSUME NEW m \in Block, NEW q \in Proc PROVE Holds(q, m)' <=> Holds(q, m)
      BY <1>1, <1>3, ZenonT(40) DEF Locked, Holds, BioInv, CacheInv, Types
    <2> QED
      BY <1>0, <2>1, HolderSame, AllSame, ZenonT(40)
  <1>4. CASE pc' = [pc EXCEPT ![p] = "bread"]
    <2>1. \A m \in Block, q \in Proc : Holds(q, m)' <=> Holds(q, m) \/ (q = p /\ m = n)
      BY <1>1, <1>2, <1>4, ZenonT(40) DEF Locked, Holds, BioInv, CacheInv, Types
    <2>2. \A q \in Proc : ~Holds(q, n)
      <3>1. ASSUME NEW q \in Proc, Holds(q, n) PROVE FALSE
        <4>1. Holds(q, n)' /\ Holds(p, n)'
          BY <2>1, <3>1, Zenon
        <4>2. q = p
          BY <1>0, <4>1, Zenon DEF HolderRight
        <4> QED
          BY <1>1, <3>1, <4>2, ZenonT(40) DEF Holds
      <3> QED
        BY <3>1, Zenon
    <2>3. Holder[n] = None
      BY <1>0, <2>2, ZenonT(40) DEF HolderRight
    <2>4. Holds(p, n)'
      BY <2>1, Zenon
    <2>5. Holder'[n] = p
      BY <1>0, <2>4, ZenonT(40) DEF HolderRight
    <2>6. ASSUME NEW m \in Block, m # n PROVE Holder'[m] = Holder[m]
      BY <1>0, <2>1, <2>6, HolderSame, ZenonT(40)
    <2>7. Holder' = [Holder EXCEPT ![n] = p]
      BY <1>0, <2>5, <2>6, ZenonT(40) DEF HolderRight
    <2>8. Contents' = Contents
      BY LockMaps, ZenonT(40) DEF AcquireSleep
    <2> QED
      BY <2>3, <2>7, <2>8, ZenonT(40) DEF Store!Acquire
  <1> QED
    BY <1>3, <1>4, ZenonT(40) DEF AcquireSleep

(* releasesleep gives the block back.                                       *)
LEMMA ReleaseMaps ==
  ASSUME BioInv, BioInv', NEW p \in Proc, ReleaseSleep(p)
  PROVE  \E n \in Block : Store!Release(p, n)
  <1>0. HolderRight /\ HolderRight'
    BY HolderIs, PTL
  <1>1. pc[p] = "use" /\ pc[p] \in Active /\ pc[p] \in Locked /\ UNCHANGED want
    BY Zenon DEF ReleaseSleep, Active, Locked
  <1>2. PICK n \in Block : n = want[p]
    BY <1>1, Zenon DEF BioInv, DataInv
  <1>3. lkpid[buf[p]] = p
    BY <1>1, Zenon DEF BioInv, CacheInv, LockInv
  <1>4. \A q \in Proc : pc'[q] \in Locked <=> q # p /\ pc[q] \in Locked
    BY <1>3, Zenon DEF ReleaseSleep, Locked
  <1>5. \A m, q : q \in Proc => (Holds(q, m)' <=> q # p /\ Holds(q, m))
    BY <1>1, <1>4, Zenon DEF Holds
  <1>6. Holds(p, n)
    BY <1>1, <1>2, Zenon DEF Holds
  <1>7. Holder[n] = p
    BY <1>0, <1>6, Zenon DEF HolderRight
  <1>8. \A q \in Proc : ~Holds(q, n)'
    BY <1>0, <1>5, <1>6, ZenonT(40) DEF HolderRight
  <1>9. Holder'[n] = None
    BY <1>0, <1>8, Zenon DEF HolderRight
  <1>10. ASSUME NEW m \in Block, m # n PROVE Holder'[m] = Holder[m]
    <2>1. \A q \in Proc : Holds(q, m)' <=> Holds(q, m)
      BY <1>2, <1>5, <1>10, ZenonT(40) DEF Holds
    <2> QED
      BY <1>0, <2>1, HolderSame, Zenon
  <1>11. Holder' = [Holder EXCEPT ![n] = None]
    BY <1>0, <1>9, <1>10, ZenonT(40) DEF HolderRight
  <1>12. Contents' = Contents
    BY LockMaps, Zenon DEF ReleaseSleep
  <1> QED
    BY <1>7, <1>11, <1>12, ZenonT(40) DEF Store!Release

(* brelse's second half is past the release.                                *)
LEMMA BrelseMaps ==
  ASSUME BioInv, BioInv', NEW p \in Proc, Brelse(p)
  PROVE  Contents' = Contents /\ Holder' = Holder
  <1>0. HolderRight /\ HolderRight'
    BY HolderIs, PTL
  <1>1. pc[p] = "brelse" /\ pc' = [pc EXCEPT ![p] = "out"] /\ want' = [want EXCEPT ![p] = None]
    BY Zenon DEF Brelse
  <1>2. ASSUME NEW m \in Block, NEW q \in Proc PROVE Holds(q, m)' <=> Holds(q, m)
    BY <1>1, Zenon DEF Locked, Holds, BioInv, CacheInv, Types
  <1>3. Holder' = Holder
    BY <1>0, <1>2, HolderSame, AllSame, ZenonT(40)
  <1>4. Contents' = Contents
    BY LockMaps, Zenon DEF Brelse
  <1> QED
    BY <1>3, <1>4, ZenonT(40)

(* The cache implements the store for any number of processes, blocks and   *)
(* buffers: a process that has a block between bread and brelse is alone,   *)
(* The cache starts as a store.                                             *)
LEMMA InitMaps ==
  ASSUME Known, Init
  PROVE  Store!StoreInit
  <1>0. BioInv
    BY InitCache, InitList, InitStore, ZenonT(40) DEF BioInv
  <1>1. ContentsRight /\ HolderRight
    BY <1>0, ContentsIs, HolderIs, ZenonT(40)
  <1>2. ASSUME NEW n \in Block PROVE Contents[n] \in Val /\ Holder[n] = None
    <2>1. (\A c \in Buf : ~HasCopy(c, n)) /\ (\A q \in Proc : ~Holds(q, n))
      BY Zenon DEF Init, HasCopy, Holds, Locked
    <2>2. Contents[n] = disk[n] /\ Holder[n] = None
      BY <1>1, <2>1, ZenonT(40) DEF ContentsRight, HolderRight
    <2> QED
      BY <2>2, Zenon DEF Init
  <1>3. Contents \in [Block -> Val] /\ Holder = [b \in Block |-> None]
    BY <1>1, <1>2, ZenonT(40) DEF ContentsRight, HolderRight
  <1> QED
    BY <1>3, Zenon DEF Store!StoreInit

(* Every step of the cache is a step of the store, or none.                 *)
LEMMA NextMaps ==
  ASSUME Known, BioInv, BioInv', [Next]_vars
  PROVE  Store!StoreNext \/ (Contents' = Contents /\ Holder' = Holder)
  <1>1. CASE UNCHANGED vars
    <2>1. Contents' = Contents
      BY <1>1, LockMaps, ZenonT(40) DEF vars
    <2>2. Holder' = Holder
      BY <1>1 DEF vars, Holder
    <2> QED
      BY <2>1, <2>2, ZenonT(40)
  <1>2. ASSUME NEW p \in Proc, NEW bno \in Block, Bget(p, bno)
        PROVE  Contents' = Contents /\ Holder' = Holder
    BY <1>2, BgetMaps, Zenon
  <1>3. ASSUME NEW p \in Proc, AcquireSleep(p)
        PROVE  Store!StoreNext \/ (Contents' = Contents /\ Holder' = Holder)
    <2>1. Contents' = Contents
      BY <1>3, LockMaps, Zenon DEF AcquireSleep
    <2> QED
      BY <1>3, <2>1, AcquireMaps, ZenonT(40) DEF Store!StoreNext
  <1>4. ASSUME NEW p \in Proc, HolderStep(p)
        PROVE  Store!StoreNext \/ (Contents' = Contents /\ Holder' = Holder)
    BY <1>4, WriteMaps, WriteHomeMaps, ZenonT(40) DEF HolderStep, Store!StoreNext
  <1>5. ASSUME NEW p \in Proc, ReleaseSleep(p)
        PROVE  Store!StoreNext
    BY <1>5, ReleaseMaps, Zenon DEF Store!StoreNext
  <1> QED
    BY <1>1, <1>2, <1>3, <1>4, <1>5, BreadMaps, BrelseMaps, ZenonT(40) DEF Next

-----------------------------------------------------------------------------
INSTANCE FiniteSetTheorems

INSTANCE WellFoundedInduction

INSTANCE NaturalsInduction

(* A non-empty set of natural numbers has a least element.                  *)
LEMMA LeastNat ==
  ASSUME NEW S \in SUBSET Nat, S # {}
  PROVE  \E k \in S : \A j \in S : k <= j
  <1>1. \E k \in S : \A j \in S : <<j, k>> \notin OpToRel(<, Nat)
    BY ZenonT(30), NatLessThanWellFounded, WFMin
  <1>2. PICK k \in S : \A j \in S : <<j, k>> \notin OpToRel(<, Nat)
    BY ZenonT(30), <1>1
  <1>3. \A j \in S : ~(j < k)
    BY ZenonT(30), <1>2 DEF OpToRel
  <1> QED
    BY <1>3, SMTT(40)

(* Two finite sets together have at most as many elements as apart.         *)
LEMMA UnionAtMost ==
  ASSUME NEW S, NEW T, IsFiniteSet(S), IsFiniteSet(T)
  PROVE  /\ IsFiniteSet(S \cup T)
         /\ Cardinality(S) \in Nat /\ Cardinality(S \cup T) \in Nat
         /\ Cardinality(S \cup T) <= Cardinality(S) + Cardinality(T)
  <1>1. /\ IsFiniteSet(S \cup T)
        /\ Cardinality(S \cup T) = Cardinality(S) + Cardinality(T) - Cardinality(S \cap T)
    BY FS_Union, ZenonT(40)
  <1>2. Cardinality(S \cap T) \in Nat
    BY FS_Intersection, FS_CardinalityType, ZenonT(40)
  <1>3. Cardinality(S) \in Nat /\ Cardinality(T) \in Nat /\ Cardinality(S \cup T) \in Nat
    BY <1>1, FS_CardinalityType, ZenonT(40)
  <1> QED
    BY <1>1, <1>2, <1>3, SMTT(40)

(* What the proofs above count with is so.                                  *)
LEMMA KnownHolds == Known
  <1>1. CountNat /\ CountNone
    BY FS_CardinalityType, FS_EmptySet, ZenonT(40) DEF CountNat, CountNone
  <1>2. CountMore /\ CountLess
    BY FS_AddElement, FS_RemoveElement, ZenonT(40) DEF CountMore, CountLess
  <1>3. CountPart /\ CountPairs
    BY FS_Subset, FS_Product, ZenonT(40) DEF CountPart, CountPairs
  <1>4. CountRange
    BY FS_Interval, SMTT(40) DEF CountRange
  <1>5. LeastNumber /\ CountUnion
    BY LeastNat, UnionAtMost, ZenonT(40) DEF LeastNumber, CountUnion
  <1>6. ASSUME NEW S, NEW f, IsFiniteSet(S)
        PROVE  IsFiniteSet({f[x] : x \in S}) /\ Cardinality({f[x] : x \in S}) <= Cardinality(S)
    <2> DEFINE g == [x \in S |-> f[x]]
    <2>1. g \in Surjection(S, {f[x] : x \in S})
      BY Zenon DEF Surjection
    <2> QED
      BY <1>6, <2>1, FS_Surjection, ZenonT(40)
  <1> QED
    BY <1>1, <1>2, <1>3, <1>4, <1>5, <1>6, ZenonT(40) DEF Known, Counting, CountImage

(* The invariant of the cache with its list and its contents.               *)
LEMMA BioAlways == Spec => []BioInv
  <1>1. Init => BioInv
    BY InitCache, InitList, InitStore, KnownHolds, ZenonT(40) DEF BioInv
  <1>2. BioInv /\ [Next]_vars => BioInv'
    BY NextBio, KnownHolds, ZenonT(40)
  <1> QED
    BY <1>1, <1>2, PTL DEF Spec

(* A buffer keeps its block from bget until brelse, whatever other          *)
(* processes and the log do.                                                *)
THEOREM BufferKeepsItsBlock == Spec => []KeepsItsBlock
  <1>1. BioInv => KeepsItsBlock
    BY ZenonT(40) DEF BioInv, CacheInv, InUse, KeepsItsBlock
  <1> QED
    BY <1>1, BioAlways, PTL

(* Who sleeps in acquiresleep sleeps on a lock that is held.                *)
THEOREM SleepersWait == Spec => []NoLostWakeup
  <1>1. BioInv => NoLostWakeup
    BY ZenonT(40) DEF BioInv, CacheInv, LockInv, NoLostWakeup
  <1> QED
    BY <1>1, BioAlways, PTL

(* brelse keeps the list of buffers a ring in the order of release, for any *)
(* number of buffers: bget recycles the one released the longest ago.       *)
THEOREM ListStaysLru == Spec => []LruList
  <1>1. BioInv => LruList
    BY OrderIsLru, KnownHolds, ZenonT(40)
  <1> QED
    BY <1>1, BioAlways, PTL

(* No panic but that of bget, and that not before its time.                 *)
LEMMA PanicAlways == Spec => []PanicInv
  <1>1. Init => PanicInv
    BY Zenon DEF Init, PanicInv, BcacheFree
  <1>2. BioInv /\ PanicInv /\ [Next]_vars => PanicInv'
    BY NextPanic, KnownHolds, ZenonT(40)
  <1> QED
    BY <1>1, <1>2, BioAlways, PTL DEF Spec

(* The cache stays sound for any number of processes, blocks, buffers and   *)
(* pins: the list, the sleepers, and a bget that panics only when every     *)
(* buffer is with a process or pinned.                                      *)
THEOREM CacheStaysSound == Spec => []CacheSound
  <1>1. BioInv /\ PanicInv => CacheSound
    <2> SUFFICES ASSUME BioInv, PanicInv PROVE CacheSound
      BY ZenonT(40)
    <2>1. TypeOK
      BY Zenon DEF BioInv, CacheInv, Types, ListInv, DataInv, TypeOK
    <2>2. LruList
      BY OrderIsLru, KnownHolds, ZenonT(40)
    <2>3. NoLostWakeup
      BY Zenon DEF BioInv, CacheInv, LockInv, NoLostWakeup
    <2>4. PanicsOnlyWhenFull
      BY PanicIsFull, KnownHolds, ZenonT(40)
    <2> QED
      BY <2>1, <2>2, <2>3, <2>4, ZenonT(40) DEF CacheSound
  <1> QED
    BY <1>1, BioAlways, PanicAlways, PTL

(* bget panics only with NBUF users and pins at least: a system with fewer  *)
(* processes in the file system than NBUF less the pins is safe from it.    *)
THEOREM PanicTakesMany == Spec => []PanicsOnlyWhenMany
  <1>1. BioInv /\ PanicInv => PanicsOnlyWhenMany
    BY PanicIsMany, KnownHolds, ZenonT(40)
  <1> QED
    BY <1>1, BioAlways, PanicAlways, PTL

(* The cache implements the store for any number of processes, blocks and   *)
(* buffers: a process that has a block between bread and brelse is alone,   *)
(* and reads what the last one left, from a buffer or from disk.            *)
THEOREM CacheIsOneCopy == Spec => OneCopy
  <1>1. Init => Store!StoreInit
    BY InitMaps, KnownHolds, Zenon
  <1>2. BioInv /\ BioInv' /\ [Next]_vars => [Store!StoreNext]_(Store!storeVars)
    BY NextMaps, KnownHolds, Zenon DEF Store!storeVars
  <1> QED
    BY <1>1, <1>2, BioAlways, PTL DEF Spec, OneCopy, Store!StoreSpec
=============================================================================
