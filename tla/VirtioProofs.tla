---------------------------- MODULE VirtioProofs ----------------------------
(***************************************************************************)
(* The disk driver for any number of processes, descriptors and requests:  *)
(* the rings and the descriptors agree on the requests under way, and a    *)
(* request that returns has moved its data.                                *)
(***************************************************************************)
EXTENDS Virtio, RingArith

Types ==
  /\ pc \in [Proc -> {"idle", "alloc", "slot", "wait", "sleep"}]
  /\ idx \in [Proc -> Desc]
  /\ buf \in [Proc -> Int] /\ disk \in [Proc -> Int] /\ bdisk \in [Proc -> BOOLEAN]
  /\ free \subseteq Desc /\ inflight \subseteq Desc
  /\ desc = [d \in Desc |-> desc[d]] /\ \A d \in Desc : desc[d].next \in Desc
  /\ info \in [Desc -> [b : Proc \cup {None}, status : {0, 255}]]
  /\ avail \in [Desc -> Desc] /\ used \in [Desc -> Desc]
  /\ availIdx \in 0 .. WIDTH - 1 /\ taken \in 0 .. WIDTH - 1
  /\ usedIdx \in 0 .. WIDTH - 1 /\ seen \in 0 .. WIDTH - 1

(* The chain of a request under way: header, data and status descriptor.    *)
Linked(p) ==
  LET a == idx[p]
      b == desc[a].next
      c == desc[b].next
  IN  /\ a # b /\ a # c /\ b # c
      /\ desc[a].of = p /\ info[a].b = p
      /\ desc[b].is = "data" /\ desc[b].of = p
      /\ desc[c].is = "status" /\ desc[c].of = a

Apart == \A p, q \in Busy : p # q => Chain(idx[p]) \cap Chain(idx[q]) = {}

InUse == Desc \ free = UNION {Chain(idx[p]) : p \in Busy}

ChainInv == Types /\ (\A p \in Busy : Linked(p)) /\ Apart /\ InUse

(* Requests that the device has not taken, and those that the interrupt     *)
(* handler has not seen yet.                                                *)
Posted == [k \in 1 .. (availIdx + WIDTH - taken) % WIDTH |-> avail[(taken + k - 1) % NUM]]
Done == [k \in 1 .. (usedIdx + WIDTH - seen) % WIDTH |-> used[(seen + k - 1) % NUM]]

Elems(s) == {s[k] : k \in 1 .. Len(s)}
Distinct(s) == \A j, k \in 1 .. Len(s) : s[j] = s[k] => j = k

(* The header h is that of a request which has not been finished.           *)
Live(h) ==
  h \in Desc /\ info[h].b \in Busy /\ idx[info[h].b] = h /\ bdisk[info[h].b]

(* A request that has not been finished is at one place.                    *)
Once ==
  /\ Distinct(Posted) /\ Distinct(Done)
  /\ Elems(Posted) \cap inflight = {}
  /\ Elems(Posted) \cap Elems(Done) = {}
  /\ inflight \cap Elems(Done) = {}

Agree(p) == buf[p] = disk[p]

Moved ==
  /\ \A h \in Elems(Done) : info[h].status = 0 /\ Agree(info[h].b)
  /\ \A p \in Busy : ~ bdisk[p] => Agree(p)

EntryInv ==
  /\ \A h \in Elems(Posted) \cup inflight \cup Elems(Done) : Live(h)
  /\ Once
  /\ Moved

IInv == ChainInv /\ EntryInv

(* A header enters one of the rings, or leaves it.                          *)
Posts(h) == Elems(Posted)' = Elems(Posted) \cup {h} /\ Distinct(Posted)'
Takes(h) ==
  h \in Elems(Posted) /\ Elems(Posted)' = Elems(Posted) \ {h} /\ Distinct(Posted)'
Returns(h) == Elems(Done)' = Elems(Done) \cup {h} /\ Distinct(Done)'
Sees(h) == h \in Elems(Done) /\ Elems(Done)' = Elems(Done) \ {h} /\ Distinct(Done)'

-----------------------------------------------------------------------------
(* What the proofs use of the constants.                                    *)
LEMMA Constants ==
  /\ None \notin Proc /\ 0 \in Desc
  /\ \A i \in 0 .. WIDTH - 1 : (i + 1) % WIDTH \in 0 .. WIDTH - 1
  <1>1. None \notin Proc /\ 0 \in Desc
    BY DiskAssumption DEF Desc
  <1>2. ASSUME NEW i \in 0 .. WIDTH - 1
        PROVE  (i + 1) % WIDTH \in 0 .. WIDTH - 1
    BY DiskAssumption
  <1> QED
    BY <1>1, <1>2, Zenon

(* The owner of the header of an unfinished request.                        *)
LEMMA LiveChain ==
  ASSUME ChainInv, NEW h \in Desc, Live(h)
  PROVE  /\ info[h].b \in Proc /\ info[h].b \in Busy /\ bdisk[info[h].b]
         /\ idx[info[h].b] = h /\ h \notin free
         /\ desc[h].of = info[h].b /\ desc[h].next \in Desc
         /\ desc[desc[h].next].is = "data" /\ desc[desc[h].next].of = info[h].b
         /\ desc[desc[desc[h].next].next].is = "status"
         /\ desc[desc[desc[h].next].next].of = h
  <1>1. /\ info[h].b \in Busy /\ idx[info[h].b] = h /\ Linked(info[h].b)
        /\ bdisk[info[h].b]
    BY Zenon DEF ChainInv, Live
  <1>2. h \in Chain(h)
    BY Zenon DEF Chain
  <1>3. h \notin free
    BY <1>1, <1>2, Zenon DEF ChainInv, InUse
  <1>4. /\ desc[h].of = info[h].b
        /\ desc[desc[h].next].is = "data" /\ desc[desc[h].next].of = info[h].b
        /\ desc[desc[desc[h].next].next].is = "status"
        /\ desc[desc[desc[h].next].next].of = h
    BY <1>1, Zenon DEF Linked
  <1>5. desc[h].next \in Desc
    BY Zenon DEF ChainInv, Types
  <1> QED
    BY <1>1, <1>3, <1>4, <1>5, Zenon DEF Busy

(* The owners of unfinished requests.                                       *)
LEMMA Owners ==
  ASSUME IInv, NEW h \in Elems(Posted) \cup inflight \cup Elems(Done)
  PROVE  h \in Desc /\ Live(h) /\ h \notin free /\ info[h].b \in Busy /\ idx[info[h].b] = h
  <1>1. h \in Desc /\ Live(h)
    BY Zenon DEF IInv, EntryInv, Live
  <1> QED
    BY <1>1, LiveChain, Zenon DEF IInv

(* A step that touches no chain.                                            *)
LEMMA ChainFrame ==
  ASSUME ChainInv, Types', Busy' = Busy, UNCHANGED <<idx, desc, free>>,
         \A h \in Desc : info'[h].b = info[h].b
  PROVE  ChainInv'
  <1>1. \A p \in Busy : idx[p] \in Desc
    BY Zenon DEF ChainInv, Types, Busy
  <1>2. \A i : Chain(i)' = Chain(i)
    BY Zenon DEF Chain
  <1>3. ASSUME NEW p \in Busy
        PROVE  Linked(p)'
    <2>1. info'[idx[p]].b = info[idx[p]].b /\ Linked(p)
      BY <1>1, Zenon DEF ChainInv
    <2> QED
      BY <2>1, Zenon DEF Linked
  <1>4. Apart' /\ InUse'
    BY <1>2, Zenon DEF ChainInv, Apart, InUse
  <1> QED
    BY <1>3, <1>4, Zenon DEF ChainInv

(* A step that touches no request.                                          *)
LEMMA EntryFrame ==
  ASSUME EntryInv, Busy' = Busy,
         UNCHANGED <<idx, info, bdisk, avail, availIdx, taken, used, usedIdx, seen, inflight>>,
         \A p \in Busy : Agree(p)' <=> Agree(p)
  PROVE  EntryInv'
  <1>1. Posted' = Posted /\ Done' = Done
    BY Zenon DEF Posted, Done
  <1>2. \A h : Live(h)' <=> Live(h)
    BY Zenon DEF Live
  <1>3. Once'
    BY <1>1, Zenon DEF EntryInv, Once
  <1>4. Moved'
    <2>1. \A h \in Elems(Done) : info[h].b \in Busy
      BY Zenon DEF EntryInv, Live
    <2> QED
      BY <1>1, <2>1, Zenon DEF EntryInv, Moved
  <1> QED
    BY <1>1, <1>2, <1>3, <1>4, Zenon DEF EntryInv

(* bread and bwrite.                                                        *)
LEMMA StartInv ==
  ASSUME IInv, NEW p \in Proc, Start(p)
  PROVE  IInv'
  <1>1. /\ pc[p] = "idle" /\ pc' = [pc EXCEPT ![p] = "alloc"]
        /\ buf' = [buf EXCEPT ![p] = 1 - disk[p]]
        /\ UNCHANGED <<idx, disk, bdisk, free, desc, info, avail, availIdx, seen, lock,
                       pending, used, usedIdx, taken, inflight>>
    BY Zenon DEF Start, device
  <1>2. Types
    BY Zenon DEF IInv, ChainInv
  <1>3. buf' \in [Proc -> Int] /\ \A q \in Proc \ {p} : buf'[q] = buf[q]
    <2>1. buf \in [Proc -> Int] /\ disk[p] \in Int
      BY <1>2, ZenonT(40) DEF Types
    <2> QED
      BY <1>1, <2>1
  <1>4. Types'
    BY <1>1, <1>2, <1>3, Zenon DEF Types
  <1>5. Busy' = Busy /\ p \notin Busy
    BY <1>1, <1>2, ZenonT(40) DEF Types, Busy
  <1>6. ChainInv'
    BY <1>1, <1>4, <1>5, ChainFrame, Zenon DEF IInv
  <1>7. \A q \in Busy : Agree(q)' <=> Agree(q)
    BY <1>1, <1>3, <1>5, Zenon DEF Agree, Busy
  <1>8. EntryInv'
    BY <1>1, <1>5, <1>7, EntryFrame, Zenon DEF IInv
  <1> QED
    BY <1>6, <1>8, Zenon DEF IInv

(* alloc3_desc fails.                                                       *)
LEMMA AllocFailsInv ==
  ASSUME IInv, NEW p \in Proc, AllocFails(p)
  PROVE  IInv'
  <1>1. /\ pc[p] = "alloc"
        /\ pc' = [(IF free = {} THEN pc ELSE WakeSlot(pc)) EXCEPT ![p] = "slot"]
        /\ UNCHANGED <<idx, buf, disk, bdisk, free, desc, info, avail, availIdx, seen,
                       used, usedIdx, taken, inflight>>
    BY Zenon DEF AllocFails, device
  <1>2. Types
    BY Zenon DEF IInv, ChainInv
  <1>3. pc' \in [Proc -> {"idle", "alloc", "slot", "wait", "sleep"}] /\ Busy' = Busy
    <2>1. pc \in [Proc -> {"idle", "alloc", "slot", "wait", "sleep"}]
      BY <1>2, Zenon DEF Types
    <2>2. CASE free = {}
      BY <1>1, <2>1, <2>2 DEF Busy
    <2>3. CASE free # {}
      <3>1. pc' = [WakeSlot(pc) EXCEPT ![p] = "slot"]
        BY <1>1, <2>3, Zenon
      <3> QED
        BY <1>1, <2>1, <3>1 DEF Busy, WakeSlot
    <2> QED
      BY <2>2, <2>3, Zenon
  <1>4. Types'
    BY <1>1, <1>2, <1>3, ZenonT(40) DEF Types
  <1>5. ChainInv'
    BY <1>1, <1>3, <1>4, ChainFrame, Zenon DEF IInv
  <1>6. EntryInv'
    BY <1>1, <1>3, EntryFrame, Zenon DEF IInv, Agree
  <1> QED
    BY <1>5, <1>6, Zenon DEF IInv

(* The interrupt handler starts or ends.                                    *)
LEMMA IntrEndsInv ==
  ASSUME IInv, IntrStart \/ IntrEnd \/ UNCHANGED vars
  PROVE  IInv'
  <1>1. UNCHANGED <<pc, idx, buf, disk, bdisk, free, desc, info, avail, availIdx, seen,
                    used, usedIdx, taken, inflight>>
    BY Zenon DEF IntrStart, IntrEnd, driver, device, vars
  <1>2. Types' /\ Busy' = Busy
    BY <1>1, ZenonT(40) DEF IInv, ChainInv, Types, Busy
  <1>3. ChainInv'
    BY <1>1, <1>2, ChainFrame, Zenon DEF IInv
  <1>4. EntryInv'
    BY <1>1, <1>2, EntryFrame, Zenon DEF IInv, Agree
  <1> QED
    BY <1>3, <1>4, Zenon DEF IInv

(* The chain of another request is apart from free descriptors.             *)
LEMMA ChainInUse ==
  ASSUME ChainInv, NEW q \in Busy
  PROVE  /\ idx[q] \in Desc /\ desc[idx[q]].next \in Desc
         /\ desc[desc[idx[q]].next].next \in Desc
         /\ idx[q] \notin free /\ desc[idx[q]].next \notin free
         /\ desc[desc[idx[q]].next].next \notin free
  <1>1. idx[q] \in Desc /\ desc[idx[q]].next \in Desc /\ desc[desc[idx[q]].next].next \in Desc
    BY Zenon DEF ChainInv, Types, Busy
  <1>2. Chain(idx[q]) \subseteq Desc \ free
    BY Zenon DEF ChainInv, InUse
  <1> QED
    BY <1>1, <1>2, Zenon DEF Chain

(* The state after three descriptors a, b, c became the chain of p.         *)
Submitted(p, a, b, c) ==
  /\ {a, b, c} \subseteq free /\ a # b /\ a # c /\ b # c
  /\ pc[p] = "alloc" /\ pc' = [pc EXCEPT ![p] = "sleep"]
  /\ free' = free \ {a, b, c}
  /\ desc' = [desc EXCEPT ![a] = [is |-> op[p].dir, of |-> p, next |-> b],
                          ![b] = [is |-> "data", of |-> p, next |-> c],
                          ![c] = [is |-> "status", of |-> a, next |-> 0]]
  /\ info' = [info EXCEPT ![a] = [b |-> p, status |-> 255]]
  /\ bdisk' = [bdisk EXCEPT ![p] = TRUE]
  /\ avail' = [avail EXCEPT ![availIdx % NUM] = a]
  /\ availIdx' = Succ(availIdx)
  /\ idx' = [idx EXCEPT ![p] = a]
  /\ UNCHANGED <<op, buf, disk, seen, used, usedIdx, taken, inflight>>

(* It keeps the chains apart.                                               *)
LEMMA SubmitChain ==
  ASSUME IInv, NEW p \in Proc, NEW a \in Desc, NEW b \in Desc, NEW c \in Desc,
         Submitted(p, a, b, c)
  PROVE  ChainInv'
  <1>1. Types
    BY Zenon DEF IInv, ChainInv
  <1>2. /\ DOMAIN desc' = Desc /\ desc' = [d \in Desc |-> desc'[d]]
        /\ desc'[a] = [is |-> op[p].dir, of |-> p, next |-> b]
        /\ desc'[b] = [is |-> "data", of |-> p, next |-> c]
        /\ desc'[c] = [is |-> "status", of |-> a, next |-> 0]
        /\ \A d \in Desc \ {a, b, c} : desc'[d] = desc[d]
    BY <1>1, ZenonT(40) DEF Types, Submitted
  <1>3. /\ desc'[a].of = p /\ desc'[a].next = b
        /\ desc'[b].is = "data" /\ desc'[b].of = p /\ desc'[b].next = c
        /\ desc'[c].is = "status" /\ desc'[c].of = a /\ desc'[c].next = 0
    BY <1>2
  <1>4. /\ info' \in [Desc -> [b : Proc \cup {None}, status : {0, 255}]]
        /\ info'[a].b = p /\ \A d \in Desc \ {a} : info'[d] = info[d]
    BY <1>1 DEF Types, Submitted
  <1>5. Types'
    <2>1. /\ pc' \in [Proc -> {"idle", "alloc", "slot", "wait", "sleep"}]
          /\ idx' \in [Proc -> Desc] /\ bdisk' \in [Proc -> BOOLEAN] /\ free' \subseteq Desc
      BY <1>1, Zenon DEF Types, Submitted
    <2>2. \A d \in Desc : desc'[d].next \in Desc
      <3>1. ASSUME NEW d \in Desc, d \notin {a, b, c}
            PROVE  desc'[d].next \in Desc
        BY <1>1, <1>2, <3>1, Zenon DEF Types
      <3>2. desc'[a].next \in Desc /\ desc'[b].next \in Desc /\ desc'[c].next \in Desc
        BY <1>3, Constants, Zenon
      <3> QED
        BY <3>1, <3>2, Zenon
    <2>3. avail' \in [Desc -> Desc]
      BY <1>1, Zenon DEF Types, Submitted
    <2>4. availIdx' \in 0 .. WIDTH - 1
      BY <1>1, Constants, Zenon DEF Types, Succ, Submitted
    <2> QED
      BY <1>1, <1>2, <1>4, <2>1, <2>2, <2>3, <2>4, Zenon DEF Types, Submitted
  <1>6. Busy' = Busy \cup {p} /\ p \notin Busy
    <2>1. pc \in [Proc -> {"idle", "alloc", "slot", "wait", "sleep"}]
      BY <1>1, Zenon DEF Types
    <2>2. pc[p] = "alloc" /\ pc' = [pc EXCEPT ![p] = "sleep"]
      BY Zenon DEF Submitted
    <2> QED
      BY <2>1, <2>2 DEF Busy
  <1>7. idx'[p] = a /\ \A q \in Busy : idx'[q] = idx[q]
    <2>1. idx \in [Proc -> Desc] /\ idx' = [idx EXCEPT ![p] = a] /\ Busy \subseteq Proc
      BY <1>1, Zenon DEF Types, Busy, Submitted
    <2> QED
      BY <1>6, <2>1, Zenon
  <1>8. ASSUME NEW q \in Busy
        PROVE  /\ idx[q] \in Desc \ {a, b, c} /\ desc[idx[q]].next \in Desc \ {a, b, c}
               /\ desc[desc[idx[q]].next].next \in Desc \ {a, b, c}
    <2>1. {a, b, c} \subseteq free
      BY Zenon DEF Submitted
    <2> QED
      BY <2>1, ChainInUse, Zenon DEF IInv
  <1>9. ASSUME NEW q \in Busy
        PROVE  Chain(idx[q])' = Chain(idx[q]) /\ Linked(q)'
    <2>1. /\ desc'[idx[q]] = desc[idx[q]]
          /\ desc'[desc[idx[q]].next] = desc[desc[idx[q]].next]
          /\ desc'[desc[desc[idx[q]].next].next] = desc[desc[desc[idx[q]].next].next]
          /\ info'[idx[q]] = info[idx[q]] /\ idx'[q] = idx[q]
      BY <1>2, <1>4, <1>7, <1>8, ZenonT(40)
    <2>2. Linked(q)
      BY Zenon DEF IInv, ChainInv
    <2> QED
      BY <2>1, <2>2, Zenon DEF Chain, Linked
  <1>10. Chain(idx[p])' = {a, b, c} /\ Linked(p)'
    <2>1. a # b /\ a # c /\ b # c
      BY Zenon DEF Submitted
    <2>2. Chain(idx[p])' = {a, b, c}
      BY <1>3, <1>7, Zenon DEF Chain
    <2> QED
      BY <1>3, <1>4, <1>7, <2>1, <2>2, ZenonT(40) DEF Linked
  <1>11. ASSUME NEW q \in Busy
         PROVE  Chain(idx[q]) \cap {a, b, c} = {}
    BY <1>8, Zenon DEF Chain
  <1>12. Apart'
    <2>1. \A q, r \in Busy : q # r => Chain(idx[q]) \cap Chain(idx[r]) = {}
      BY Zenon DEF IInv, ChainInv, Apart
    <2>2. ASSUME NEW q \in Busy', NEW r \in Busy', q # r
          PROVE  Chain(idx[q])' \cap Chain(idx[r])' = {}
      <3>1. CASE q \in Busy /\ r \in Busy
        BY <1>9, <2>1, <2>2, <3>1, Zenon
      <3>2. CASE q = p /\ r \in Busy
        BY <1>9, <1>10, <1>11, <3>2, Zenon
      <3>3. CASE q \in Busy /\ r = p
        BY <1>9, <1>10, <1>11, <3>3, Zenon
      <3> QED
        BY <1>6, <2>2, <3>1, <3>2, <3>3, Zenon
    <2> QED
      BY <2>2, Zenon DEF Apart
  <1>13. InUse'
    <2>1. Desc \ free = UNION {Chain(idx[q]) : q \in Busy}
      BY Zenon DEF IInv, ChainInv, InUse
    <2>2. Desc \ free' = (Desc \ free) \cup {a, b, c}
      BY Zenon DEF Submitted
    <2>3. ASSUME NEW x
          PROVE  x \in UNION {Chain(idx[q])' : q \in Busy'}
                 <=> x \in UNION {Chain(idx[q]) : q \in Busy} \/ x \in {a, b, c}
      BY <1>6, <1>9, <1>10, Zenon
    <2>4. Desc \ free' = UNION {Chain(idx[q])' : q \in Busy'}
      BY <2>1, <2>2, <2>3, Zenon
    <2> QED
      BY <2>4, Zenon DEF InUse
  <1> QED
    BY <1>5, <1>6, <1>9, <1>10, <1>12, <1>13, Zenon DEF ChainInv

(* A new request is posted.                                                 *)
LEMMA SubmitEntry ==
  ASSUME IInv, NEW p \in Proc, NEW a \in Desc, NEW b \in Desc, NEW c \in Desc,
         Submitted(p, a, b, c), Posts(a)
  PROVE  EntryInv'
  <1>1. Types
    BY Zenon DEF IInv, ChainInv
  <1>2. a \notin Elems(Posted) /\ a \notin inflight /\ a \notin Elems(Done)
    <2>1. a \in free
      BY Zenon DEF Submitted
    <2> QED
      BY <2>1, Owners, Zenon
  <1>4. Done' = Done /\ inflight' = inflight
    BY Zenon DEF Submitted, Done
  <1>5. Elems(Posted)' = Elems(Posted) \cup {a} /\ Distinct(Posted)'
    BY Zenon DEF Posts
  <1>6. Once'
    BY <1>2, <1>4, <1>5, Zenon DEF IInv, EntryInv, Once
  <1>7. Busy' = Busy \cup {p} /\ p \notin Busy
    <2>1. pc \in [Proc -> {"idle", "alloc", "slot", "wait", "sleep"}]
      BY <1>1, Zenon DEF Types
    <2>2. pc[p] = "alloc" /\ pc' = [pc EXCEPT ![p] = "sleep"]
      BY Zenon DEF Submitted
    <2> QED
      BY <2>1, <2>2 DEF Busy
  <1>8. /\ info'[a].b = p /\ \A d \in Desc \ {a} : info'[d] = info[d]
        /\ idx'[p] = a /\ \A q \in Proc \ {p} : idx'[q] = idx[q]
        /\ bdisk'[p] /\ \A q \in Proc \ {p} : bdisk'[q] = bdisk[q]
        /\ UNCHANGED <<buf, disk>>
    <2>1. /\ info' = [info EXCEPT ![a] = [b |-> p, status |-> 255]]
          /\ bdisk' = [bdisk EXCEPT ![p] = TRUE] /\ idx' = [idx EXCEPT ![p] = a]
          /\ UNCHANGED <<buf, disk>>
      BY Zenon DEF Submitted
    <2>2. /\ info \in [Desc -> [b : Proc \cup {None}, status : {0, 255}]]
          /\ bdisk \in [Proc -> BOOLEAN] /\ idx \in [Proc -> Desc]
      BY <1>1, Zenon DEF Types
    <2>3. info'[a].b = p /\ \A d \in Desc \ {a} : info'[d] = info[d]
      BY <2>1, <2>2
    <2>4. idx'[p] = a /\ \A q \in Proc \ {p} : idx'[q] = idx[q]
      BY <2>1, <2>2
    <2>5. bdisk'[p] /\ \A q \in Proc \ {p} : bdisk'[q] = bdisk[q]
      BY <2>1, <2>2, ZenonT(40)
    <2> QED
      BY <2>1, <2>3, <2>4, <2>5, Zenon
  <1>9. Busy \subseteq Proc
    BY Zenon DEF Busy
  <1>10. ASSUME NEW h \in Elems(Posted) \cup inflight \cup Elems(Done)
         PROVE  Live(h)' /\ info'[h] = info[h] /\ info[h].b \in Busy
    <2>1. h \in Desc /\ h # a /\ info[h].b \in Busy /\ Live(h)
      BY <1>2, Owners, Zenon
    <2>2. info'[h] = info[h] /\ info[h].b \in Proc \ {p} /\ info[h].b \in Busy'
      BY <1>7, <1>8, <1>9, <2>1, Zenon
    <2>3. idx'[info[h].b] = idx[info[h].b] /\ bdisk'[info[h].b] = bdisk[info[h].b]
      BY <1>8, <2>2, Zenon
    <2> QED
      BY <2>1, <2>2, <2>3, Zenon DEF Live
  <1>11. Live(a)'
    BY <1>7, <1>8, Zenon DEF Live
  <1>12. Moved'
    <2>1. ASSUME NEW h \in Elems(Done)
          PROVE  (info[h].status = 0 /\ Agree(info[h].b))'
      <3>1. info'[h] = info[h] /\ buf' = buf /\ disk' = disk
        BY <1>8, <1>10, Zenon
      <3>2. info[h].status = 0 /\ Agree(info[h].b)
        BY Zenon DEF IInv, EntryInv, Moved
      <3> QED
        BY <3>1, <3>2, Zenon DEF Agree
    <2>2. ASSUME NEW q \in Busy', ~ bdisk'[q]
          PROVE  Agree(q)'
      BY <1>7, <1>8, <1>9, <2>2, Zenon DEF IInv, EntryInv, Moved, Agree
    <2> QED
      BY <1>4, <2>1, <2>2, Zenon DEF Moved
  <1> QED
    BY <1>4, <1>5, <1>6, <1>10, <1>11, <1>12, Zenon DEF EntryInv

-----------------------------------------------------------------------------
(* The state after the chain of p is free.                                  *)
Finished(p) ==
  /\ p \in Busy /\ ~ bdisk[p]
  /\ Busy' = Busy \ {p} /\ pc' \in [Proc -> {"idle", "alloc", "slot", "wait", "sleep"}]
  /\ info' \in [Desc -> [b : Proc \cup {None}, status : {0, 255}]]
  /\ \A d \in Desc \ {idx[p]} : info'[d] = info[d]
  /\ free' = free \cup Chain(idx[p])
  /\ desc' = [d \in Desc |-> IF d \in Chain(idx[p]) THEN NoDesc ELSE desc[d]]
  /\ idx' \in [Proc -> Desc] /\ \A q \in Proc \ {p} : idx'[q] = idx[q]
  /\ UNCHANGED <<op, buf, disk, bdisk, avail, availIdx, seen, used, usedIdx, taken,
                 inflight>>

(* free_chain.                                                              *)
LEMMA FinishIs ==
  ASSUME IInv, NEW p \in Proc, Finish(p)
  PROVE  Finished(p)
  <1>1. /\ pc \in [Proc -> {"idle", "alloc", "slot", "wait", "sleep"}]
        /\ info \in [Desc -> [b : Proc \cup {None}, status : {0, 255}]]
        /\ idx \in [Proc -> Desc]
    BY Zenon DEF IInv, ChainInv, Types
  <1>2. /\ pc[p] = "wait" /\ pc' = [WakeSlot(pc) EXCEPT ![p] = "idle"]
        /\ info' = [info EXCEPT ![idx[p]].b = None] /\ idx' = [idx EXCEPT ![p] = 0]
    BY Zenon DEF Finish
  <1>3. /\ p \in Busy /\ Busy' = Busy \ {p}
        /\ pc' \in [Proc -> {"idle", "alloc", "slot", "wait", "sleep"}]
    BY <1>1, <1>2 DEF Busy, WakeSlot
  <1>4. /\ info' \in [Desc -> [b : Proc \cup {None}, status : {0, 255}]]
        /\ \A d \in Desc \ {idx[p]} : info'[d] = info[d]
    BY <1>1, <1>2, SMTT(40)
  <1>5. idx' \in [Proc -> Desc] /\ \A q \in Proc \ {p} : idx'[q] = idx[q]
    BY <1>1, <1>2, Constants
  <1> QED
    BY <1>3, <1>4, <1>5, Zenon DEF Finish, Finished, device

(* The chains of the other requests stay.                                   *)
LEMMA FinishChain ==
  ASSUME IInv, NEW p \in Proc, Finished(p)
  PROVE  ChainInv'
  <1>1. Types /\ p \in Busy /\ Busy' = Busy \ {p} /\ Busy \subseteq Proc
    BY Zenon DEF IInv, ChainInv, Finished, Busy
  <1>2. /\ desc' = [d \in Desc |-> IF d \in Chain(idx[p]) THEN NoDesc ELSE desc[d]]
        /\ \A d \in Desc \ Chain(idx[p]) : desc'[d] = desc[d]
    BY Zenon DEF Finished
  <1>3. Types'
    <2>1. Chain(idx[p]) \subseteq Desc
      BY <1>1, ChainInUse, Zenon DEF IInv, Chain
    <2>2. free' \subseteq Desc
      BY <1>1, <2>1, Zenon DEF Types, Finished
    <2>3. desc' = [d \in Desc |-> desc'[d]]
      BY <1>2, Zenon
    <2>4. NoDesc.next \in Desc
      BY Constants DEF NoDesc
    <2>5. \A d \in Desc : desc'[d].next \in Desc
      <3>1. \A d \in Desc : desc'[d] = NoDesc \/ desc'[d] = desc[d]
        BY <1>2, Zenon
      <3> QED
        BY <1>1, <2>4, <3>1, Zenon DEF Types
    <2> QED
      BY <1>1, <2>2, <2>3, <2>5, Zenon DEF Types, Finished
  <1>4. ASSUME NEW q \in Busy, q # p
        PROVE  /\ Chain(idx[q])' = Chain(idx[q]) /\ Linked(q)'
               /\ Chain(idx[q]) \cap Chain(idx[p]) = {}
    <2>1. Chain(idx[q]) \cap Chain(idx[p]) = {} /\ Linked(q)
      BY <1>1, <1>4, Zenon DEF IInv, ChainInv, Apart
    <2>2. idx[p] \in Chain(idx[p])
      BY Zenon DEF Chain
    <2>3. /\ idx[q] \in Desc \ Chain(idx[p]) /\ desc[idx[q]].next \in Desc \ Chain(idx[p])
          /\ desc[desc[idx[q]].next].next \in Desc \ Chain(idx[p])
      <3>1. /\ idx[q] \in Chain(idx[q]) /\ desc[idx[q]].next \in Chain(idx[q])
            /\ desc[desc[idx[q]].next].next \in Chain(idx[q])
        BY Zenon DEF Chain
      <3> QED
        BY <2>1, <3>1, ChainInUse, Zenon DEF IInv
    <2>4. /\ desc'[idx[q]] = desc[idx[q]]
          /\ desc'[desc[idx[q]].next] = desc[desc[idx[q]].next]
          /\ desc'[desc[desc[idx[q]].next].next] = desc[desc[desc[idx[q]].next].next]
      BY <1>2, <2>3, Zenon
    <2>5. info'[idx[q]] = info[idx[q]] /\ idx'[q] = idx[q]
      BY <1>1, <1>4, <2>2, <2>3, Zenon DEF Finished
    <2> QED
      BY <2>1, <2>4, <2>5, Zenon DEF Chain, Linked
  <1>5. Apart'
    BY <1>1, <1>4, Zenon DEF IInv, ChainInv, Apart
  <1>6. InUse'
    <2>1. Desc \ free = UNION {Chain(idx[q]) : q \in Busy}
      BY Zenon DEF IInv, ChainInv, InUse
    <2>2. Desc \ free' = (Desc \ free) \ Chain(idx[p])
      BY Zenon DEF Finished
    <2>3. ASSUME NEW x \in UNION {Chain(idx[q]) : q \in Busy}, x \notin Chain(idx[p])
          PROVE  x \in UNION {Chain(idx[q])' : q \in Busy'}
      BY <1>1, <1>4, <2>3, Zenon
    <2>4. ASSUME NEW x \in UNION {Chain(idx[q])' : q \in Busy'}
          PROVE  x \in UNION {Chain(idx[q]) : q \in Busy} /\ x \notin Chain(idx[p])
      <3>1. PICK q \in Busy \ {p} : x \in Chain(idx[q])'
        BY <1>1, Zenon
      <3>2. x \in Chain(idx[q]) /\ Chain(idx[q]) \cap Chain(idx[p]) = {}
        BY <1>4, <3>1, Zenon
      <3> QED
        BY <3>2, Zenon
    <2>5. Desc \ free' = UNION {Chain(idx[q])' : q \in Busy'}
      BY <2>1, <2>2, <2>3, <2>4, Zenon
    <2> QED
      BY <2>5, Zenon DEF InUse
  <1> QED
    BY <1>1, <1>3, <1>4, <1>5, <1>6, Zenon DEF ChainInv

(* No other request is affected.                                            *)
LEMMA FinishEntry ==
  ASSUME IInv, NEW p \in Proc, Finished(p)
  PROVE  EntryInv'
  <1>1. Posted' = Posted /\ Done' = Done /\ inflight' = inflight
    BY ZenonT(40) DEF Posted, Done, Finished
  <1>2. /\ ~ bdisk[p] /\ Busy' = Busy \ {p} /\ bdisk' = bdisk /\ buf' = buf /\ disk' = disk
        /\ \A d \in Desc \ {idx[p]} : info'[d] = info[d]
        /\ \A q \in Proc \ {p} : idx'[q] = idx[q]
    BY Zenon DEF Finished
  <1>3. ASSUME NEW h \in Elems(Posted) \cup inflight \cup Elems(Done)
        PROVE  Live(h)' /\ info'[h] = info[h]
    <2>1. h \in Desc /\ info[h].b \in Busy /\ idx[info[h].b] = h /\ bdisk[info[h].b]
      BY Owners, Zenon DEF Live
    <2>2. info[h].b \in Proc \ {p} /\ info[h].b \in Busy'
      BY <1>2, <2>1, Zenon DEF Busy
    <2>3. h # idx[p]
      <3>1. p \in Busy /\ Linked(p) /\ Linked(info[h].b)
        BY <2>1, Zenon DEF IInv, ChainInv, Finished
      <3> QED
        BY <2>1, <2>2, <3>1, Zenon DEF Linked
    <2>4. info'[h] = info[h]
      BY <1>2, <2>1, <2>3, Zenon
    <2> QED
      BY <1>2, <2>1, <2>2, <2>4, Zenon DEF Live
  <1>4. Once'
    BY <1>1, Zenon DEF IInv, EntryInv, Once
  <1>5. Moved'
    <2>1. ASSUME NEW h \in Elems(Done)
          PROVE  (info[h].status = 0 /\ Agree(info[h].b))'
      <3>1. info'[h] = info[h]
        BY <1>3, Zenon
      <3>2. info[h].status = 0 /\ Agree(info[h].b)
        BY Zenon DEF IInv, EntryInv, Moved
      <3> QED
        BY <1>2, <3>1, <3>2, Zenon DEF Agree
    <2>2. ASSUME NEW q \in Busy', ~ bdisk'[q]
          PROVE  Agree(q)'
      BY <1>2, <2>2, Zenon DEF IInv, EntryInv, Moved, Agree
    <2> QED
      BY <1>1, <2>1, <2>2, Zenon DEF Moved
  <1> QED
    BY <1>1, <1>3, <1>4, <1>5, Zenon DEF EntryInv

(* virtio_disk_rw returns.                                                  *)
LEMMA FinishInv ==
  ASSUME IInv, NEW p \in Proc, Finish(p)
  PROVE  IInv'
  BY FinishIs, FinishChain, FinishEntry, Zenon DEF IInv

-----------------------------------------------------------------------------
(* The handler finishes a request: virtio_disk_intr.                        *)
LEMMA IntrEntryInv ==
  ASSUME IInv, IntrEntry, Sees(used[seen % NUM])
  PROVE  IInv'
  <1> DEFINE h == used[seen % NUM]
             b == info[h].b
  <1>1. /\ seen # usedIdx /\ b # None
        /\ bdisk' = [bdisk EXCEPT ![b] = FALSE]
        /\ pc' = [pc EXCEPT ![b] = IF @ = "sleep" THEN "wait" ELSE @]
        /\ seen' = (seen + 1) % WIDTH
        /\ UNCHANGED <<idx, buf, disk, free, desc, info, avail, availIdx, used, usedIdx,
                       taken, inflight>>
    BY Zenon DEF IntrEntry, device, Succ
  <1>2. Types
    BY Zenon DEF IInv, ChainInv
  <1>3. h \in Elems(Done) /\ Elems(Done)' = Elems(Done) \ {h} /\ Distinct(Done)'
    BY Zenon DEF Sees
  <1>4. Posted' = Posted /\ inflight' = inflight
    BY <1>1, Zenon DEF Posted
  <1>5. b \in Proc /\ b \in Busy /\ idx[b] = h /\ Agree(b)
    BY <1>3, Owners, Zenon DEF Busy, IInv, EntryInv, Moved
  <1> HIDE DEF h, b
  <1>6. pc' \in [Proc -> {"idle", "alloc", "slot", "wait", "sleep"}] /\ Busy' = Busy
    <2>1. pc \in [Proc -> {"idle", "alloc", "slot", "wait", "sleep"}]
      BY <1>2, Zenon DEF Types
    <2>2. pc' = [pc EXCEPT ![b] = IF pc[b] = "sleep" THEN "wait" ELSE pc[b]]
      BY <1>1, Zenon
    <2> QED
      BY <1>5, <2>1, <2>2 DEF Busy
  <1>7. /\ bdisk' \in [Proc -> BOOLEAN] /\ ~ bdisk'[b]
        /\ \A q \in Proc \ {b} : bdisk'[q] = bdisk[q]
    <2>1. bdisk \in [Proc -> BOOLEAN] /\ bdisk' = [bdisk EXCEPT ![b] = FALSE]
      BY <1>1, <1>2, Zenon DEF Types
    <2> QED
      BY <1>5, <2>1, Zenon
  <1>8. seen' \in 0 .. WIDTH - 1
    BY <1>1, <1>2, Constants, Zenon DEF Types
  <1>9. Types'
    BY <1>1, <1>2, <1>6, <1>7, <1>8, Zenon DEF Types
  <1>10. ChainInv'
    BY <1>1, <1>6, <1>9, ChainFrame, Zenon DEF IInv
  <1>11. Once'
    BY <1>3, <1>4, Zenon DEF IInv, EntryInv, Once
  <1>12. ASSUME NEW g \in Elems(Posted) \cup inflight \cup Elems(Done), g # h
         PROVE  Live(g)'
    <2>1. g \in Desc /\ info[g].b \in Busy /\ idx[info[g].b] = g /\ bdisk[info[g].b]
      BY Owners, Zenon DEF Live
    <2>2. info[g].b \in Proc \ {b}
      BY <1>5, <1>12, <2>1, Zenon DEF Busy
    <2> QED
      BY <1>1, <1>6, <1>7, <2>1, <2>2, Zenon DEF Live
  <1>13. Moved'
    <2>1. ASSUME NEW q \in Busy', ~ bdisk'[q]
          PROVE  Agree(q)
      <3>1. CASE q = b
        BY <1>5, <3>1, Zenon
      <3>2. CASE q # b
        <4>1. q \in Busy /\ q \in Proc /\ ~ bdisk[q]
          BY <1>6, <1>7, <2>1, <3>2, Zenon DEF Busy
        <4> QED
          BY <4>1, Zenon DEF IInv, EntryInv, Moved
      <3> QED
        BY <3>1, <3>2, Zenon
    <2>2. \A g \in Elems(Done) : info[g].status = 0 /\ Agree(info[g].b)
      BY Zenon DEF IInv, EntryInv, Moved
    <2>3. \A q : Agree(q)' <=> Agree(q)
      BY <1>1, Zenon DEF Agree
    <2> QED
      BY <1>1, <1>3, <2>1, <2>2, <2>3, Zenon DEF Moved
  <1>14. h \notin Elems(Posted) /\ h \notin inflight
    BY <1>3, Zenon DEF IInv, EntryInv, Once
  <1> QED
    BY <1>3, <1>4, <1>10, <1>11, <1>12, <1>13, <1>14, Zenon DEF IInv, EntryInv

(* The device takes a request.                                              *)
LEMMA DeviceTakeInv ==
  ASSUME IInv, DeviceTake, Takes(avail[taken % NUM])
  PROVE  IInv'
  <1> DEFINE h == avail[taken % NUM]
  <1>1. /\ taken # availIdx /\ inflight' = inflight \cup {h}
        /\ taken' = (taken + 1) % WIDTH
        /\ UNCHANGED <<pc, idx, bdisk, buf, disk, free, desc, info, avail, availIdx, used,
                       usedIdx, seen>>
    BY Zenon DEF DeviceTake, driver, Succ
  <1>2. Types
    BY Zenon DEF IInv, ChainInv
  <1>3. h \in Elems(Posted) /\ Elems(Posted)' = Elems(Posted) \ {h} /\ Distinct(Posted)'
    BY Zenon DEF Takes
  <1>4. Done' = Done
    BY <1>1, Zenon DEF Done
  <1>5. h \in Desc
    BY <1>3, Owners, Zenon
  <1> HIDE DEF h
  <1>6. taken' \in 0 .. WIDTH - 1
    BY <1>1, <1>2, Constants, Zenon DEF Types
  <1>7. Types' /\ Busy' = Busy
    BY <1>1, <1>2, <1>5, <1>6, ZenonT(40) DEF Types, Busy
  <1>8. ChainInv'
    BY <1>1, <1>7, ChainFrame, Zenon DEF IInv
  <1>9. Once'
    BY <1>1, <1>3, <1>4, Zenon DEF IInv, EntryInv, Once
  <1>10. \A g : Live(g)' <=> Live(g)
    BY <1>1, <1>7, Zenon DEF Live
  <1>11. Moved'
    BY <1>1, <1>4, <1>7, Zenon DEF IInv, EntryInv, Moved, Agree
  <1> QED
    BY <1>1, <1>3, <1>4, <1>8, <1>9, <1>10, <1>11, Zenon DEF IInv, EntryInv

(* The device finishes the request with header g.                           *)
DeviceFinishes(g) ==
  LET data == desc[desc[g].next]
      status == desc[data.next]
      p == data.of
  IN
  /\ IF desc[g].is = "in"
     THEN buf' = [buf EXCEPT ![p] = disk[desc[g].of]] /\ UNCHANGED disk
     ELSE disk' = [disk EXCEPT ![desc[g].of] = buf[p]] /\ UNCHANGED buf
  /\ info' = [info EXCEPT ![status.of].status = 0]
  /\ used' = [used EXCEPT ![usedIdx % NUM] = g]
  /\ usedIdx' = Succ(usedIdx)
  /\ inflight' = inflight \ {g}
  /\ UNCHANGED <<driver, seen, lock, taken>>

(* The device finishes a request.                                           *)
LEMMA DeviceFinishInv ==
  ASSUME IInv, NEW g \in inflight, DeviceFinishes(g), Returns(g)
  PROVE  IInv'
  <1>1. DeviceFinishes(g)
    BY Zenon
  <1>2. UNCHANGED <<pc, idx, bdisk, free, desc, avail, availIdx, seen, taken>>
    BY <1>1, Zenon DEF DeviceFinishes, driver
  <1>3. Types
    BY Zenon DEF IInv, ChainInv
  <1>4. PICK p \in Proc : p = info[g].b /\ p \in Busy /\ bdisk[p] /\ idx[p] = g /\ g \in Desc
                          /\ desc[g].of = p /\ desc[desc[g].next].of = p
                          /\ desc[desc[desc[g].next].next].of = g
    <2>1. g \in Desc /\ Live(g)
      BY Owners, Zenon
    <2> QED
      BY <2>1, LiveChain, Zenon DEF IInv
  <1>5. /\ IF desc[g].is = "in" THEN buf' = [buf EXCEPT ![p] = disk[p]] /\ UNCHANGED disk
                                ELSE disk' = [disk EXCEPT ![p] = buf[p]] /\ UNCHANGED buf
        /\ info' = [info EXCEPT ![g].status = 0]
        /\ used' = [used EXCEPT ![usedIdx % NUM] = g]
        /\ usedIdx' = (usedIdx + 1) % WIDTH
        /\ inflight' = inflight \ {g}
    BY <1>1, <1>4, Zenon DEF DeviceFinishes, Succ
  <1>6. /\ buf' \in [Proc -> Int] /\ disk' \in [Proc -> Int] /\ Agree(p)'
        /\ \A q \in Proc \ {p} : Agree(q)' <=> Agree(q)
    <2>1. buf \in [Proc -> Int] /\ disk \in [Proc -> Int]
      BY <1>3, Zenon DEF Types
    <2>2. CASE desc[g].is = "in"
      <3>1. buf' = [buf EXCEPT ![p] = disk[p]] /\ disk' = disk
        BY <1>5, <2>2, Zenon
      <3> QED
        BY <2>1, <3>1 DEF Agree
    <2>3. CASE desc[g].is # "in"
      <3>1. disk' = [disk EXCEPT ![p] = buf[p]] /\ buf' = buf
        BY <1>5, <2>3, Zenon
      <3> QED
        BY <2>1, <3>1 DEF Agree
    <2> QED
      BY <2>2, <2>3, Zenon
  <1>7. /\ info' \in [Desc -> [b : Proc \cup {None}, status : {0, 255}]]
        /\ info'[g].status = 0 /\ \A d \in Desc : info'[d].b = info[d].b
        /\ \A d \in Desc \ {g} : info'[d] = info[d]
    <2>1. info \in [Desc -> [b : Proc \cup {None}, status : {0, 255}]]
      BY <1>3, Zenon DEF Types
    <2>2. info' = [info EXCEPT ![g].status = 0] /\ g \in Desc
      BY <1>4, <1>5, Zenon
    <2> QED
      BY <2>1, <2>2
  <1>8. Posted' = Posted
    BY <1>2, Zenon DEF Posted
  <1>9. g \notin Elems(Done) /\ g \notin Elems(Posted)
    BY Zenon DEF IInv, EntryInv, Once
  <1>11. Elems(Done)' = Elems(Done) \cup {g} /\ Distinct(Done)'
    BY Zenon DEF Returns
  <1>12. Types' /\ Busy' = Busy
    <2>1. used' \in [Desc -> Desc]
      BY <1>3, <1>4, <1>5, Zenon DEF Types
    <2>2. usedIdx' \in 0 .. WIDTH - 1
      BY <1>3, <1>5, Constants, Zenon DEF Types
    <2>3. inflight' \subseteq Desc
      BY <1>3, <1>5, Zenon DEF Types
    <2> QED
      BY <1>2, <1>3, <1>6, <1>7, <2>1, <2>2, <2>3, ZenonT(40) DEF Types, Busy
  <1>13. ChainInv'
    BY <1>2, <1>7, <1>12, ChainFrame, Zenon DEF IInv
  <1>14. Once'
    BY <1>5, <1>8, <1>9, <1>11, Zenon DEF IInv, EntryInv, Once
  <1>15. ASSUME NEW h \in Elems(Posted) \cup inflight \cup Elems(Done)
         PROVE  Live(h)'
    BY <1>2, <1>7, <1>12, Owners, ZenonT(40) DEF Live
  <1>16. Moved'
    <2>1. ASSUME NEW h \in Elems(Done)
          PROVE  (info[h].status = 0 /\ Agree(info[h].b))'
      <3>1. h \in Desc /\ h # g /\ info[h].b \in Busy /\ idx[info[h].b] = h
        BY <1>9, Owners, Zenon
      <3>2. info'[h] = info[h] /\ info[h].b \in Proc \ {p}
        BY <1>4, <1>7, <3>1, ZenonT(40) DEF Busy
      <3>3. info[h].status = 0 /\ Agree(info[h].b)
        BY Zenon DEF IInv, EntryInv, Moved
      <3>4. Agree(info[h].b)'
        BY <1>6, <3>2, <3>3, Zenon DEF Agree
      <3> QED
        BY <3>2, <3>3, <3>4, Zenon
    <2>2. (info[g].status = 0 /\ Agree(info[g].b))'
      <3>1. info'[g].b = p
        BY <1>4, <1>7, Zenon
      <3> QED
        BY <1>6, <1>7, <3>1, Zenon DEF Agree
    <2>3. ASSUME NEW q \in Busy', ~ bdisk'[q]
          PROVE  Agree(q)'
      <3>1. q \in Busy /\ q \in Proc \ {p} /\ ~ bdisk[q]
        BY <1>2, <1>4, <1>12, <2>3, Zenon DEF Busy
      <3> QED
        BY <1>6, <3>1, Zenon DEF IInv, EntryInv, Moved
    <2> QED
      BY <1>11, <2>1, <2>2, <2>3, Zenon DEF Moved
  <1> QED
    BY <1>5, <1>8, <1>11, <1>13, <1>14, <1>15, <1>16, Zenon DEF IInv, EntryInv

-----------------------------------------------------------------------------
(* The rings.                                                               *)
LEMMA RingSizes ==
  /\ NUM \in Size /\ WIDTH \in Size /\ Divides(NUM, WIDTH) /\ NUM < WIDTH
  /\ First \in Counter(WIDTH) /\ Desc = Counter(NUM)
  BY DiskAssumption DEF Size, Counter, Divides, Desc

(* Both rings hold headers.                                                 *)
LEMMA Rings ==
  ASSUME Types
  PROVE  /\ IsRing(Desc, avail, taken, availIdx, WIDTH, NUM)
         /\ IsRing(Desc, used, seen, usedIdx, WIDTH, NUM)
  BY RingSizes, Zenon DEF Types, IsRing, Buffer, Counter

(* What the rings hold are sequences of descriptors.                        *)
LEMMA RingSeqs ==
  ASSUME Types
  PROVE  /\ Posted \in Seq(Desc) /\ Len(Posted) = Ahead(taken, availIdx, WIDTH)
         /\ Done \in Seq(Desc) /\ Len(Done) = Ahead(seen, usedIdx, WIDTH)
  <1>1. IsRing(Desc, avail, taken, availIdx, WIDTH, NUM)
    BY Rings, Zenon
  <1>2. IsRing(Desc, used, seen, usedIdx, WIDTH, NUM)
    BY Rings, Zenon
  <1>5. /\ Posted = Held(avail, taken, availIdx, WIDTH, NUM)
        /\ Done = Held(used, seen, usedIdx, WIDTH, NUM)
    BY Zenon DEF Posted, Done, Held, Ahead
  <1>3. Posted \in Seq(Desc) /\ Len(Posted) = Ahead(taken, availIdx, WIDTH)
    BY <1>1, <1>5, HeldLength, SMTT(10)
  <1>4. Done \in Seq(Desc) /\ Len(Done) = Ahead(seen, usedIdx, WIDTH)
    BY <1>2, <1>5, HeldLength, SMTT(10)
  <1> QED
    BY <1>3, <1>4, Zenon

(* Appending an element.                                                    *)
LEMMA AppendElems ==
  ASSUME NEW S, NEW s \in Seq(S), NEW x \in S
  PROVE  /\ Elems(Append(s, x)) = Elems(s) \cup {x}
         /\ Distinct(s) /\ x \notin Elems(s) => Distinct(Append(s, x))
  <1> DEFINE n == Len(s)
             t == Append(s, x)
  <1>1. n \in Nat /\ Len(t) = n + 1 /\ t[n + 1] = x /\ \A k \in 1 .. n : t[k] = s[k]
    BY SeqAppend, SeqLen
  <1> HIDE DEF n, t
  <1>2. \A k : k \in 1 .. n + 1 <=> k \in 1 .. n \/ k = n + 1
    BY <1>1
  <1>3. Elems(t) = Elems(s) \cup {x}
    BY <1>1, <1>2, Zenon DEF Elems, n
  <1>4. ASSUME Distinct(s), x \notin Elems(s)
        PROVE  Distinct(t)
    BY <1>1, <1>2, <1>4, ZenonT(40) DEF Distinct, Elems, n
  <1> QED
    BY <1>3, <1>4, Zenon DEF t

(* Removing the first element.                                              *)
LEMMA TailElems ==
  ASSUME NEW S, NEW s \in Seq(S), s # <<>>, Distinct(s)
  PROVE  /\ Elems(Tail(s)) = Elems(s) \ {s[1]}
         /\ Distinct(Tail(s)) /\ s[1] \in Elems(s)
  <1> DEFINE n == Len(s)
             t == Tail(s)
  <1>1. n \in Nat \ {0} /\ Len(t) = n - 1 /\ \A k \in 1 .. n - 1 : t[k] = s[k + 1]
    <2>1. n \in Nat /\ n # 0
      BY SeqLen, Zenon
    <2> QED
      BY <2>1, SeqTail, Zenon
  <1> HIDE DEF n, t
  <1>2. 1 \in 1 .. n
    BY <1>1
  <1>3. ASSUME NEW k \in 1 .. n - 1
        PROVE  k + 1 \in 1 .. n /\ k + 1 # 1 /\ t[k] = s[k + 1]
    BY <1>1
  <1>4. ASSUME NEW k \in 1 .. n, k # 1
        PROVE  \E j \in 1 .. n - 1 : k = j + 1
    <2>1. k - 1 \in 1 .. n - 1 /\ k = (k - 1) + 1
      BY <1>1, <1>4
    <2> QED
      BY <2>1, Zenon
  <1>5. \A j, k \in 1 .. n - 1 : j + 1 = k + 1 => j = k
    BY <1>1
  <1>6. \A j, k \in 1 .. n : s[j] = s[k] => j = k
    BY Zenon DEF Distinct, n
  <1>7. \A k \in 1 .. n - 1 : t[k] \in Elems(s) /\ t[k] # s[1]
    BY <1>2, <1>3, <1>6, ZenonT(40) DEF Elems, n
  <1>8. \A k \in 1 .. n : s[k] # s[1] => \E j \in 1 .. n - 1 : s[k] = t[j]
    BY <1>3, <1>4, Zenon
  <1>9. Elems(t) = Elems(s) \ {s[1]}
    <2>1. Elems(t) = {t[k] : k \in 1 .. n - 1} /\ Elems(s) = {s[k] : k \in 1 .. n}
      BY <1>1, Zenon DEF Elems, n
    <2>2. ASSUME NEW x \in Elems(s), x # s[1]
          PROVE  x \in Elems(t)
      BY <1>8, <2>1, <2>2, ZenonT(40)
    <2>3. ASSUME NEW x \in Elems(t)
          PROVE  x \in Elems(s) \ {s[1]}
      BY <1>7, <2>1, Zenon
    <2> QED
      BY <2>2, <2>3, Zenon
  <1>10. Distinct(t)
    <2>1. ASSUME NEW j \in 1 .. n - 1, NEW k \in 1 .. n - 1, t[j] = t[k]
          PROVE  j = k
      <3>1. s[j + 1] = s[k + 1] /\ j + 1 \in 1 .. n /\ k + 1 \in 1 .. n
        BY <1>3, <2>1, Zenon
      <3>2. j + 1 = k + 1
        BY <1>6, <3>1, Zenon
      <3> QED
        BY <1>5, <3>2, Zenon
    <2> QED
      BY <1>1, <2>1, Zenon DEF Distinct
  <1> QED
    BY <1>2, <1>9, <1>10, Zenon DEF t, Elems, n

(* virtio_disk_init.                                                        *)
LEMMA InitInv == Init => IInv
  <1> SUFFICES ASSUME Init
               PROVE  IInv
    BY Zenon
  <1>1. Types
    <2>1. /\ pc \in [Proc -> {"idle", "alloc", "slot", "wait", "sleep"}]
          /\ buf \in [Proc -> Int] /\ disk \in [Proc -> Int] /\ bdisk \in [Proc -> BOOLEAN]
          /\ free \subseteq Desc /\ inflight \subseteq Desc
      BY DEF Init
    <2>2. /\ idx \in [Proc -> Desc] /\ avail \in [Desc -> Desc] /\ used \in [Desc -> Desc]
          /\ desc = [d \in Desc |-> desc[d]] /\ \A d \in Desc : desc[d].next \in Desc
      BY Constants DEF Init, NoDesc
    <2>3. info \in [Desc -> [b : Proc \cup {None}, status : {0, 255}]]
      BY DEF Init, NoInfo
    <2> QED
      BY <2>1, <2>2, <2>3, DiskAssumption, Zenon DEF Types, Init, Counter
  <1>2. Busy = {}
    BY Zenon DEF Init, Busy
  <1>3. (\A p \in Busy : Linked(p)) /\ Apart /\ InUse
    BY <1>2, Zenon DEF Init, Apart, InUse
  <1>4. Posted = <<>> /\ Done = <<>> /\ inflight = {}
    <2>1. Held(avail, First, First, WIDTH, NUM) = <<>> /\ Held(used, First, First, WIDTH, NUM) = <<>>
      BY RingSizes, HeldEmpty, Zenon
    <2> QED
      BY <2>1, Zenon DEF Init, Posted, Done, Held, Ahead
  <1>5. Elems(<<>>) = {} /\ Distinct(<<>>)
    BY DEF Elems, Distinct
  <1>6. EntryInv
    BY <1>2, <1>4, <1>5, Zenon DEF EntryInv, Once, Moved
  <1> QED
    BY <1>1, <1>3, <1>6, Zenon DEF IInv, ChainInv

(* The header of a new request enters the ring.                             *)
LEMMA SubmitPosts ==
  ASSUME IInv, NEW p \in Proc, NEW a \in Desc, NEW b \in Desc, NEW c \in Desc,
         Submitted(p, a, b, c), Ahead(taken, availIdx, WIDTH) < NUM
  PROVE  Posts(a)
  <1>1. Types
    BY Zenon DEF IInv, ChainInv
  <1>2. a \notin Elems(Posted)
    <2>1. a \in free
      BY Zenon DEF Submitted
    <2> QED
      BY <2>1, Owners, Zenon
  <1>3. IsRing(Desc, avail, taken, availIdx, WIDTH, NUM)
    BY <1>1, Rings, Zenon
  <1>5. /\ Stores(avail', avail, availIdx % NUM, a)
        /\ availIdx' = (availIdx + 1) % WIDTH /\ taken' = taken
    BY Zenon DEF Submitted, Stores, Succ
  <1>6. Held(avail', taken, (availIdx + 1) % WIDTH, WIDTH, NUM)
          = Append(Held(avail, taken, availIdx, WIDTH, NUM), a)
    BY <1>3, <1>5, RingPut, SMTT(20)
  <1>7. Posted' = Append(Posted, a)
    BY <1>5, <1>6, Zenon DEF Posted, Held, Ahead
  <1>8. Posted \in Seq(Desc) /\ Distinct(Posted)
    BY <1>1, RingSeqs, Zenon DEF IInv, EntryInv, Once
  <1>9. Elems(Append(Posted, a)) = Elems(Posted) \cup {a} /\ Distinct(Append(Posted, a))
    BY <1>2, <1>8, AppendElems, SMTT(20)
  <1>10. Elems(Posted)' = Elems(Posted') /\ (Distinct(Posted)' <=> Distinct(Posted'))
    BY Zenon DEF Elems, Distinct
  <1> QED
    BY <1>7, <1>9, <1>10, Zenon DEF Posts

(* The first entry that a reader of a ring finds, and what it leaves.       *)
LEMMA RingTakes ==
  ASSUME NEW d, NEW a, NEW b, IsRing(Desc, d, a, b, WIDTH, NUM), a # b,
         Distinct(Held(d, a, b, WIDTH, NUM))
  PROVE  /\ d[a % NUM] \in Elems(Held(d, a, b, WIDTH, NUM))
         /\ Elems(Held(d, (a + 1) % WIDTH, b, WIDTH, NUM))
              = Elems(Held(d, a, b, WIDTH, NUM)) \ {d[a % NUM]}
         /\ Distinct(Held(d, (a + 1) % WIDTH, b, WIDTH, NUM))
  <1> DEFINE s == Held(d, a, b, WIDTH, NUM)
  <1>1. s # <<>> /\ Held(d, (a + 1) % WIDTH, b, WIDTH, NUM) = Tail(s)
    BY RingGet, SMTT(20)
  <1>2. s[1] = d[a % NUM]
    BY HeldFirst, SMTT(20)
  <1>3. s \in Seq(Desc)
    BY HeldLength, SMTT(20)
  <1> HIDE DEF s
  <1>4. /\ Elems(Tail(s)) = Elems(s) \ {s[1]}
        /\ Distinct(Tail(s)) /\ s[1] \in Elems(s)
    BY <1>1, <1>3, TailElems, Zenon DEF s
  <1> QED
    BY <1>1, <1>2, <1>4, Zenon DEF s

(* The handler reads the next entry of the used ring.                       *)
LEMMA IntrEntrySees ==
  ASSUME IInv, IntrEntry
  PROVE  Sees(used[seen % NUM])
  <1>1. seen # usedIdx /\ seen' = (seen + 1) % WIDTH /\ UNCHANGED <<used, usedIdx>>
    BY Zenon DEF IntrEntry, device, Succ
  <1>2. IsRing(Desc, used, seen, usedIdx, WIDTH, NUM)
    BY Rings, Zenon DEF IInv, ChainInv
  <1>3. /\ Done = Held(used, seen, usedIdx, WIDTH, NUM)
        /\ Done' = Held(used, (seen + 1) % WIDTH, usedIdx, WIDTH, NUM)
    BY <1>1, Zenon DEF Done, Held, Ahead
  <1>4. Distinct(Held(used, seen, usedIdx, WIDTH, NUM))
    BY <1>3, Zenon DEF IInv, EntryInv, Once
  <1>5. /\ used[seen % NUM] \in Elems(Done)
        /\ Elems(Done') = Elems(Done) \ {used[seen % NUM]} /\ Distinct(Done')
    BY <1>1, <1>2, <1>3, <1>4, RingTakes, Zenon
  <1>6. Elems(Done)' = Elems(Done') /\ (Distinct(Done)' <=> Distinct(Done'))
    BY Zenon DEF Elems, Distinct
  <1> QED
    BY <1>5, <1>6, Zenon DEF Sees

(* The device reads the next entry of the avail ring.                       *)
LEMMA DeviceTakes ==
  ASSUME IInv, DeviceTake
  PROVE  Takes(avail[taken % NUM])
  <1>1. taken # availIdx /\ taken' = (taken + 1) % WIDTH /\ UNCHANGED <<avail, availIdx>>
    BY Zenon DEF DeviceTake, driver, Succ
  <1>2. IsRing(Desc, avail, taken, availIdx, WIDTH, NUM)
    BY Rings, Zenon DEF IInv, ChainInv
  <1>3. /\ Posted = Held(avail, taken, availIdx, WIDTH, NUM)
        /\ Posted' = Held(avail, (taken + 1) % WIDTH, availIdx, WIDTH, NUM)
    BY <1>1, Zenon DEF Posted, Held, Ahead
  <1>4. Distinct(Held(avail, taken, availIdx, WIDTH, NUM))
    BY <1>3, ZenonT(40) DEF IInv, EntryInv, Once
  <1>5. /\ avail[taken % NUM] \in Elems(Posted)
        /\ Elems(Posted') = Elems(Posted) \ {avail[taken % NUM]} /\ Distinct(Posted')
    BY <1>1, <1>2, <1>3, <1>4, RingTakes, Zenon
  <1>6. Elems(Posted)' = Elems(Posted') /\ (Distinct(Posted)' <=> Distinct(Posted'))
    BY Zenon DEF Elems, Distinct
  <1> QED
    BY <1>5, <1>6, Zenon DEF Takes

(* The device writes an entry of the used ring.                             *)
LEMMA DeviceReturns ==
  ASSUME IInv, NEW g \in inflight, DeviceFinishes(g), Ahead(seen, usedIdx, WIDTH) < NUM
  PROVE  Returns(g)
  <1>1. Types /\ g \in Desc /\ g \notin Elems(Done)
    BY Zenon DEF IInv, ChainInv, Types, EntryInv, Once
  <1>2. IsRing(Desc, used, seen, usedIdx, WIDTH, NUM)
    BY <1>1, Rings, Zenon
  <1>4. /\ Stores(used', used, usedIdx % NUM, g)
        /\ usedIdx' = (usedIdx + 1) % WIDTH /\ seen' = seen
    BY Zenon DEF DeviceFinishes, Stores, Succ
  <1>5. Held(used', seen, (usedIdx + 1) % WIDTH, WIDTH, NUM)
          = Append(Held(used, seen, usedIdx, WIDTH, NUM), g)
    BY <1>1, <1>2, <1>4, RingPut, SMTT(20)
  <1>6. Done' = Append(Done, g)
    BY <1>4, <1>5, Zenon DEF Done, Held, Ahead
  <1>7. Done \in Seq(Desc) /\ Distinct(Done)
    BY <1>1, RingSeqs, Zenon DEF IInv, EntryInv, Once
  <1>8. Elems(Append(Done, g)) = Elems(Done) \cup {g} /\ Distinct(Append(Done, g))
    BY <1>1, <1>7, AppendElems, SMTT(20)
  <1>9. Elems(Done)' = Elems(Done') /\ (Distinct(Done)' <=> Distinct(Done'))
    BY Zenon DEF Elems, Distinct
  <1> QED
    BY <1>6, <1>8, <1>9, Zenon DEF Returns

(* Used entries are those of requests under way.                            *)
LEMMA DoneLive ==
  ASSUME IInv
  PROVE  EntriesAreLive
  <1>1. Types
    BY Zenon DEF IInv, ChainInv
  <1>2. /\ WIDTH \in Nat /\ usedIdx \in Int /\ seen \in Nat
        /\ Len(Done) = Ahead(seen, usedIdx, WIDTH) /\ Ahead(seen, usedIdx, WIDTH) \in Nat
    <2>1. WIDTH \in Size /\ usedIdx \in Counter(WIDTH) /\ seen \in Counter(WIDTH)
      BY <1>1, RingSizes, Zenon DEF Types, Counter
    <2>2. WIDTH \in Nat /\ usedIdx \in Int /\ seen \in Nat
      BY <2>1 DEF Size, Counter
    <2>3. Len(Done) = Ahead(seen, usedIdx, WIDTH)
      BY <1>1, RingSeqs, Zenon
    <2>4. Ahead(seen, usedIdx, WIDTH) \in Nat
      BY <2>1, <2>2, Distance DEF Counter
    <2> QED
      BY <2>2, <2>3, <2>4, Zenon
  <1>3. usedIdx - seen + WIDTH = usedIdx + WIDTH - seen
    BY <1>2
  <1>4. ASSUME NEW k \in 0 .. ((usedIdx - seen + WIDTH) % WIDTH) - 1
        PROVE  used[(seen + k) % NUM] \in Elems(Done)
    <2>1. k \in 0 .. Ahead(seen, usedIdx, WIDTH) - 1
      BY <1>3, Zenon DEF Ahead
    <2>2. k + 1 \in 1 .. Ahead(seen, usedIdx, WIDTH) /\ seen + (k + 1) - 1 = seen + k
      BY <1>2, <2>1
    <2>3. Done[k + 1] = used[(seen + k) % NUM]
      BY <2>2, Zenon DEF Done, Ahead
    <2> QED
      BY <1>2, <2>2, <2>3, Zenon DEF Elems
  <1>5. ASSUME NEW h \in Elems(Done)
        PROVE  /\ info[h].status = 0
               /\ info[h].b \in Busy /\ idx[info[h].b] = h /\ bdisk[info[h].b]
    BY Owners, Zenon DEF IInv, EntryInv, Moved, Live
  <1> QED
    BY <1>4, <1>5, Zenon DEF EntriesAreLive

-----------------------------------------------------------------------------
(* The rest counts descriptors.                                             *)
INSTANCE FiniteSetTheorems

(* Sizes.                                                                   *)
LEMMA Sizes ==
  /\ NUM \in Size /\ WIDTH \in Size /\ Divides(NUM, WIDTH) /\ NUM < WIDTH
  /\ First \in Counter(WIDTH)
  /\ Desc = Counter(NUM) /\ Desc \subseteq Nat
  /\ IsFiniteSet(Desc) /\ Cardinality(Desc) = NUM
  <1>1. /\ NUM \in Size /\ WIDTH \in Size /\ Divides(NUM, WIDTH) /\ NUM < WIDTH
        /\ First \in Counter(WIDTH) /\ Desc = Counter(NUM)
    BY RingSizes, Zenon
  <1>2. Desc \subseteq Nat
    BY DiskAssumption DEF Desc
  <1>3. NUM - 1 \in Int /\ 0 \in Int /\ ~ (0 > NUM - 1) /\ NUM - 1 - 0 + 1 = NUM
    BY DiskAssumption
  <1>4. IsFiniteSet(Desc) /\ Cardinality(Desc) = NUM
    BY <1>3, FS_Interval, ZenonT(40) DEF Desc
  <1> QED
    BY <1>1, <1>2, <1>4, ZenonT(40)

(* A set of naturals has a least element.                                   *)
LEMMA LeastNat ==
  ASSUME NEW S \in SUBSET Nat, S # {}
  PROVE  \E k \in S : \A j \in S : k <= j
  <1>1. \E k \in S : \A j \in S : <<j, k>> \notin OpToRel(<, Nat)
    BY ZenonT(30), NatLessThanWellFounded, WFMin
  <1>2. PICK k \in S : \A j \in S : <<j, k>> \notin OpToRel(<, Nat)
    BY ZenonT(30), <1>1
  <1>3. \A j \in S : ~(j < k)
    BY ZenonT(30), <1>2 DEF OpToRel
  <1> QED
    BY <1>3

(* The first free descriptor that alloc_desc finds is free.                 *)
LEMMA MinIn ==
  ASSUME NEW S \in SUBSET Desc, S # {}
  PROVE  Min(S) \in S
  <1>1. S \in SUBSET Nat
    BY Sizes, Zenon
  <1>2. \E k \in S : \A j \in S : k <= j
    BY <1>1, LeastNat, ZenonT(30)
  <1> QED
    BY <1>2, Zenon DEF Min

(* What alloc3_desc returns.                                                *)
FreeA == Min(free)
FreeB == Min(free \ {FreeA})
FreeC == Min(free \ {FreeA, FreeB})

(* With three free descriptors, alloc3_desc finds three different ones.     *)
LEMMA ThreeFree ==
  ASSUME Types, Cardinality(free) >= 3
  PROVE  /\ {FreeA, FreeB, FreeC} \subseteq free
         /\ FreeA # FreeB /\ FreeA # FreeC /\ FreeB # FreeC
  <1>1. free \in SUBSET Desc /\ IsFiniteSet(free) /\ Cardinality(free) \in Nat
    BY Sizes, FS_Subset, FS_CardinalityType, ZenonT(40) DEF Types
  <1>2. free # {}
    <2>1. Cardinality(free) # 0
      BY <1>1, SMTT(40)
    <2> QED
      BY <2>1, FS_EmptySet, ZenonT(40)
  <1>3. FreeA \in free
    BY <1>1, <1>2, MinIn, ZenonT(40) DEF FreeA
  <1>4. /\ IsFiniteSet(free \ {FreeA})
        /\ Cardinality(free \ {FreeA}) = Cardinality(free) - 1
    BY <1>1, <1>3, FS_RemoveElement, ZenonT(40)
  <1>5. free \ {FreeA} # {}
    <2>1. Cardinality(free \ {FreeA}) # 0
      BY <1>1, <1>4, SMTT(40)
    <2> QED
      BY <2>1, FS_EmptySet, ZenonT(40)
  <1>6. FreeB \in free \ {FreeA}
    <2>1. free \ {FreeA} \in SUBSET Desc
      BY <1>1, Zenon
    <2> QED
      BY <1>5, <2>1, MinIn, ZenonT(40) DEF FreeB
  <1>7. /\ IsFiniteSet((free \ {FreeA}) \ {FreeB})
        /\ Cardinality((free \ {FreeA}) \ {FreeB}) = Cardinality(free \ {FreeA}) - 1
    BY <1>4, <1>6, FS_RemoveElement, ZenonT(40)
  <1>8. (free \ {FreeA}) \ {FreeB} = free \ {FreeA, FreeB}
    BY Zenon
  <1>9. free \ {FreeA, FreeB} # {}
    <2>1. Cardinality((free \ {FreeA}) \ {FreeB}) # 0
      BY <1>1, <1>4, <1>7, SMTT(40)
    <2> QED
      BY <1>8, <2>1, FS_EmptySet, ZenonT(40)
  <1>10. FreeC \in free \ {FreeA, FreeB}
    <2>1. free \ {FreeA, FreeB} \in SUBSET Desc
      BY <1>1, Zenon
    <2> QED
      BY <1>9, <2>1, MinIn, ZenonT(40) DEF FreeC
  <1> QED
    BY <1>3, <1>6, <1>10, ZenonT(40)

(* A sequence of different elements is no longer than their number.         *)
LEMMA DistinctBound ==
  ASSUME NEW S, NEW s \in Seq(S), Distinct(s), NEW T, IsFiniteSet(T), Elems(s) \subseteq T
  PROVE  Len(s) <= Cardinality(T)
  <1>1. Len(s) \in Nat /\ s \in [1 .. Len(s) -> S]
    BY SeqLen, ZenonT(30)
  <1>2. s \in Injection(1 .. Len(s), T)
    <2>1. s \in [1 .. Len(s) -> T]
      BY <1>1, Zenon DEF Elems
    <2> QED
      BY <2>1, Zenon DEF Injection, Distinct, IsInjective
  <1>3. Cardinality(1 .. Len(s)) <= Cardinality(T)
    BY <1>2, FS_Injection, ZenonT(30)
  <1>4. Cardinality(1 .. Len(s)) = Len(s)
    BY <1>1, FS_Interval, SMTT(40)
  <1> QED
    BY <1>3, <1>4, Zenon

(* Where a request posts its header the ring has no other entry: there are  *)
(* fewer unfinished requests than descriptors.                              *)
LEMMA RingsHaveRoom ==
  ASSUME IInv, NEW h \in Desc
  PROVE  /\ h \notin Elems(Posted) => Ahead(taken, availIdx, WIDTH) < NUM
         /\ h \notin Elems(Done) => Ahead(seen, usedIdx, WIDTH) < NUM
  <1>1. /\ Posted \in Seq(Desc) /\ Len(Posted) = Ahead(taken, availIdx, WIDTH)
        /\ Done \in Seq(Desc) /\ Len(Done) = Ahead(seen, usedIdx, WIDTH)
    BY RingSeqs, Zenon DEF IInv, ChainInv
  <1>2. IsFiniteSet(Desc \ {h}) /\ Cardinality(Desc \ {h}) = NUM - 1
    BY Sizes, FS_RemoveElement, ZenonT(40)
  <1>3. ASSUME NEW s \in Seq(Desc), Distinct(s), h \notin Elems(s)
        PROVE  Len(s) < NUM
    <2>1. s \in [1 .. Len(s) -> Desc] /\ Len(s) \in Nat
      BY SeqLen, Zenon
    <2>2. Elems(s) \subseteq Desc \ {h}
      BY <1>3, <2>1, ZenonT(40) DEF Elems
    <2>3. Len(s) <= NUM - 1
      BY <1>2, <1>3, <2>2, DistinctBound, ZenonT(40)
    <2> QED
      BY <2>1, <2>3, DiskAssumption, SMTT(40)
  <1>4. Distinct(Posted) /\ Distinct(Done)
    BY Zenon DEF IInv, EntryInv, Once
  <1> QED
    BY <1>1, <1>3, <1>4, Zenon

(* virtio_disk_rw allocates three descriptors.                              *)
LEMMA SubmitIs ==
  ASSUME IInv, NEW p \in Proc, Submit(p)
  PROVE  \E a, b, c \in Desc : Submitted(p, a, b, c)
  <1>1. Types /\ free \subseteq Desc
    BY Zenon DEF IInv, ChainInv, Types
  <1>2. Cardinality(free) >= 3
    BY Zenon DEF Submit
  <1>3. /\ {FreeA, FreeB, FreeC} \subseteq free
        /\ FreeA # FreeB /\ FreeA # FreeC /\ FreeB # FreeC
    BY <1>1, <1>2, ThreeFree, ZenonT(40)
  <1>4. Submitted(p, FreeA, FreeB, FreeC)
    BY <1>3, Zenon DEF Submit, Submitted, FreeA, FreeB, FreeC, device
  <1> QED
    BY <1>1, <1>3, <1>4, ZenonT(40)

(* virtio_disk_rw makes a request.                                          *)
LEMMA SubmitInv ==
  ASSUME IInv, NEW p \in Proc, Submit(p)
  PROVE  IInv'
  <1>1. PICK a, b, c \in Desc : Submitted(p, a, b, c)
    BY SubmitIs, Zenon
  <1>2. Ahead(taken, availIdx, WIDTH) < NUM
    <2>1. a \in free
      BY <1>1, Zenon DEF Submitted
    <2>2. a \notin Elems(Posted)
      BY <2>1, Owners, ZenonT(40)
    <2> QED
      BY <2>2, RingsHaveRoom, ZenonT(40)
  <1> QED
    BY <1>1, <1>2, SubmitPosts, SubmitChain, SubmitEntry, ZenonT(40) DEF IInv

-----------------------------------------------------------------------------
(* Every step keeps the invariant.                                          *)
LEMMA NextInv == IInv /\ [Next]_vars => IInv'
  <1> SUFFICES ASSUME IInv, [Next]_vars
               PROVE  IInv'
    BY Zenon
  <1>1. ASSUME NEW p \in Proc, Start(p) \/ AllocFails(p) \/ Submit(p) \/ Finish(p)
        PROVE  IInv'
    BY <1>1, StartInv, AllocFailsInv, SubmitInv, FinishInv, ZenonT(40)
  <1>2. CASE IntrStart \/ IntrEnd \/ UNCHANGED vars
    BY <1>2, IntrEndsInv, ZenonT(40)
  <1>3. CASE IntrEntry
    BY <1>3, IntrEntrySees, IntrEntryInv, ZenonT(40)
  <1>4. CASE DeviceTake
    BY <1>4, DeviceTakes, DeviceTakeInv, ZenonT(40)
  <1>5. CASE DeviceFinish
    <2>1. PICK g \in inflight : DeviceFinishes(g)
      BY <1>5, Zenon DEF DeviceFinish, DeviceFinishes
    <2>2. Ahead(seen, usedIdx, WIDTH) < NUM
      <3>1. g \in Desc /\ g \notin Elems(Done)
        BY Zenon DEF IInv, ChainInv, Types, EntryInv, Once
      <3> QED
        BY <3>1, RingsHaveRoom, ZenonT(40)
    <2> QED
      BY <2>1, <2>2, DeviceReturns, DeviceFinishInv, ZenonT(40)
  <1> QED
    BY <1>1, <1>2, <1>3, <1>4, <1>5, ZenonT(40) DEF Next

(* The invariant of the driver and the device.                              *)
LEMMA InvAlways == Spec => []IInv
  BY InitInv, NextInv, PTL DEF Spec

(* Three descriptors make up a chain.                                       *)
LEMMA ThreeInChain ==
  ASSUME NEW a, NEW b, NEW c, a # b, a # c, b # c
  PROVE  Cardinality({a, b, c}) = 3
  <1>1. IsFiniteSet({a}) /\ Cardinality({a}) = 1
    BY FS_Singleton, Zenon
  <1>2. IsFiniteSet({a} \cup {b}) /\ Cardinality({a} \cup {b}) = Cardinality({a}) + 1
    BY <1>1, FS_AddElement, ZenonT(40)
  <1>3. Cardinality(({a} \cup {b}) \cup {c}) = Cardinality({a} \cup {b}) + 1
    BY <1>2, FS_AddElement, ZenonT(40)
  <1>4. {a, b, c} = ({a} \cup {b}) \cup {c}
    BY Zenon
  <1> QED
    BY <1>1, <1>2, <1>3, <1>4, SMTT(40)

(* What the run checks.                                                     *)
LEMMA InvRings == IInv => RingsSound
  <1> SUFFICES ASSUME IInv
               PROVE  RingsSound
    BY Zenon
  <1>1. TypeOK
    BY ZenonT(40) DEF IInv, ChainInv, Types, TypeOK
  <1>2. ASSUME NEW p \in Busy
        PROVE  Cardinality(Chain(idx[p])) = 3
    <2>1. Linked(p)
      BY Zenon DEF IInv, ChainInv
    <2> DEFINE a == idx[p]
               b == desc[a].next
               c == desc[b].next
    <2>2. a # b /\ a # c /\ b # c
      BY <2>1, Zenon DEF Linked
    <2>3. Chain(idx[p]) = {a, b, c}
      BY Zenon DEF Chain
    <2> HIDE DEF a, b, c
    <2>4. Cardinality({a, b, c}) = 3
      BY <2>2, ThreeInChain, ZenonT(40)
    <2> QED
      BY <2>3, <2>4, Zenon
  <1>3. ChainsPartition
    BY <1>2, Zenon DEF IInv, ChainInv, ChainsPartition, Apart, InUse
  <1> QED
    BY <1>1, <1>3, DoneLive, ZenonT(40) DEF RingsSound

(* For any number of descriptors and processes, the rings of the disk       *)
(* driver and its chains agree on the requests under way: alloc3_desc and   *)
(* free_chain lose no descriptor and give none to two requests, and an      *)
(* entry of the used ring belongs to a request that still waits for it,     *)
(* when the 16-bit indices wrap too.                                        *)
THEOREM DiskRingsSound == Spec => []RingsSound
  BY InvAlways, InvRings, PTL

-----------------------------------------------------------------------------
(* Which way the data go.  Until the device has worked on it, the version   *)
(* that a request is to move is on the disk for a read and in the buffer    *)
(* for a write; and the header of its chain says which it is.               *)
Source(p) == IF op[p].dir = "in" THEN disk[p] = op[p].ver ELSE buf[p] = op[p].ver

WayInv ==
  /\ op \in [Proc -> [dir : {"in", "out"}, ver : Int]]
  /\ \A p \in Proc : pc[p] # "idle" => Source(p)
  /\ \A p \in Busy : desc[idx[p]].is = op[p].dir

(* A step that moves no data and starts no request.                         *)
LEMMA WayFrame ==
  ASSUME WayInv, UNCHANGED <<op, buf, disk>>, Busy' \subseteq Busy,
         \A p \in Proc : pc'[p] # "idle" => pc[p] # "idle",
         \A p \in Busy' : desc'[idx'[p]].is = desc[idx[p]].is
  PROVE  WayInv'
  BY ZenonT(40) DEF WayInv, Source

(* bread and bwrite.                                                        *)
LEMMA StartWay ==
  ASSUME IInv, WayInv, NEW p \in Proc, Start(p)
  PROVE  WayInv'
  <1>1. /\ pc[p] = "idle" /\ pc' = [pc EXCEPT ![p] = "alloc"]
        /\ buf' = [buf EXCEPT ![p] = 1 - disk[p]]
        /\ UNCHANGED <<idx, disk, desc>>
    BY Zenon DEF Start
  <1>2. PICK o \in {"in", "out"} :
          op' = [op EXCEPT ![p] =
                   [dir |-> o, ver |-> IF o = "in" THEN disk[p] ELSE 1 - disk[p]]]
    BY Zenon DEF Start
  <1>3. /\ pc \in [Proc -> {"idle", "alloc", "slot", "wait", "sleep"}]
        /\ buf \in [Proc -> Int] /\ disk \in [Proc -> Int]
    BY Zenon DEF IInv, ChainInv, Types
  <1>4. Busy' = Busy /\ p \notin Busy /\ Busy \subseteq Proc
    BY <1>1, <1>3, ZenonT(40) DEF Busy
  <1>5. op \in [Proc -> [dir : {"in", "out"}, ver : Int]]
    BY Zenon DEF WayInv
  <1>6. op' \in [Proc -> [dir : {"in", "out"}, ver : Int]]
    BY <1>2, <1>3, <1>5
  <1>7. \A q \in Proc \ {p} : op'[q] = op[q] /\ buf'[q] = buf[q] /\ pc'[q] = pc[q]
    BY <1>1, <1>2, <1>3, <1>5
  <1>8. Source(p)'
    BY <1>1, <1>2, <1>3, <1>5 DEF Source
  <1>9. ASSUME NEW q \in Proc, pc'[q] # "idle"
        PROVE  Source(q)'
    <2>1. CASE q = p
      BY <1>8, <2>1, Zenon
    <2>2. CASE q # p
      BY <1>1, <1>7, <1>9, <2>2, ZenonT(40) DEF WayInv, Source
    <2> QED
      BY <2>1, <2>2, Zenon
  <1>10. \A q \in Busy' : desc'[idx'[q]].is = op'[q].dir
    BY <1>1, <1>4, <1>7, ZenonT(40) DEF WayInv
  <1> QED
    BY <1>6, <1>9, <1>10, Zenon DEF WayInv

(* virtio_disk_rw makes a request: its header says which way.               *)
LEMMA SubmitWay ==
  ASSUME IInv, WayInv, NEW p \in Proc, Submit(p)
  PROVE  WayInv'
  <1>1. PICK a, b, c \in Desc : Submitted(p, a, b, c)
    BY SubmitIs, Zenon
  <1>2. Types
    BY Zenon DEF IInv, ChainInv
  <1>3. /\ desc'[a] = [is |-> op[p].dir, of |-> p, next |-> b]
        /\ \A d \in Desc \ {a, b, c} : desc'[d] = desc[d]
    BY <1>1, <1>2, ZenonT(40) DEF Types, Submitted
  <1>4. desc'[a].is = op[p].dir
    BY <1>3
  <1>5. /\ pc[p] = "alloc" /\ pc' = [pc EXCEPT ![p] = "sleep"]
        /\ idx' = [idx EXCEPT ![p] = a] /\ UNCHANGED <<op, buf, disk>>
        /\ {a, b, c} \subseteq free
    BY <1>1, Zenon DEF Submitted
  <1>6. /\ pc \in [Proc -> {"idle", "alloc", "slot", "wait", "sleep"}]
        /\ idx \in [Proc -> Desc]
    BY <1>2, Zenon DEF Types
  <1>7. Busy' = Busy \cup {p} /\ Busy \subseteq Proc
    BY <1>5, <1>6 DEF Busy
  <1>8. idx'[p] = a /\ \A q \in Proc \ {p} : idx'[q] = idx[q] /\ pc'[q] = pc[q]
    BY <1>5, <1>6
  <1>9. ASSUME NEW q \in Busy', q # p
        PROVE  desc'[idx'[q]].is = op'[q].dir
    <2>1. q \in Busy /\ q \in Proc
      BY <1>7, <1>9, Zenon
    <2>2. idx[q] \in Desc /\ idx[q] \notin free
      BY <2>1, ChainInUse, Zenon DEF IInv
    <2>3. idx[q] \in Desc \ {a, b, c}
      BY <1>5, <2>2, Zenon
    <2>4. idx'[q] = idx[q] /\ op' = op
      BY <1>5, <1>8, <1>9, <2>1, Zenon
    <2>5. desc'[idx[q]] = desc[idx[q]]
      BY <1>3, <2>3, Zenon
    <2>6. desc[idx[q]].is = op[q].dir
      BY <2>1, Zenon DEF WayInv
    <2> QED
      BY <2>4, <2>5, <2>6, Zenon
  <1>10. \A q \in Busy' : desc'[idx'[q]].is = op'[q].dir
    BY <1>4, <1>5, <1>8, <1>9, ZenonT(40)
  <1>11. \A q \in Proc : pc'[q] # "idle" => Source(q)'
    BY <1>5, <1>8, ZenonT(40) DEF WayInv, Source
  <1> QED
    BY <1>5, <1>10, <1>11, Zenon DEF WayInv

(* The device finishes a request, the way its header says.                  *)
LEMMA DeviceFinishWay ==
  ASSUME IInv, WayInv, NEW g \in inflight, DeviceFinishes(g)
  PROVE  WayInv'
  <1>1. UNCHANGED <<pc, op, idx, desc>>
    BY Zenon DEF DeviceFinishes, driver
  <1>2. PICK p \in Proc : p \in Busy /\ idx[p] = g
                          /\ desc[g].of = p /\ desc[desc[g].next].of = p
    <2>1. g \in Desc /\ Live(g)
      BY Owners, Zenon
    <2>2. ChainInv
      BY Zenon DEF IInv
    <2>3. /\ info[g].b \in Proc /\ info[g].b \in Busy /\ idx[info[g].b] = g
          /\ desc[g].of = info[g].b /\ desc[desc[g].next].of = info[g].b
      BY <2>1, <2>2, LiveChain, ZenonT(40)
    <2> QED
      BY <2>3, Zenon
  <1>3. IF desc[g].is = "in" THEN buf' = [buf EXCEPT ![p] = disk[p]] /\ UNCHANGED disk
                             ELSE disk' = [disk EXCEPT ![p] = buf[p]] /\ UNCHANGED buf
    BY <1>2, Zenon DEF DeviceFinishes
  <1>4. desc[g].is = op[p].dir
    BY <1>2, Zenon DEF WayInv
  <1>5. buf \in [Proc -> Int] /\ disk \in [Proc -> Int]
    BY Zenon DEF IInv, ChainInv, Types
  <1>6. ASSUME NEW q \in Proc, pc'[q] # "idle"
        PROVE  Source(q)'
    <2>1. Source(q)
      BY <1>1, <1>6, Zenon DEF WayInv
    <2>2. CASE desc[g].is = "in"
      <3>1. disk' = disk /\ \A r \in Proc \ {p} : buf'[r] = buf[r]
        BY <1>3, <1>5, <2>2
      <3> QED
        BY <1>1, <1>4, <2>1, <2>2, <3>1, ZenonT(40) DEF Source
    <2>3. CASE desc[g].is # "in"
      <3>1. buf' = buf /\ \A r \in Proc \ {p} : disk'[r] = disk[r]
        BY <1>3, <1>5, <2>3
      <3> QED
        BY <1>1, <1>4, <2>1, <2>3, <3>1, ZenonT(40) DEF Source
    <2> QED
      BY <2>2, <2>3, Zenon
  <1>7. Busy' = Busy
    BY <1>1, Zenon DEF Busy
  <1> QED
    BY <1>1, <1>6, <1>7, ZenonT(40) DEF WayInv

(* The chain of p is freed; those of the others stay.                       *)
LEMMA FinishWay ==
  ASSUME IInv, WayInv, NEW p \in Proc, Finish(p)
  PROVE  WayInv'
  <1>1. Finished(p)
    BY FinishIs, Zenon
  <1>2. /\ p \in Busy /\ Busy' = Busy \ {p} /\ Busy \subseteq Proc
        /\ desc' = [d \in Desc |-> IF d \in Chain(idx[p]) THEN NoDesc ELSE desc[d]]
        /\ \A q \in Proc \ {p} : idx'[q] = idx[q]
        /\ UNCHANGED <<op, buf, disk>>
    BY <1>1, Zenon DEF Finished, Busy
  <1>3. /\ pc \in [Proc -> {"idle", "alloc", "slot", "wait", "sleep"}]
        /\ idx \in [Proc -> Desc]
    BY Zenon DEF IInv, ChainInv, Types
  <1>4. pc' = [WakeSlot(pc) EXCEPT ![p] = "idle"]
    BY Zenon DEF Finish
  <1>5. \A q \in Proc : pc'[q] # "idle" => pc[q] # "idle"
    BY <1>3, <1>4 DEF WakeSlot
  <1>6. ASSUME NEW q \in Busy'
        PROVE  desc'[idx'[q]].is = desc[idx[q]].is
    <2>1. q \in Busy /\ q \in Proc /\ q # p
      BY <1>2, Zenon
    <2>2. Chain(idx[q]) \cap Chain(idx[p]) = {}
      BY <1>2, <2>1, Zenon DEF IInv, ChainInv, Apart
    <2>3. idx[q] \in Desc /\ idx[q] \notin Chain(idx[p])
      BY <1>3, <2>1, <2>2, ZenonT(40) DEF Chain
    <2> QED
      BY <1>2, <2>1, <2>3, ZenonT(40)
  <1> QED
    BY <1>2, <1>5, <1>6, WayFrame, ZenonT(40)

(* The steps that leave the requests as they are.                           *)
LEMMA OtherWay ==
  ASSUME IInv, WayInv, NEW p \in Proc,
         AllocFails(p) \/ IntrStart \/ IntrEntry \/ IntrEnd \/ DeviceTake \/ UNCHANGED vars
  PROVE  WayInv'
  <1>1. pc \in [Proc -> {"idle", "alloc", "slot", "wait", "sleep"}]
    BY Zenon DEF IInv, ChainInv, Types
  <1>2. CASE AllocFails(p)
    <2>1. /\ pc[p] = "alloc" /\ UNCHANGED <<op, buf, disk, idx, desc>>
          /\ pc' = [(IF free = {} THEN pc ELSE WakeSlot(pc)) EXCEPT ![p] = "slot"]
      BY <1>2, Zenon DEF AllocFails
    <2>2. Busy' \subseteq Busy /\ \A q \in Proc : pc'[q] # "idle" => pc[q] # "idle"
      BY <1>1, <2>1 DEF Busy, WakeSlot
    <2> QED
      BY <2>1, <2>2, WayFrame, Zenon
  <1>3. CASE IntrEntry
    <2>1. PICK b : pc' = [pc EXCEPT ![b] = IF @ = "sleep" THEN "wait" ELSE @]
      BY <1>3, Zenon DEF IntrEntry
    <2>2. Busy' \subseteq Busy /\ \A q \in Proc : pc'[q] # "idle" => pc[q] # "idle"
      BY <1>1, <2>1 DEF Busy
    <2>3. UNCHANGED <<op, buf, disk, idx, desc>>
      BY <1>3, Zenon DEF IntrEntry
    <2> QED
      BY <2>2, <2>3, WayFrame, Zenon
  <1>4. CASE IntrStart \/ IntrEnd \/ DeviceTake \/ UNCHANGED vars
    <2>1. UNCHANGED <<op, buf, disk, idx, desc, pc>>
      BY <1>4, ZenonT(40) DEF IntrStart, IntrEnd, DeviceTake, vars, driver
    <2>2. Busy' = Busy
      BY <2>1, Zenon DEF Busy
    <2> QED
      BY <2>1, <2>2, WayFrame, Zenon
  <1> QED
    BY <1>2, <1>3, <1>4, Zenon

(* Every step keeps it.                                                     *)
LEMMA NextWay == IInv /\ WayInv /\ [Next]_vars => WayInv'
  <1> SUFFICES ASSUME IInv, WayInv, [Next]_vars
               PROVE  WayInv'
    BY Zenon
  <1>1. ASSUME NEW p \in Proc, Start(p) \/ AllocFails(p) \/ Submit(p) \/ Finish(p)
        PROVE  WayInv'
    BY <1>1, StartWay, OtherWay, SubmitWay, FinishWay, ZenonT(40)
  <1>2. CASE IntrStart \/ IntrEntry \/ IntrEnd \/ DeviceTake \/ UNCHANGED vars
    <2>1. CASE Proc = {}
      <3>1. /\ op' \in [Proc -> [dir : {"in", "out"}, ver : Int]] /\ Busy' = {}
        BY <1>2, <2>1, ZenonT(40) DEF WayInv, Busy, IntrStart, IntrEntry, IntrEnd, DeviceTake,
                                      vars, driver
      <3> QED
        BY <2>1, <3>1, Zenon DEF WayInv
    <2>2. CASE Proc # {}
      BY <1>2, <2>2, OtherWay, ZenonT(40)
    <2> QED
      BY <2>1, <2>2, Zenon
  <1>3. CASE DeviceFinish
    <2>1. PICK g \in inflight : DeviceFinishes(g)
      BY <1>3, Zenon DEF DeviceFinish, DeviceFinishes
    <2> QED
      BY <2>1, DeviceFinishWay, Zenon
  <1> QED
    BY <1>1, <1>2, <1>3, ZenonT(40) DEF Next

(* It holds at the start.                                                   *)
LEMMA InitWay == Init => WayInv
  <1> SUFFICES ASSUME Init
               PROVE  WayInv
    BY Zenon
  <1>1. op \in [Proc -> [dir : {"in", "out"}, ver : Int]] /\ \A p \in Proc : pc[p] = "idle"
    BY DEF Init
  <1>2. Busy = {}
    BY <1>1 DEF Busy
  <1> QED
    BY <1>1, <1>2, Zenon DEF WayInv

(* What the run checks: when a request returns, buffer and disk agree, and  *)
(* one of them was the source.                                              *)
LEMMA InvMoved == IInv /\ WayInv => DataMoved
  <1> SUFFICES ASSUME IInv, WayInv
               PROVE  DataMoved
    BY Zenon
  <1>1. ASSUME NEW h \in inflight
        PROVE  desc[h].of \in Busy /\ bdisk[desc[h].of]
    <2>1. h \in Desc /\ Live(h)
      BY Owners, Zenon
    <2> QED
      BY <2>1, LiveChain, ZenonT(40) DEF IInv
  <1>2. ASSUME NEW p \in Proc, pc[p] = "wait", ~ bdisk[p]
        PROVE  buf[p] = op[p].ver /\ disk[p] = op[p].ver
    <2>1. buf[p] = disk[p]
      BY <1>2, Zenon DEF IInv, EntryInv, Moved, Busy, Agree
    <2>2. Source(p)
      BY <1>2, Zenon DEF WayInv
    <2> QED
      BY <2>1, <2>2, Zenon DEF Source
  <1> QED
    BY <1>1, <1>2, Zenon DEF DataMoved

(* virtio_disk_rw returns with the data moved the way it was asked: a read  *)
(* has brought the version on the disk, a write has put there the version   *)
(* in the buffer; and the device works only on buffers of requests under    *)
(* way.                                                                     *)
THEOREM DiskDataMoved == Spec => []DataMoved
  <1>1. Spec => []WayInv
    BY InvAlways, InitWay, NextWay, PTL DEF Spec
  <1> QED
    BY <1>1, InvAlways, InvMoved, PTL

=============================================================================
