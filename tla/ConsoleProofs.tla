--------------------------- MODULE ConsoleProofs ---------------------------
(***************************************************************************)
(* The console for any number of readers and writers, keys and bytes:      *)
(* both ring buffers deliver what was put into them, in order and once,    *)
(* and nobody waits for an event that has already happened.                *)
(***************************************************************************)
EXTENDS Console, RingArith

(* The input buffer: what was completed lies before what is being edited,   *)
(* and a full buffer is completed.                                          *)
InputInv ==
  /\ r \in Counter(WIDTH) /\ w \in Counter(WIDTH) /\ e \in Counter(WIDTH)
  /\ buf \in Buffer(INPUT_BUF_SIZE, Key)
  /\ Ahead(r, w, WIDTH) <= Ahead(r, e, WIDTH)
  /\ Ahead(r, e, WIDTH) <= INPUT_BUF_SIZE
  /\ Ahead(r, e, WIDTH) = INPUT_BUF_SIZE => w = e
  /\ lines = Held(buf, r, w, WIDTH, INPUT_BUF_SIZE)

(* The output buffer.                                                       *)
OutputInv ==
  /\ txr \in Counter(WIDTH) /\ txw \in Counter(WIDTH)
  /\ txbuf \in Buffer(UART_TX_BUF_SIZE, Int)
  /\ Ahead(txr, txw, WIDTH) <= UART_TX_BUF_SIZE
  /\ output = Held(txbuf, txr, txw, WIDTH, UART_TX_BUF_SIZE)

(* The processes, and the keys that were received.                          *)
State == {"user", "read", "tested", "write", "sleep"}
ProcInv ==
  /\ pc \in [Proc -> State] /\ n \in [Proc -> Int] /\ killed \in [Proc -> BOOLEAN]
  /\ rx \in Seq(Key) /\ written \in Int

(* A reader asleep, or about to sleep with cons.lock, has nothing to read.  *)
Idle == {"tested", "sleep"}
Asleep == \A p \in Reader : pc[p] \in Idle => r = w

IInv == InputInv /\ OutputInv /\ ProcInv /\ Asleep /\ SenderWorks

-----------------------------------------------------------------------------
(* What the proofs use of the constants.                                    *)
LEMMA Sizes ==
  /\ WIDTH \in Size /\ First \in Counter(WIDTH)
  /\ INPUT_BUF_SIZE \in Size /\ Divides(INPUT_BUF_SIZE, WIDTH) /\ INPUT_BUF_SIZE < WIDTH
  /\ UART_TX_BUF_SIZE \in Size /\ Divides(UART_TX_BUF_SIZE, WIDTH) /\ UART_TX_BUF_SIZE < WIDTH
  <1>1. /\ INPUT_BUF_SIZE \in Nat \ {0} /\ WIDTH % INPUT_BUF_SIZE = 0 /\ WIDTH > INPUT_BUF_SIZE
        /\ UART_TX_BUF_SIZE \in Nat \ {0} /\ WIDTH % UART_TX_BUF_SIZE = 0
        /\ WIDTH > UART_TX_BUF_SIZE
    BY SizeAssumption, Zenon
  <1> QED
    BY <1>1, SizeAssumption DEF Size, Counter, Divides

(* Readers do not write.                                                    *)
LEMMA Roles ==
  ASSUME NEW p \in Reader
  PROVE  p \in Proc /\ p \notin Writer
  BY SizeAssumption, Zenon DEF Proc

(* The distance of two indices.                                             *)
LEMMA DiffIs ==
  ASSUME NEW a \in Counter(WIDTH), NEW b \in Counter(WIDTH)
  PROVE  Diff(a, b) = Ahead(b, a, WIDTH) /\ Diff(a, b) \in Nat /\ Diff(a, b) < WIDTH
  <1>1. Ahead(b, a, WIDTH) \in Counter(WIDTH)
    BY Sizes, Distance, Zenon
  <1>2. a - b + WIDTH = a + WIDTH - b
    BY Sizes DEF Counter, Size
  <1>3. Diff(a, b) = Ahead(b, a, WIDTH)
    BY <1>2, Zenon DEF Diff, Ahead
  <1> QED
    BY <1>1, <1>3, Sizes DEF Counter, Size

(* The buffers are rings.                                                   *)
LEMMA Rings ==
  /\ InputInv => /\ IsRing(Key, buf, r, w, WIDTH, INPUT_BUF_SIZE)
                 /\ IsRing(Key, buf, r, e, WIDTH, INPUT_BUF_SIZE)
  /\ OutputInv => IsRing(Int, txbuf, txr, txw, WIDTH, UART_TX_BUF_SIZE)
  BY Sizes, Zenon DEF InputInv, OutputInv, IsRing

(* Steps that leave a buffer alone.                                         *)
LEMMA InputFrame ==
  InputInv /\ UNCHANGED <<r, w, e, buf, lines>> => InputInv'
  BY Zenon DEF InputInv

(* The same for the output.                                                 *)
LEMMA OutputFrame ==
  OutputInv /\ UNCHANGED <<txr, txw, txbuf, output>> => OutputInv'
  BY Zenon DEF OutputInv

(* The invariant at the start.                                              *)
LEMMA InitInv == Init => IInv
  <1> SUFFICES ASSUME Init
               PROVE  IInv
    BY Zenon
  <1>1. Ahead(First, First, WIDTH) = 0
    <2>1. Ahead(First, First, WIDTH) = IF First <= First THEN First - First ELSE First + WIDTH - First
      BY Sizes, Distance, Zenon
    <2> QED
      BY <2>1, Sizes DEF Counter, Size
  <1>2. InputInv
    <2>1. buf \in Buffer(INPUT_BUF_SIZE, Key)
      BY Zenon DEF Init, Buffer, Counter, Key
    <2>2. 0 <= 0 /\ 0 <= INPUT_BUF_SIZE
      BY Sizes DEF Size
    <2>3. lines = Held(buf, r, w, WIDTH, INPUT_BUF_SIZE)
      BY Sizes, HeldEmpty, Zenon DEF Init
    <2> QED
      BY <1>1, <2>1, <2>2, <2>3, Sizes, Zenon DEF Init, InputInv
  <1>3. OutputInv
    <2>1. txbuf \in Buffer(UART_TX_BUF_SIZE, Int)
      <3>1. 0 \in Int
        OBVIOUS
      <3> QED
        BY <3>1, Zenon DEF Init, Buffer, Counter
    <2>2. 0 <= UART_TX_BUF_SIZE
      BY Sizes DEF Size
    <2>3. output = Held(txbuf, txr, txw, WIDTH, UART_TX_BUF_SIZE)
      BY Sizes, HeldEmpty, Zenon DEF Init
    <2> QED
      BY <1>1, <2>1, <2>2, <2>3, Sizes, Zenon DEF Init, OutputInv
  <1>4. ProcInv
    BY DEF Init, ProcInv, State
  <1>5. Asleep /\ SenderWorks
    BY Zenon DEF Init, Asleep, Idle, SenderWorks, Proc
  <1> QED
    BY <1>2, <1>3, <1>4, <1>5, Zenon DEF IInv

-----------------------------------------------------------------------------
(* A read takes the characters it returns off the completed input.          *)
LEMMA ReadInput ==
  ASSUME InputInv, NEW p \in Proc, Read(p)
  PROVE  InputInv'
  <1>1. PICK k \in Available :
          \E taken \in {k, k - 1} : /\ r' = (r + taken) % WIDTH
                                    /\ lines' = SubSeq(lines, taken + 1, Len(lines))
    BY Zenon DEF Read
  <1>2. PICK taken \in {k, k - 1} : /\ r' = (r + taken) % WIDTH
                                    /\ lines' = SubSeq(lines, taken + 1, Len(lines))
    BY <1>1, Zenon
  <1>3. UNCHANGED <<w, e, buf>>
    BY Zenon DEF Read
  <1>4. r \in Counter(WIDTH) /\ w \in Counter(WIDTH) /\ e \in Counter(WIDTH) /\ WIDTH \in Size
    BY Sizes, Zenon DEF InputInv
  <1> DEFINE a == Ahead(r, w, WIDTH)
             b == Ahead(r, e, WIDTH)
  <1>5. a \in Nat /\ b \in Nat /\ a <= b /\ b <= INPUT_BUF_SIZE /\ INPUT_BUF_SIZE \in Nat
    <2>1. a \in Nat /\ b \in Nat
      BY <1>4, Distance DEF Counter
    <2> QED
      BY <2>1, Sizes DEF InputInv, Size
  <1>6. taken \in 0 .. a /\ taken \in 0 .. b
    <2>1. k \in 1 .. INPUT_BUF_SIZE /\ k <= a
      BY <1>4, DiffIs, Zenon DEF Available
    <2> HIDE DEF a, b
    <2> QED
      BY <1>5, <2>1
  <1>7. /\ r' \in Counter(WIDTH) /\ Ahead(r', w, WIDTH) = a - taken
        /\ Ahead(r', e, WIDTH) = b - taken
    BY <1>2, <1>4, <1>6, DistanceSkips, ZenonT(40)
  <1>8. lines' = Held(buf, r', w, WIDTH, INPUT_BUF_SIZE)
    <2>1. IsRing(Key, buf, r, w, WIDTH, INPUT_BUF_SIZE)
      BY Rings, Zenon
    <2>2. lines = Held(buf, r, w, WIDTH, INPUT_BUF_SIZE)
      BY Zenon DEF InputInv
    <2>3. Held(buf, (r + taken) % WIDTH, w, WIDTH, INPUT_BUF_SIZE)
            = SubSeq(lines, taken + 1, Len(lines))
      BY <1>6, <2>1, <2>2, RingSkip, SMTT(20)
    <2> QED
      BY <1>2, <2>3, Zenon
  <1>9. /\ a - taken <= b - taken /\ b - taken <= INPUT_BUF_SIZE
        /\ b - taken = INPUT_BUF_SIZE => b = INPUT_BUF_SIZE
    <2> HIDE DEF a, b
    <2> QED
      BY <1>5, <1>6
  <1>10. b = INPUT_BUF_SIZE => w = e
    BY Zenon DEF InputInv
  <1>11. buf \in Buffer(INPUT_BUF_SIZE, Key)
    BY Zenon DEF InputInv
  <1> QED
    BY <1>3, <1>4, <1>7, <1>8, <1>9, <1>10, <1>11, Zenon DEF InputInv

(* Erasing stops at the completed input.                                    *)
LEMMA BackInput ==
  ASSUME InputInv, NEW k \in 0 .. Diff(e, w), e' = Back(k), UNCHANGED <<r, w, buf, lines>>
  PROVE  InputInv'
  <1>1. r \in Counter(WIDTH) /\ w \in Counter(WIDTH) /\ e \in Counter(WIDTH) /\ WIDTH \in Size
    BY Sizes, Zenon DEF InputInv
  <1> DEFINE a == Ahead(r, w, WIDTH)
             b == Ahead(r, e, WIDTH)
  <1>2. a \in Nat /\ b \in Nat /\ a <= b /\ b <= INPUT_BUF_SIZE /\ INPUT_BUF_SIZE \in Nat
    <2>1. a \in Nat /\ b \in Nat
      BY <1>1, Distance DEF Counter
    <2> QED
      BY <2>1, Sizes DEF InputInv, Size
  <1>3. Diff(e, w) = b - a
    <2>1. Diff(e, w) = Ahead(w, e, WIDTH)
      BY <1>1, DiffIs, Zenon
    <2>2. Ahead(w, e, WIDTH) = b - a
      BY <1>1, <1>2, DistanceSplits, Zenon
    <2> QED
      BY <2>1, <2>2, Zenon
  <1>4. k \in 0 .. b /\ a <= b - k /\ b - k <= b /\ (b - k = b => k = 0)
    <2> HIDE DEF a, b
    <2> QED
      BY <1>2, <1>3
  <1>5. e' \in Counter(WIDTH) /\ Ahead(r, e', WIDTH) = b - k
    BY <1>1, <1>4, DistanceBack, Zenon DEF Back
  <1>6. k = 0 => e' = e
    BY <1>1 DEF Back, Counter, Size
  <1>7. b - k <= INPUT_BUF_SIZE /\ (b - k = INPUT_BUF_SIZE => b = INPUT_BUF_SIZE /\ b - k = b)
    <2> HIDE DEF a, b
    <2> QED
      BY <1>2, <1>3
  <1>8. b - k = INPUT_BUF_SIZE => w = e'
    BY <1>4, <1>6, <1>7, Zenon DEF InputInv
  <1> QED
    BY <1>1, <1>4, <1>5, <1>7, <1>8, Zenon DEF InputInv

(* What the input buffer holds, cut at an index between.                    *)
LEMMA InputJoin ==
  ASSUME NEW d, NEW a, NEW b, NEW c \in Counter(WIDTH),
         IsRing(Key, d, a, b, WIDTH, INPUT_BUF_SIZE),
         Ahead(a, c, WIDTH) <= Ahead(a, b, WIDTH)
  PROVE  Held(d, a, b, WIDTH, INPUT_BUF_SIZE)
           = Held(d, a, c, WIDTH, INPUT_BUF_SIZE) \o Held(d, c, b, WIDTH, INPUT_BUF_SIZE)
  BY RingJoin, SMTT(20)

(* Storing a character changes no completed one; completing the input adds  *)
(* what has been edited, in order.                                          *)
LEMMA StoreInput ==
  ASSUME InputInv, NEW c \in Key, Room,
         buf' = [buf EXCEPT ![At(e)] = c], e' = Next1(e),
         IF Completes(c) THEN Commit ELSE UNCHANGED <<w, pc, lines>>,
         UNCHANGED r
  PROVE  InputInv'
  <1>1. r \in Counter(WIDTH) /\ w \in Counter(WIDTH) /\ e \in Counter(WIDTH) /\ WIDTH \in Size
    BY Sizes, Zenon DEF InputInv
  <1> DEFINE a == Ahead(r, w, WIDTH)
             b == Ahead(r, e, WIDTH)
  <1>2. /\ a \in Nat /\ b \in Nat /\ a <= b /\ b < INPUT_BUF_SIZE
        /\ INPUT_BUF_SIZE \in Nat /\ INPUT_BUF_SIZE < WIDTH /\ WIDTH \in Nat
    <2>1. a \in Nat /\ b \in Nat
      BY <1>1, Distance DEF Counter
    <2>2. b < INPUT_BUF_SIZE
      BY <1>1, DiffIs, Zenon DEF Room
    <2> QED
      BY <2>1, <2>2, Sizes DEF InputInv, Size
  <1>3. a <= b + 1 /\ b + 1 <= INPUT_BUF_SIZE /\ b + 1 < WIDTH
    <2> HIDE DEF a, b
    <2> QED
      BY <1>2
  <1>4. e' \in Counter(WIDTH) /\ Ahead(r, e', WIDTH) = b + 1
    <2>1. (e + 1) % WIDTH \in Counter(WIDTH)
      BY <1>1, Increment, Zenon
    <2>2. Ahead(r, (e + 1) % WIDTH, WIDTH) = b + 1
      BY <1>1, <1>3, DistanceGrows, Zenon
    <2> QED
      BY <2>1, <2>2, Zenon DEF Next1
  <1>5. buf' \in Buffer(INPUT_BUF_SIZE, Key)
    BY Zenon DEF InputInv, Buffer
  <1>6. Held(buf', r, w, WIDTH, INPUT_BUF_SIZE) = lines
    <2>1. IsRing(Key, buf, r, e, WIDTH, INPUT_BUF_SIZE)
      BY Rings, Zenon
    <2>2. Stores(buf', buf, e % INPUT_BUF_SIZE, c)
      BY Zenon DEF Stores, At
    <2>3. Held(buf', r, w, WIDTH, INPUT_BUF_SIZE) = Held(buf, r, w, WIDTH, INPUT_BUF_SIZE)
      BY <1>1, <1>2, <2>1, <2>2, RingKeeps, SMTT(20)
    <2> QED
      BY <2>3, Zenon DEF InputInv
  <1>7. CASE Completes(c)
    <2>1. /\ w' = e'
          /\ lines' = lines \o [k \in 1 .. Diff(e', w) |-> buf'[At(w + k - 1)]]
      BY <1>7, Zenon DEF Commit
    <2>2. Diff(e', w) = Ahead(w, e', WIDTH)
      BY <1>1, <1>4, DiffIs, Zenon
    <2>3. lines' = lines \o Held(buf', w, e', WIDTH, INPUT_BUF_SIZE)
      BY <2>1, <2>2, Zenon DEF Held, At
    <2>4. IsRing(Key, buf', r, e', WIDTH, INPUT_BUF_SIZE)
      BY <1>1, <1>4, <1>5, Sizes, Zenon DEF IsRing
    <2>5. Ahead(r, w, WIDTH) <= Ahead(r, e', WIDTH)
      BY <1>3, <1>4, Zenon
    <2>6. Held(buf', r, e', WIDTH, INPUT_BUF_SIZE)
            = Held(buf', r, w, WIDTH, INPUT_BUF_SIZE) \o Held(buf', w, e', WIDTH, INPUT_BUF_SIZE)
      <3>1. w \in Counter(WIDTH)
        BY <1>1, Zenon
      <3> QED
        BY <2>4, <2>5, <3>1, InputJoin, ZenonT(60)
    <2>7. lines' = Held(buf', r, e', WIDTH, INPUT_BUF_SIZE)
      BY <1>6, <2>3, <2>6, Zenon
    <2>8. b + 1 <= b + 1
      BY <1>2
    <2> QED
      BY <1>1, <1>3, <1>4, <1>5, <2>1, <2>7, <2>8, Zenon DEF InputInv
  <1>8. CASE ~ Completes(c)
    <2>1. w' = w /\ lines' = lines
      BY <1>8, Zenon
    <2>2. Ahead(r, e', WIDTH) # INPUT_BUF_SIZE
      BY <1>1, <1>4, <1>8, DiffIs, Zenon DEF Completes
    <2> QED
      BY <1>1, <1>3, <1>4, <1>5, <1>6, <2>1, <2>2, Zenon DEF InputInv
  <1> QED
    BY <1>7, <1>8, Zenon

-----------------------------------------------------------------------------
(* uartstart takes the first byte of the output, or nothing.                *)
LEMMA UartStartOutput ==
  ASSUME NEW f, NEW q,
         IsRing(Int, txbuf', txr, txw', WIDTH, UART_TX_BUF_SIZE),
         Ahead(txr, txw', WIDTH) <= UART_TX_BUF_SIZE,
         q = Held(txbuf', txr, txw', WIDTH, UART_TX_BUF_SIZE),
         UartStart(txw', q, f)
  PROVE  OutputInv'
  <1>1. /\ txr \in Counter(WIDTH) /\ txw' \in Counter(WIDTH) /\ WIDTH \in Size
        /\ txbuf' \in Buffer(UART_TX_BUF_SIZE, Int)
    BY Zenon DEF IsRing
  <1>2. CASE txw' # txr /\ ~ busy
    <2>1. txr' = Next1(txr) /\ output' = Tail(q)
      BY <1>2, Zenon DEF UartStart
    <2>2. txr' \in Counter(WIDTH)
      BY <1>1, <2>1, Increment, Zenon DEF Next1
    <2>3. Ahead(txr', txw', WIDTH) = Ahead(txr, txw', WIDTH) - 1
      BY <1>1, <1>2, <2>1, DistanceShrinks, Zenon DEF Next1
    <2>4. Ahead(txr', txw', WIDTH) <= UART_TX_BUF_SIZE
      <3>1. PICK k \in Nat : k = Ahead(txr, txw', WIDTH)
        BY <1>1, Distance DEF Counter
      <3>2. k <= UART_TX_BUF_SIZE /\ UART_TX_BUF_SIZE \in Nat
        BY <3>1, Sizes DEF Size
      <3>3. k - 1 <= UART_TX_BUF_SIZE
        BY <3>2
      <3> QED
        BY <2>3, <3>1, <3>3, Zenon
    <2>5. ASSUME NEW d, NEW a, NEW b, IsRing(Int, d, a, b, WIDTH, UART_TX_BUF_SIZE), a # b
          PROVE  Held(d, (a + 1) % WIDTH, b, WIDTH, UART_TX_BUF_SIZE)
                   = Tail(Held(d, a, b, WIDTH, UART_TX_BUF_SIZE))
      BY <2>5, RingGet, SMTT(20)
    <2>6. output' = Held(txbuf', txr', txw', WIDTH, UART_TX_BUF_SIZE)
      BY <1>2, <2>1, <2>5, Zenon DEF Next1
    <2> QED
      BY <1>1, <2>2, <2>4, <2>6, Zenon DEF OutputInv
  <1>3. CASE ~ (txw' # txr /\ ~ busy)
    <2>1. txr' = txr /\ output' = q
      BY <1>3, Zenon DEF UartStart
    <2> QED
      BY <1>1, <2>1, Zenon DEF OutputInv
  <1> QED
    BY <1>2, <1>3, Zenon

(* uartputc appends a byte.                                                 *)
LEMMA WriteOutput ==
  ASSUME OutputInv, ProcInv, NEW p \in Proc, Write(p)
  PROVE  OutputInv'
  <1>1. /\ Diff(txw, txr) < UART_TX_BUF_SIZE
        /\ txbuf' = [txbuf EXCEPT ![txw % UART_TX_BUF_SIZE] = n[p]]
        /\ txw' = (txw + 1) % WIDTH
    BY Zenon DEF Write, TxSlot, Next1
  <1>2. PICK f : UartStart(txw', Append(output, n[p]), f)
    BY Zenon DEF Write
  <1>3. IsRing(Int, txbuf, txr, txw, WIDTH, UART_TX_BUF_SIZE)
    BY Rings, Zenon
  <1>4. txr \in Counter(WIDTH) /\ txw \in Counter(WIDTH) /\ WIDTH \in Size /\ n[p] \in Int
    BY Sizes, Zenon DEF OutputInv, ProcInv
  <1>5. Ahead(txr, txw, WIDTH) < UART_TX_BUF_SIZE /\ Ahead(txr, txw, WIDTH) \in Nat
    BY <1>1, <1>4, DiffIs, Zenon
  <1>6. txw' \in Counter(WIDTH) /\ Ahead(txr, txw', WIDTH) = Ahead(txr, txw, WIDTH) + 1
    <2>1. Ahead(txr, txw, WIDTH) + 1 < WIDTH
      BY <1>5, Sizes DEF Size
    <2> QED
      BY <1>1, <1>4, <2>1, Increment, DistanceGrows, Zenon
  <1>7. Ahead(txr, txw', WIDTH) <= UART_TX_BUF_SIZE
    <2>1. Ahead(txr, txw, WIDTH) + 1 <= UART_TX_BUF_SIZE
      BY <1>5, Sizes DEF Size
    <2> QED
      BY <1>6, <2>1, Zenon
  <1>8. Append(output, n[p]) = Held(txbuf', txr, txw', WIDTH, UART_TX_BUF_SIZE)
    <2>1. Stores(txbuf', txbuf, txw % UART_TX_BUF_SIZE, n[p])
      BY <1>1, Zenon DEF Stores
    <2>2. ASSUME NEW d, Stores(d, txbuf, txw % UART_TX_BUF_SIZE, n[p])
          PROVE  Held(d, txr, (txw + 1) % WIDTH, WIDTH, UART_TX_BUF_SIZE)
                   = Append(Held(txbuf, txr, txw, WIDTH, UART_TX_BUF_SIZE), n[p])
      BY <1>3, <1>4, <1>5, <2>2, RingPut, SMTT(20)
    <2>3. output = Held(txbuf, txr, txw, WIDTH, UART_TX_BUF_SIZE)
      BY Zenon DEF OutputInv
    <2> QED
      BY <1>1, <2>1, <2>2, <2>3, Zenon
  <1>9. IsRing(Int, txbuf', txr, txw', WIDTH, UART_TX_BUF_SIZE)
    <2>1. txbuf' \in Buffer(UART_TX_BUF_SIZE, Int)
      BY <1>1, <1>4, Zenon DEF OutputInv, Buffer
    <2> QED
      BY <1>4, <1>6, <2>1, Sizes, Zenon DEF IsRing
  <1> QED
    BY <1>2, <1>7, <1>8, <1>9, UartStartOutput, Zenon

(* The handler sends.                                                       *)
LEMMA SendOutput ==
  ASSUME OutputInv, UartSend
  PROVE  OutputInv'
  <1>1. UartStart(txw, output, pc) /\ UNCHANGED <<txw, txbuf>>
    BY Zenon DEF UartSend
  <1>2. UartStart(txw', output, pc)
    BY <1>1, Zenon
  <1>3. IsRing(Int, txbuf', txr, txw', WIDTH, UART_TX_BUF_SIZE)
    BY <1>1, Rings, Zenon
  <1>4. /\ Ahead(txr, txw', WIDTH) <= UART_TX_BUF_SIZE
        /\ output = Held(txbuf', txr, txw', WIDTH, UART_TX_BUF_SIZE)
    BY <1>1, Zenon DEF OutputInv
  <1> QED
    BY <1>2, <1>3, <1>4, UartStartOutput, Zenon

-----------------------------------------------------------------------------
(* consoleintr keeps the input in order, whatever ^U goes back to.          *)
LEMMA IntrInput ==
  ASSUME InputInv, NEW c \in Key, ConsoleIntr(c),
         NEW j \in 0 .. Diff(e, w), Killed = Back(j)
  PROVE  InputInv'
  <1>1. r \in Counter(WIDTH) /\ w \in Counter(WIDTH) /\ e \in Counter(WIDTH) /\ WIDTH \in Size
    BY Sizes, Zenon DEF InputInv
  <1>2. CASE c = "kill" /\ e' = Killed /\ UNCHANGED <<r, w, buf, pc, lines>>
    BY <1>2, BackInput, Zenon
  <1>3. CASE /\ c = "erase" /\ e' = IF e # w THEN Prev(e) ELSE e
             /\ UNCHANGED <<r, w, buf, pc, lines>>
    <2>1. CASE e = w
      BY <1>3, <2>1, InputFrame, Zenon
    <2>2. CASE e # w
      <3>1. Ahead(w, e, WIDTH) # 0
        BY <1>1, <2>2, DistanceShrinks, Zenon
      <3>2. Diff(e, w) = Ahead(w, e, WIDTH) /\ Diff(e, w) \in Nat
        BY <1>1, DiffIs, Zenon
      <3>3. 1 \in 0 .. Diff(e, w)
        BY <3>1, <3>2
      <3>4. e + WIDTH - 1 = e - 1 + WIDTH
        BY <1>1 DEF Counter, Size
      <3>5. e' = Back(1)
        BY <1>3, <2>2, <3>4, Zenon DEF Back, Prev
      <3> QED
        BY <1>3, <3>3, <3>5, BackInput, Zenon
    <2> QED
      BY <2>1, <2>2, Zenon
  <1>4. CASE /\ c \notin {"kill", "erase"} /\ Room
             /\ buf' = [buf EXCEPT ![At(e)] = c]
             /\ e' = Next1(e)
             /\ IF Completes(c) THEN Commit ELSE UNCHANGED <<w, pc, lines>>
             /\ UNCHANGED r
    BY <1>4, StoreInput, Zenon
  <1>5. CASE UNCHANGED <<input, pc, lines>>
    BY <1>5, InputFrame, Zenon DEF input
  <1> QED
    BY <1>2, <1>3, <1>4, <1>5, Zenon DEF ConsoleIntr

(* consoleintr wakes readers or leaves them alone; it completes input only  *)
(* when it wakes them.                                                      *)
LEMMA IntrPc ==
  ASSUME ProcInv, ConsFree, NEW c, ConsoleIntr(c)
  PROVE  /\ pc' \in [Proc -> State] /\ r' = r
         /\ (w' = w /\ pc' = pc) \/ (\A p \in Reader : pc'[p] \notin Idle)
  <1>1. CASE Commit /\ r' = r
    <2>1. pc' = [p \in Proc |-> IF p \in Reader /\ pc[p] = "sleep" THEN "read" ELSE pc[p]]
      BY <1>1, Zenon DEF Commit, WakeReaders
    <2>2. pc \in [Proc -> State] /\ "read" \in State
      BY Zenon DEF ProcInv, State
    <2>3. pc' \in [Proc -> State]
      BY <2>1, <2>2, Zenon
    <2>4. ASSUME NEW p \in Reader
          PROVE  pc'[p] \notin Idle
      <3>1. pc'[p] = IF pc[p] = "sleep" THEN "read" ELSE pc[p]
        BY <2>1, Roles, Zenon
      <3>2. pc[p] # "tested"
        BY Zenon DEF ConsFree
      <3> QED
        BY <3>1, <3>2 DEF Idle
    <2> QED
      BY <1>1, <2>3, <2>4, Zenon
  <1>2. CASE UNCHANGED <<r, w, pc>>
    BY <1>2, Zenon DEF ProcInv
  <1> QED
    BY <1>1, <1>2, Zenon DEF ConsoleIntr, input

(* uartstart wakes writers only.                                            *)
LEMMA UartStartPc ==
  ASSUME NEW at, NEW q, NEW f \in [Proc -> State], UartStart(at, q, f)
  PROVE  /\ pc' \in [Proc -> State] /\ \A p \in Reader : pc'[p] = f[p]
         /\ busy' \/ (txr' = txr /\ at = txr)
  <1>1. CASE at # txr /\ ~ busy
    <2>1. pc' = [p \in Proc |-> IF p \in Writer /\ f[p] = "sleep" THEN "write" ELSE f[p]]
      BY <1>1, Zenon DEF UartStart, WakeWriters
    <2>2. "write" \in State
      BY Zenon DEF State
    <2>3. pc' \in [Proc -> State]
      BY <2>1, <2>2, Zenon
    <2>4. \A p \in Reader : pc'[p] = f[p]
      BY <2>1, Roles, Zenon
    <2> QED
      BY <1>1, <2>3, <2>4, Zenon DEF UartStart
  <1>2. CASE ~ (at # txr /\ ~ busy)
    <2>1. pc' = f /\ txr' = txr /\ busy' = busy
      BY <1>2, Zenon DEF UartStart
    <2>2. busy' \/ at = txr
      BY <1>2, <2>1, SMTT(20)
    <2> QED
      BY <2>1, <2>2, Zenon
  <1> QED
    BY <1>1, <1>2, Zenon

(* Readers that fall asleep nowhere stay as they are.                       *)
LEMMA AsleepFrame ==
  ASSUME Asleep, UNCHANGED <<r, w>>,
         \A p \in Reader : pc'[p] \in Idle => pc[p] \in Idle
  PROVE  Asleep'
  BY Zenon DEF Asleep

-----------------------------------------------------------------------------
(* A read starts.                                                           *)
LEMMA ReadStartInv ==
  ASSUME IInv, NEW p \in Reader, ReadStart(p)
  PROVE  IInv'
  <1>1. p \in Proc
    BY Roles, Zenon
  <1>2. PICK m \in 1 .. MaxRead : n' = [n EXCEPT ![p] = m]
    BY Zenon DEF ReadStart
  <1>3. m \in Int
    OBVIOUS
  <1>4. /\ pc' = [pc EXCEPT ![p] = "read"]
        /\ UNCHANGED <<r, w, e, buf, lines, txr, txw, txbuf, output, rx, busy, irq, handler, killed, written>>
    BY Zenon DEF ReadStart, input, uart
  <1>5. pc \in [Proc -> State] /\ n \in [Proc -> Int] /\ "read" \in State
    BY Zenon DEF IInv, ProcInv, State
  <1>6. InputInv' /\ OutputInv'
    BY <1>4, InputFrame, OutputFrame, Zenon DEF IInv
  <1>7. ProcInv'
    BY <1>1, <1>2, <1>3, <1>4, <1>5, Zenon DEF IInv, ProcInv
  <1>8. \A q \in Reader : pc'[q] \in Idle => pc[q] \in Idle
    BY <1>1, <1>4, <1>5, Roles, Zenon DEF Idle
  <1>9. Asleep' /\ SenderWorks'
    BY <1>4, <1>8, AsleepFrame, Zenon DEF IInv, SenderWorks
  <1> QED
    BY <1>6, <1>7, <1>9, Zenon DEF IInv

(* A reader finds nothing: it returns, killed, or is about to sleep; it     *)
(* sleeps.                                                                  *)
LEMMA ReadWaitInv ==
  ASSUME IInv, NEW p \in Reader, ReadTest(p) \/ ReadSleep(p)
  PROVE  IInv'
  <1>1. p \in Proc
    BY Roles, Zenon
  <1>2. UNCHANGED <<r, w, e, buf, lines, txr, txw, txbuf, output, rx, busy, irq, handler, killed, written>>
    BY Zenon DEF ReadTest, ReadSleep, input, uart
  <1>3. /\ pc \in [Proc -> State] /\ n \in [Proc -> Int]
        /\ "user" \in State /\ "sleep" \in State /\ "tested" \in State
    BY Zenon DEF IInv, ProcInv, State
  <1>4. PICK to \in {"user", "tested", "sleep"} :
          pc' = [pc EXCEPT ![p] = to] /\ (n' = [n EXCEPT ![p] = 0] \/ n' = n)
    BY Zenon DEF ReadTest, ReadSleep, ReadReturn
  <1>5. 0 \in Int
    OBVIOUS
  <1>6. InputInv' /\ OutputInv'
    BY <1>2, InputFrame, OutputFrame, Zenon DEF IInv
  <1>7. pc' \in [Proc -> State] /\ n' \in [Proc -> Int]
    BY <1>1, <1>3, <1>4, <1>5, Zenon
  <1>8. ProcInv'
    BY <1>2, <1>7, Zenon DEF IInv, ProcInv
  <1>9. r = w
    <2>1. r = w \/ pc[p] = "tested"
      BY Zenon DEF ReadTest, ReadSleep
    <2> QED
      BY <2>1, Zenon DEF IInv, Asleep, Idle
  <1>10. Asleep' /\ SenderWorks'
    BY <1>2, <1>9, Zenon DEF IInv, Asleep, SenderWorks
  <1> QED
    BY <1>6, <1>8, <1>10, Zenon DEF IInv

(* A reader takes input: nobody is asleep then.                             *)
LEMMA ReadInv ==
  ASSUME IInv, NEW p \in Reader, Read(p)
  PROVE  IInv'
  <1>1. p \in Proc
    BY Roles, Zenon
  <1>2. /\ r # w
        /\ UNCHANGED <<w, e, buf, txr, txw, txbuf, output, rx, busy, irq, handler, killed, written>>
    BY Zenon DEF Read, uart
  <1>3. PICK k \in Available : \/ pc' = [pc EXCEPT ![p] = "user"] /\ n' = [n EXCEPT ![p] = 0]
                               \/ pc' = pc /\ n' = [n EXCEPT ![p] = n[p] - k]
    BY Zenon DEF Read, ReadReturn
  <1>4. pc \in [Proc -> State] /\ n \in [Proc -> Int] /\ "user" \in State
    BY Zenon DEF IInv, ProcInv, State
  <1>5. 0 \in Int /\ n[p] - k \in Int
    <2>1. n[p] \in Int
      BY <1>1, <1>4, Zenon
    <2>2. k \in Int
      BY DEF Available
    <2> QED
      BY <2>1, <2>2
  <1>6. InputInv' /\ OutputInv'
    BY <1>1, <1>2, ReadInput, OutputFrame, Zenon DEF IInv
  <1>7. pc' \in [Proc -> State] /\ n' \in [Proc -> Int]
    BY <1>1, <1>3, <1>4, <1>5, Zenon
  <1>8. ProcInv'
    BY <1>2, <1>7, Zenon DEF IInv, ProcInv
  <1>9. ASSUME NEW q \in Reader
        PROVE  pc'[q] \notin Idle
    <2>1. q \in Proc /\ pc[q] \notin Idle
      BY <1>2, Roles, Zenon DEF IInv, Asleep
    <2>2. "user" \notin Idle
      BY Zenon DEF Idle
    <2> QED
      BY <1>1, <1>3, <1>4, <2>1, <2>2, Zenon
  <1>10. Asleep' /\ SenderWorks'
    BY <1>2, <1>9, Zenon DEF IInv, Asleep, SenderWorks
  <1> QED
    BY <1>6, <1>8, <1>10, Zenon DEF IInv

(* kill wakes the reader it kills if it sleeps already.                     *)
LEMMA KillInv ==
  ASSUME IInv, NEW p \in Reader, Kill(p)
  PROVE  IInv'
  <1>1. p \in Proc
    BY Roles, Zenon
  <1>2. /\ killed' = [killed EXCEPT ![p] = TRUE]
        /\ pc' = [pc EXCEPT ![p] = IF pc[p] = "sleep" THEN "read" ELSE pc[p]]
        /\ UNCHANGED <<r, w, e, buf, lines, txr, txw, txbuf, output, rx, busy, irq, handler, n, written>>
    BY Zenon DEF Kill, input, uart
  <1>3. /\ pc \in [Proc -> State] /\ killed \in [Proc -> BOOLEAN] /\ "read" \in State
        /\ n \in [Proc -> Int] /\ rx \in Seq(Key) /\ written \in Int
    BY Zenon DEF IInv, ProcInv, State
  <1>4. InputInv' /\ OutputInv'
    BY <1>2, InputFrame, OutputFrame, Zenon DEF IInv
  <1>5. pc' \in [Proc -> State] /\ killed' \in [Proc -> BOOLEAN]
    BY <1>1, <1>2, <1>3, Zenon
  <1>6. ProcInv'
    BY <1>2, <1>3, <1>5, Zenon DEF ProcInv
  <1>7. \A q \in Reader : pc'[q] \in Idle => pc[q] \in Idle
    <2>1. "read" \notin Idle
      BY Zenon DEF Idle
    <2> QED
      BY <1>1, <1>2, <1>3, <2>1, Roles, Zenon
  <1>8. Asleep' /\ SenderWorks'
    BY <1>2, <1>7, AsleepFrame, Zenon DEF IInv, SenderWorks
  <1> QED
    BY <1>4, <1>6, <1>8, Zenon DEF IInv

(* A write starts, or sleeps on a full buffer.                              *)
LEMMA WriterInv ==
  ASSUME IInv, NEW p \in Writer, WriteStart(p) \/ WriteWait(p)
  PROVE  IInv'
  <1>1. p \in Proc
    BY Zenon DEF Proc
  <1>2. PICK m \in Int : n' = [n EXCEPT ![p] = m] \/ n' = n
    <2>1. CASE WriteStart(p)
      <3>1. n' = [n EXCEPT ![p] = MaxWritten - written]
        BY <2>1, Zenon DEF WriteStart
      <3>2. MaxWritten - written \in Int
        BY SizeAssumption DEF IInv, ProcInv
      <3> QED
        BY <3>1, <3>2, Zenon
    <2>2. CASE WriteWait(p)
      <3>1. 0 \in Int
        OBVIOUS
      <3> QED
        BY <2>2, <3>1, Zenon DEF WriteWait
    <2> QED
      BY <2>1, <2>2, Zenon
  <1>3. PICK to \in {"write", "sleep"} : pc' = [pc EXCEPT ![p] = to]
    BY Zenon DEF WriteStart, WriteWait
  <1>4. UNCHANGED <<r, w, e, buf, lines, txr, txw, txbuf, output, rx, busy, irq, handler, killed, written>>
    BY Zenon DEF WriteStart, WriteWait, input, uart
  <1>5. pc \in [Proc -> State] /\ n \in [Proc -> Int] /\ to \in State
    BY Zenon DEF IInv, ProcInv, State
  <1>6. InputInv' /\ OutputInv'
    BY <1>4, InputFrame, OutputFrame, Zenon DEF IInv
  <1>7. pc' \in [Proc -> State] /\ n' \in [Proc -> Int]
    BY <1>1, <1>2, <1>3, <1>5, Zenon
  <1>8. ProcInv'
    BY <1>4, <1>7, Zenon DEF IInv, ProcInv
  <1>9. \A q \in Reader : pc'[q] \in Idle => pc[q] \in Idle
    BY <1>1, <1>3, <1>5, Roles, Zenon
  <1>10. Asleep' /\ SenderWorks'
    BY <1>4, <1>9, AsleepFrame, Zenon DEF IInv, SenderWorks
  <1> QED
    BY <1>6, <1>8, <1>10, Zenon DEF IInv

(* A byte is written.                                                       *)
LEMMA WriteInv ==
  ASSUME IInv, NEW p \in Writer, Write(p)
  PROVE  IInv'
  <1>1. p \in Proc
    BY Zenon DEF Proc
  <1>0. PICK left \in {n[p] - 1, 0} :
          /\ n' = [n EXCEPT ![p] = left]
          /\ UartStart(txw', Append(output, n[p]),
                       [pc EXCEPT ![p] = IF left = 0 THEN "user" ELSE "write"])
    BY Zenon DEF Write
  <1> DEFINE f == [pc EXCEPT ![p] = IF left = 0 THEN "user" ELSE "write"]
  <1>2. /\ n' = [n EXCEPT ![p] = left] /\ written' = written + 1
        /\ UartStart(txw', Append(output, n[p]), f)
        /\ UNCHANGED <<r, w, e, buf, lines, rx, irq, handler, killed>>
    BY <1>0, Zenon DEF Write, input
  <1>3. pc \in [Proc -> State] /\ n \in [Proc -> Int] /\ "user" \in State /\ "write" \in State
    BY Zenon DEF IInv, ProcInv, State
  <1>4. n' \in [Proc -> Int] /\ written' \in Int
    <2>1. n[p] \in Int /\ written \in Int
      BY <1>1, <1>3, Zenon DEF IInv, ProcInv
    <2>2. left \in Int /\ written + 1 \in Int
      BY <1>0, <2>1
    <2> QED
      BY <1>1, <1>2, <1>3, <2>2, Zenon
  <1>5. f \in [Proc -> State] /\ \A q \in Reader : f[q] = pc[q]
    BY <1>1, <1>3, Roles, Zenon
  <1> HIDE DEF f
  <1>6. /\ pc' \in [Proc -> State] /\ \A q \in Reader : pc'[q] = f[q]
        /\ busy' \/ (txr' = txr /\ txw' = txr)
    BY <1>2, <1>5, UartStartPc, ZenonT(30)
  <1>7. InputInv' /\ OutputInv'
    BY <1>1, <1>2, InputFrame, WriteOutput, Zenon DEF IInv
  <1>8. ProcInv'
    BY <1>2, <1>4, <1>6, Zenon DEF IInv, ProcInv
  <1>9. Asleep'
    BY <1>2, <1>5, <1>6, AsleepFrame, Zenon DEF IInv
  <1>10. SenderWorks'
    BY <1>6, Zenon DEF SenderWorks
  <1> QED
    BY <1>7, <1>8, <1>9, <1>10, Zenon DEF IInv

(* The handler starts, a key is received, a byte is gone: an interrupt is   *)
(* raised or being handled.                                                 *)
LEMMA UartInv ==
  ASSUME IInv, UartIntr \/ Type \/ Sent
  PROVE  IInv'
  <1>1. UNCHANGED <<r, w, e, buf, lines, txr, txw, txbuf, output, pc, n, killed, written>>
    BY Zenon DEF UartIntr, Type, Sent, input, tx
  <1>2. irq' = TRUE \/ handler' = "rx"
    BY Zenon DEF UartIntr, Type, Sent
  <1>3. rx' \in Seq(Key)
    <2>1. rx \in Seq(Key)
      BY Zenon DEF IInv, ProcInv
    <2>2. rx' = rx \/ \E k \in Key : rx' = Append(rx, k)
      BY Zenon DEF UartIntr, Type, Sent
    <2> QED
      BY <2>1, <2>2, SeqAppend, ZenonT(40)
  <1>4. InputInv' /\ OutputInv'
    BY <1>1, InputFrame, OutputFrame, Zenon DEF IInv
  <1>5. ProcInv' /\ Asleep'
    BY <1>1, <1>3, Zenon DEF IInv, ProcInv, Asleep
  <1>6. SenderWorks'
    BY <1>2, Zenon DEF SenderWorks
  <1> QED
    BY <1>4, <1>5, <1>6, Zenon DEF IInv

(* The handler sends before it leaves.                                      *)
LEMMA UartSendInv ==
  ASSUME IInv, UartSend
  PROVE  IInv'
  <1>1. /\ UartStart(txw, output, pc)
        /\ UNCHANGED <<r, w, e, buf, lines, txw, rx, n, killed, written>>
    BY Zenon DEF UartSend, input
  <1>2. pc \in [Proc -> State]
    BY Zenon DEF IInv, ProcInv
  <1>3. /\ pc' \in [Proc -> State] /\ \A q \in Reader : pc'[q] = pc[q]
        /\ busy' \/ (txr' = txr /\ txw = txr)
    BY <1>1, <1>2, UartStartPc, ZenonT(30)
  <1>4. InputInv' /\ OutputInv'
    BY <1>1, InputFrame, SendOutput, Zenon DEF IInv
  <1>5. ProcInv'
    BY <1>1, <1>3, Zenon DEF IInv, ProcInv
  <1>6. Asleep'
    BY <1>1, <1>3, AsleepFrame, Zenon DEF IInv
  <1>7. SenderWorks'
    BY <1>1, <1>3, Zenon DEF SenderWorks
  <1> QED
    BY <1>4, <1>5, <1>6, <1>7, Zenon DEF IInv

(* The handler takes a key.                                                 *)
LEMMA UartGetcInv ==
  ASSUME IInv, UartGetc, NEW j \in 0 .. Diff(e, w), Killed = Back(j)
  PROVE  IInv'
  <1>1. /\ handler = "rx" /\ rx # <<>> /\ ConsoleIntr(Head(rx)) /\ rx' = Tail(rx)
        /\ UNCHANGED <<txr, txw, txbuf, output, handler, n, killed, written>> /\ ConsFree
    BY Zenon DEF UartGetc, tx
  <1>2. Head(rx) \in Key /\ rx' \in Seq(Key)
    <2>1. rx \in Seq(Key)
      BY Zenon DEF IInv, ProcInv
    <2> QED
      BY <1>1, <2>1
  <1>3. /\ pc' \in [Proc -> State] /\ r' = r
        /\ (w' = w /\ pc' = pc) \/ (\A p \in Reader : pc'[p] \notin Idle)
    BY <1>1, IntrPc, Zenon DEF IInv
  <1>4. InputInv'
    BY <1>1, <1>2, IntrInput, Zenon DEF IInv
  <1>5. OutputInv'
    BY <1>1, OutputFrame, Zenon DEF IInv
  <1>6. ProcInv'
    BY <1>1, <1>2, <1>3, Zenon DEF IInv, ProcInv
  <1>7. Asleep'
    BY <1>1, <1>3, Zenon DEF IInv, Asleep
  <1>8. SenderWorks'
    BY <1>1, Zenon DEF SenderWorks
  <1> QED
    BY <1>4, <1>5, <1>6, <1>7, <1>8, Zenon DEF IInv

(* What the runs check.                                                     *)
LEMMA InvInOrder == IInv => InOrder
  <1> SUFFICES ASSUME IInv
               PROVE  InOrder
    BY Zenon
  <1>1. /\ r \in Counter(WIDTH) /\ w \in Counter(WIDTH) /\ e \in Counter(WIDTH)
        /\ txr \in Counter(WIDTH) /\ txw \in Counter(WIDTH)
    BY Zenon DEF IInv, InputInv, OutputInv
  <1>2. /\ Diff(w, r) = Ahead(r, w, WIDTH) /\ Diff(e, r) = Ahead(r, e, WIDTH)
        /\ Diff(txw, txr) = Ahead(txr, txw, WIDTH)
    BY <1>1, DiffIs, Zenon
  <1>3. TypeOK
    BY <1>1, <1>2, Zenon DEF IInv, InputInv, OutputInv, ProcInv, State, TypeOK, Counter
  <1>4. InputInOrder
    BY <1>2, Zenon DEF IInv, InputInv, Held, InputInOrder, At
  <1>5. OutputInOrder
    BY <1>2, Zenon DEF IInv, OutputInv, Held, OutputInOrder
  <1> QED
    BY <1>3, <1>4, <1>5, Zenon DEF InOrder

(* A sleeping reader leaves room: a full buffer is completed, so there is   *)
(* something to read.                                                       *)
LEMMA InvNothingForgotten == IInv => NothingForgotten
  <1> SUFFICES ASSUME IInv
               PROVE  NothingForgotten
    BY Zenon
  <1>1. r \in Counter(WIDTH) /\ e \in Counter(WIDTH)
    BY Zenon DEF IInv, InputInv
  <1>2. ASSUME r = w
        PROVE  Diff(e, r) < INPUT_BUF_SIZE
    <2>1. Diff(e, r) = Ahead(r, e, WIDTH) /\ Diff(e, r) \in Nat
      BY <1>1, DiffIs, Zenon
    <2>2. Ahead(r, e, WIDTH) <= INPUT_BUF_SIZE
      BY Zenon DEF IInv, InputInv
    <2>3. ASSUME Ahead(r, e, WIDTH) = INPUT_BUF_SIZE
          PROVE  FALSE
      <3>1. r = e
        BY <1>2, <2>3, Zenon DEF IInv, InputInv
      <3>2. Ahead(r, r, WIDTH) = IF r <= r THEN r - r ELSE r + WIDTH - r
        BY <1>1, Sizes, Distance, Zenon
      <3>3. Ahead(r, r, WIDTH) = 0
        BY <1>1, <3>2 DEF Counter
      <3>4. INPUT_BUF_SIZE # 0
        BY Sizes DEF Size
      <3> QED
        BY <2>3, <3>1, <3>3, <3>4, Zenon
    <2>4. INPUT_BUF_SIZE \in Nat
      BY Sizes DEF Size
    <2> QED
      BY <2>1, <2>2, <2>3, <2>4
  <1>3. NoLostWakeup
    BY <1>2, Zenon DEF IInv, Asleep, Idle, NoLostWakeup
  <1> QED
    BY <1>3, Zenon DEF IInv, NothingForgotten

-----------------------------------------------------------------------------
(* The rest rests on the order of the naturals.                             *)
INSTANCE WellFoundedInduction

(* ^U goes back no further than to the completed input.                     *)
LEMMA KilledIs ==
  ASSUME InputInv
  PROVE  \E j \in 0 .. Diff(e, w) : Killed = Back(j)
  <1> DEFINE stops == {k \in 0 .. Diff(e, w) :
                         Back(k) = w \/ buf[At(Prev(Back(k)))] = "newline"}
  <1>1. w \in Counter(WIDTH) /\ e \in Counter(WIDTH) /\ WIDTH \in Size
    BY Sizes, Zenon DEF InputInv
  <1>2. Diff(e, w) \in Nat /\ Diff(e, w) = Ahead(w, e, WIDTH)
    BY <1>1, DiffIs, Zenon
  <1>3. Back(Diff(e, w)) = w
    <2>1. Ahead(w, e, WIDTH) = IF w <= e THEN e - w ELSE e + WIDTH - w
      BY <1>1, Distance, Zenon
    <2>5. PICK k \in Nat : k = Diff(e, w) /\ k = IF w <= e THEN e - w ELSE e + WIDTH - w
      BY <1>2, <2>1, Zenon
    <2>6. e - k + WIDTH = w \/ e - k + WIDTH = w + WIDTH
      BY <1>1, <2>5 DEF Counter, Size
    <2>7. e - k + WIDTH \in 0 .. 2 * WIDTH - 1
      BY <1>1, <2>6 DEF Counter, Size
    <2>2. PICK d \in 0 .. 2 * WIDTH - 1 : d = e - Diff(e, w) + WIDTH /\ (d = w \/ d = w + WIDTH)
      BY <2>5, <2>6, <2>7, Zenon
    <2>3. d % WIDTH = IF d < WIDTH THEN d ELSE d - WIDTH
      BY <1>1, Wrapped, Zenon
    <2>4. d % WIDTH = w
      BY SMTT(20), <1>1, <2>2, <2>3 DEF Counter, Size
    <2> QED
      BY <2>2, <2>4, Zenon DEF Back
  <1>4. Diff(e, w) \in 0 .. Diff(e, w)
    BY <1>2
  <1>5. stops \in SUBSET Nat /\ stops # {}
    <2>1. stops \in SUBSET Nat
      BY <1>2
    <2>2. Diff(e, w) \in stops
      BY <1>3, <1>4, Zenon
    <2> QED
      BY <2>1, <2>2, Zenon
  <1>6. stops \subseteq 0 .. Diff(e, w)
    BY Zenon
  <1>7. Killed = Back(CHOOSE k \in stops : \A i \in stops : k <= i)
    BY Zenon DEF Killed
  <1> HIDE DEF stops
  <1>8. \E k \in stops : \A i \in stops : k <= i
    <2>1. PICK k \in stops : \A i \in stops : <<i, k>> \notin OpToRel(<, Nat)
      BY <1>5, ZenonT(30), NatLessThanWellFounded, WFMin
    <2>2. ASSUME NEW i \in stops
          PROVE  k <= i
      <3>1. i \in Nat /\ k \in Nat
        BY <1>5, Zenon
      <3>2. ~ (i < k)
        BY <2>1, <3>1, Zenon DEF OpToRel
      <3> QED
        BY <3>1, <3>2, SMTT(40)
    <2> QED
      BY <2>2, Zenon
  <1> QED
    BY <1>6, <1>7, <1>8, Zenon

(* Every step keeps the invariant.                                          *)
LEMMA NextInv == IInv /\ [Next]_vars => IInv'
  <1> SUFFICES ASSUME IInv, [Next]_vars
               PROVE  IInv'
    BY Zenon
  <1>1. ASSUME NEW p \in Reader, ReadStart(p) \/ ReadTest(p) \/ ReadSleep(p) \/ Read(p) \/ Kill(p)
        PROVE  IInv'
    BY <1>1, ReadStartInv, ReadWaitInv, ReadInv, KillInv, Zenon
  <1>2. ASSUME NEW p \in Writer, WriteStart(p) \/ WriteWait(p) \/ Write(p)
        PROVE  IInv'
    BY <1>2, WriterInv, WriteInv, Zenon
  <1>3. CASE UartIntr \/ Type \/ Sent
    BY <1>3, UartInv, Zenon
  <1>4. CASE UartGetc
    BY <1>4, KilledIs, UartGetcInv, Zenon DEF IInv
  <1>5. CASE UartSend
    BY <1>5, UartSendInv, Zenon
  <1>6. CASE UNCHANGED vars
    <2>1. /\ UNCHANGED <<r, w, e, buf, lines, txr, txw, txbuf, output>>
          /\ UNCHANGED <<pc, n, killed, rx, busy, irq, handler, written>>
      BY <1>6, Zenon DEF vars
    <2>2. InputInv' /\ OutputInv'
      BY <2>1, InputFrame, OutputFrame, Zenon DEF IInv
    <2> QED
      BY <2>1, <2>2, Zenon DEF IInv, ProcInv, Asleep, SenderWorks
  <1> QED
    BY <1>1, <1>2, <1>3, <1>4, <1>5, <1>6, ZenonT(40) DEF Next

(* The invariant of the console.                                            *)
LEMMA InvAlways == Spec => []IInv
  BY InitInv, NextInv, PTL DEF Spec

(* Readers get the completed input and the sender gets the bytes written,   *)
(* in order and once, whatever is typed and however indices wrap.           *)
THEOREM ConsoleInOrder == Spec => []InOrder
  BY InvAlways, InvInOrder, PTL

(* No reader sleeps while there is input or the buffer is full, killed or   *)
(* not, and no byte waits for an idle sender.                               *)
THEOREM ConsoleNothingForgotten == Spec => []NothingForgotten
  BY InvAlways, InvNothingForgotten, PTL

=============================================================================
