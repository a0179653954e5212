------------------------------- MODULE Console -------------------------------
(***************************************************************************)
(* kernel/console.c and kernel/uart.c: processes that read lines from the  *)
(* console and write to it, the interrupt handler, and the UART.           *)
(*                                                                         *)
(* A critical section of cons.lock or uart_tx_lock is one action; the      *)
(* handler takes one for each character received and one to send.  The     *)
(* indices of the buffers are unsigned and wrap: they count modulo WIDTH.  *)
(***************************************************************************)
EXTENDS Integers, Sequences, FiniteSets

CONSTANTS Reader, Writer,
          INPUT_BUF_SIZE, UART_TX_BUF_SIZE,
          WIDTH,        \* modulus of the indices of both buffers
          First,        \* where the indices start
          MaxRead,      \* bound: bytes of a read
          RxFifo,       \* keys the UART can hold
          MaxTyped,     \* bound: keys typed
          MaxWritten    \* bound: bytes written in all

ASSUME SizeAssumption ==
  /\ WIDTH \in Nat /\ First \in 0 .. WIDTH - 1
  /\ \A size \in {INPUT_BUF_SIZE, UART_TX_BUF_SIZE} :
       size \in Nat \ {0} /\ WIDTH % size = 0 /\ WIDTH > size
  /\ MaxWritten \in Nat /\ Reader \cap Writer = {}

Key == {"x", "newline", "eof", "kill", "erase"}
Proc == Reader \cup Writer

VARIABLES
  r, w, e, buf,         \* cons
  txr, txw, txbuf,      \* uart_tx_r, uart_tx_w, uart_tx_buf
  rx, busy, irq,        \* UART: received keys, sender busy, interrupt raised
  handler,              \* uartintr: idle, in its loop ("rx")
  pc, n, target,        \* consoleread, and consolewrite with n bytes to go
  killed,
  typed, written,       \* counters for the bounds
  lines, output         \* history: completed input not yet read; bytes given
                        \* to uartputc and not yet to the sender

input == <<r, w, e, buf>>
tx == <<txr, txw, txbuf>>
uart == <<txr, txw, txbuf, rx, busy, irq>>
vars == <<r, w, e, buf, txr, txw, txbuf, rx, busy, irq, handler, pc, n, target,
          killed, typed, written, lines, output>>

Init ==
  /\ r = First /\ w = First /\ e = First
  /\ buf = [k \in 0 .. INPUT_BUF_SIZE - 1 |-> "x"]
  /\ txr = First /\ txw = First
  /\ txbuf = [k \in 0 .. UART_TX_BUF_SIZE - 1 |-> 0]
  /\ rx = <<>> /\ busy = FALSE /\ irq = FALSE
  /\ handler = "idle"
  /\ pc = [p \in Proc |-> "user"]
  /\ n = [p \in Proc |-> 0]
  /\ target = [p \in Proc |-> 0]
  /\ killed = [p \in Proc |-> FALSE]
  /\ typed = 0 /\ written = 0
  /\ lines = <<>> /\ output = <<>>

Diff(a, b) == (a - b + WIDTH) % WIDTH
Next1(a) == (a + 1) % WIDTH
Prev(a) == (a + WIDTH - 1) % WIDTH
At(a) == a % INPUT_BUF_SIZE

-----------------------------------------------------------------------------
\* consoleread.
ReadStart(p) ==
  /\ pc[p] = "user" /\ ~ killed[p]
  /\ \E m \in 1 .. MaxRead : /\ n' = [n EXCEPT ![p] = m]
                             /\ target' = [target EXCEPT ![p] = m]
  /\ pc' = [pc EXCEPT ![p] = "read"]
  /\ UNCHANGED <<input, uart, handler, killed, typed, written, lines, output>>

\* The end of consoleread.
ReadReturn(p) ==
  /\ pc' = [pc EXCEPT ![p] = "user"]
  /\ n' = [n EXCEPT ![p] = 0]
  /\ target' = [target EXCEPT ![p] = 0]

\* cons.lock is held across the test of killed and the sleep, which are two
\* critical sections of p->lock; kill takes p->lock only.
ConsFree == \A p \in Reader : pc[p] # "tested"

\* Nothing to read: return if killed.
ReadTest(p) ==
  /\ pc[p] = "read" /\ ConsFree /\ r = w
  /\ IF killed[p] THEN ReadReturn(p)
     ELSE pc' = [pc EXCEPT ![p] = "tested"] /\ UNCHANGED <<n, target>>
  /\ UNCHANGED <<input, uart, handler, killed, typed, written, lines, output>>

\* sleep on &cons.r, which releases cons.lock.
ReadSleep(p) ==
  /\ pc[p] = "tested"
  /\ pc' = [pc EXCEPT ![p] = "sleep"]
  /\ UNCHANGED <<input, uart, handler, n, target, killed, typed, written, lines, output>>

\* The rest of the loop, with cons.lock held: up to a newline, an end of file,
\* n bytes, a bad user address (fault), or all there is; taken characters are
\* consumed.
Available == {k \in 1 .. INPUT_BUF_SIZE : k <= Diff(w, r)}
Char(k) == buf[At(r + k - 1)]
Stops(p, k) ==   \* the loop leaves after character k
  Char(k) \in {"newline", "eof"} \/ k = n[p]
Read(p) ==
  /\ pc[p] = "read" /\ ConsFree /\ r # w
  /\ \E k \in Available, fault \in BOOLEAN :
       /\ \A j \in 1 .. k - 1 : ~ Stops(p, j)
       /\ Stops(p, k) \/ k = Diff(w, r) \/ fault
       /\ LET \* ^D after other bytes is left for the next read
              back == Char(k) = "eof" /\ (k > 1 \/ n[p] < target[p])
              taken == IF back THEN k - 1 ELSE k
          IN  /\ r' = (r + taken) % WIDTH
              /\ lines' = SubSeq(lines, taken + 1, Len(lines))
              /\ IF Stops(p, k) \/ fault
                 THEN ReadReturn(p)
                 ELSE /\ n' = [n EXCEPT ![p] = @ - k]
                      /\ UNCHANGED <<pc, target>>
  /\ UNCHANGED <<w, e, buf, uart, handler, killed, typed, written, output>>

\* kill wakes the reader if it is asleep already.
Kill(p) ==
  /\ ~ killed[p]
  /\ killed' = [killed EXCEPT ![p] = TRUE]
  /\ pc' = [pc EXCEPT ![p] = IF @ = "sleep" THEN "read" ELSE @]
  /\ UNCHANGED <<input, uart, handler, n, target, typed, written, lines, output>>

\* consoleintr(c): what it does to the indices and the buffer.  ^U goes back
\* to w or to just after a newline, whichever comes first.
Back(k) == (e - k + WIDTH) % WIDTH
Killed ==
  LET stops == {k \in 0 .. Diff(e, w) : Back(k) = w \/ buf[At(Prev(Back(k)))] = "newline"}
  IN  Back(CHOOSE k \in stops : \A j \in stops : k <= j)

\* wakeup(&cons.r)
WakeReaders == pc' = [p \in Proc |-> IF p \in Reader /\ pc[p] = "sleep"
                                     THEN "read" ELSE pc[p]]

Room == Diff(e, r) < INPUT_BUF_SIZE

\* Mutant: a full buffer waits for a newline.
EndsAtNewline(c) == c \in {"newline", "eof"}

\* Whether key c, which is stored already, completes the input.
Completes(c) == c \in {"newline", "eof"} \/ Diff(e', r) = INPUT_BUF_SIZE

\* Mutant: w is set before e is incremented.
CommitEarly ==
  /\ w' = e
  /\ lines' = lines \o [k \in 1 .. Diff(e', w) |-> buf'[At(w + k - 1)]]
  /\ WakeReaders

Commit ==
  /\ w' = e'
  /\ lines' = lines \o [k \in 1 .. Diff(e', w) |-> buf'[At(w + k - 1)]]
  /\ WakeReaders

ConsoleIntr(c) ==
  \/ /\ c = "kill"
     /\ e' = Killed
     /\ UNCHANGED <<r, w, buf, pc, lines>>
  \/ /\ c = "erase"
     /\ e' = IF e # w THEN Prev(e) ELSE e
     /\ UNCHANGED <<r, w, buf, pc, lines>>
  \/ /\ c \notin {"kill", "erase"} /\ Room
     /\ buf' = [buf EXCEPT ![At(e)] = c]
     /\ e' = Next1(e)
     /\ IF Completes(c) THEN Commit ELSE UNCHANGED <<w, pc, lines>>
     /\ UNCHANGED r
  \/ /\ c \notin {"kill", "erase"} /\ ~ Room
     /\ UNCHANGED <<input, pc, lines>>

-----------------------------------------------------------------------------
\* Mutant: no wakeup(&uart_tx_r).
WakeNobody(f) == f

\* uartstart: at most one byte goes to the sender, which is busy then.  at is
\* uart_tx_w, f the program counters.
WakeWriters(f) == [p \in Proc |-> IF p \in Writer /\ f[p] = "sleep"
                                  THEN "write" ELSE f[p]]
UartStart(at, out, f) ==
  IF at # txr /\ ~ busy
  THEN /\ txr' = Next1(txr) /\ busy' = TRUE
       /\ output' = Tail(out)
       /\ pc' = WakeWriters(f)
  ELSE output' = out /\ pc' = f /\ UNCHANGED <<txr, busy>>

\* consolewrite of all the bytes that the bound leaves.
WriteStart(p) ==
  /\ pc[p] = "user" /\ written < MaxWritten
  /\ n' = [n EXCEPT ![p] = MaxWritten - written]
  /\ pc' = [pc EXCEPT ![p] = "write"]
  /\ UNCHANGED <<input, uart, handler, target, killed, typed, written, lines, output>>

\* uartputc: sleep on &uart_tx_r while the buffer is full.
WriteWait(p) ==
  /\ pc[p] = "write" /\ Diff(txw, txr) = UART_TX_BUF_SIZE
  /\ pc' = [pc EXCEPT ![p] = "sleep"]
  /\ UNCHANGED <<input, uart, handler, n, target, killed, typed, written, lines, output>>

TxSlot == txw % UART_TX_BUF_SIZE

\* A byte of consolewrite, and the copyin of the next one, whose fault ends the
\* call.
Write(p) ==
  /\ pc[p] = "write" /\ Diff(txw, txr) < UART_TX_BUF_SIZE
  /\ txbuf' = [txbuf EXCEPT ![TxSlot] = n[p]]
  /\ txw' = Next1(txw)
  /\ written' = written + 1
  /\ \E left \in {n[p] - 1, 0} :
       /\ n' = [n EXCEPT ![p] = left]
       /\ UartStart(txw', Append(output, n[p]),
                    [pc EXCEPT ![p] = IF left = 0 THEN "user" ELSE "write"])
  /\ UNCHANGED <<input, rx, irq, handler, target, killed, typed, lines>>

\* uartintr.
UartIntr ==
  /\ irq /\ handler = "idle"
  /\ handler' = "rx"
  /\ irq' = FALSE
  /\ UNCHANGED <<input, tx, rx, busy, pc, n, target, killed, typed, written,
                 lines, output>>

\* uartgetc and consoleintr; the echo waits in uartputc_sync for the sender.
Echoes(c) == CASE c = "kill" -> Killed # e
               [] c = "erase" -> e # w
               [] OTHER -> Room
UartGetc ==
  /\ handler = "rx" /\ rx # <<>> /\ ConsFree
  /\ Echoes(Head(rx)) => ~ busy
  /\ busy' = (busy \/ Echoes(Head(rx)))
  /\ ConsoleIntr(Head(rx))
  /\ rx' = Tail(rx)
  /\ UNCHANGED <<tx, irq, handler, n, target, killed, typed, written, output>>

\* No more input: send.
UartSend ==
  /\ handler = "rx" /\ rx = <<>>
  /\ handler' = "idle"
  /\ UartStart(txw, output, pc)
  /\ UNCHANGED <<input, txw, txbuf, rx, irq, n, target, killed, typed, written,
                 lines>>

\* The UART receives a key, and gets done with a byte; both interrupt.
Type ==
  /\ typed < MaxTyped /\ Len(rx) < RxFifo
  /\ typed' = typed + 1
  /\ \E k \in Key : rx' = Append(rx, k)
  /\ irq' = TRUE
  /\ UNCHANGED <<input, tx, busy, handler, pc, n, target, killed, written,
                 lines, output>>
Sent ==
  /\ busy
  /\ busy' = FALSE
  /\ irq' = TRUE
  /\ UNCHANGED <<input, tx, rx, handler, pc, n, target, killed, typed, written,
                 lines, output>>

Next ==
  \/ \E p \in Reader : ReadStart(p) \/ ReadTest(p) \/ ReadSleep(p) \/ Read(p) \/ Kill(p)
  \/ \E p \in Writer : WriteStart(p) \/ WriteWait(p) \/ Write(p)
  \/ UartIntr \/ UartGetc \/ UartSend
  \/ Type \/ Sent

Fairness ==
  /\ \A p \in Reader : WF_vars(ReadTest(p) \/ ReadSleep(p) \/ Read(p))
  /\ \A p \in Writer : WF_vars(WriteWait(p) \/ Write(p))
  /\ WF_vars(UartIntr) /\ WF_vars(UartGetc) /\ WF_vars(UartSend) /\ WF_vars(Sent)

Spec == Init /\ [][Next]_vars /\ Fairness

-----------------------------------------------------------------------------
\* Neither buffer holds more than it can, when the indices wrap too.
TypeOK ==
  /\ {r, w, e} \subseteq 0 .. WIDTH - 1
  /\ Diff(e, r) <= INPUT_BUF_SIZE
  /\ Diff(txw, txr) <= UART_TX_BUF_SIZE
  /\ pc \in [Proc -> {"user", "read", "tested", "write", "sleep"}]

\* Readers get exactly the input that was completed by a newline, an end of
\* file or a full buffer, in order and once; nothing typed later (erase, kill,
\* a full buffer) changes it.
InputInOrder ==
  lines = [k \in 1 .. Diff(w, r) |-> buf[At(r + k - 1)]]

\* A reader asleep has nothing to read, and leaves room for the keys that will
\* wake it: a full buffer never waits for a newline.
NoLostWakeup ==
  \A p \in Reader : pc[p] = "sleep" => r = w /\ Diff(e, r) < INPUT_BUF_SIZE

\* A killed reader does not sleep.  Not so: a kill between the test of killed
\* and the sleep (console.c:92-96) wakes nobody, and the reader stays asleep
\* until input arrives.
KillWakesReader == \A p \in Reader : pc[p] = "sleep" => ~ killed[p]

\* What is sent is what was written, in the order in which it was written.
OutputInOrder ==
  output = [k \in 1 .. Diff(txw, txr) |-> txbuf[(txr + k - 1) % UART_TX_BUF_SIZE]]

\* Both ring buffers deliver what was put into them, in order and once.
InOrder == TypeOK /\ InputInOrder /\ OutputInOrder

\* While bytes wait to be sent the sender is busy, an interrupt is raised or
\* the handler runs: uartstart never leaves them to nobody.
SenderWorks ==
  txr # txw => busy \/ irq \/ handler # "idle"

\* Nobody waits for an event that has already happened: readers for input,
\* bytes for a transmitter that is idle.
NothingForgotten == NoLostWakeup /\ SenderWorks

\* Every write ends, however much is typed meanwhile: a writer asleep on a full
\* buffer is woken when uartstart takes a byte.
WritesEnd == \A p \in Writer : pc[p] = "write" ~> pc[p] = "user"

=============================================================================
