INIT Init
NEXT Next
CONSTANTS
  Reader = {r1}
  Writer = {w1}
  INPUT_BUF_SIZE = 2
  UART_TX_BUF_SIZE = 2
  WIDTH = 4
  First = 3
  MaxRead = 2
  RxFifo = 1
  MaxTyped = 3
  MaxWritten = 3
INVARIANT KillWakesReader
CHECK_DEADLOCK FALSE
