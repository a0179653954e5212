SPECIFICATION Spec
CONSTANTS
  Reader = {r1, r2}
  Writer = {w1, w2}
  Killable = {w1}
  Byte = {a, b}
  PIPESIZE = 2
  UintMod = 4
  MaxCount = 3
  None = None
CHECK_DEADLOCK FALSE
INVARIANT NoLostWakeup
