\* Two readers, one of which may be killed, and a writer on a pipe of two
\* bytes whose counters wrap after two fillings.
SPECIFICATION FairSpec
CONSTANTS
  Reader = {r1, r2}
  Writer = {w1}
  Killable = {r1}
  Byte = {a, b}
  PIPESIZE = 2
  UintMod = 4
  MaxCount = 2
  None = None
\* Everybody may have closed its end.
CHECK_DEADLOCK FALSE
INVARIANTS NoUseAfterFree NoLostWakeup
PROPERTIES InOrder CallsEnd
