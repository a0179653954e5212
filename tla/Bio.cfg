\* Three processes and the pins of the log compete for two buffers for four blocks:
\* several sleep on one buffer, and bget may find every buffer in use (its panic).
SPECIFICATION Spec
CONSTANTS
  Proc = {p1, p2, p3}
  Block = {b1, b2, b3, b4}
  Val = {v1, v2}
  NBUF = 2
  MaxPins = 2
  None = None
SYMMETRY Symmetry
CHECK_DEADLOCK FALSE
INVARIANTS CacheSound KeepsItsBlock
PROPERTY OneCopy
