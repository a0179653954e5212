SPECIFICATION Spec
CONSTANTS
  Proc = {p1, p2, p3}
  NUM = 8
  WIDTH = 16
  First = 15
  MaxOps = 3
INVARIANTS RingsSound DataMoved
PROPERTY RequestsEnd
CHECK_DEADLOCK FALSE
