SPECIFICATION Spec
CONSTANTS
  Cmds <- MCCmds
  NOFILE = 5
  PipeSize = 1
  MaxWrite = 2
  MaxCmds = 2
  MaxFails = 1
INVARIANTS RunsAsWritten
PROPERTY CommandsEnd
CHECK_DEADLOCK FALSE
