CONSTANTS
  N = 1
  Versions = {v1}
  MachOs = {v1}
  Signable = {v1}
  Modes = {"-S"}
  Alters = {FALSE}
  StatusRange = 256
  FlushFails = TRUE
  MaxRebuilds = 0
  MaxRuns = 1
  None = None
SPECIFICATION SignSpec
INVARIANT CopyIsWhole
CHECK_DEADLOCK FALSE
