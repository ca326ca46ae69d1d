CONSTANTS
  Multiples = {0, 1, 2, 256}
  Sizes <- MCSizes
  BaseLengths = {1, 2, 3, 8, 15, 16, 255}
  XmlSizes = {0, 1, 7, 8, 9, 500}
  NoXml = NoXml
  Machs <- MCMachs
  LdidHosts = {"little", "big"}
  ArgLists <- MCArgLists
  Addrs = 16
  MaxInvocations = 2
  NoProc = NoProc
  N = 2
  Versions = {v1, v2, intel}
  MachOs = {v1, v2, intel}
  Signable = {v1, v2}
  Modes = {"-S", "-s", "none"}
  Alters = {FALSE, TRUE}
  StatusRange = 256
  FlushFails = FALSE
  MaxRebuilds = 1
  MaxRuns = 2
  None = None
SPECIFICATION MCSpec
INVARIANTS WritesWithinRoom PartsDisjoint PagesCoverCode SlotsCoverBlobs OrderIsKept StampIsOfFile NeverStale NothingLost SuccessMeansSigned
PROPERTIES ResigningKeepsCode SaysWhatIsThere EveryRunEnds ImplementsStore
CHECK_DEADLOCK FALSE
