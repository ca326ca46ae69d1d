CONSTANTS
  Parts <- AllParts
  Block = 64
  OctetBits = 2
  Radix = 4
  Word = 16
  Pieces = {0, 8, 55}
  Vectors <- MCVectors
  Digits = 2
  Lengths = {0, 1, 2, 5, 12, 13}
  Keys <- MCKeys
  MAXPAIR = 80
  MixInputs <- MCMixInputs
  FileSize = 8
  Hosts = {"ppc", "x86", "arm"}
  Values <- MCValues
  NoField = NoField
  MaxOutOfLine = 2
  ArrayLengths = {0, 1}
  Minute = 3
  Repeated = {9}
  Hour = 9
  Midnights = {0, 1, 2}
  MaxTasks = 3
  MaxBlocks = 3
  MaxWait = 4
  Threads = {t1, t2}
  Callers = {c1, c2}
  Compares = 2
  MaxSorts = 3
  Strings = {0, 1, 2, 3, 4}
  MaxSize = 6
  Null = Null
  Archives <- MCArchives
  SizeT = 1048576
  Landings = {0, 100}
  MaxArids = 2
SPECIFICATION MCSpec
INVARIANTS DigestIsOfMessage LengthIsExact DigestIsKnown SelfTestPasses ReadersAgree ArgumentsArrive ResultsArrive TaskIsKnown RemindsOnceAhead ComparesByOwn CopiesWhatFits DatesAreErased
PROPERTY EveryTaskEnds
CHECK_DEADLOCK FALSE
