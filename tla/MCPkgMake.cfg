CONSTANTS
  app = app
  lib = lib
  base = base
  Packages <- MCPackages
  Deps <- MCDeps
  Contents <- MCContents
  Outs <- MCOuts
  Outputs <- MCOutputs
  EditDuringMake = TRUE
  Unfinished = Unfinished
  NoPackage = NoPackage
  NoStamp = NoStamp
SPECIFICATION FairSpec
INVARIANTS StampSound IncrementalIsClean
PROPERTIES MadeStaysMade EventuallyIdle
