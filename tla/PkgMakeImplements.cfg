CONSTANTS
  app = app
  lib = lib
  base = base
  Packages <- MCPackages
  Deps <- MCDeps
  Contents <- MCContents
  Outs <- MCOuts
  Outputs <- MCOutputs
  EditDuringMake = FALSE
  Unfinished = Unfinished
  NoPackage = NoPackage
  NoStamp = NoStamp
SPECIFICATION FairSpec
PROPERTY ImplementsCache
