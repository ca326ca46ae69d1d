CONSTANTS
  Versions = {v313, v32}
  MacOSX = MacOSX
  Projects = {xnu}
  Xnu = xnu
SPECIFICATION Spec
INVARIANT EveryRootStarts
