CONSTANTS
  Versions = {v313, v32}
  MacOSX = MacOSX
  Projects = {xnu, other}
  Xnu = xnu
SYMMETRY Alike
SPECIFICATION Spec
INVARIANTS AgainIsWhole
