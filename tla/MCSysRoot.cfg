CONSTANTS
  v42 = v42
  Versions = {v42}
  Default = v42
  MacOSX = MacOSX
  Releases = {r1, r2}
  Nothing = Nothing
  Cut = Cut
  Bad = Bad
SYMMETRY Alike
SPECIFICATION Spec
INVARIANTS BuiltIsWhole ExtractedIsWhole NeverHalfExtracted
