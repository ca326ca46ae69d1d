CONSTANTS
  Contents = {c1, c2}
  Versions = {v1, v2}
  Scripts = {postinst}
  Settings <- MCSettings
  MaxRevision = 3
  None = None
  Partial = Partial
SYMMETRY Alike
SPECIFICATION Spec
INVARIANTS RecordedIsPacked FakerootOwnersKept OffersCurrent
PROPERTIES DebsNeverChange ImplementsReleases
