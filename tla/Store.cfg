SPECIFICATION Spec
CONSTANTS
  Steps = {1, 2}
  Digests = {d1, d2}
  KeepLast = 1
  FsyncsDirectories = TRUE
  Named = {"best_val"}
  NoFile = NoFile
INVARIANTS
  TypeOK
  PointerLoads
  NamedNeverTorn
PROPERTIES
  ReturnedSaveIsDurable
  KeepsPromise
