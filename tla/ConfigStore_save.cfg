SPECIFICATION Spec
CONSTANTS
  Torn = Torn
  NoFile = NoFile
  NoTemp = NoTemp
  Configs = {g1, g2, g3}
  Valid = {g1, g2}
  TempNames = {t1, t2}
INVARIANTS
  Inv
  AlwaysLoads
  NoTempLeft
PROPERTIES
  ImplementsAtomicStore
