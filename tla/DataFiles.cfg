SPECIFICATION Spec
SYMMETRY Symmetry
CONSTANTS
  NDirs = 2
  Threads = {t1, t2}
  MaxVersion <- MCMaxVersion
INVARIANTS
  NothingTorn
PROPERTIES
  SavesLandInOrder
  RestartLoadsLatest
