SPECIFICATION Spec
CONSTANTS
  Cpu = {c1, c2}
  Region = {1, 2, 3}
  Slot = {1, 2}
  Table = {t1, t2}
  NoTable = NoTable
SYMMETRY PagingSymmetry
INVARIANTS TypeOK NoFreedWalk WalkIsCurrent NoStaleTranslation
PROPERTIES HintPrecise
