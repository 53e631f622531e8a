CONSTANTS
  Proc = {p1, p2, p3}
  Key = {k1, k2}
  Archive = {a1, a2}
  Nil = Nil

SPECIFICATION Spec
SYMMETRY Symmetry
CHECK_DEADLOCK FALSE

INVARIANTS
  NoRestoreUnderAServer
  EveryFileCanBeOpened
