\* Two callers race on one task through a whole rework loop.
CONSTANTS
  Tasks = {t1}
  Callers = {c1, c2}
  Scope <- ReworkScope
  MaxMoves = 5
  MaxLost = 1
SPECIFICATION Spec
SYMMETRY Symmetry
INVARIANTS
  TypeOK
  HistoryIsPath
  AttemptsAreRequeues
  MovesAccountedFor
PROPERTIES
  ImplementsLedger
CHECK_DEADLOCK FALSE
