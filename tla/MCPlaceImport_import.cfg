SPECIFICATION Spec
CONSTANTS
  h1 = h1
  h2 = h2
  r1 = r1
  r2 = r2
  Slots = {h1, h2}
  Reports = {r1, r2}
  Files <- MCFiles
  Requests <- MCRequests
  Shapes <- MCShapes
  Budgets <- MCBudgets
SYMMETRY Symmetry
INVARIANTS TypeOK AddedIsShown ShownOnce GroundTrue
CHECK_DEADLOCK FALSE
