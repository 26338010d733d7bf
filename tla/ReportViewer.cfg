SPECIFICATION MCViewerSpec
CONSTANTS
  Runs = {r1, r2}
  Workers = {w1, w2}
  r1 = r1
  r2 = r2
  w1 = w1
  w2 = w2
  MaxFinishes = 4
  MaxRestarts = 2
  MaxLoads = 2
  NoReport = NoReport
  ReadFinishes = 2
  ReadRestarts = 1
SYMMETRY WorkerSymmetry
INVARIANTS
  ServedIsCurrent
  FilesAgree
  ViewerTypeOK
  ShownIsCurrent
  SelectedIsShown
PROPERTIES
  ClosedForGood
  ImplementsBoard
CHECK_DEADLOCK FALSE
