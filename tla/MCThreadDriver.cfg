SPECIFICATION Spec
CONSTANTS
  Rows = 5
  MaxThreads = 6
  Pieces = 3
INVARIANTS LinesWhole OutlivesThreads
PROPERTY AllReported
