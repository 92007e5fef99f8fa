SPECIFICATION Spec
CONSTANTS
  MaxParams = 3
  ValueLens = {0, 1, 12}
  Joints <- AmpOnly
  Requests <- MCRequests
  InitialLocals <- Zero
INVARIANTS KeywordRecovered
