SPECIFICATION Spec
CONSTANTS
  MaxParams = 3
  ValueLens = {0, 1, 12}
  Joints <- MCJoints
  Requests <- MCRequests
  InitialLocals <- Garbage
INVARIANTS NeverThrows FieldsRecovered VersionsAgree
PROPERTIES Progress Terminates
