SPECIFICATION SSpec
CONSTANTS
  Workers = {"w1", "w2"}
  Requests = {"r1", "r2"}
  Kinds <- MCKinds
  DataLen = 14
INVARIANTS LossHasCause 
PROPERTIES Implements OnlyFetchBlocks
