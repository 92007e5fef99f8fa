SPECIFICATION LSpec
CONSTANTS
  Ids <- MCIds
  Answers <- MCAnswers
  MaxBody = 3
  MaxCalls = 3
INVARIANTS  LeakOnlyWithoutIds TransferInBounds TransferWhole
PROPERTIES ListedInFull AnsweredEnds TransferIsOneStep 
