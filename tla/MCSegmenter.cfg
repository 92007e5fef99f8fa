SPECIFICATION Spec
CONSTANTS
  MaxBytes = 7
  Keywords <- AnyText
INVARIANTS TermsTileKeyword SingleCharacters ClauseByKind
PROPERTIES Terminates
