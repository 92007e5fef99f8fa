SPECIFICATION Spec
CONSTANTS
  MaxBytes = 6
  Keywords <- Utf8Text
INVARIANTS SingleCharactersAlways
