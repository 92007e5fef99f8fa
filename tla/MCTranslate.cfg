SPECIFICATION Spec
CONSTANTS
  Texts <- MCTexts
  Dict <- MCDict
  MaxString = 8
INVARIANTS Resynchronises IdeographsTranslated NothingLost
PROPERTY Terminates
