SPECIFICATION Spec
CONSTANTS
  Scalars = {"false"}
  Strings = {"a", "b"}
  MaxLen = 11
  DocLen = 8
  Texts <- MCTexts
INVARIANTS OneOwner ParsesDocument PrintsValue
