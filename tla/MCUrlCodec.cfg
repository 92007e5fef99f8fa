SPECIFICATION CodecSpec
CONSTANTS
  Texts <- MCTexts
  Args <- MCArgs
INVARIANTS InBounds RoundTrip CutEscapeEndsText
