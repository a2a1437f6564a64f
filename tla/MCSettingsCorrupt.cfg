CONSTANTS
  Missing = Missing
  Corrupt = Corrupt
  Torn = Torn
  NoAnswer = NoAnswer
  Refusal = Refusal
  MaxGeneration = 3
SPECIFICATION Spec
PROPERTY CorruptFilePreserved
