CONSTANTS
  Missing = Missing
  Corrupt = Corrupt
  Torn = Torn
  NoAnswer = NoAnswer
  Refusal = Refusal
  MaxGeneration = 3
SPECIFICATION FairSpec
INVARIANT TypeOK
INVARIANT FileIsWhole
INVARIANT RunsTheFile
INVARIANT AutostartFollows
PROPERTY GenerationNamesSettings
PROPERTY RequestsAnswered
