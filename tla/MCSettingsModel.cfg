CONSTANTS
  Document <- MCDocument
  Name <- MCName
  Language = {"en", "zh-CN", "system", "fr"}
  Number = {0, 1, 40, 50}
  MaxChanges = 2
  Odd = Odd
  Stopped = Stopped
SPECIFICATION Spec
INVARIANT RoundTrip
INVARIANT AskedIsDone
