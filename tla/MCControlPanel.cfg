CONSTANTS
  Executable <- MCExecutable
  Stored <- MCStored
  None = None
  MaxAttempts = 2
  MaxEdits = 2
  MaxToggles = 1
  MaxOpens = 2
SPECIFICATION FairSpec
INVARIANT ScreenTrue
 
PROPERTY ComesToRest
