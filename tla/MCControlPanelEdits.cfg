CONSTANTS
  Executable <- MCExecutable
  Stored <- MCStored
  None = None
  MaxAttempts = 2
  MaxEdits = 1
  MaxToggles = 0
  MaxOpens = 1
SPECIFICATION Spec
PROPERTY PendingEditsKept
