SPECIFICATION Spec
CONSTANTS
  Jobs = {j1, j2}
  N = 2
  NoJob = NoJob
  MaxCrashes = 1
  MaxFails = 0
  MaxErase = 1
SYMMETRY Symmetry
INVARIANTS ResultsExact AnnouncedOnce
PROPERTIES CancelHonoured AnsweredNotRerun ImplementsLifecycle
CHECK_DEADLOCK FALSE
