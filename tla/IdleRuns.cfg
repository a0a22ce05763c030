\* Two runs that may overlap, one cut off: notices are spaced, silence and rest end.
SPECIFICATION FairSpec
CONSTANTS
  Runs = {t1, t2}
  EscalateAfter = 1
  NudgeAfter = 1
  ResolveAfter = 3
  CloseAfter = 1
  MaxTime = 4
  MaxCrashes = 1
PROPERTIES
  EscalationsSpaced
  NudgedOnce
  FirstSilenceResolved
  RestedIsClosed
CHECK_DEADLOCK FALSE
