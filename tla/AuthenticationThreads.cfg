\* Two threads, a key that may be withdrawn and one that may be added.
SPECIFICATION FairSpec
CONSTANTS
  old = old
  new = new
  Threads = {t1, t2}
  Keys = {old, new}
  OldKeys = {old}
  NoKey = nokey
  Tokens <- MCTokens
  TTL = 2
  Boot = 1
  MaxTime = 3
PROPERTIES
  SteadyKeyKnown
  RotatedKeyFound
  WithdrawnExpires
  InitialisedOnce
  RefusalsEnd
CHECK_DEADLOCK FALSE
