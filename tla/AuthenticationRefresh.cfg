\* One request at a time: does the forced refresh find a rotated key?
SPECIFICATION Spec
CONSTANTS
  old = old
  new = new
  Threads = {t1}
  Keys = {old, new}
  OldKeys = {old}
  NoKey = nokey
  Tokens <- MCTokens
  TTL = 2
  Boot = 1
  MaxTime = 3
PROPERTIES
  RefreshFindsKey
CHECK_DEADLOCK FALSE
