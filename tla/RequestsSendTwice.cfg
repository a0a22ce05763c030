\* A send repeated while the first still runs: is its key processed once?
SPECIFICATION Spec
CONSTANTS
  first = c1
  Workers = {w1, w2}
  CreateKeys = {c1}
  SendKeys = {s1}
  Into <- MCInto
  MaxRequests = 3
  MaxCrashes = 0
SYMMETRY WorkerSymmetry
INVARIANTS
  SendOnce
CHECK_DEADLOCK FALSE
