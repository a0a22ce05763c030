\* Two requests at a time, two creations and a send, each repeated at will.
SPECIFICATION Spec
CONSTANTS
  first = c1
  Workers = {w1, w2}
  CreateKeys = {c1, c2}
  SendKeys = {s1}
  Into <- MCInto
  MaxRequests = 4
  MaxCrashes = 1
SYMMETRY WorkerSymmetry
INVARIANTS
  CreateOnce
  CreateAnswersAgree
  AcknowledgedIsStored
  DeliveryMarks
CHECK_DEADLOCK FALSE
