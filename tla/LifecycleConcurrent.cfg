\* Three overlapping requests at most, five in all, one of them cut off.
SPECIFICATION Spec
CONSTANTS
  Workers = {w1, w2, w3}
  MaxRequests = 5
  MaxCrashes = 1
SYMMETRY WorkerSymmetry
INVARIANTS
  StampsFollowStatus
  AnsweredIsStamped
  QueuedIsUntouched
  AuditTrail
  EndIsAnnounced
  FirstResponseKept
  TurnIsRight
PROPERTIES
  ImplementsContract
CHECK_DEADLOCK FALSE
