\* One conversation, two requests under way, one change by others.
SPECIFICATION FairSpec
CONSTANTS
  Conversations = {c1}
  NoConversation = none
  FirstStatuses <- MCFirstStatuses
  Ratings = {bad, great}
  NoRating = unrated
  Requests = {r1, r2}
  MaxMoves = 1
INVARIANTS
  ThankedIsStored
  FormsGoOn
PROPERTIES
  FeedbackKept
  SettlesOnStatus
CHECK_DEADLOCK FALSE
