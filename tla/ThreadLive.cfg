\* Two conversations, one message more, two openings, two requests under way.
SPECIFICATION FairSpec
CONSTANTS
  Conversations = {c1, c2}
  NoConversation = none
  Requests = {r1, r2}
  MaxMessages = 3
  MaxMounts = 2
INVARIANTS
  NoDuplicates
PROPERTIES
  StrangersAreLate
  SettlesOnThread
CHECK_DEADLOCK FALSE
