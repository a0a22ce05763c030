\* Overlapping poll runs, fairly scheduled, on a history of one message a page; an unreliable webhook, and replies without an id or, in their webhooks, without a thread key.
SPECIFICATION FairSpec
CONSTANTS
  Replies = {reply, untagged, foreign}
  Untagged = {untagged}
  Unkeyed = {reply}
  Echoes = {}
  Bots = {}
  Nameless = {}
  BotKnown = TRUE
  Foreign = {foreign}
  Blank = {}
  NoReply = none
  Handlers = {h1}
  Pollers = {p1, p2}
  PageLimit = 1
  MaxDeliveries = 1
  MaxCrashes = 1
  MaxSwitches = 1
PROPERTIES
  ReplyArrives
CHECK_DEADLOCK FALSE
