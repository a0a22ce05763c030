\* Two webhook requests and a poll run; one of our two echoes comes back without a sender.
SPECIFICATION Spec
CONSTANTS
  Replies = {reply, echo, ours}
  Untagged = {}
  Unkeyed = {}
  Echoes = {echo, ours}
  Bots = {}
  Nameless = {echo}
  BotKnown = TRUE
  Foreign = {}
  Blank = {}
  NoReply = none
  Handlers = {h1, h2}
  Pollers = {p1}
  PageLimit = 2
  MaxDeliveries = 2
  MaxCrashes = 1
  MaxSwitches = 1
SYMMETRY WorkerSymmetry
INVARIANTS
  EchoesStayOut
  MessageIffEvent
PROPERTIES
  ImplementsInbox
CHECK_DEADLOCK FALSE
