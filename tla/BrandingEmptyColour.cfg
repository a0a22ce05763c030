\* settings.ROAM_THEME with an empty colour, and nothing edited.
SPECIFICATION Spec
CONSTANTS
  triage = triage
  incident = incident
  critical = critical
  blank = blank
  low = low
  g1 = g1
  g2 = g2
  r1 = r1
  acme = acme
  hard = hard
  text1 = text1
  text2 = text2
  grey = grey
  red = red
  blue = blue
  Keys = {triage, incident}
  Triage = triage
  Groups = {g1, g2}
  NoGroup = NoGroup
  Values = {critical, low, blank}
  Blank = blank
  Contained <- MCContained
  Fields = {"severity"}
  Names = {r1}
  Criteria <- MCCriteria
  Malformed = Malformed
  Priorities = {1, 2}
  Seeds <- MCSeeds
  MaxQueues = 2
  MaxRules = 2
  MaxMappings = 2
  Gone = Gone
  Orgs = {acme}
  Deployment = Deployment
  Severities = {critical}
  Texts = {hard, text1, text2}
  Colours = {grey, red, blue}
  NoValue = NoValue
  Empty = Empty
  Brands <- MCBrands
  Namings = {{"header"}, {"colors", "fallback"}}
  HardCoded <- MCHardCoded
  Settings <- EmptySettings
  Editors = {e1}
  NoEdit = NoEdit
  MaxRows = 3
  Beginnings <- MCBeginnings
  Creations = {c1}
  Inputs <- MCInputs
  MaxEdits = 1
  MaxPatches = 0
INVARIANT
  EmptyOverridesNothing
CHECK_DEADLOCK FALSE
