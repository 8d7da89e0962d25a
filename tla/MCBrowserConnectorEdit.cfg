SPECIFICATION Spec
CONSTANTS
  Prompts = {p1}
  Uploads = {}
  MaxEdits = 2
  MaxKills = 0
INVARIANT SentWasScanned
CHECK_DEADLOCK FALSE
