SPECIFICATION FairSpec
CONSTANTS
  Prompts = {p1, p2}
  Uploads = {u1}
  MaxEdits = 2
  MaxKills = 1
INVARIANTS SentWasPermitted UploadScanned
PROPERTIES Settles
CHECK_DEADLOCK FALSE
