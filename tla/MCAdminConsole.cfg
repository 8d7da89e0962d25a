SPECIFICATION FairSpec
CONSTANTS
  Ids = {x1, x2}
  Filters = {"all", "some"}
  MaxPages = 2
  Slots = {1, 2}
  Calls = {c1}
  MaxEdits <- EditsPerPage
  PageSize = 2
  RowCap = 4
  MaxLog = 5
  Attempts = 2
INVARIANTS ShownIsAsked ToldIsDone ExportComplete
PROPERTIES BusyEnds
CHECK_DEADLOCK FALSE
