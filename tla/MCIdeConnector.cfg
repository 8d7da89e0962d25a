SPECIFICATION IdeFairSpec
CONSTANTS
  Commands = {c1, c2}
  Docs = {d1, d2}
  Pastes = {p1, p2}
  MaxToggles = 1
INVARIANTS SafeToSend PasteKept
PROPERTIES IdeSettles
CHECK_DEADLOCK FALSE
