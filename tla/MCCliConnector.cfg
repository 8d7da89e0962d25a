SPECIFICATION FairSpec
CONSTANTS
  Keystrokes = {"x", "/", "WIDE", "BS", "WORD", "KILL", "KEY", "ESC", "PASTE", "END", "SPLIT", "ENTER"}
  MaxTyped = 4
  Commands <- AllCommands
INVARIANTS RanSanctioned GivenIsScanned LineGated
PROPERTIES NoKeystrokeStuck
CHECK_DEADLOCK FALSE
