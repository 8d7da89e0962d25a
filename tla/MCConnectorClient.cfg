SPECIFICATION FairSpec
CONSTANTS
  Callers = {s1, s2}
  Hello = Hello
  MaxAttempts = 2
  MaxCrashes = 1
  MaxCloses = 1
INVARIANTS DecisionIsReal AtMostOnce
PROPERTIES Settles
CHECK_DEADLOCK FALSE
