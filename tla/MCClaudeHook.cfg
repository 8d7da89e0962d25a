SPECIFICATION HookSpec
CONSTANTS
  Hooks = {h1, h2, h3}
  Keys = {k1, k2}
  Window = 1
  MaxClock = 2
INVARIANTS AckFollowsBlock ConsumedOnce
CHECK_DEADLOCK FALSE
