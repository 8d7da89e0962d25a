SPECIFICATION FairSpec
CONSTANTS
  l1 = l1
  l2 = l2
  Logins = {l1, l2}
  Slots = {q1, q2}
  Asked <- RoutesTried
  Assignments <- RolesTried
INVARIANTS CookiesOfOneLogin OnlyPermitted
PROPERTIES LogoutSticks
CHECK_DEADLOCK FALSE
