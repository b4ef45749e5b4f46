SPECIFICATION WfSpec
CONSTANTS
  Requests = {r1}
  MaxPlans = 2
CHECK_DEADLOCK FALSE
INVARIANT AttemptsAreAudited
