SPECIFICATION FairSpec
CONSTANTS
  h1 = h1
  h2 = h2
  l1 = l1
  Http = {h1, h2}
  Local = {l1}
  Order <- HttpFirst
  K = 2
  Retries = 1
  Threshold = 2
  HalfOpenRequests = 2
  MaxRounds = 2
CHECK_DEADLOCK FALSE
INVARIANT PassIsUnanimousAnswer
PROPERTIES ImplementsDecision Decides
