CONSTANTS
  GateNames <- AllGates
  Domain <- MCDomain
  Baseline <- MCBaseline
  MaxChanges = 2
SPECIFICATION GateSpec
INVARIANTS PromotionSatisfiesAll PassIsEarned AllowOutranksDenials
PROPERTIES RefusalStands
