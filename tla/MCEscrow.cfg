CONSTANTS
  h1 = h1
  h2 = h2
  h3 = h3
  h4 = h4
  h5 = h5
  h6 = h6
  a1 = a1
  a2 = a2
  p1 = p1
  p2 = p2
  None = None
  N = 2
  Price <- Two
  Acceptance <- CheckedJudged
  OnTimeout = "arbitrate"
  Stake = 2
  Bond <- Bonds
  DeliverBy = 1
  Window = 1
  Horizon = 2
  Seed = 3
  HoldId <- Holds6
  ApprovalId <- Approvals2
  Proc <- OneProc
  Opener <- OneProc
  Redelivery = FALSE
SPECIFICATION LiveSpec
CHECK_DEADLOCK FALSE
INVARIANTS
  AwaitsRuling
  RulingDecides
  SlashProven
  Complete
PROPERTY EventuallySettles
