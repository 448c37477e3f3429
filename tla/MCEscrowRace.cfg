CONSTANTS
  h1 = h1
  h2 = h2
  h3 = h3
  h4 = h4
  h5 = h5
  h6 = h6
  a1 = a1
  a2 = a2
  p1 = p1
  p2 = p2
  None = None
  N = 2
  Price <- Two
  Acceptance <- ChecksumChecked
  OnTimeout = "refund"
  Stake = 1
  Bond <- Bonds
  DeliverBy = 0
  Window = 1
  Horizon = 0
  Seed = 3
  HoldId <- Holds6
  ApprovalId <- Approvals2
  Proc <- TwoProcs
  Opener <- OneProc
  Redelivery = TRUE
SPECIFICATION Spec
CHECK_DEADLOCK FALSE
INVARIANTS
  PaidWhenReleased
  NamedHoldsActive
  BooksAgree
  StakeSettles
PROPERTIES
  FinalState
  StayLocked
  ImplementsPromise
