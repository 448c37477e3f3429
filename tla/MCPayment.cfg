CONSTANTS
  k1 = k1
  k2 = k2
  q1 = q1
  q2 = q2
  n1 = n1
  n2 = n2
  n3 = n3
  a1 = a1
  a2 = a2
  p1 = p1
  p2 = p2
  None = None
  Key <- Keys
  Quote <- Quotes
  Price <- Prices
  Nonce <- Nonces
  ApprovalId <- Approvals
  Proc <- TwoProcs
  PerTx = 2
  Daily = 2
  Total = 3
  Thresholds <- Over
  Funds = 3
  LastDay = 1
  Clash = FALSE
SPECIFICATION Spec
CHECK_DEADLOCK FALSE
INVARIANTS
  ChargedOnce
  PaymentOnce
  ApprovalBuysOnce
  OvershootBounded
  BooksAgree
PROPERTIES
  KillStops
  EveryCallAnswers
