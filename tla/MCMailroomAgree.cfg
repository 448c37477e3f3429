CONSTANTS
  buyer = buyer
  seller = seller
  t1 = t1
  t2 = t2
  q1 = q1
  q2 = q2
  p1 = p1
  p2 = p2
  h1 = h1
  h2 = h2
  h3 = h3
  h4 = h4
  None = None
  Did <- MCDid
  MsgId <- MCMsgId
  Thread <- MCThread
  Quote <- MCQuote
  Terms <- MCTerms
  Sends <- MCNegotiators
  Flagger <- Nobody
  Peers <- Anyone
  Delegate <- MCDid
  Cap <- LargeCap
  Postage = 2
  Burn = 1
  Funds = 8
  HoldId <- MCHoldId
  MaxLog = 4
  PageSize = 1
  ScanLimit = 2
  Reader <- Nobody
  WebhookOwner <- Nobody
  LastDay = 0
  ReuseThread = FALSE
SPECIFICATION Spec
CHECK_DEADLOCK FALSE
INVARIANT AgreementBinds
SYMMETRY Symmetry
