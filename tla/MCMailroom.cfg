CONSTANTS
  buyer = buyer
  seller = seller
  t1 = t1
  t2 = t2
  q1 = q1
  q2 = q2
  p1 = p1
  p2 = p2
  h1 = h1
  h2 = h2
  h3 = h3
  h4 = h4
  None = None
  Did <- MCDid
  MsgId <- MCMsgId
  Thread <- MCThread
  Quote <- OneQuote
  Terms <- OneOffer
  Sends <- MCSends
  Flagger <- MCReader
  Peers <- EachOther
  Delegate <- MCDid
  Cap <- MCCap
  Postage = 2
  Burn = 1
  Funds = 5
  HoldId <- MCHoldId
  MaxLog = 4
  PageSize = 1
  ScanLimit = 2
  Reader <- MCReader
  WebhookOwner <- MCReader
  LastDay = 1
  ReuseThread = FALSE
SPECIFICATION Spec
CHECK_DEADLOCK FALSE
INVARIANTS
  PostageMetered
  FlagsSettle
  LogDecides
PROPERTY WalletSound
