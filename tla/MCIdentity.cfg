CONSTANTS
  o1 = o1
  o2 = o2
  a1 = a1
  id1 = id1
  id2 = id2
  n1 = n1
  n2 = n2
  n3 = n3
  r1 = r1
  p1 = p1
  p2 = p2
  doc = doc
  acme = acme
  usdc = usdc
  eur = eur
  None = None
  Segment <- MCSegment
  Currency <- MCCurrency
  Pub <- MCPub
  KeyId <- MCKeyId
  Object <- MCObject
  Nonce <- MCNonce
  KeyHeld <- MCKeyHeld
  Policies <- MCPolicies
  Action <- MCAction
  Usage <- MCUsage
  Asked <- MCAsked
  Delegation <- MCDelegation
  ApprovalId <- MCApprovalId
  Skew = 1
  Proc <- MCProc
  MaxEntries = 2
  Horizon = 2
SPECIFICATION Spec
CHECK_DEADLOCK FALSE
INVARIANTS
  AcceptedOnce
  Governed
  MandateHolds
