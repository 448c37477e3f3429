CONSTANTS
  d1 = d1
  d2 = d2
  c1 = c1
  c2 = c2
  c3 = c3
  NoCall = NoCall
  Did <- MCDid
  Call <- MCCall
  Amount <- MCAmount
  Seed = 1
SPECIFICATION Spec
CHECK_DEADLOCK FALSE
INVARIANTS
  SerialInOrder
  LocksDrain
PROPERTIES
  ImplementsWallet
  EveryCallAnswers
