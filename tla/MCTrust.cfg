CONSTANTS
  provider = provider
  client = client
  other = other
  usdc = usdc
  eur = eur
  h1 = h1
  h2 = h2
  None = None
  Did <- MCDid
  Currency <- MCCurrency
  Payment <- MCPayment
  StakeAmount <- MCStakeAmount
  MayStake <- MCStaker
  Funds = 4
  SignalKind <- MCSignalKind
  Reported <- MCStaker
  LatencyTarget = 30
  StakeSaturation = 8
  HoldId <- MCHoldId
  MaxEntries = 5
  MaxSignals = 1
  MaxSigning = 2
SPECIFICATION Spec
CHECK_DEADLOCK FALSE
INVARIANTS
  Measured
  StakeBacked
  Auditable
  AbuseCosts
