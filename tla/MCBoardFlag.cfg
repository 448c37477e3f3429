CONSTANTS
  vendor = vendor
  client = client
  h1 = h1
  h2 = h2
  h3 = h3
  None = None
  Did <- MCDid
  PostId <- MCPostId
  MayPost <- MCMayPost
  Now = 7
  Created <- MCCreated
  Horizon = 7
  Trust <- MCTrust
  Price <- MCPrice
  Ask <- MCAsk
  Flagger <- MCDid
  Category <- MCAbuse
  Fee = 1
  Funds = 2
  FlagThreshold = 2
  HoldId <- MCHoldId
  MaxPosts = 3
  MaxOpen = 2
  MaxReceipts = 1
  MaxFlags = 2
SPECIFICATION Spec
CHECK_DEADLOCK FALSE
INVARIANT UpheldForfeits
