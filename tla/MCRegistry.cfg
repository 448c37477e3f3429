CONSTANTS
  v1 = v1
  v2 = v2
  usdc = usdc
  tables = tables
  text = text
  in1 = in1
  in2 = in2
  base = base
  wallet = wallet
  one = one
  two = two
  parse = parse
  pdf = pdf
  p1 = p1
  p2 = p2
  None = None
  Provider <- MCProvider
  Currency <- MCCurrency
  Taxonomy <- MCTaxonomy
  SchemaRef <- MCSchemaRef
  Rail <- MCRail
  Version <- MCVersion
  Token <- MCToken
  Submission <- MCSubmission
  CapabilityQuery <- MCQuery
  Reputations <- MCReputations
  QuoteTtl = 1
  FreshnessHorizon = 2
  StakeSaturation = 2
  Proc <- MCProc
  MaxListings = 2
  MaxQuotes = 2
  Horizon = 1
SPECIFICATION RegistrySpec
CHECK_DEADLOCK FALSE
INVARIANTS
  QuotesBind
  DiscoveryFair
