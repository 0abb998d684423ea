SPECIFICATION Spec
CONSTANTS
  alice = alice
  bob = bob
  carol = carol
  usdc = usdc
  dai = dai
  market = market
  NoAddress = zero
  Neutral = keeper
  NoAdapter = NoAdapter
  Rewritable = {}
  NoCondition = NoCondition
  Users = {alice, bob, carol}
  Tokens = {usdc, dai}
  Authorities = {code}
  Managers = {m1}
  MaxConcurrent = 2
  Adapters = {poly}
  Conditions = {}
  Args <- MCPeerArgs
  OpenArgs <- MCOpenArgs
  MaxAcceptWindow = 2
  MaxResolveWindow = 2
  MaxWagers = 2
  AdminOps = {}
  Moderated = {}
  Horizon = 3
CHECK_DEADLOCK FALSE
INVARIANTS EscrowExact SlotsExact ClaimIndexConsistent ImpartialParties DeadlinesDivide
