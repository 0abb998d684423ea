SPECIFICATION Spec
CONSTANTS
  alice = alice
  bob = bob
  carol = carol
  usdc = usdc
  dai = dai
  market = market
  NoAddress = zero
  Neutral = keeper
  NoAdapter = NoAdapter
  Rewritable = {poly}
  NoCondition = NoCondition
  Users = {alice, bob}
  Tokens = {usdc}
  Authorities = {}
  Managers = {m1, m2}
  MaxConcurrent = 1
  Adapters = {poly}
  Conditions = {market}
  Args <- MCMixedArgs
  OpenArgs <- MCNoArgs
  MaxAcceptWindow = 2
  MaxResolveWindow = 2
  MaxWagers = 1
  AdminOps = {"manager", "authorize", "pause", "freeze", "adapter"}
  Moderated = {bob}
  Horizon = 3
CHECK_DEADLOCK FALSE
INVARIANTS SettledFairly
PROPERTIES TermsAndVerdictFinal ImplementsEscrow
