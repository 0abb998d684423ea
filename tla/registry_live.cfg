SPECIFICATION FairSpec
CONSTANTS
  alice = alice
  bob = bob
  carol = carol
  usdc = usdc
  dai = dai
  market = market
  NoAddress = zero
  Neutral = keeper
  NoAdapter = NoAdapter
  Rewritable = {}
  NoCondition = NoCondition
  Users = {alice, bob}
  Tokens = {usdc}
  Authorities = {}
  Managers = {m1}
  MaxConcurrent = 2
  Adapters = {poly}
  Conditions = {market}
  Args <- MCUmaArgs
  OpenArgs <- MCNoArgs
  MaxAcceptWindow = 2
  MaxResolveWindow = 2
  MaxWagers = 1
  AdminOps = {"pause", "freeze", "sanctions", "membership", "token"}
  Moderated = {alice, bob}
  Horizon = 3
CHECK_DEADLOCK FALSE
PROPERTIES EveryWagerSettles WinnerIsPaid
