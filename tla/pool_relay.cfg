SPECIFICATION Spec
CONSTANTS
  alice = alice
  bob = bob
  carol = carol
  ZeroAddress = zero
  NoProposal = NoProposal
  Wallets = {alice, bob}
  Creator = alice
  BuyIn = 2
  MaxMembers = 2
  ThresholdBips = 10000
  AcceptDeadline = 2
  ResolveDeadline = 3
  Horizon = 3
  Matrices <- MCRelayMatrices
  Nonces = {1}
  Windows <- MCWindows
  Screened = {}
  MaxSigned = 2
CHECK_DEADLOCK FALSE
INVARIANTS IntentRunsOnce
PROPERTIES RelayedAsSigned
