SPECIFICATION FairSpec
CONSTANTS
  alice = alice
  bob = bob
  carol = carol
  ZeroAddress = zero
  NoProposal = NoProposal
  Wallets = {alice, bob, carol}
  Creator = alice
  BuyIn = 2
  MaxMembers = 3
  ThresholdBips = 5001
  AcceptDeadline = 2
  ResolveDeadline = 4
  Horizon = 5
  Matrices <- MCMatrices
  Nonces = {}
  Windows <- MCNoWindows
  Screened = {alice, bob, carol}
  MaxSigned = 0
CHECK_DEADLOCK FALSE
INVARIANTS EscrowExact LockedByQuorum
PROPERTIES ImplementsEscrow EscrowDrains
