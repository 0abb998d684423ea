SPECIFICATION Spec
CONSTANTS
  a = a
  b = b
  relayer = relayer
  People = {a, b}
  Executors = {a, relayer}
  Guard = "guard"
  Native = "native"
  AnyAsset = "any"
  Txs <- MCTxs
  Hashes <- MCHashes
  OwnerSets <- MCOwnerSets
  Policies <- MCPolicies
  Cooldowns = {0, 1}
  Window = 2
  MaxRules = 3
  MaxCooldown = 2
  Uint128Max = 3
  Start = 2
  MaxTime = 4
  MaxNonce = 4
INVARIANTS PreviewConservative
