SPECIFICATION Spec
CONSTANTS
  a = a
  b = b
  bronze = bronze
  silver = silver
  r = r
  w1 = w1
  w2 = w2
  None = None
  Users = {a}
  Others = {b}
  Tiers = {bronze, silver}
  Configs <- MCConfigs
  Tokens = {1, 2}
  FirstToken = 1
  Registries = {r}
  Slots = {w1, w2}
  RegistryOf <- MCRegistryOf
  UserOf <- MCUserOf
  Window = 1
  GrantDays = {1}
  MaxTime = 3
  MaxExpiry = 3
  MaxFees = 2
  MaxMonth = 2
  MaxVouchers = 2
INVARIANTS ActiveCountExact FeesHeld GateMatchesHook
PROPERTIES StandingKept VoucherNotWasted
