SPECIFICATION FairSpec
CONSTANTS
  a = a
  b = b
  None = None
  Runs = {a, b}
  Direct = {b}
INVARIANTS ConfirmedIsOnChain TwiceOnlyUnanswered
PROPERTIES ExpiredIsOver NeverStrandedIfRead
