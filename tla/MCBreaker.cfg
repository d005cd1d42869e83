CONSTANTS
  Provider = {p1}
  Caller = {c1, c2}
  Threshold = 2
  Cooldown = 1
  MaxCount = 3
  Moods <- AnyMood
  None = None
SPECIFICATION FairBreakerSpec
INVARIANTS
  OpenIsEarned
PROPERTIES
  LockoutEnds
  HealedProviderCloses
  FailingProviderTrips
