CONSTANTS
  p1 = p1
  p2 = p2
  Provider = {p1, p2}
  Caller = {c1}
  Threshold = 1
  Cooldown = 1
  MaxCount = 1
  Moods <- MCMoods
  None = None
  Requests <- MCRequests
  MaxAttempts = 2
SPECIFICATION FairSpec
INVARIANT OnlyFallbackWalksOn
