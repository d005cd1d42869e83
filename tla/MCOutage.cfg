CONSTANTS
  p1 = p1
  p2 = p2
  Provider = {p1, p2}
  Caller = {c1, c2}
  Threshold = 1
  Cooldown = 1
  MaxCount = 1
  Moods <- OutageMoods
  None = None
  Requests <- OutageRequests
  MaxAttempts = 2
SPECIFICATION FairSpec
PROPERTY FailoverMasksOutage
