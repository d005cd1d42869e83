CONSTANTS
  a1 = a1
  x1 = x1
  m1 = m1
  c1 = c1
  c2 = c2
  s1 = s1
  s2 = s2
  t1 = t1
  Run = {a1}
  Proposal = {x1}
  Manual = Manual
  ProfileId = {m1}
  Field = {c1, c2}
  Value <- MCValue
  None = None
  MaxPerSource = 1
  MaxPerFamily = 1
  Unknown = Unknown
  Console = {s1, s2}
  Cli = {t1}
  ModelOf <- MCModelOf
  Tested = {c1}
  Findings <- MCFindings
  Identity <- MCIdentity
  Ops <- MCOps
  MaxRequests = 3
SPECIFICATION AssessSpec
SYMMETRY Symmetric
PROPERTY CancelStops
CHECK_DEADLOCK FALSE
