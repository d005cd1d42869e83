CONSTANTS
  p1 = p1
  r1 = r1
  a1 = a1
  s1 = s1
  s2 = s2
  t1 = t1
  Console = {s1, s2}
  Cli = {t1}
  Provider = {p1}
  Route = {r1}
  Alias = {a1}
  Changes <- MCChanges
  Initial <- MCInitial
  MaxChanges = 3
  Empty = Empty
  Torn = Torn
  None = None
SPECIFICATION ConfigSpec
INVARIANTS
  ReferencesClosed
  WholeFile
  RuntimeFollowsFile
  HistoryEndsWithFile
  SecretsKept
CHECK_DEADLOCK FALSE
