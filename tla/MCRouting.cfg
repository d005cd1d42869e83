CONSTANTS
  p1 = p1
  p2 = p2
  p3 = p3
  t1 = t1
  t2 = t2
  t3 = t3
  k1 = k1
  s1 = s1
  i1 = i1
  r1 = r1
  r2 = r2
  smart = smart
  plain = plain
  odd = odd
  named = named
  Provider = {p1, p2, p3}
  Target = {t1, t2, t3}
  None = None
  ProviderOf <- MCProviderOf
  ProfileName = {named}
  Profile <- MCProfile
  Fit <- MCFit
  Score <- MCScore
  View <- ProviderState
  Req = {r1, r2}
  Key = {k1}
  Session = {s1}
  Ip = {i1}
  Alias = {smart, plain}
  Direct = {t1, t2}
  Odd = {odd}
  Configs <- MCConfigs
  Policies <- MCPolicies
  Asks <- MCAsks
  AffinityContext = "live"
  MaxFailures = 1
  Unsteady = {p1}
  MaxTurns = 2
SPECIFICATION RoutingSpec
SYMMETRY Symmetric
INVARIANTS
  RoutingTypeOK
  LivePlansSuit
  WithinKey
