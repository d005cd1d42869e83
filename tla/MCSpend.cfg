CONSTANTS
  k1 = k1
  MCConcLimit = 0
  MCRate = 1
  Request = {r1, r2}
  Key = {k1}
  KeyOf <- MCKeyOf
  Portable = {k1}
  Rpm <- MCRpm
  Window = 1
  Daily <- MCDaily
  Conc <- MCConc
  Edited = {k1}
  EditTo = {0, 1}
  GlobalCap = 0
  MaxReload = 1
  MaxDay = 0
  Budget <- MCBudget
  Worst <- MCWorst
SPECIFICATION GatewaySpec
SYMMETRY Symmetric
INVARIANTS
  SpendReservedExact
  SpendExactUnlessRaced
  RateAcrossReloads
PROPERTY
  AdmissionSpec
