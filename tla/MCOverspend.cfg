CONSTANTS
  k1 = k1
  MCConcLimit = 1
  MCRate = 0
  Request = {r1, r2, r3}
  Key = {k1}
  KeyOf <- MCKeyOf
  Portable = {k1}
  Rpm <- MCRpm
  Window = 1
  Daily <- MCDaily
  Conc <- MCConc
  Edited = {}
  EditTo = {}
  GlobalCap = 0
  MaxReload = 0
  MaxDay = 0
  Budget <- MCBudget
  Worst <- MCWorst
SPECIFICATION GatewaySpec
SYMMETRY Symmetric
INVARIANT NeverOverBudget
