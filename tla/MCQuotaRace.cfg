CONSTANTS
  r1 = r1
  r2 = r2
  r3 = r3
  r4 = r4
  k1 = k1
  Request = {r1, r2, r3, r4}
  Key = {k1}
  KeyOf <- MCKeyOf
  Portable = {k1}
  Rpm <- MCRpm
  Window = 1
  Daily <- MCDaily
  Conc <- MCConc
  Edited = {}
  EditTo = {}
  GlobalCap = 3
  MaxReload = 0
  MaxDay = 0
SPECIFICATION AdmissionSpec
SYMMETRY Symmetric
INVARIANT NeverOverDailyQuota
