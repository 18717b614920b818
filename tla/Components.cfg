SPECIFICATION BothSpec
CONSTANTS
  Windows = {w1, w2}
  Services = {s1}
  Catalogs <- MCCatalogs
  MaxDamage = 1
  MaxCalls = 3
  w1 = w1
  w2 = w2
  s1 = s1
INVARIANT RegistrationIsSound
PROPERTY ComponentsAreSound
SYMMETRY Alike
CHECK_DEADLOCK FALSE
