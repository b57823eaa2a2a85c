SPECIFICATION AQSpec
CONSTANTS
  u1 = u1  u2 = u2  s1 = s1  s2 = s2  a1 = a1  w1 = w1  w2 = w2
  k1 = k1  k2 = k2  c1 = c1  c2 = c2  r1 = r1
  UserIds = {u1, u2}
  Spellings = {s1, s2}
  Addresses = {a1}
  Normal <- MCNormal
  Passwords = {w1, w2}
  Purchases = {k1, k2}
  Sandbox = {k2}
  Calls = {c1, c2}
  Requests = {r1}
  MaxFreeOCR = 1
  MaxRetries = 1
  Window = 1
  MaxClock = 1
  Faults = {"lookup", "redis", "abort"}
SYMMETRY Symmetric
INVARIANTS AccountsTypeOK RegisteredCanLogin TokensNotAhead PromisesKept
PROPERTIES PremiumIsBought ImplementsQuota
