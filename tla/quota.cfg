SPECIFICATION HSpec
CONSTANTS
  u1 = u1  r1 = r1  r2 = r2
  Users = {u1}
  Requests = {r1, r2}
  MaxFreeOCR = 2
  MaxRetries = 1
  Window = 3
  MaxClock = 5
  Faults = {"lookup", "redis", "abort"}
SYMMETRY Symmetric
INVARIANTS TypeOK OvershootBounded CounterExpires PremiumBypasses TwoCounters
