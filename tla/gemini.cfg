SPECIFICATION Spec
CONSTANTS
  r1 = r1  r2 = r2  flash = flash  lite = lite  pro = pro  tts = tts
  Requests = {r1, r2}
  Models = {flash, lite, pro, tts}
  Stable <- MCStable
  Configured <- MCConfigured
  Excluded = {tts}
  Flash = {flash, lite, tts}
  Gemini = {flash, lite, pro, tts}
  Listings <- MCListings
  TTL = 2
  MaxClock = 3
INVARIANTS TypeOK AsksOnceInOrder FailureIsExhaustive
PROPERTIES CacheIsKept EveryRequestEnds
