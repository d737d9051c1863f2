SPECIFICATION Spec
CONSTANTS
  TIME_SCALE_FACTOR = 5
  GateLate = 100
  LostRounds = 1
INVARIANTS
  NeverLongSilent
  LiveLinkNotStale
