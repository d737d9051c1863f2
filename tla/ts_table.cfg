SPECIFICATION Spec
CONSTANTS
  TIME_SCALE_FACTOR = 1
  StartSods <- MCStartSods
  Late = 40
INVARIANTS
  TypeOK
  NoTrainMissing
  TableHoldsDay
  TrainsApart
  EveryTrainWarned
CHECK_DEADLOCK FALSE
