\* Two clouds of up to five rows, knots every two or three rows.
CONSTANTS
  Clouds <- AllClouds
  Steps = {2, 3}
  MaxTime = 6
  MaxClouds = 2
SPECIFICATION FairSpec
INVARIANTS DeskewTypeOK NoneDropped SkewedForCause RowsOnTime
PROPERTIES CloudAnswered
