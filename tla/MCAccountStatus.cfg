SPECIFICATION FairSpec
CONSTANTS
  Worker = {w1, w2}
  Browser = {b1}
  NoBrowser = NoBrowser
  NoDate = NoDate
  Threshold = 3
  DefaultDays = 1
  MaxDays = 2
  MaxWarnings = 4
INVARIANTS
  TypeOK
  SuspendedIffDated
  NoEarlyEscalation
PROPERTIES
  SuspensionEnds
  BlockedStopsServing
