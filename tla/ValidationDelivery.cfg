SPECIFICATION DeliverySpec
CONSTANTS
  MaxRows = 3
  Fetch = 2
  Show = 1
  MaxChecks = 1
  MaxResults = 3
  MaxFaults = 1
INVARIANTS
  DeliveryTypeOK
  ShownTwiceOnlyIfStruck
  BusCountsOnce
  CountedTwiceOnlyInTheGap
  HiddenBehindNewer
PROPERTIES
  ReportedFailureClosesGate
  EveryAdvisoryIsTaken
CHECK_DEADLOCK FALSE
