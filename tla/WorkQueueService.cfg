CONSTANTS
  w1 = w1
  w2 = w2
  p1 = p1
  p2 = p2
  NoOwner = NoOwner
  Workers = {w1, w2}
  Processes = {p1}
  Home <- OneHome
  MaxJobs = 2
  Kinds = {"auto_validate", "pane_refresh"}
  KindOf <- AlternateKinds
  Ttls = {1}
  Delays = {1}
  Limits = {1, 2}
  MaxLag = 0
  MaxRetries = 1
  MaxFaults = 1
  MaxReplays = 0
  ReplayedStates = {"dead_letter"}
SPECIFICATION FairSpec
PROPERTIES
  WakeupRespected
  EveryJobSettles
