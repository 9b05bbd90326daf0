CONSTANTS
  w1 = w1
  w2 = w2
  p1 = p1
  p2 = p2
  NoOwner = NoOwner
  Workers = {w1, w2}
  Processes = {p1, p2}
  Home <- TwoHomes
  MaxJobs = 1
  Kinds = {"auto_validate"}
  KindOf <- OneKind
  Ttls = {1, 2}
  Delays = {1}
  Limits = {2}
  MaxLag = 1
  MaxRetries = 2
  MaxFaults = 2
  MaxReplays = 2
  ReplayedStates = {"dead_letter"}
SYMMETRY SwapHomes
SPECIFICATION Spec
INVARIANTS
  TypeOK
  LiveLeaseBacked
  EffectAtMostOnce
PROPERTIES
  NoResurrection
  ImplementsLedger
