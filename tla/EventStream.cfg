CONSTANTS
  p1 = p1
  p2 = p2
  old = old
  new = new
  other = other
  Processes = {p1, p2}
  Consumers = {"agent_timeline"}
  Loops = {old, new, other}
  LoopProcess <- LoopsOfTwo
  LoopConsumer <- ForTimeline
  Watermarked = {"agent_timeline"}
  Tables = {"token_events", "validation_results"}
  ActedOn <- TimelineTables
  PullLimit = 2
  MaxEvents = 2
  MaxFaults = 1
SPECIFICATION FairStreamSpec
INVARIANTS
  StreamTypeOK
  AtMostOnce
  OnlyStruckAreLost
PROPERTIES
  NeverRewinds
  EveryEventPasses
