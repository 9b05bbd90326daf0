CONSTANTS
  p1 = p1
  p2 = p2
  old = old
  new = new
  other = other
  Processes = {p1}
  Consumers = {"agent_timeline"}
  Loops = {old}
  LoopProcess <- LoopsOfOne
  LoopConsumer <- ForTimeline
  Watermarked = {"agent_timeline"}
  Tables = {"token_events", "validation_results"}
  ActedOn <- TimelineTables
  PullLimit = 2
  MaxEvents = 1
  MaxFaults = 1
SPECIFICATION StreamSpec
INVARIANT ExactlyOnce
