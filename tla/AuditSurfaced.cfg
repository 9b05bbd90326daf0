CONSTANTS
  server = server
  other = other
  Nobody = Nobody
  Processes = {server, other}
  Does <- ServerAndOther
  MaxRows = 2
  MaxAnchors = 3
SPECIFICATION ChainSpec
INVARIANTS
  UntamperedVerifies
CHECK_DEADLOCK FALSE
