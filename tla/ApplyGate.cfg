SPECIFICATION DeliverySpec
CONSTANTS
  MaxRows = 1
  Fetch = 2
  Show = 1
  MaxChecks = 2
  MaxResults = 5
  MaxFaults = 1
INVARIANTS
  OverrideLiftsGate
