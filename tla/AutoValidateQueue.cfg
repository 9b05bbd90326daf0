CONSTANTS
  NoKey = NoKey
  Keys = {a, b}
  Settings <- SomeSettings
  MaxEdits = 4
SPECIFICATION FairValidateSpec
INVARIANTS
  ValidateTypeOK
  NewestKept
  NeverStranded
PROPERTIES
  EveryItemStarts
