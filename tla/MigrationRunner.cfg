SPECIFICATION MigrationSpec
CONSTANTS
  app = app
  server = server
  old = old
  Nobody = Nobody
  Processes = {app, server, old}
  Target <- OneIsOlder
  MaxFaults = 1
INVARIANTS
  MigrationTypeOK
  SchemaMatchesLog
  ClashesNeedAnUpgrade
  KillSwitchStopsLaterBoots
PROPERTIES
  EveryBootEnds
