SPECIFICATION Spec
CONSTANTS
  web = web
  api = api
  direct = direct
  Targets = {web, api}
  Setting <- MCSetting
  MaxChecks <- MCMaxChecks
INVARIANTS
  TypeOK
  
  SeriesTellTheLatestCheck
PROPERTIES
  PoolSpec
  NoProbeOnClosedClients
  ProcessExits
