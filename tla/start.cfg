CONSTANTS
  old = old
  new = new
  dev = dev
  Servers <- MCServers
  Release <- MCRelease
  Migrates <- Deployed
  Address <- MCAddress
  Parts <- MCParts
  Grants <- MCGrants
  Anonymous = {"anon read", "anon files"}
  Revoking = 1
  Existing <- MCExisting
  Nobody = Nobody
  NoWork = NoWork
  NoProcess = NoProcess
  MaxStarts = 3
  MaxFaults = 2
  home = home
  secret = secret
  Readers = {alice, bob}
  Pages <- MCPages
  Mentions <- MCMentions
  Size <- MCSize
  MaxBytes = 3
  NoBody = NoBody
  NoView = NoView
  Menus <- MCMenus
SPECIFICATION ServeSpec
INVARIANTS
  ServeTypeOK
  LedgerIsTrue
  OneRelease
  ServesItsSchema
  ReadersOwnPage
PROPERTIES
  CachesCatchUp
  StartsEnd
CHECK_DEADLOCK FALSE
