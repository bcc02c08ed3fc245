SPECIFICATION FairReloadSpec
CONSTANTS
  plain = plain
  discovery = discovery
  badHeader = badHeader
  torn = torn
  g1 = g1
  NoFile = NoFile
  NoAddress = NoAddress
  Contents <- MCContents
  Loadable <- MCLoadable
  Compilable <- MCCompilable
  Sources <- MCSources
  Registries = {g1}
  Addresses = {a1, a2, a3}
  HasOverrides = TRUE
  EarlyEdits = FALSE
  DEBOUNCE = 5
  POLL = 2
  MaxLate = 2
  MaxRebuild = 0
  MaxEvents = 2
INVARIANTS ReloadTypeOK Settled 
PROPERTIES EditsTakeEffect
