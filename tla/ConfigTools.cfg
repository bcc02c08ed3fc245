SPECIFICATION ToolsSpec
CONSTANTS
  Upper <- MCUpper
  HeaderName <- MCHeaderName
  HopByHop = {"connection", "te", "upgrade"}
  Rules <- MCRules
  Servers <- MCServers
  Registries <- MCRegistries
  MaxRoutes = 2
  Requests <- MCRequests
  Lines <- MCLines
  Inspected = 1
  Overrides <- MCOverrides
  Worlds <- MCWorlds
INVARIANTS
  ShadowReportsExactly
  
  DiffSeesRouting
  ExplainAgrees
  AdviceLeads
  DoctorSpeaks
  RedirectedGoLocal
