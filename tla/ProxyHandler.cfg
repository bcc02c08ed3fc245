SPECIFICATION ProxyFairSpec
CONSTANTS
  Upstreams = {u1}
  Requests = {r1, r2}
  NoUpstream = NoUpstream
  Threshold = 1
  RecoverySecs = 2
  MaxSkew = 0
  RetryChoices = {1}
  PluginConfigs <- MCPluginConfigs
  KnownNames <- MCKnownNames
  Rules = {"direct", "lookup", "empty"}
  RuleTarget <- MCRuleTarget
  NoRule = "no rule"
INVARIANTS CountedOnce PluginsUnwind
PROPERTIES ImplementsCalls NeverShutForGood RetryLoopEnds
