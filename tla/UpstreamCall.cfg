SPECIFICATION Spec
CONSTANTS
  Upstreams = {u1}
  Requests = {r1, r2, r3}
  NoUpstream = NoUpstream
  Threshold = 2
  RecoverySecs = 2
  MaxSkew = 1
  RetryChoices = {0, 1}
SYMMETRY RequestSymmetry
INVARIANTS TypeOK CounterMatchesHistory AttemptsNotedOnce
PROPERTIES OpenRefuses RefusesOnlyWhenOpen ImplementsAbstract
