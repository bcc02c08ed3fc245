SPECIFICATION FairHealthSpec
CONSTANTS
  i1 = i1
  i2 = i2
  s1 = s1
  s2 = s2
  Services = {s1, s2}
  Instances = {i1, i2}
  Listings <- MCListings
  RouteChoices <- MCRoutes
  unhealthy_threshold = 3
  healthy_threshold = 2
INVARIANTS HealthTypeOK MarksFollowProbes ProbedOncePerRound
PROPERTIES MarksMoveOnRuns DeadGetsMarked RecoveredGetsCleared
