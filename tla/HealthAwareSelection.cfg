SPECIFICATION DrainSpec
CONSTANTS
  i1 = i1
  i2 = i2
  s1 = s1
  NoInstance = NoInstance
  Services = {s1}
  Instances = {i1, i2}
  Listings <- MCListings
  RouteChoices <- MCRoutes
  unhealthy_threshold = 2
  healthy_threshold = 1
  Lists <- MCLists
  Weight <- MCWeights
  Modes = {"first", "round_robin"}
  Requests = {r1}
  WordSize = 2
PROPERTIES ImplementsSelection TrafficDrains
