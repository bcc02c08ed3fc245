SPECIFICATION SelectionSpec
CONSTANTS
  i1 = i1
  i2 = i2
  NoInstance = NoInstance
  Services = {s1}
  Instances = {i1, i2}
  Lists <- MCLists
  Weight <- MCWeights
  Modes = {"first", "round_robin", "random", "weighted_round_robin"}
  Requests = {r1, r2}
  WordSize = 4
SYMMETRY SelectionSymmetry
INVARIANTS FairShare
PROPERTIES AvoidsMarked
