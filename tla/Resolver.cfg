SPECIFICATION ResolverSpec
CONSTANTS
  a = a
  b = b
  Sources <- MCSources
  Addresses = {a, b}
  Listings <- MCListings
  Error = Error
  None = None
  MaxChanges = 2
INVARIANTS PriorityHonoured FailsOnlyIfAllEmpty MergeKeepsAll FirstEntryWins
