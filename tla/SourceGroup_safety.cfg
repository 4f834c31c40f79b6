CONSTANTS
  Members = {"a", "b", "c"}
  Rank <- MCRank
  NoMember = "none"
  Gone = "gone"
  MaxFail <- MCMaxFail
  Staleness = 1
  Residency = 1
  Cooldown = 1
  QueueCap = 1
  Apis = {"api1", "api2"}
  Referenced = FALSE
SPECIFICATION MCSpec
CHECK_DEADLOCK FALSE
INVARIANTS OneAuthority CurrentIsTrue
PROPERTIES RevisionNamesOne AuthorityReturns
