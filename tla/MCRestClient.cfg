SPECIFICATION FairSpec
CONSTANTS
  Calls = {c1, c2}
  Kinds = {"connect", "reconnect", "prefetch", "endpoint", "refresh"}
  Assets = {a1, a2}
  Orgs = {"o1"}
  DetailLimit = 1
  MaxExpiries = 2
  None = None
INVARIANT TypeOK
INVARIANT FetchesAreShared
PROPERTY ExpiryIsSurvived
PROPERTY AloneStaysInItsOrg
PROPERTY EveryCallSettles
CHECK_DEADLOCK FALSE
