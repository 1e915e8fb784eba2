SPECIFICATION FairWebSpec
CONSTANTS
  Ensures = {c1, c2}
  Opens = {c2, c3}
  MaxEnds = 1
  Nothing = Nothing
INVARIANT WebTypeOK
PROPERTY StaleSessionsAreReplaced
PROPERTY EveryConnectSettles
CHECK_DEADLOCK FALSE
