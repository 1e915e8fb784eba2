SPECIFICATION WebSpec
CONSTANTS
  Ensures = {c1, c2}
  Opens = {c2, c3}
  MaxEnds = 1
  Nothing = Nothing
PROPERTY StaleSessionsAreReplacedOnHops
CHECK_DEADLOCK FALSE
