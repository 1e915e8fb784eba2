SPECIFICATION Spec
CONSTANTS
  Calls = {c1, c2}
  Kinds = {"connect", "reconnect", "refresh"}
  Assets = {a1}
  Orgs = {}
  DetailLimit = 1
  MaxExpiries = 0
  None = None
PROPERTY RequestsInTheirOrg
CHECK_DEADLOCK FALSE
