SPECIFICATION Spec
CONSTANTS
  Bastions = {b1, b2}
  Calls = {c1, c2}
  MaxCrashes = 2
  Absent = Absent
  Imported = Imported
  NoCache = NoCache
INVARIANT TypeOK
INVARIANT CachesAreCurrent
INVARIANT PasswordIsKept
PROPERTY AloneTouchesItsOwnRows
CHECK_DEADLOCK FALSE
