SPECIFICATION Spec
CONSTANTS
  Bastions = {b1, b2}
  Calls = {c1, c2}
  MaxCrashes = 1
  Absent = Absent
  Imported = Imported
  NoCache = NoCache
CHECK_DEADLOCK FALSE
INVARIANT MigrationIsWhole
