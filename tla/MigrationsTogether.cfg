SPECIFICATION MigrationsSpec
CONSTANTS
  p1 = p1
  p2 = p2
  old = old
  Starts = {p1, p2, old}
  Versions = {1, 2}
  CodeVersion <- MCCodeVersion
  Rerunnable = {1}
  NoOne = NoOne
PROPERTIES AppliedOnce
