SPECIFICATION Spec
CONSTANTS
  Threads = {t1, t2}
  MaxTime = 2
  Nothing = Nothing
  Browsers = {b1, b2}
  Subjects = {alice}
  States = {a1, a2}
  Sessions = {s1, s2}
  AttemptLife = 1
  SessionLife = 1
  Keys = {k1, k2}
  TTL = 1
  Turns = {FALSE}
  Halves = {"keys"}
SYMMETRY Symmetry
INVARIANTS TrustEnds
CHECK_DEADLOCK FALSE
