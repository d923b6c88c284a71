SPECIFICATION Spec
CONSTANTS
  Threads = {t1, t2}
  MaxTime = 3
  Nothing = Nothing
  Browsers = {b1, b2}
  Subjects = {alice}
  States = {a1, a2}
  Sessions = {s1, s2}
  AttemptLife = 1
  SessionLife = 1
  Keys = {k1, k2}
  TTL = 2
  Turns = {TRUE}
  Halves = {"login", "keys"}
SYMMETRY Symmetry
INVARIANTS TypeOK LoginBound EndedStaysEnded AloneTrustEnds AloneRotationFollowed
CHECK_DEADLOCK FALSE
