CONSTANTS
  w1 = w1
  q1 = q1
  q2 = q2
  Workers = {w1}
  Requests = {q1, q2}
  Redis = Redis
  Limit = 2
  Window = 4
  MaxDelay = 1
  MaxTime = 7
SPECIFICATION LimiterSpec
INVARIANTS
  LimiterTypeOK
  WindowRespected
SYMMETRY Symmetry
