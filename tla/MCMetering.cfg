CONSTANTS
  c1 = c1
  c2 = c2
  c3 = c3
  Callers = {c1, c2, c3}
  Tiers = {"free", "pro"}
  TierLimit <- MCTierLimit
  NoLimit = NoLimit
  MinCheck = 1
  Checks = {1, 2}
  MaxAmount = 2
  Cap = 5
SPECIFICATION Spec
INVARIANTS
  TypeOK
  UsageBounded
