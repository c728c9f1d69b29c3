CONSTANTS
  r1 = r1
  r2 = r2
  Runs = {r1, r2}
  Tiers = {"free", "pro"}
  TierLimit <- MCTierLimit
  NoLimit = NoLimit
  Cap = 2
SPECIFICATION Spec
INVARIANTS
  TypeOK
  LogAndMeterAgree
PROPERTIES
  MeteringSpec
  RunsEnd
