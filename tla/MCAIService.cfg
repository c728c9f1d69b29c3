CONSTANTS
  q1 = q1
  q2 = q2
  Requests = {q1, q2}
  Tiers = {"free"}
  TierLimit <- MCTierLimit
  NoLimit = NoLimit
  Cap = 3
  Estimate <- MCEstimate
  MinEstimate = 1
  MaxTokens = 2
  MaxChunks = 1
SPECIFICATION Spec
INVARIANTS
  TypeOK
  AnswersAccounted
PROPERTIES
  MeteringSpec
  RequestsEnd
