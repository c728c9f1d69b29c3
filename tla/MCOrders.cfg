CONSTANTS
  p1 = p1
  p2 = p2
  v1 = v1
  v2 = v2
  v3 = v3
  s1 = s1
  s2 = s2
  Payments = {p1, p2}
  Verifiers = {v1, v2, v3}
  Staff = {s1, s2}
  OrderStatus = {"pending", "completed", "cancelled"}
  Faults = {"handler", "crash"}
SPECIFICATION Spec
INVARIANTS
  TypeOK
  AnnouncementsBounded
  AnnouncementsFaithful
PROPERTIES
  PaidCompletes
SYMMETRY Symmetry
