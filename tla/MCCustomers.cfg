CONSTANTS
  a1 = a1
  a2 = a2
  a3 = a3
  r1 = r1
  r2 = r2
  c1 = c1
  c2 = c2
  root = root
  m1 = m1
  m2 = m2
  p1 = p1
  w1 = w1
  Accounts = {a1, a2, a3}
  Emails = {root, m1, m2}
  AdminEmail = root
  Roles <- MCRoles
  Slots = {r1, r2}
  MaxRequests = 3
  CustomerIds = {c1, c2}
  OrderIds = {"o1"}
  Phones = {p1}
  Senders = {w1}
SYMMETRY Symmetry
SPECIFICATION Spec
INVARIANTS
  CustomersTypeOK
  AccountsSound
  DuplicatesHaveCause
  TenantsApart
PROPERTIES
  ActsOnlyEntitled
  PurgeStaysWithin
CHECK_DEADLOCK FALSE
