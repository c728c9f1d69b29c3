CONSTANTS
  u1 = u1
  a1 = a1
  a2 = a2
  Users = {u1}
  Conns = {a1, a2}
  UserOf <- MCUserOf
  Status = {"online", "busy"}
  Subscriber = Subscriber
  MaxDrift = 1
SPECIFICATION Spec
INVARIANTS
  TypeOK
  NoGhosts
  SeenIsCurrent
PROPERTY LostIsForgotten
