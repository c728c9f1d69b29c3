CONSTANTS
  c1 = c1
  c2 = c2
  Calls = {c1, c2}
  AccessLife = 1
  RefreshLife = 1
  MaxTime = 3
SPECIFICATION Spec
INVARIANTS
  TypeOK
  RevokedRefused
  RotationBounded
SYMMETRY Symmetry
