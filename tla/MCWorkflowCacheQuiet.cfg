CONSTANTS
  w1 = w1
  e1 = e1
  e2 = e2
  k1 = k1
  Rules = {k1}
  Triggers = {"order.created", "payment.success"}
  Bodies = {b}
  b = b
  Off = Off
  Readers = {w1}
  Editors = {e1}
  Unborn = Unborn
  Deleted = Deleted
  Keep = Keep
  Miss = Miss
  Faults = {}
SPECIFICATION Spec
INVARIANT CoherentWhenQuiet
