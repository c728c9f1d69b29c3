CONSTANTS
  e1 = e1
  e2 = e2
  p1 = p1
  p2 = p2
  Emitters = {e1, e2}
  Types = {"payment.success"}
  Handlers <- MCHandlers
  Subscribed <- MCSubscribed
  MaxEmissions = 2
  Procs = {p1, p2}
  Home = p1
  MaxFaults = 2
SPECIFICATION DeliverySpec
INVARIANTS
  DeliveryTypeOK
  HandlersAccounted
  OncePerProcess
PROPERTIES
  LoopsRecover
  MailboxSpec
CHECK_DEADLOCK FALSE
