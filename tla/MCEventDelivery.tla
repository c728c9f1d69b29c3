--------------------------- MODULE MCEventDelivery ---------------------------
(***************************************************************************)
(* Two processes and two calls of emit, also at a time, of payment.success,*)
(* which the audit log and the bridge take here and whose payload may name *)
(* no business; the handlers of other events; two faults.                  *)
(***************************************************************************)
EXTENDS EventDelivery

CONSTANTS e1, e2, p1, p2

MCHandlers == {"audit", "bridge", "notify"}

MCSubscribed == [t \in Types |-> Subscriptions(t) \cap Handlers]
=============================================================================
