------------------------------- MODULE Orders -------------------------------
(***************************************************************************)
(* One order and its payments (src/app/modules/orders, payments,           *)
(* notifications/events.py and the gateway webhooks of                     *)
(* src/app/integrations/payments).                                         *)
(*                                                                         *)
(* verify_payment, called by the frontend after a redirect and by the      *)
(* generic webhook, reads the payment and its order, and if the payment is *)
(* pending marks it successful and the order completed in one transaction; *)
(* only after the commit it emits payment.successful, whose one handler    *)
(* writes a notification.  Staff set the order's status concurrently.  The *)
(* gateways' own webhooks emit another event, payment.success, and touch   *)
(* no row of the two tables: they have no step here.                       *)
(*                                                                         *)
(* The database runs at READ COMMITTED.  A flush takes the row locks and   *)
(* the commit follows with nothing in between that depends on others, so   *)
(* flush and commit are one step; what a call decides on was read before.  *)
(* The session writes an attribute only if it differs from what it loaded. *)
(***************************************************************************)
EXTENDS Integers, FiniteSets

CONSTANTS
  Payments,
  Verifiers,   \* slots for concurrent calls of verify_payment
  Staff,       \* slots for concurrent calls of update_status
  OrderStatus, \* the statuses of orders
  Faults       \* "handler": an event handler may raise; "crash": a process may stop

ASSUME OrdersAssumption ==
  /\ {"pending", "completed"} \subseteq OrderStatus /\ "none" \notin OrderStatus
  /\ Faults \subseteq {"handler", "crash"}
  /\ IsFiniteSet(Verifiers)

VARIABLES
  order,      \* status of the order row, "none" before it is created
  payment,    \* status of each payment row, "none" before it is initialized
  vf,         \* vf[v]: progress of a verify_payment call
  st,         \* st[s]: progress of an update_status call
  announced,  \* announced[p]: "Payment Received" notifications about p
  lost        \* history: payments whose announcement failed or was lost

vars == <<order, payment, vf, st, announced, lost>>

Free == [pc |-> "free"]

TypeOK ==
  /\ order \in OrderStatus \cup {"none"}
  /\ payment \in [Payments -> {"none", "pending", "success"}]
  /\ vf \in [Verifiers -> {Free} \cup [pc : {"reading", "emitting"}, payment : Payments]
                          \cup [pc : {"deciding"}, payment : Payments, order : OrderStatus]]
  /\ st \in [Staff -> {Free} \cup [pc : {"deciding"}, old : OrderStatus, new : OrderStatus]
                      \cup {[pc |-> "emitting"]}]
  /\ announced \in [Payments -> Nat]
  /\ lost \subseteq Payments

Init ==
  /\ order = "none"
  /\ payment = [p \in Payments |-> "none"]
  /\ vf = [v \in Verifiers |-> Free]
  /\ st = [s \in Staff |-> Free]
  /\ announced = [p \in Payments |-> 0]
  /\ lost = {}

Verifying(v, pc) == vf[v].pc = pc
VerifierTo(v, state) == vf' = [vf EXCEPT ![v] = state]

-----------------------------------------------------------------------------
(* Orders and payments come into being *)

\* create_order of a customer of the business (the handlers of order.created
\* touch nothing here).
CreateOrder ==
  /\ order = "none" /\ order' = "pending"
  /\ UNCHANGED <<payment, vf, st, announced, lost>>

\* Mutant: a status that PaymentStatus does not have.
InitializeAsNew(p) ==
  /\ order # "none" /\ payment[p] = "none"
  /\ payment' = [payment EXCEPT ![p] = "initialized"]
  /\ UNCHANGED <<order, vf, st, announced, lost>>

\* initialize_payment: any status of the order will do.
Initialize(p) ==
  /\ order # "none" /\ payment[p] = "none"
  /\ payment' = [payment EXCEPT ![p] = "pending"]
  /\ UNCHANGED <<order, vf, st, announced, lost>>

-----------------------------------------------------------------------------
(* verify_payment *)

\* Mutant: a payment that was verified is verified again.
ReadAnyPayment(v, p) ==
  /\ Verifying(v, "free")
  /\ payment[p] # "none"
  /\ VerifierTo(v, [pc |-> "reading", payment |-> p])
  /\ UNCHANGED <<order, payment, st, announced, lost>>

\* The payment row was loaded: unless it is pending there is nothing to do.
ReadPayment(v, p) ==
  /\ Verifying(v, "free")
  /\ payment[p] = "pending"
  /\ VerifierTo(v, [pc |-> "reading", payment |-> p])
  /\ UNCHANGED <<order, payment, st, announced, lost>>

\* Its order is loaded with a query of its own.
ReadOrder(v) ==
  /\ Verifying(v, "reading")
  /\ VerifierTo(v, [pc |-> "deciding", payment |-> vf[v].payment, order |-> order])
  /\ UNCHANGED <<order, payment, st, announced, lost>>

\* Mutant: only the order is written before the event is emitted.
CommitOrderOnly(v) ==
  /\ Verifying(v, "deciding")
  /\ order' = "completed"
  /\ VerifierTo(v, [pc |-> "emitting", payment |-> vf[v].payment])
  /\ UNCHANGED <<payment, st, announced, lost>>

\* Mutant: a cancelled order stays cancelled although it is paid.
CommitUnlessCancelled(v) ==
  /\ Verifying(v, "deciding")
  /\ payment' = [payment EXCEPT ![vf[v].payment] = "success"]
  /\ order' = IF vf[v].order = "cancelled" THEN order ELSE "completed"
  /\ VerifierTo(v, [pc |-> "emitting", payment |-> vf[v].payment])
  /\ UNCHANGED <<st, announced, lost>>

\* The payment was pending when read, so its row is written whatever it is now.
\* The order is written only if it was not completed when loaded; the refresh
\* after the payment's flush may or may not have loaded it anew.
CommitVerify(v) ==
  /\ Verifying(v, "deciding")
  /\ payment' = [payment EXCEPT ![vf[v].payment] = "success"]
  /\ \E loaded \in {vf[v].order, order} :
       order' = IF loaded = "completed" THEN order ELSE "completed"
  /\ VerifierTo(v, [pc |-> "emitting", payment |-> vf[v].payment])
  /\ UNCHANGED <<st, announced, lost>>

\* Mutant: nothing is announced if the order has moved on since the commit.
EmitIfCompleted(v) ==
  /\ Verifying(v, "emitting")
  /\ IF order = "completed" THEN announced' = [announced EXCEPT ![vf[v].payment] = @ + 1]
                            ELSE UNCHANGED announced
  /\ VerifierTo(v, Free)
  /\ UNCHANGED <<order, payment, st, lost>>

\* handle_payment_successful commits a notification; if it raises, emit logs it.
EmitSuccessful(v) ==
  /\ Verifying(v, "emitting")
  /\ \/ announced' = [announced EXCEPT ![vf[v].payment] = @ + 1] /\ UNCHANGED lost
     \/ "handler" \in Faults /\ lost' = lost \cup {vf[v].payment} /\ UNCHANGED announced
  /\ VerifierTo(v, Free)
  /\ UNCHANGED <<order, payment, st>>

\* A query raises or the process stops: what is not committed is rolled back,
\* and an event that is not emitted yet never is.
VerifierDies(v) ==
  /\ "crash" \in Faults
  /\ ~Verifying(v, "free")
  /\ lost' = IF Verifying(v, "emitting") THEN lost \cup {vf[v].payment} ELSE lost
  /\ VerifierTo(v, Free)
  /\ UNCHANGED <<order, payment, st, announced>>

-----------------------------------------------------------------------------
(* update_status *)

\* The order is loaded; setting the status it has is a no-op.
ReadStatus(s, new) ==
  /\ st[s].pc = "free" /\ order \notin {"none", new}
  /\ st' = [st EXCEPT ![s] = [pc |-> "deciding", old |-> order, new |-> new]]
  /\ UNCHANGED <<order, payment, vf, announced, lost>>

CommitStatus(s) ==
  /\ st[s].pc = "deciding"
  /\ order' = st[s].new
  /\ st' = [st EXCEPT ![s] = [pc |-> "emitting"]]
  /\ UNCHANGED <<payment, vf, announced, lost>>

\* order.status_changed: its notification is not about a payment.
EmitStatusChanged(s) ==
  /\ st[s].pc = "emitting"
  /\ st' = [st EXCEPT ![s] = Free]
  /\ UNCHANGED <<order, payment, vf, announced, lost>>

StaffDies(s) ==
  /\ "crash" \in Faults
  /\ st[s].pc # "free"
  /\ st' = [st EXCEPT ![s] = Free]
  /\ UNCHANGED <<order, payment, vf, announced, lost>>

-----------------------------------------------------------------------------
VerifierStep(v) == ReadOrder(v) \/ CommitVerify(v) \/ EmitSuccessful(v)
StaffStep(s)    == CommitStatus(s) \/ EmitStatusChanged(s)

Next ==
  \/ CreateOrder
  \/ \E p \in Payments : Initialize(p)
  \/ \E v \in Verifiers : \/ \E p \in Payments : ReadPayment(v, p)
                          \/ VerifierStep(v) \/ VerifierDies(v)
  \/ \E s \in Staff : \/ \E new \in OrderStatus : ReadStatus(s, new)
                      \/ StaffStep(s) \/ StaffDies(s)

Spec == Init /\ [][Next]_vars

-----------------------------------------------------------------------------
(* Properties *)

Holding(p, pcs) == {v \in Verifiers : vf[v].pc \in pcs /\ vf[v].payment = p}

\* Duplicate verifications (a redirect racing a webhook, a webhook delivered
\* twice) may announce a payment more than once, but only those calls that read
\* it as pending do: never more than there are concurrent calls, ever.
AnnouncementsBounded ==
  \A p \in Payments : announced[p] + Cardinality(Holding(p, {"reading", "deciding", "emitting"}))
                        <= Cardinality(Verifiers)

\* A payment is announced as received only once it is committed as such.
AnnouncedIsPaid ==
  \A p \in Payments : announced[p] > 0 \/ Holding(p, {"emitting"}) # {} => payment[p] = "success"

\* A success that no call is about to announce was announced, or the announcement
\* failed or died with its process after the commit: there is no other way to
\* lose it, a second verification on top of the first included.
SuccessAnnounced ==
  \A p \in Payments : payment[p] = "success" =>
    announced[p] > 0 \/ p \in lost \/ Holding(p, {"emitting"}) # {}

\* What is announced has been paid, and what has been paid is announced unless the
\* announcement itself failed (src/app/modules/payments/service.py:77).
AnnouncementsFaithful == AnnouncedIsPaid /\ SuccessAnnounced

\* The transaction that makes a payment successful completes the order, unless
\* the order was completed when the call looked and staff have changed it since.
PaidCompletes ==
  [][\A p \in Payments : payment[p] = "pending" /\ payment'[p] = "success" =>
       \/ order' = "completed"
       \/ \E v \in Verifiers : Verifying(v, "deciding") /\ vf[v].payment = p
                                 /\ vf[v].order = "completed"]_vars
=============================================================================
