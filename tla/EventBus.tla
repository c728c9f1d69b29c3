------------------------------ MODULE EventBus ------------------------------
(***************************************************************************)
(* The in-process event bus (src/app/core/events.py) with the              *)
(* subscriptions made at startup (src/app/core/registry.py,                *)
(* src/app/websocket/events.py, src/app/modules/*/events.py and            *)
(* workflows/triggers.py).                                                 *)
(*                                                                         *)
(* emit() runs every handler of the event type, concurrently under gather  *)
(* in production and one after the other in tests, collects what they      *)
(* raised and returns when all have ended.  An event exists only in the    *)
(* memory of the process that emits it.                                    *)
(***************************************************************************)
EXTENDS Integers, FiniteSets

CONSTANTS
  Emitters,      \* slots for concurrent calls of emit
  Types,         \* event types
  Handlers,
  Subscribed,    \* Subscribed[t]: the handlers in _handlers[t]
  MaxEmissions   \* bound: calls of emit per type that are looked at

ASSUME EventBusAssumption ==
  /\ Subscribed \in [Types -> SUBSET Handlers]
  /\ IsFiniteSet(Handlers) /\ IsFiniteSet(Emitters)
  /\ MaxEmissions \in Nat

VARIABLES
  emission,  \* emission[e]: the call that e is in, Idle if none
  emitted,   \* history: calls of emit per type
  total,     \* event_bus_emissions_total, per type
  failures,  \* event_bus_handler_failures_total, per type
  ended,     \* history: ended[t][h] runs of h for t that have ended, raised or not
  raised     \* history: raised[t][h], those of them that raised

busVars == <<emission, emitted, total, failures, ended, raised>>

Idle  == [on |-> FALSE]
Calls == [on : {TRUE}, type : Types, todo : SUBSET Handlers, errors : SUBSET Handlers]

BusTypeOK ==
  /\ emission \in [Emitters -> {Idle} \cup Calls]
  /\ emitted  \in [Types -> 0 .. MaxEmissions]
  /\ total    \in [Types -> Nat]
  /\ failures \in [Types -> Nat]
  /\ ended    \in [Types -> [Handlers -> Nat]]
  /\ raised   \in [Types -> [Handlers -> Nat]]

BusInit ==
  /\ emission = [e \in Emitters |-> Idle]
  /\ emitted  = [t \in Types |-> 0]
  /\ total    = [t \in Types |-> 0]
  /\ failures = [t \in Types |-> 0]
  /\ ended    = [t \in Types |-> [h \in Handlers |-> 0]]
  /\ raised   = [t \in Types |-> [h \in Handlers |-> 0]]

Running(e, h) == emission[e].on /\ h \in emission[e].todo

-----------------------------------------------------------------------------
\* A type without handlers returns at once, before the emission is counted.
Emit(e, t) ==
  /\ ~emission[e].on
  /\ emitted[t] < MaxEmissions
  /\ emitted' = [emitted EXCEPT ![t] = @ + 1]
  /\ IF Subscribed[t] = {}
     THEN UNCHANGED <<emission, total>>
     ELSE /\ total' = [total EXCEPT ![t] = @ + 1]
          /\ emission' = [emission EXCEPT ![e] =
               [on |-> TRUE, type |-> t, todo |-> Subscribed[t], errors |-> {}]]
  /\ UNCHANGED <<failures, ended, raised>>

HandlerReturns(e, h) ==
  /\ Running(e, h)
  /\ emission' = [emission EXCEPT ![e].todo = @ \ {h}]
  /\ ended' = [ended EXCEPT ![emission[e].type][h] = @ + 1]
  /\ UNCHANGED <<emitted, total, failures, raised>>

\* Mutant: gather without return_exceptions: the first exception ends the call.
FirstExceptionWins(e, h) ==
  /\ Running(e, h)
  /\ emission' = [emission EXCEPT ![e].todo = {}, ![e].errors = @ \cup {h}]
  /\ ended' = [ended EXCEPT ![emission[e].type][h] = @ + 1]
  /\ raised' = [raised EXCEPT ![emission[e].type][h] = @ + 1]
  /\ UNCHANGED <<emitted, total, failures>>

\* The exception is kept as the handler's result; the others go on.
HandlerRaises(e, h) ==
  /\ Running(e, h)
  /\ emission' = [emission EXCEPT ![e].todo = @ \ {h}, ![e].errors = @ \cup {h}]
  /\ ended' = [ended EXCEPT ![emission[e].type][h] = @ + 1]
  /\ raised' = [raised EXCEPT ![emission[e].type][h] = @ + 1]
  /\ UNCHANGED <<emitted, total, failures>>

\* Mutant: an emission with failures counts as one failure.
ReturnCountsOne(e) ==
  /\ emission[e].on /\ emission[e].todo = {}
  /\ failures' = [failures EXCEPT ![emission[e].type] =
                    IF emission[e].errors = {} THEN @ ELSE @ + 1]
  /\ emission' = [emission EXCEPT ![e] = Idle]
  /\ UNCHANGED <<emitted, total, ended, raised>>

\* Mutant: the metric is lowered by the failures.
ReturnSubtracts(e) ==
  /\ emission[e].on /\ emission[e].todo = {}
  /\ failures' = [failures EXCEPT ![emission[e].type] = @ - Cardinality(emission[e].errors)]
  /\ emission' = [emission EXCEPT ![e] = Idle]
  /\ UNCHANGED <<emitted, total, ended, raised>>

\* All results are there: count the exceptions among them and return.
Return(e) ==
  /\ emission[e].on /\ emission[e].todo = {}
  /\ failures' = [failures EXCEPT ![emission[e].type] = @ + Cardinality(emission[e].errors)]
  /\ emission' = [emission EXCEPT ![e] = Idle]
  /\ UNCHANGED <<emitted, total, ended, raised>>

\* The process stops; metrics and pending handlers are in its memory only.
BusStops ==
  /\ emission' = [e \in Emitters |-> Idle]
  /\ emitted'  = [t \in Types |-> 0]
  /\ total'    = [t \in Types |-> 0]
  /\ failures' = [t \in Types |-> 0]
  /\ ended'    = [t \in Types |-> [h \in Handlers |-> 0]]
  /\ raised'   = [t \in Types |-> [h \in Handlers |-> 0]]

-----------------------------------------------------------------------------
(* Properties *)

Now(t, h) == Cardinality({e \in Emitters : Running(e, h) /\ emission[e].type = t})

\* The runs that raised, and those of them that a call has still to count.
RaisedRuns(t)  == UNION {{h} \X (1 .. raised[t][h]) : h \in Handlers}
PendingRuns(t) == {run \in Emitters \X Handlers :
                     LET c == emission[run[1]] IN c.on /\ c.type = t /\ run[2] \in c.errors}

EveryHandlerOnce ==
  \A t \in Types, h \in Handlers :
    IF h \in Subscribed[t] THEN ended[t][h] + Now(t, h) = emitted[t] /\ total[t] = emitted[t]
                           ELSE ended[t][h] = 0

FailuresExact ==
  \A t \in Types : failures[t] + Cardinality(PendingRuns(t)) = Cardinality(RaisedRuns(t))
=============================================================================
