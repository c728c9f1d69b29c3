---------------------------- MODULE EventDelivery ----------------------------
(***************************************************************************)
(* What becomes of an event: the bus of one process (EventBus) with the    *)
(* handlers that are subscribed at startup, the rows they write, the Redis *)
(* channel they publish to, and the subscriber loop of every process       *)
(* (src/app/websocket/broadcaster.py).                                     *)
(*                                                                         *)
(* Redis hands a published message to the loops subscribed at that moment  *)
(* and keeps nothing.  A loop takes its messages one at a time; when its   *)
(* connection fails, what it has not taken is gone.                        *)
(***************************************************************************)
EXTENDS EventBus, Sequences, SequencesExt

CONSTANTS
  Procs,      \* server processes
  Home,       \* the one whose bus is modelled
  MaxFaults   \* bound: failed calls and connections, and ended processes

ASSUME EventDeliveryAssumption ==
  /\ Home \in Procs
  /\ "bridge" \in Handlers
  /\ MaxFaults \in Nat

VARIABLES
  life,     \* history: how often Home has ended
  written,  \* history: written[t][h], rows committed by runs of h for t since Home began
  channel,  \* history: the messages published, in order
  up,       \* up[p]: p is between the startup and the shutdown of its lifespan
  link,     \* where p's subscriber loop stands
  delay,    \* p's retry_delay, in seconds
  buffer,   \* buffer[p]: messages Redis has sent to p that the loop has not taken
  routed,   \* history: routed[p], messages passed on to p's WebSocket manager
  missed,   \* history: messages that p will not see
  faults    \* count, for the bound

delivery == <<life, written, channel, up, link, delay, buffer, routed, missed, faults>>
allVars  == <<busVars, delivery>>

-----------------------------------------------------------------------------
(* Subscriptions: register_event_handlers.  Handlers that only write to the log file
   are left out. *)

Audited       == {"user.registered", "user.logged_in", "order.created", "order.updated",
                  "payment.success", "payment.failed"}
Notified      == {"order.created", "order.status_changed", "payment.successful"}
Forwardable   == {"order.created", "order.updated", "payment.success", "payment.failed",
                  "notification.created", "analytics.updated", "ai.insight.generated", "ai.response.chunk"}
Automated     == {"order.created", "order.updated", "payment.success", "payment.failed", "customer.inactive"}
Subscriptions(t) ==
  {h \in {"audit", "notify", "bridge", "trigger"} :
     t \in CASE h = "audit" -> Audited [] h = "notify" -> Notified
             [] h = "bridge" -> Forwardable [] OTHER -> Automated}

\* What a handler may return from without any effect: a gateway's payment.success names
\* a business only if the checkout's metadata did, and the order of a payment.successful
\* may be gone.  The trigger's effect, tasks that it spawns, is in module WorkflowCache.
Unaddressed(h, t) ==
  h = "trigger" \/ <<h, t>> \in {<<"bridge", "payment.success">>, <<"notify", "payment.successful">>}

\* retry_delay: doubled by every failure, at most 60.
Doubled(d)    == IF 2 * d > 60 THEN 60 ELSE 2 * d
BackoffDelays == {1, 2, 4, 8, 16, 32, 60}

Message == [life : Nat, type : Types, run : Nat]

DeliveryTypeOK ==
  /\ BusTypeOK
  /\ life \in Nat
  /\ written \in [Types -> [Handlers -> Nat]]
  /\ channel \in Seq(Message)
  /\ up      \in [Procs -> BOOLEAN]
  /\ link    \in [Procs -> {"off", "connecting", "listening", "pausing", "backing off"}]
  /\ delay   \in [Procs -> BackoffDelays]
  /\ buffer  \in [Procs -> Seq(Message)]
  /\ routed  \in [Procs -> Seq(Message)]
  /\ missed  \in [Procs -> SUBSET Message]
  /\ faults  \in 0 .. MaxFaults

DeliveryInit ==
  /\ BusInit
  /\ life = 0 /\ written = [t \in Types |-> [h \in Handlers |-> 0]]
  /\ channel = <<>>
  /\ up      = [p \in Procs |-> TRUE]
  /\ link    = [p \in Procs |-> "connecting"]
  /\ delay   = [p \in Procs |-> 1]
  /\ buffer  = [p \in Procs |-> <<>>]
  /\ routed  = [p \in Procs |-> <<>>]
  /\ missed  = [p \in Procs |-> {}]
  /\ faults  = 0

Fault == faults < MaxFaults /\ faults' = faults + 1

-----------------------------------------------------------------------------
(* What handlers do *)

\* Mutant: the row is flushed and never committed.
WriteUncommitted(t, h) ==
  /\ h \in {"audit", "notify"}
  /\ UNCHANGED <<written, channel, buffer, missed>>

\* A row of the audit log, or a notification for everyone, in a session of its own.
Write(t, h) ==
  /\ h \in {"audit", "notify"}
  /\ written' = [written EXCEPT ![t][h] = @ + 1]
  /\ UNCHANGED <<channel, buffer, missed>>

\* Mutant: a publication whose answer was late is repeated.
PublishTwice(t) ==
  LET m == [life |-> life, type |-> t, run |-> ended[t]["bridge"] + 1] IN
  /\ channel' = channel \o <<m, m>>
  /\ buffer' = [p \in Procs |-> IF link[p] = "listening" THEN buffer[p] \o <<m, m>> ELSE buffer[p]]
  /\ missed' = [p \in Procs |-> IF link[p] = "listening" THEN missed[p] ELSE missed[p] \cup {m}]
  /\ UNCHANGED written

\* Redis gives the message to the loops that are subscribed now.
Publish(t) ==
  LET m == [life |-> life, type |-> t, run |-> ended[t]["bridge"] + 1] IN
  /\ channel' = Append(channel, m)
  /\ buffer' = [p \in Procs |-> IF link[p] = "listening" THEN Append(buffer[p], m) ELSE buffer[p]]
  /\ missed' = [p \in Procs |-> IF link[p] = "listening" THEN missed[p] ELSE missed[p] \cup {m}]
  /\ UNCHANGED written

NoEffect == UNCHANGED <<written, channel, buffer, missed>>

\* publish_event swallows its errors: the bridge returns in any case.
Returns(e, h) ==
  LET t == emission[e].type IN
  /\ HandlerReturns(e, h)
  /\ \/ Write(t, h) /\ UNCHANGED faults
     \/ h = "bridge" /\ Publish(t) /\ UNCHANGED faults
     \/ h = "bridge" /\ NoEffect /\ Fault
     \/ Unaddressed(h, t) /\ NoEffect /\ UNCHANGED faults
  /\ UNCHANGED <<life, up, link, delay, routed>>

\* The database or the connection fails before the effect, or hides it.
Raises(e, h) ==
  LET t == emission[e].type IN
  /\ h # "trigger"
  /\ HandlerRaises(e, h)
  /\ Fault
  /\ \/ NoEffect
     \/ Write(t, h)
     \/ h = "bridge" /\ Publish(t)
  /\ UNCHANGED <<life, up, link, delay, routed>>

EmitEvent(e, t) == up[Home] /\ Emit(e, t) /\ UNCHANGED delivery
EmitEnds(e)     == Return(e) /\ UNCHANGED delivery

-----------------------------------------------------------------------------
(* The subscriber loop *)

LoopOnly == UNCHANGED <<busVars, life, written, channel, up>>

Subscribe(p) ==
  /\ link[p] = "connecting"
  /\ link'  = [link EXCEPT ![p] = "listening"]
  /\ delay' = [delay EXCEPT ![p] = 1]
  /\ LoopOnly /\ UNCHANGED <<buffer, routed, missed, faults>>

\* The connection is refused or breaks, or an idle read times out.
Disconnects(p) ==
  /\ link[p] \in {"connecting", "listening"}
  /\ Fault
  /\ \E next \in {"pausing", "backing off"} : link' = [link EXCEPT ![p] = next]
  /\ buffer' = [buffer EXCEPT ![p] = <<>>]
  /\ missed' = [missed EXCEPT ![p] = @ \cup ToSet(buffer[p])]
  /\ LoopOnly /\ UNCHANGED <<delay, routed>>

\* A timeout pauses for 0.1 seconds; any other error waits for the delay, then doubles it.
Retry(p) ==
  /\ link[p] \in {"pausing", "backing off"}
  /\ link'  = [link EXCEPT ![p] = "connecting"]
  /\ delay' = IF link[p] = "pausing" THEN delay ELSE [delay EXCEPT ![p] = Doubled(@)]
  /\ LoopOnly /\ UNCHANGED <<buffer, routed, missed, faults>>

\* Mutant: the newest message first.
RouteNewest(p) ==
  /\ link[p] = "listening" /\ buffer[p] # <<>>
  /\ buffer' = [buffer EXCEPT ![p] = Front(@)]
  /\ routed' = [routed EXCEPT ![p] = Append(@, Last(buffer[p]))]
  /\ LoopOnly /\ UNCHANGED <<link, delay, missed, faults>>

RouteMessage(p) ==
  /\ link[p] = "listening" /\ buffer[p] # <<>>
  /\ buffer' = [buffer EXCEPT ![p] = Tail(@)]
  /\ routed' = [routed EXCEPT ![p] = Append(@, Head(buffer[p]))]
  /\ LoopOnly /\ UNCHANGED <<link, delay, missed, faults>>

\* Mutant: an error in routing ends the loop's task.
AfterRoutingErrorEnded == "off"

\* The inner except clause lets the loop go on.
AfterRoutingError == "listening"

RouteFails(p) ==
  /\ link[p] = "listening" /\ buffer[p] # <<>>
  /\ Fault
  /\ buffer' = [buffer EXCEPT ![p] = Tail(@)]
  /\ missed' = [missed EXCEPT ![p] = @ \cup {Head(buffer[p])}]
  /\ link' = [link EXCEPT ![p] = AfterRoutingError]
  /\ LoopOnly /\ UNCHANGED <<delay, routed>>

\* stop_broadcaster at shutdown, or the end of the process; the bus goes with Home.
ProcessEnds(p) ==
  /\ up[p] /\ Fault
  /\ up'   = [up EXCEPT ![p] = FALSE]
  /\ link' = [link EXCEPT ![p] = "off"]
  /\ buffer' = [buffer EXCEPT ![p] = <<>>]
  /\ missed' = [missed EXCEPT ![p] = @ \cup ToSet(buffer[p])]
  /\ IF p = Home
     THEN /\ BusStops
          /\ life' = life + 1
          /\ written' = [t \in Types |-> [h \in Handlers |-> 0]]
     ELSE UNCHANGED <<busVars, life, written>>
  /\ UNCHANGED <<channel, delay, routed>>

\* lifespan: start_broadcaster creates the loop's task with a delay of its own.
ProcessStarts(p) ==
  /\ ~up[p]
  /\ up'    = [up EXCEPT ![p] = TRUE]
  /\ link'  = [link EXCEPT ![p] = "connecting"]
  /\ delay' = [delay EXCEPT ![p] = 1]
  /\ UNCHANGED <<busVars, life, written, channel, buffer, routed, missed, faults>>

-----------------------------------------------------------------------------
BusStep(e)  == (\E h \in Handlers : Returns(e, h) \/ Raises(e, h)) \/ EmitEnds(e)
LoopStep(p) == Subscribe(p) \/ Retry(p) \/ RouteMessage(p)

DeliveryNext ==
  \/ \E e \in Emitters : (\E t \in Types : EmitEvent(e, t)) \/ BusStep(e)
  \/ \E p \in Procs : LoopStep(p) \/ Disconnects(p) \/ RouteFails(p) \/ ProcessEnds(p) \/ ProcessStarts(p)

\* The event loop runs the loops; a process that has ended need not come back.
DeliveryFairness == \A p \in Procs : WF_allVars(LoopStep(p))

DeliverySpec == DeliveryInit /\ [][DeliveryNext]_allVars /\ DeliveryFairness

-----------------------------------------------------------------------------
(* Properties *)

RowsMatchRuns ==
  \A t \in Types : \A h \in Subscribed[t] \cap {"audit", "notify"} :
    /\ ~Unaddressed(h, t) => ended[t][h] - raised[t][h] <= written[t][h]
    /\ written[t][h] <= ended[t][h]

\* "Exceptions in one handler don't block others" (docstring of emit): for every
\* call of emit every subscribed handler runs exactly once, whatever others raise
\* and however calls overlap; as many emissions are counted as there were calls that
\* had a handler to run, and what handlers raised, less what still waits for siblings,
\* is counted as failures, each once; and each run that returned has committed its
\* row of the audit log or its notification, no run more than one.
HandlersAccounted == EveryHandlerOnce /\ FailuresExact /\ RowsMatchRuns

\* Every process passes an event on at most once, and in the order of publication; an
\* event is published at most once, by its own run of the bridge; and what has been
\* published is passed on, under way or missed by each process, never two of them.
OncePerProcess ==
  /\ IsInjective(channel)
  /\ \A t \in Types : Cardinality({m \in ToSet(channel) : m.life = life /\ m.type = t}) <= ended[t]["bridge"]
  /\ \A p \in Procs :
       LET seen == routed[p] \o buffer[p] IN
       /\ IsInjective(seen)
       /\ \A i, j \in DOMAIN seen : i < j =>
            (CHOOSE k \in DOMAIN channel : channel[k] = seen[i])
              < (CHOOSE k \in DOMAIN channel : channel[k] = seen[j])
       /\ ToSet(seen) \cap missed[p] = {}
       /\ ToSet(seen) \cup missed[p] = ToSet(channel)

MB == INSTANCE Mailbox WITH Readers <- Procs, sent <- channel, got <- routed, lost <- missed

\* Publication and the loops together are a mailbox for each process: no step hands it a
\* message that it has had or lost, or one while an older one waits (publish_event, the loop).
MailboxSpec == MB!Spec

\* "Features resilient automatic reconnection" (docstring of the loop): whatever
\* fails, the loop of a running process listens again.
LoopsRecover == \A p \in Procs : up[p] ~> link[p] = "listening" \/ ~up[p]
=============================================================================
