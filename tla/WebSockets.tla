----------------------------- MODULE WebSockets -----------------------------
(***************************************************************************)
(* Connections and presence of one business in one server process          *)
(* (src/app/websocket: manager.py, connection.py, routes.py).              *)
(*                                                                         *)
(* A user may hold several connections (browser tabs).  Every connection   *)
(* has a session, the coroutine of its endpoint, that registers it,        *)
(* listens for presence messages and deregisters it at the end.  Sessions, *)
(* and the subscriber loop for events, broadcast: the targets are the      *)
(* connections registered now, the sends run concurrently, and the         *)
(* connections whose send failed are disconnected when all sends are over. *)
(*                                                                         *)
(* The code between two awaits is one step.  The sends of a gather are     *)
(* tasks that the event loop starts in the order of their creation, so the *)
(* frames of one connection are written in the order of their broadcasts:  *)
(* out[c] is a queue.                                                      *)
(***************************************************************************)
EXTENDS Integers, Sequences, FiniteSets

CONSTANTS
  Users,
  Conns,      \* slots for ActiveConnection objects
  UserOf,     \* UserOf[c]: the user a connection was authenticated as
  Status,     \* what a client reports; connect() reports "online"
  Subscriber, \* the Redis subscriber loop, as a broadcaster
  MaxDrift    \* bound: no new connection once the gauge is that much too low

ASSUME WebSocketsAssumption ==
  /\ UserOf \in [Conns -> Users]
  /\ "online" \in Status /\ "absent" \notin Status
  /\ Subscriber \notin Conns
  /\ MaxDrift \in Nat
  /\ IsFiniteSet(Conns)

VARIABLES
  registered,  \* _connections of the business
  presence,    \* _presence of the business: status, or Absent without an entry
  gauge,       \* active_ws_connections of the business
  session,     \* where the session of c stands
  alive,       \* alive[c]: c's client still receives what is sent to it
  out,         \* out[c]: sends to c that have not completed, oldest first
  flight,      \* flight[x]: the broadcast that x is awaiting
  seen,        \* seen[c]: the presence list c's client received last
  unannounced, \* history: users whose entry a cleanup removed after the session
               \* of the failed connection had announced its end
  repeats,     \* history: disconnects of connections that were disconnected before
  dropped      \* history: users of whom a connection was disconnected since the last
               \* one connected

vars == <<registered, presence, gauge, session, alive, out, flight, seen, unannounced, repeats, dropped>>

Absent       == "absent"
Presences    == [Users -> Status \cup {Absent}]
Event        == "event"
Broadcasters == Conns \cup {Subscriber}
Grounded     == [on |-> FALSE, waiting |-> {}, failed |-> {}]
Frame        == [by : Broadcasters, news : {TRUE}, list : Presences] \cup [by : {Subscriber}, news : {FALSE}]

TypeOK ==
  /\ registered \subseteq Conns
  /\ presence \in Presences
  /\ gauge   \in Int
  /\ session \in [Conns -> {"off", "joining", "loop", "updating", "leaving"}]
  /\ alive   \in [Conns -> BOOLEAN]
  /\ out     \in [Conns -> Seq(Frame)]
  /\ flight  \in [Broadcasters -> [on : BOOLEAN, waiting : SUBSET Conns, failed : SUBSET Conns]]
  /\ seen    \in [Conns -> Presences]
  /\ unannounced \subseteq Users /\ dropped \subseteq Users
  /\ repeats \in Nat

Nobody == [u \in Users |-> Absent]

Init ==
  /\ registered = {}
  /\ presence = Nobody
  /\ gauge    = 0
  /\ session  = [c \in Conns |-> "off"]
  /\ alive    = [c \in Conns |-> FALSE]
  /\ out      = [c \in Conns |-> <<>>]
  /\ flight   = [x \in Broadcasters |-> Grounded]
  /\ seen     = [c \in Conns |-> Nobody]
  /\ unannounced = {} /\ repeats = 0 /\ dropped = {}

-----------------------------------------------------------------------------
(* The manager *)

\* What the history keeps of disconnect() being called for every connection of S.
Remember(S) ==
  /\ repeats' = repeats + Cardinality(S \ registered)
  /\ dropped' = dropped \cup {UserOf[c] : c \in S}

\* Mutant: the user's presence entry is left behind.
DisconnectKeepsPresence(S) ==
  /\ Remember(S)
  /\ registered' = registered \ S
  /\ gauge' = gauge - Cardinality(S)
  /\ UNCHANGED presence

\* Mutant: the gauge goes down only together with the presence entry.
DisconnectPresent(S) ==
  /\ Remember(S)
  /\ registered' = registered \ S
  /\ presence' = [u \in Users |-> IF \E c \in S : UserOf[c] = u THEN Absent ELSE presence[u]]
  /\ gauge' = gauge - Cardinality({c \in S : presence[UserOf[c]] # Absent})

\* disconnect(), called for every connection of S in turn: the registration
\* and the user's presence entry go if they are there; the gauge goes down in
\* any case.
Disconnect(S) ==
  /\ Remember(S)
  /\ registered' = registered \ S
  /\ presence' = [u \in Users |-> IF \E c \in S : UserOf[c] = u THEN Absent ELSE presence[u]]
  /\ gauge' = gauge - Cardinality(S)

\* x starts a broadcast to the given connections: the sends are created.
Launch(x, targets, frame) ==
  /\ flight' = [flight EXCEPT ![x] = [on |-> TRUE, waiting |-> targets, failed |-> {}]]
  /\ out' = [c \in Conns |-> IF c \in targets THEN Append(out[c], frame) ELSE out[c]]

\* Mutant: the list is read before the change it is to announce.
AnnounceOldPresence(x) ==
  /\ Launch(x, registered', [by |-> x, news |-> TRUE, list |-> presence])
  /\ unannounced' = {}

\* broadcast_to_business with the presence list as it is after this step.
AnnouncePresence(x) ==
  /\ Launch(x, registered', [by |-> x, news |-> TRUE, list |-> presence'])
  /\ unannounced' = {}

\* Mutant: a send that fails is never given up.
SendOrWait(c) ==
  /\ out[c] # <<>>
  /\ \E ok \in {TRUE} \cup {alive[c]} :
       flight' = [flight EXCEPT ![Head(out[c]).by].waiting = IF ok THEN @ \ {c} ELSE @]
  /\ out' = [out EXCEPT ![c] = Tail(@)]
  /\ UNCHANGED <<registered, presence, gauge, session, alive, seen, unannounced, repeats, dropped>>

\* The oldest send to c completes: a client that is gone may still swallow it.
Send(c) ==
  /\ out[c] # <<>>
  /\ LET frame == Head(out[c]) IN
       /\ \E ok \in {TRUE} \cup {alive[c]} :
            flight' = [flight EXCEPT ![frame.by].waiting = @ \ {c},
                                     ![frame.by].failed = IF ok THEN @ ELSE @ \cup {c}]
       /\ seen' = IF alive[c] /\ frame.news THEN [seen EXCEPT ![c] = frame.list] ELSE seen
  /\ out' = [out EXCEPT ![c] = Tail(@)]
  /\ UNCHANGED <<registered, presence, gauge, session, alive, unannounced, repeats, dropped>>

\* Mutant: the session enters a state nothing continues from.
AfterBroadcastJoined(c) == IF session[c] = "leaving" THEN "off" ELSE "joined"

AfterBroadcast(c) == IF session[c] = "leaving" THEN "off" ELSE "loop"

\* gather returns: the failed connections are cleaned up, without another
\* broadcast, and the broadcaster goes on.
Cleanup(x) ==
  /\ flight[x].on /\ flight[x].waiting = {}
  /\ Disconnect(flight[x].failed)
  /\ flight' = [flight EXCEPT ![x] = Grounded]
  /\ session' = IF x \in Conns THEN [session EXCEPT ![x] = AfterBroadcast(x)] ELSE session
  /\ alive' = IF x \in Conns /\ session[x] = "leaving" THEN [alive EXCEPT ![x] = FALSE] ELSE alive
  /\ unannounced' = unannounced \cup
       {UserOf[c] : c \in {d \in flight[x].failed : session[d] \in {"off", "leaving"}}}
  /\ UNCHANGED <<out, seen>>

-----------------------------------------------------------------------------
(* A session: websocket_endpoint *)

\* No broadcast still refers to the slot's previous connection object.
Free(c) ==
  /\ session[c] = "off" /\ out[c] = <<>>
  /\ \A x \in Broadcasters : c \notin flight[x].failed

\* Mutant: connect() makes an entry only for a user's first connection.
ConnectFirst(c) ==
  /\ Free(c) /\ Cardinality(registered) - gauge <= MaxDrift
  /\ registered' = registered \cup {c}
  /\ presence' = IF \E d \in registered : UserOf[d] = UserOf[c] THEN presence
                 ELSE [presence EXCEPT ![UserOf[c]] = "online"]
  /\ gauge' = gauge + 1
  /\ dropped' = dropped \ {UserOf[c]} /\ UNCHANGED repeats
  /\ session' = [session EXCEPT ![c] = "joining"]
  /\ alive' = [alive EXCEPT ![c] = TRUE]
  /\ seen' = [seen EXCEPT ![c] = Nobody]
  /\ AnnouncePresence(c)

\* The client was accepted and authenticated.
Connect(c) ==
  /\ Free(c) /\ Cardinality(registered) - gauge <= MaxDrift
  /\ registered' = registered \cup {c}
  /\ presence' = [presence EXCEPT ![UserOf[c]] = "online"]
  /\ gauge' = gauge + 1
  /\ dropped' = dropped \ {UserOf[c]} /\ UNCHANGED repeats
  /\ session' = [session EXCEPT ![c] = "joining"]
  /\ alive' = [alive EXCEPT ![c] = TRUE]
  /\ seen' = [seen EXCEPT ![c] = Nobody]
  /\ AnnouncePresence(c)

\* A presence message; an entry that is not there is not updated.
UpdatePresence(c, status) ==
  /\ session[c] = "loop" /\ alive[c]
  /\ presence' = IF presence[UserOf[c]] = Absent THEN presence
                 ELSE [presence EXCEPT ![UserOf[c]] = status]
  /\ session' = [session EXCEPT ![c] = "updating"]
  /\ UNCHANGED <<registered, gauge, alive, seen, repeats, dropped>>
  /\ AnnouncePresence(c)

\* receive_json raises, or a handler does: the finally clause runs.
End(c) ==
  /\ session[c] = "loop"
  /\ Disconnect({c})
  /\ session' = [session EXCEPT ![c] = "leaving"]
  /\ UNCHANGED <<alive, seen>>
  /\ AnnouncePresence(c)

-----------------------------------------------------------------------------
(* The environment *)

\* The client closes, or its network fails; the server does not know yet.
Lose(c) ==
  /\ alive[c]
  /\ alive' = [alive EXCEPT ![c] = FALSE]
  /\ UNCHANGED <<registered, presence, gauge, session, out, flight, seen, unannounced, repeats, dropped>>

\* An event arrives from Redis for the business, or for one of its users.
Route(targets) ==
  /\ ~flight[Subscriber].on /\ targets # {}
  /\ Launch(Subscriber, targets, [by |-> Subscriber, news |-> FALSE])
  /\ UNCHANGED <<registered, presence, gauge, session, alive, seen, unannounced, repeats, dropped>>

\* The process stops: its manager, its sessions and its metrics start anew.
Restart ==
  /\ registered' = {} /\ presence' = Nobody /\ gauge' = 0
  /\ session' = [c \in Conns |-> "off"] /\ alive' = [c \in Conns |-> FALSE]
  /\ out' = [c \in Conns |-> <<>>] /\ flight' = [x \in Broadcasters |-> Grounded]
  /\ seen' = [c \in Conns |-> Nobody] /\ unannounced' = {} /\ repeats' = 0 /\ dropped' = {}

OfUser(u) == {c \in registered : UserOf[c] = u}

Next ==
  \/ \E c \in Conns : \/ Connect(c) \/ End(c) \/ Lose(c) \/ Send(c)
                      \/ \E status \in Status : UpdatePresence(c, status)
  \/ \E x \in Broadcasters : Cleanup(x)
  \/ Route(registered)
  \/ \E u \in Users : Route(OfUser(u))
  \/ Restart

\* The event loop runs the tasks, and the server notices (by a ping timeout at
\* the latest) that a client is gone.
Fairness ==
  /\ \A c \in Conns : WF_vars(Send(c)) /\ WF_vars(End(c) /\ ~alive[c])
  /\ \A x \in Broadcasters : WF_vars(Cleanup(x))

Spec == Init /\ [][Next]_vars /\ Fairness

-----------------------------------------------------------------------------
(* Properties *)

\* Nobody is shown as present without a connection, whichever of the session's
\* own end and the cleanups of several broadcasts comes last.
PresenceBacked ==
  \A u \in Users : presence[u] # Absent => OfUser(u) # {}

\* Somebody with a connection is missing only because another connection of the same
\* user was disconnected after the last one had connected: what a user's tabs report
\* and what becomes of other users never removes an entry.
AbsentHasCause ==
  \A u \in Users : presence[u] = Absent /\ OfUser(u) # {} => u \in dropped

\* The gauge is the number of connections less the disconnects of connections that
\* were disconnected already: it is never too high, and nothing else makes it too low.
GaugeOffByRepeats == gauge = Cardinality(registered) - repeats

\* However often a connection is disconnected, by its own session and by every
\* broadcast that fails on it, neither the presence list nor the gauge shows somebody who
\* is not there, and both miss somebody only for these causes
\* (src/app/websocket/manager.py:39).
NoGhosts == PresenceBacked /\ AbsentHasCause /\ GaugeOffByRepeats

Calm ==
  /\ \A x \in Broadcasters : ~flight[x].on
  /\ \A c \in Conns : session[c] # "off" => alive[c]

\* When nothing is in flight every client has the presence list of the manager,
\* except for users removed by a late cleanup, which nobody announces.
SeenIsCurrent ==
  Calm => \A c \in registered : \A u \in Users \ unannounced : seen[c][u] = presence[u]

\* A connection whose client is gone does not stay registered: every session
\* ends, every broadcast is completed and no failed send blocks the others.
LostIsForgotten ==
  \A c \in Conns : c \in registered /\ ~alive[c] ~> c \notin registered
=============================================================================
