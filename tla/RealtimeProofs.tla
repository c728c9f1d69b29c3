--------------------------- MODULE RealtimeProofs ---------------------------
(***************************************************************************)
(* Proofs about the way of an event to the clients.                        *)
(*                                                                         *)
(* WebSockets, for every number of users and connections: nobody is shown  *)
(* as present or counted who is not connected, and when nothing is in      *)
(* flight every client has the presence list of the manager.               *)
(*                                                                         *)
(* EventDelivery, for every number of processes, handlers and calls of     *)
(* emit: every handler runs once and leaves its row, every process sees a  *)
(* published message once and in order, or has missed it, and the whole    *)
(* implements the mailbox of module Mailbox.                               *)
(***************************************************************************)
EXTENDS WebSockets, EventDelivery, SequenceTheorems, FiniteSetTheorems, TLAPS

USE WebSocketsAssumption

Lively == {"joining", "loop", "updating"}

\* A connection has a broadcast of its own exactly while its session awaits it.
SessionsAwait == \A c \in Conns : flight[c].on <=> session[c] \in {"joining", "updating", "leaving"}

\* Whoever is registered has a session that will take it off.
RegisteredLively == \A c \in registered : session[c] \in Lively

\* A frame that waits to be sent is waited for, and no broadcast has two for a client.
FramesAwaited ==
  \A c \in Conns : \A i \in DOMAIN out[c] :
    /\ flight[out[c][i].by].on /\ c \in flight[out[c][i].by].waiting
    /\ \A j \in DOMAIN out[c] : out[c][i].by = out[c][j].by => i = j

\* Sends fail only on connections whose client is gone, and it does not come back.
FailedGone == \A x \in Broadcasters : \A c \in flight[x].failed : ~alive[c]

\* l is the last presence list that is on its way to c, or that c has.
Knows(c, l) ==
  \/ \E i \in DOMAIN out[c] : /\ out[c][i].news /\ out[c][i].list = l
                              /\ \A j \in DOMAIN out[c] : j > i => ~out[c][j].news
  \/ (\A j \in DOMAIN out[c] : ~out[c][j].news) /\ seen[c] = l

\* A client of u is gone and the session has still to announce it.
Ending(u) == \E d \in Conns : UserOf[d] = u /\ ~alive[d] /\ session[d] \in Lively

Informed ==
  \A c \in registered : alive[c] =>
    \E l \in Presences : Knows(c, l) /\ \A u \in Users \ unannounced : l[u] = presence[u] \/ Ending(u)

IInv == /\ TypeOK /\ SessionsAwait /\ RegisteredLively /\ FramesAwaited /\ FailedGone /\ Informed
        /\ NoGhosts

-----------------------------------------------------------------------------
(* Queues of frames *)

\* The positions of a queue.
LEMMA Domains == \A q \in Seq(Frame) : DOMAIN q = 1 .. Len(q) /\ Len(q) \in Nat
OBVIOUS

\* A frame is put at the end of a queue.
LEMMA Appended ==
  ASSUME NEW q \in Seq(Frame), NEW f \in Frame, NEW r, r = Append(q, f)
  PROVE  /\ r \in Seq(Frame) /\ DOMAIN q = 1 .. Len(q) /\ DOMAIN r = 1 .. Len(q) + 1 /\ Len(q) \in Nat
         /\ r[Len(q) + 1] = f /\ \A i \in DOMAIN q : r[i] = q[i]
<1>1. /\ r \in Seq(Frame) /\ Len(r) = Len(q) + 1 /\ r[Len(q) + 1] = f
      /\ \A i \in 1 .. Len(q) : r[i] = q[i]
  BY AppendProperties
<1>2. QED
  BY <1>1, Domains

\* The frame at the head of a queue is taken off.
LEMMA Taken ==
  ASSUME NEW q \in Seq(Frame), q # <<>>
  PROVE  /\ Tail(q) \in Seq(Frame) /\ Head(q) = q[1] /\ Head(q) \in Frame
         /\ Len(q) \in Nat \ {0} /\ DOMAIN q = 1 .. Len(q) /\ DOMAIN Tail(q) = 1 .. Len(q) - 1
         /\ \A i \in 1 .. Len(q) - 1 : Tail(q)[i] = q[i + 1]
<1>1. /\ Tail(q) \in Seq(Frame) /\ Len(Tail(q)) = Len(q) - 1 /\ Head(q) \in Frame
      /\ \A i \in 1 .. Len(Tail(q)) : Tail(q)[i] = q[i + 1]
  BY HeadTailProperties
<1>2. Head(q) = q[1] /\ Len(q) # 0
  OBVIOUS
<1>3. QED
  BY <1>1, <1>2, Domains

Flights == [on : BOOLEAN, waiting : SUBSET Conns, failed : SUBSET Conns]

\* What a broadcast adds to the queues.
Adds(targets, f) ==
  \A c \in Conns : IF c \in targets
    THEN /\ DOMAIN out'[c] = 1 .. Len(out[c]) + 1 /\ out'[c][Len(out[c]) + 1] = f
         /\ \A i \in DOMAIN out[c] : out'[c][i] = out[c][i]
         /\ DOMAIN out[c] = 1 .. Len(out[c]) /\ Len(out[c]) \in Nat
    ELSE out'[c] = out[c]

\* A broadcast that is started adds its frame once for every target, and waits for it.
LEMMA Launched ==
  ASSUME TypeOK, NEW x \in Broadcasters, NEW targets \in SUBSET Conns, NEW f \in Frame, f.by = x,
         ~flight[x].on, FramesAwaited, Launch(x, targets, f)
  PROVE  /\ out' \in [Conns -> Seq(Frame)] /\ Adds(targets, f) /\ FramesAwaited'
         /\ flight' \in [Broadcasters -> Flights]
         /\ flight'[x].on /\ flight'[x].failed = {} /\ \A y \in Broadcasters \ {x} : flight'[y] = flight[y]
<1>1. /\ flight \in [Broadcasters -> Flights] /\ out \in [Conns -> Seq(Frame)]
  BY DEF TypeOK, Flights
<1> DEFINE mine == [on |-> TRUE, waiting |-> targets, failed |-> {}]
<1>2. mine \in Flights /\ mine.on /\ mine.waiting = targets /\ mine.failed = {}
  BY DEF Flights
<1>3. flight' = [flight EXCEPT ![x] = mine]
  BY DEF Launch
<1> HIDE DEF mine
<1>4. flight' \in [Broadcasters -> Flights] /\ flight'[x] = mine /\ \A y \in Broadcasters \ {x} : flight'[y] = flight[y]
  BY <1>1, <1>2, <1>3
<1>5. \A c \in Conns : out'[c] = IF c \in targets THEN Append(out[c], f) ELSE out[c]
  BY DEF Launch
<1>6. Adds(targets, f) /\ \A c \in Conns : out'[c] \in Seq(Frame)
  <2>1. ASSUME NEW c \in targets
        PROVE  /\ out'[c] \in Seq(Frame)
               /\ DOMAIN out'[c] = 1 .. Len(out[c]) + 1 /\ out'[c][Len(out[c]) + 1] = f
               /\ \A i \in DOMAIN out[c] : out'[c][i] = out[c][i]
               /\ DOMAIN out[c] = 1 .. Len(out[c]) /\ Len(out[c]) \in Nat
    <3> DEFINE q == out[c]
               r == out'[c]
    <3>1. q \in Seq(Frame) /\ r = Append(q, f)
      BY <1>1, <1>5
    <3> HIDE DEF q, r
    <3>2. /\ r \in Seq(Frame) /\ DOMAIN q = 1 .. Len(q) /\ DOMAIN r = 1 .. Len(q) + 1 /\ Len(q) \in Nat
          /\ r[Len(q) + 1] = f /\ \A i \in DOMAIN q : r[i] = q[i]
      BY <3>1, Appended
    <3>3. QED
      BY <3>2 DEF q, r
  <2>2. ASSUME NEW c \in Conns \ targets
        PROVE  out'[c] = out[c] /\ out'[c] \in Seq(Frame)
    BY <1>1, <1>5, <2>2
  <2>3. QED
    BY <2>1, <2>2 DEF Adds
<1>7. out' \in [Conns -> Seq(Frame)]
  <2>1. \A c \in Conns : out'[c] \in Seq(Frame)
    BY <1>6
  <2>2. out' = [c \in Conns |-> out'[c]]
    BY DEF Launch
  <2>3. QED
    BY <2>1, <2>2
<1>8. ASSUME NEW c \in Conns, NEW i \in DOMAIN out'[c]
      PROVE  /\ flight'[out'[c][i].by].on /\ c \in flight'[out'[c][i].by].waiting
             /\ \A j \in DOMAIN out'[c] : out'[c][i].by = out'[c][j].by => i = j
  <2>1. \A k \in DOMAIN out[c] : /\ out[c][k].by \in Broadcasters \ {x}
                                /\ flight[out[c][k].by].on /\ c \in flight[out[c][k].by].waiting
                                /\ \A j \in DOMAIN out[c] : out[c][k].by = out[c][j].by => k = j
    <3>1. \A k \in DOMAIN out[c] : out[c][k] \in Frame
      BY <1>1
    <3>2. \A g \in Frame : g.by \in Broadcasters
      BY DEF Frame, Broadcasters
    <3>3. QED
      BY <3>1, <3>2 DEF FramesAwaited
  <2>2. CASE c \notin targets
    <3>1. out'[c] = out[c]
      BY <1>5, <2>2
    <3>2. QED
      BY <1>4, <1>8, <2>1, <3>1
  <2>3. CASE c \in targets
    <3> DEFINE n == Len(out[c])
    <3>1. /\ DOMAIN out'[c] = 1 .. n + 1 /\ out'[c][n + 1] = f /\ DOMAIN out[c] = 1 .. n /\ n \in Nat
          /\ \A k \in 1 .. n : out'[c][k] = out[c][k]
      BY <1>6, <2>3 DEF Adds
    <3> HIDE DEF n
    <3>2. CASE i = n + 1
      <4>1. \A j \in DOMAIN out'[c] : j # n + 1 => j \in 1 .. n
        BY <3>1
      <4>2. QED
        BY <1>2, <1>4, <2>1, <2>3, <3>1, <3>2, <4>1
    <3>3. CASE i # n + 1
      <4>1. i \in 1 .. n /\ \A j \in DOMAIN out'[c] : j # n + 1 => j \in 1 .. n
        BY <1>8, <3>1, <3>3
      <4>2. QED
        BY <1>4, <2>1, <3>1, <4>1
    <3>4. QED
      BY <3>2, <3>3
  <2>4. QED
    BY <2>2, <2>3
<1>9. FramesAwaited'
  BY <1>8 DEF FramesAwaited
<1>10. QED
  BY <1>2, <1>4, <1>6, <1>7, <1>9

\* A presence list that is sent to everyone registered is known to everyone registered.
LEMMA Announced ==
  ASSUME TypeOK, NEW x \in Broadcasters, ~flight[x].on, FramesAwaited, AnnouncePresence(x),
         registered' \in SUBSET Conns, presence' \in Presences
  PROVE  /\ out' \in [Conns -> Seq(Frame)] /\ FramesAwaited' /\ Informed'
         /\ flight' \in [Broadcasters -> Flights]
         /\ flight'[x].on /\ flight'[x].failed = {} /\ \A y \in Broadcasters \ {x} : flight'[y] = flight[y]
         /\ unannounced' = {}
<1> DEFINE f == [by |-> x, news |-> TRUE, list |-> presence']
<1>1. f \in Frame /\ f.by = x /\ f.news /\ f.list = presence'
  BY DEF Frame
<1>2. Launch(x, registered', f) /\ unannounced' = {}
  BY DEF AnnouncePresence
<1> HIDE DEF f
<1>3. /\ out' \in [Conns -> Seq(Frame)] /\ Adds(registered', f) /\ FramesAwaited'
      /\ flight' \in [Broadcasters -> Flights]
      /\ flight'[x].on /\ flight'[x].failed = {} /\ \A y \in Broadcasters \ {x} : flight'[y] = flight[y]
  BY <1>1, <1>2, Launched
<1>4. ASSUME NEW c \in registered'
      PROVE  \E i \in DOMAIN out'[c] : /\ out'[c][i].news /\ out'[c][i].list = presence'
                                      /\ \A j \in DOMAIN out'[c] : j > i => ~out'[c][j].news
  <2> DEFINE n == Len(out[c])
  <2>1. DOMAIN out'[c] = 1 .. n + 1 /\ out'[c][n + 1] = f /\ n \in Nat
    BY <1>3, <1>4 DEF Adds
  <2> HIDE DEF n
  <2>2. n + 1 \in DOMAIN out'[c] /\ \A j \in DOMAIN out'[c] : ~(j > n + 1)
    BY <2>1
  <2>3. QED
    BY <1>1, <2>1, <2>2
<1>5. Informed'
  BY <1>4 DEF Informed, Knows
<1>6. QED
  BY <1>2, <1>3, <1>5

-----------------------------------------------------------------------------
(* Actions *)

\* Disconnecting a set of connections, some of them perhaps once more.
LEMMA Disconnected ==
  ASSUME TypeOK, NoGhosts, NEW S \in SUBSET Conns, Disconnect(S)
  PROVE  /\ registered' = registered \ S /\ presence' \in Presences /\ gauge' \in Int
         /\ repeats' \in Nat /\ dropped' \subseteq Users /\ NoGhosts'
         /\ \A u \in Users : presence'[u] = IF \E c \in S : UserOf[c] = u THEN Absent ELSE presence[u]
<1>1. /\ registered' = registered \ S /\ gauge' = gauge - Cardinality(S)
      /\ presence' = [u \in Users |-> IF \E c \in S : UserOf[c] = u THEN Absent ELSE presence[u]]
      /\ repeats' = repeats + Cardinality(S \ registered) /\ dropped' = dropped \cup {UserOf[c] : c \in S}
  BY DEF Disconnect, Remember
<1>2. /\ presence \in [Users -> Status \cup {Absent}] /\ gauge \in Int /\ registered \subseteq Conns
      /\ repeats \in Nat /\ dropped \subseteq Users
  BY DEF TypeOK, Presences
<1>3. presence' \in Presences
  BY <1>1, <1>2 DEF Presences
<1>4. \A u \in Users : presence'[u] = IF \E c \in S : UserOf[c] = u THEN Absent ELSE presence[u]
  BY <1>1
<1>5. PresenceBacked'
  <2>1. ASSUME NEW u \in Users, presence'[u] # Absent
        PROVE  \E c \in registered' : UserOf[c] = u
    <3>1. presence[u] # Absent /\ ~ \E c \in S : UserOf[c] = u
      BY <1>4, <2>1
    <3>2. PICK c \in registered : UserOf[c] = u
      BY <3>1 DEF NoGhosts, PresenceBacked, OfUser
    <3>3. QED
      BY <1>1, <3>1, <3>2
  <2>2. QED
    BY <2>1 DEF PresenceBacked, OfUser
<1>6. AbsentHasCause'
  <2>1. ASSUME NEW u \in Users, presence'[u] = Absent, NEW c \in registered', UserOf[c] = u, u \notin dropped'
        PROVE  FALSE
    <3>1. c \in registered /\ u \notin dropped /\ ~ \E d \in S : UserOf[d] = u
      BY <1>1, <2>1
    <3>2. presence[u] = Absent
      BY <1>4, <2>1, <3>1
    <3>3. QED
      BY <2>1, <3>1, <3>2 DEF NoGhosts, AbsentHasCause, OfUser
  <2>2. QED
    BY <2>1 DEF AbsentHasCause, OfUser
<1>7. IsFiniteSet(S) /\ IsFiniteSet(registered)
  <2>1. S \in SUBSET Conns /\ registered \in SUBSET Conns
    BY <1>2
  <2>2. QED
    BY <2>1, WebSocketsAssumption, FS_Subset
<1>8. Cardinality(S) \in Nat /\ Cardinality(registered) \in Nat /\ Cardinality(registered \cap S) \in Nat
      /\ Cardinality(S \ registered) \in Nat
  <2>1. IsFiniteSet(registered \cap S) /\ IsFiniteSet(S \ registered)
    BY <1>7, FS_Subset
  <2>2. QED
    BY <1>7, <2>1, FS_CardinalityType
<1>9. /\ Cardinality(registered \ S) = Cardinality(registered) - Cardinality(registered \cap S)
      /\ Cardinality(S \ registered) = Cardinality(S) - Cardinality(registered \cap S)
  <2>1. Cardinality(registered \ S) = Cardinality(registered) - Cardinality(registered \cap S)
    BY <1>7, FS_Difference
  <2>2. Cardinality(S \ registered) = Cardinality(S) - Cardinality(S \cap registered)
    BY <1>7, FS_Difference
  <2>3. S \cap registered = registered \cap S
    OBVIOUS
  <2>4. QED
    BY <2>1, <2>2, <2>3
<1>10. gauge' \in Int /\ repeats' \in Nat /\ GaugeOffByRepeats'
  BY <1>1, <1>2, <1>8, <1>9 DEF NoGhosts, GaugeOffByRepeats
<1>11. dropped' \subseteq Users
  BY <1>1, <1>2, WebSocketsAssumption
<1>12. QED
  BY <1>1, <1>3, <1>4, <1>5, <1>6, <1>10, <1>11 DEF NoGhosts

\* A new connection: the one step that adds to the presence list announces it to all, itself included.
LEMMA ConnectKeeps ==
  ASSUME IInv, NEW c \in Conns, Connect(c)
  PROVE  IInv'
<1>1. /\ session[c] = "off" /\ \A x \in Broadcasters : c \notin flight[x].failed
      /\ registered' = registered \cup {c} /\ presence' = [presence EXCEPT ![UserOf[c]] = "online"]
      /\ gauge' = gauge + 1 /\ session' = [session EXCEPT ![c] = "joining"]
      /\ dropped' = dropped \ {UserOf[c]} /\ repeats' = repeats
      /\ alive' = [alive EXCEPT ![c] = TRUE] /\ seen' = [seen EXCEPT ![c] = Nobody] /\ AnnouncePresence(c)
  BY DEF Connect, Free
<1>2. TypeOK /\ UserOf[c] \in Users /\ "online" \in Status /\ c \in Broadcasters
  BY WebSocketsAssumption DEF IInv, Broadcasters
<1>3. ~flight[c].on /\ c \notin registered
  BY <1>1 DEF IInv, SessionsAwait, RegisteredLively, Lively
<1>4. presence' \in Presences /\ registered' \in SUBSET Conns /\ Nobody \in Presences
  BY <1>1, <1>2 DEF TypeOK, Presences, Nobody
<1>5. /\ out' \in [Conns -> Seq(Frame)] /\ FramesAwaited' /\ Informed'
      /\ flight' \in [Broadcasters -> Flights] /\ unannounced' = {}
      /\ flight'[c].on /\ flight'[c].failed = {} /\ \A y \in Broadcasters \ {c} : flight'[y] = flight[y]
  BY <1>1, <1>2, <1>3, <1>4, Announced DEF IInv
<1>6. TypeOK'
  BY <1>1, <1>2, <1>4, <1>5 DEF TypeOK, Flights
<1>7. SessionsAwait'
  BY <1>1, <1>2, <1>5 DEF IInv, TypeOK, SessionsAwait, Broadcasters
<1>8. RegisteredLively'
  BY <1>1, <1>2 DEF IInv, TypeOK, RegisteredLively, Lively
<1>9. FailedGone'
  BY <1>1, <1>2, <1>5 DEF IInv, TypeOK, FailedGone
<1>10. PresenceBacked' /\ AbsentHasCause'
  <2>1. /\ \A d \in registered' : d = c \/ d \in registered
        /\ presence'[UserOf[c]] # Absent /\ \A u \in Users \ {UserOf[c]} : presence'[u] = presence[u]
    BY <1>1, <1>2 DEF TypeOK, Presences, Absent
  <2>2. PresenceBacked'
    BY <1>1, <2>1 DEF IInv, NoGhosts, PresenceBacked, OfUser
  <2>3. AbsentHasCause'
    BY <1>1, <2>1 DEF IInv, NoGhosts, AbsentHasCause, OfUser
  <2>4. QED
    BY <2>2, <2>3
<1>11. GaugeOffByRepeats'
  <2>1. registered \in SUBSET Conns /\ IsFiniteSet(Conns)
    BY <1>2, WebSocketsAssumption DEF TypeOK
  <2>2. IsFiniteSet(registered)
    BY <2>1, FS_Subset
  <2>3. Cardinality(registered \cup {c}) = Cardinality(registered) + 1 /\ Cardinality(registered) \in Nat
    BY <1>3, <2>2, FS_AddElement, FS_CardinalityType
  <2>4. QED
    BY <1>1, <1>2, <2>3 DEF IInv, TypeOK, NoGhosts, GaugeOffByRepeats
<1>12. QED
  BY <1>5, <1>6, <1>7, <1>8, <1>9, <1>10, <1>11 DEF IInv, NoGhosts

\* A presence message changes the user's entry and announces the change.
LEMMA UpdatePresenceKeeps ==
  ASSUME IInv, NEW c \in Conns, NEW status \in Status, UpdatePresence(c, status)
  PROVE  IInv'
<1>1. /\ session[c] = "loop"
      /\ presence' = IF presence[UserOf[c]] = Absent THEN presence
                     ELSE [presence EXCEPT ![UserOf[c]] = status]
      /\ session' = [session EXCEPT ![c] = "updating"]
      /\ UNCHANGED <<registered, gauge, alive, seen, repeats, dropped>> /\ AnnouncePresence(c)
  BY DEF UpdatePresence
<1>2. TypeOK /\ UserOf[c] \in Users /\ c \in Broadcasters
  BY WebSocketsAssumption DEF IInv, Broadcasters
<1>3. ~flight[c].on
  BY <1>1 DEF IInv, SessionsAwait
<1>4. presence' \in Presences /\ registered' \in SUBSET Conns
  BY <1>1, <1>2 DEF TypeOK, Presences
<1>5. /\ out' \in [Conns -> Seq(Frame)] /\ FramesAwaited' /\ Informed'
      /\ flight' \in [Broadcasters -> Flights] /\ unannounced' = {}
      /\ flight'[c].on /\ flight'[c].failed = {} /\ \A y \in Broadcasters \ {c} : flight'[y] = flight[y]
  BY <1>1, <1>2, <1>3, <1>4, Announced DEF IInv
<1>6. TypeOK'
  BY <1>1, <1>2, <1>4, <1>5 DEF TypeOK, Flights
<1>7. SessionsAwait'
  BY <1>1, <1>2, <1>5 DEF IInv, TypeOK, SessionsAwait, Broadcasters
<1>8. RegisteredLively'
  BY <1>1, <1>2 DEF IInv, TypeOK, RegisteredLively, Lively
<1>9. FailedGone'
  BY <1>1, <1>2, <1>5 DEF IInv, TypeOK, FailedGone
<1>10. NoGhosts'
  <2>1. \A u \in Users : presence'[u] # Absent <=> presence[u] # Absent
    BY <1>1, <1>2, WebSocketsAssumption DEF TypeOK, Presences, Absent
  <2>2. QED
    BY <1>1, <2>1 DEF IInv, NoGhosts, PresenceBacked, AbsentHasCause, GaugeOffByRepeats, OfUser
<1>11. QED
  BY <1>5, <1>6, <1>7, <1>8, <1>9, <1>10 DEF IInv

\* A session that ends takes its connection off and announces it to those who remain.
LEMMA EndKeeps ==
  ASSUME IInv, NEW c \in Conns, End(c)
  PROVE  IInv'
<1>1. /\ session[c] = "loop" /\ Disconnect({c}) /\ session' = [session EXCEPT ![c] = "leaving"]
      /\ alive' = alive /\ seen' = seen /\ AnnouncePresence(c)
  BY DEF End
<1>2. TypeOK /\ c \in Broadcasters /\ {c} \in SUBSET Conns
  BY DEF IInv, Broadcasters
<1>3. ~flight[c].on
  BY <1>1 DEF IInv, SessionsAwait
<1>4. /\ registered' = registered \ {c} /\ presence' \in Presences /\ gauge' \in Int
      /\ repeats' \in Nat /\ dropped' \subseteq Users /\ NoGhosts'
  BY <1>1, <1>2, Disconnected DEF IInv
<1>5. registered' \in SUBSET Conns
  BY <1>2, <1>4 DEF TypeOK
<1>6. /\ out' \in [Conns -> Seq(Frame)] /\ FramesAwaited' /\ Informed'
      /\ flight' \in [Broadcasters -> Flights] /\ unannounced' = {}
      /\ flight'[c].on /\ flight'[c].failed = {} /\ \A y \in Broadcasters \ {c} : flight'[y] = flight[y]
  BY <1>1, <1>2, <1>3, <1>4, <1>5, Announced DEF IInv
<1>7. TypeOK'
  BY <1>1, <1>2, <1>4, <1>5, <1>6 DEF TypeOK, Flights
<1>8. SessionsAwait'
  BY <1>1, <1>2, <1>6 DEF IInv, TypeOK, SessionsAwait, Broadcasters
<1>9. RegisteredLively'
  BY <1>1, <1>2, <1>4 DEF IInv, TypeOK, RegisteredLively, Lively
<1>10. FailedGone'
  BY <1>1, <1>2, <1>6 DEF IInv, TypeOK, FailedGone
<1>11. QED
  BY <1>4, <1>6, <1>7, <1>8, <1>9, <1>10 DEF IInv

\* A client that is lost still has a session to announce its end.
LEMMA LoseKeeps ==
  ASSUME IInv, NEW c \in Conns, Lose(c)
  PROVE  IInv'
<1>1. /\ alive' = [alive EXCEPT ![c] = FALSE]
      /\ UNCHANGED <<registered, presence, gauge, session, out, flight, seen, unannounced, repeats, dropped>>
  BY DEF Lose
<1>2. TypeOK'
  BY <1>1 DEF IInv, TypeOK
<1>3. \A d \in Conns : ~alive[d] => ~alive'[d]
  BY <1>1 DEF IInv, TypeOK
<1>4. SessionsAwait' /\ RegisteredLively' /\ FramesAwaited' /\ NoGhosts'
  BY <1>1 DEF IInv, SessionsAwait, RegisteredLively, FramesAwaited, NoGhosts, PresenceBacked, AbsentHasCause, GaugeOffByRepeats, OfUser
<1>5. FailedGone'
  BY <1>1, <1>3 DEF IInv, TypeOK, FailedGone
<1>6. Informed'
  <2>1. ASSUME NEW d \in registered, alive'[d]
        PROVE  \E l \in Presences : Knows(d, l)' /\ \A u \in Users \ unannounced : l[u] = presence[u] \/ Ending(u)'
    <3>1. d \in Conns /\ alive[d]
      BY <1>3, <2>1 DEF IInv, TypeOK
    <3>2. PICK l \in Presences : Knows(d, l) /\ \A u \in Users \ unannounced : l[u] = presence[u] \/ Ending(u)
      BY <2>1, <3>1 DEF IInv, Informed
    <3>3. Knows(d, l)'
      BY <1>1, <3>2 DEF Knows
    <3>4. \A u \in Users : Ending(u) => Ending(u)'
      BY <1>1, <1>3 DEF Ending
    <3>5. QED
      BY <3>2, <3>3, <3>4
  <2>2. QED
    BY <1>1, <2>1 DEF Informed
<1>7. QED
  BY <1>2, <1>4, <1>5, <1>6 DEF IInv

\* An event is sent to some of the registered connections and carries no presence list.
LEMMA RouteKeeps ==
  ASSUME IInv, NEW targets \in SUBSET registered, Route(targets)
  PROVE  IInv'
<1> DEFINE f == [by |-> Subscriber, news |-> FALSE]
<1>1. /\ ~flight[Subscriber].on /\ Launch(Subscriber, targets, f)
      /\ UNCHANGED <<registered, presence, gauge, session, alive, seen, unannounced, repeats, dropped>>
  BY DEF Route
<1>2. /\ f \in Frame /\ f.by = Subscriber /\ ~f.news /\ Subscriber \in Broadcasters /\ Subscriber \notin Conns
      /\ TypeOK /\ targets \in SUBSET Conns
  BY WebSocketsAssumption DEF Frame, Broadcasters, IInv, TypeOK
<1> HIDE DEF f
<1>3. /\ out' \in [Conns -> Seq(Frame)] /\ Adds(targets, f) /\ FramesAwaited'
      /\ flight' \in [Broadcasters -> Flights]
      /\ flight'[Subscriber].failed = {} /\ \A y \in Broadcasters \ {Subscriber} : flight'[y] = flight[y]
  BY <1>1, <1>2, Launched DEF IInv
<1>4. TypeOK'
  BY <1>1, <1>2, <1>3 DEF TypeOK, Flights
<1>5. SessionsAwait' /\ RegisteredLively' /\ NoGhosts'
  BY <1>1, <1>2, <1>3 DEF IInv, SessionsAwait, RegisteredLively, NoGhosts, PresenceBacked, AbsentHasCause, GaugeOffByRepeats, OfUser, Broadcasters
<1>6. FailedGone'
  BY <1>1, <1>3 DEF IInv, FailedGone
<1>7. ASSUME NEW c \in Conns, NEW l, Knows(c, l)
      PROVE  Knows(c, l)'
  <2>1. seen'[c] = seen[c]
    BY <1>1
  <2>2. CASE c \notin targets
    BY <1>3, <1>7, <2>1, <2>2 DEF Adds, Knows
  <2>3. CASE c \in targets
    <3> DEFINE n == Len(out[c])
    <3>1. /\ DOMAIN out'[c] = 1 .. n + 1 /\ out'[c][n + 1] = f /\ DOMAIN out[c] = 1 .. n /\ n \in Nat
          /\ \A k \in 1 .. n : out'[c][k] = out[c][k]
      BY <1>3, <2>3 DEF Adds
    <3> HIDE DEF n
    <3>2. ASSUME NEW j \in DOMAIN out'[c], out'[c][j].news
          PROVE  j \in DOMAIN out[c] /\ out[c][j].news
      BY <1>2, <3>1, <3>2
    <3>3. CASE \E i \in DOMAIN out[c] : /\ out[c][i].news /\ out[c][i].list = l
                                       /\ \A j \in DOMAIN out[c] : j > i => ~out[c][j].news
      <4>1. PICK i \in DOMAIN out[c] : /\ out[c][i].news /\ out[c][i].list = l
                                      /\ \A j \in DOMAIN out[c] : j > i => ~out[c][j].news
        BY <3>3
      <4>2. i \in DOMAIN out'[c] /\ out'[c][i] = out[c][i]
        BY <3>1
      <4>3. \A j \in DOMAIN out'[c] : j > i => ~out'[c][j].news
        BY <3>2, <4>1
      <4>4. QED
        BY <4>1, <4>2, <4>3 DEF Knows
    <3>4. CASE (\A j \in DOMAIN out[c] : ~out[c][j].news) /\ seen[c] = l
      BY <2>1, <3>2, <3>4 DEF Knows
    <3>5. QED
      BY <1>7, <3>3, <3>4 DEF Knows
  <2>4. QED
    BY <2>2, <2>3
<1>8. Informed'
  <2>1. ASSUME NEW d \in registered, alive[d]
        PROVE  \E l \in Presences : Knows(d, l)' /\ \A u \in Users \ unannounced : l[u] = presence[u] \/ Ending(u)'
    <3>1. PICK l \in Presences : Knows(d, l) /\ \A u \in Users \ unannounced : l[u] = presence[u] \/ Ending(u)
      BY <2>1 DEF IInv, Informed
    <3>2. Knows(d, l)'
      BY <1>2, <1>7, <3>1 DEF TypeOK
    <3>3. \A u \in Users : Ending(u) => Ending(u)'
      BY <1>1 DEF Ending
    <3>4. QED
      BY <3>1, <3>2, <3>3
  <2>2. QED
    BY <1>1, <2>1 DEF Informed
<1>9. QED
  BY <1>3, <1>4, <1>5, <1>6, <1>8 DEF IInv

\* The end of a broadcast disconnects the failed: who is not about to announce it becomes unannounced.
LEMMA CleanupKeeps ==
  ASSUME IInv, NEW x \in Broadcasters, Cleanup(x)
  PROVE  IInv'
<1> DEFINE S == flight[x].failed
<1>1. /\ flight[x].on /\ flight[x].waiting = {} /\ Disconnect(S) /\ flight' = [flight EXCEPT ![x] = Grounded]
      /\ session' = IF x \in Conns THEN [session EXCEPT ![x] = AfterBroadcast(x)] ELSE session
      /\ alive' = IF x \in Conns /\ session[x] = "leaving" THEN [alive EXCEPT ![x] = FALSE] ELSE alive
      /\ unannounced' = unannounced \cup {UserOf[c] : c \in {d \in S : session[d] \in {"off", "leaving"}}}
      /\ out' = out /\ seen' = seen
  BY DEF Cleanup
<1>2. /\ TypeOK /\ S \in SUBSET Conns /\ flight \in [Broadcasters -> Flights]
      /\ session \in [Conns -> Lively \cup {"off", "leaving"}] /\ alive \in [Conns -> BOOLEAN]
  BY DEF IInv, TypeOK, Flights, Lively
<1>3. /\ registered' = registered \ S /\ presence' \in Presences /\ gauge' \in Int
      /\ repeats' \in Nat /\ dropped' \subseteq Users /\ NoGhosts'
      /\ \A u \in Users : presence'[u] = IF \E c \in S : UserOf[c] = u THEN Absent ELSE presence[u]
  BY <1>1, <1>2, Disconnected DEF IInv
<1>4. Grounded \in Flights /\ ~Grounded.on /\ Grounded.failed = {}
  BY DEF Grounded, Flights
<1>5. /\ flight' \in [Broadcasters -> Flights] /\ flight'[x] = Grounded
      /\ \A y \in Broadcasters \ {x} : flight'[y] = flight[y]
  BY <1>1, <1>2, <1>4
<1>6. /\ session' \in [Conns -> Lively \cup {"off", "leaving"}]
      /\ \A c \in Conns \ {x} : session'[c] = session[c]
      /\ x \in Conns => session'[x] = IF session[x] = "leaving" THEN "off" ELSE "loop"
  BY <1>1, <1>2 DEF AfterBroadcast, Lively
<1>7. alive' \in [Conns -> BOOLEAN] /\ \A c \in Conns : ~alive[c] => ~alive'[c]
  BY <1>1, <1>2
<1>8. \A c \in Conns : session[c] \in Lively => session'[c] \in Lively
  BY <1>6 DEF Lively
<1>9. unannounced' \subseteq Users
  BY <1>1, <1>2, WebSocketsAssumption DEF TypeOK
<1>10. TypeOK'
  BY <1>1, <1>2, <1>3, <1>5, <1>6, <1>7, <1>9 DEF TypeOK, Flights, Lively
<1> HIDE DEF S
<1>11. SessionsAwait'
  BY <1>4, <1>5, <1>6 DEF IInv, SessionsAwait, Broadcasters
<1>12. RegisteredLively'
  BY <1>2, <1>3, <1>8 DEF IInv, TypeOK, RegisteredLively
<1>13. FramesAwaited'
  <2>1. ASSUME NEW c \in Conns, NEW i \in DOMAIN out[c]
        PROVE  out[c][i].by \in Broadcasters \ {x}
    <3>1. out[c][i] \in Frame
      BY <1>2, <2>1 DEF TypeOK
    <3>2. out[c][i].by \in Broadcasters
      BY <3>1 DEF Frame, Broadcasters
    <3>3. c \in flight[out[c][i].by].waiting
      BY <2>1 DEF IInv, FramesAwaited
    <3>4. QED
      BY <1>1, <3>2, <3>3
  <2>2. QED
    BY <1>1, <1>5, <2>1 DEF IInv, FramesAwaited
<1>14. FailedGone'
  BY <1>2, <1>4, <1>5, <1>7 DEF IInv, FailedGone, Flights
<1>15. \A u \in Users : Ending(u) => Ending(u)'
  BY <1>7, <1>8 DEF Ending
<1>16. ASSUME NEW u \in Users \ unannounced'
       PROVE  presence'[u] = presence[u] \/ Ending(u)'
  <2>1. CASE \A d \in S : UserOf[d] # u
    BY <1>3, <2>1
  <2>2. ASSUME NEW d \in S, UserOf[d] = u
        PROVE  Ending(u)'
    <3>1. d \in Conns /\ ~alive[d]
      BY <1>2, <2>2 DEF IInv, FailedGone, S
    <3>2. session[d] \notin {"off", "leaving"}
      BY <1>1, <1>16, <2>2
    <3>3. session[d] \in Lively
      BY <1>2, <3>1, <3>2
    <3>4. Ending(u)
      BY <2>2, <3>1, <3>3 DEF Ending
    <3>5. QED
      BY <1>15, <3>4
  <2>3. QED
    BY <2>1, <2>2
<1>17. Informed'
  <2>1. ASSUME NEW d \in registered', alive'[d]
        PROVE  \E l \in Presences : Knows(d, l)' /\ \A u \in Users \ unannounced' : l[u] = presence'[u] \/ Ending(u)'
    <3>1. d \in registered /\ d \in Conns /\ alive[d]
      BY <1>2, <1>3, <1>7, <2>1 DEF TypeOK
    <3>2. PICK l \in Presences : Knows(d, l) /\ \A u \in Users \ unannounced : l[u] = presence[u] \/ Ending(u)
      BY <3>1 DEF IInv, Informed
    <3>3. Knows(d, l)'
      BY <1>1, <3>2 DEF Knows
    <3>4. \A u \in Users \ unannounced' : u \in Users \ unannounced
      BY <1>1
    <3>5. \A u \in Users \ unannounced' : l[u] = presence'[u] \/ Ending(u)'
      BY <1>15, <1>16, <3>2, <3>4
    <3>6. QED
      BY <3>3, <3>5
  <2>2. QED
    BY <2>1 DEF Informed
<1>18. QED
  BY <1>3, <1>10, <1>11, <1>12, <1>13, <1>14, <1>17 DEF IInv

\* The oldest send to c completes: whoever waited for it waits no longer, and what c
\* has now is what was last on its way to it.
LEMMA SendKeeps ==
  ASSUME IInv, NEW c \in Conns, Send(c)
  PROVE  IInv'
<1> DEFINE q == out[c]
           f == Head(q)
           x == f.by
<1>1. /\ q # <<>> /\ out' = [out EXCEPT ![c] = Tail(q)]
      /\ seen' = IF alive[c] /\ f.news THEN [seen EXCEPT ![c] = f.list] ELSE seen
      /\ UNCHANGED <<registered, presence, gauge, session, alive, unannounced, repeats, dropped>>
  BY DEF Send
<1>2. /\ TypeOK /\ flight \in [Broadcasters -> Flights] /\ out \in [Conns -> Seq(Frame)] /\ q \in Seq(Frame)
      /\ seen \in [Conns -> Presences]
  BY DEF IInv, TypeOK, Flights
<1>3. PICK ok \in {TRUE} \cup {alive[c]} :
         flight' = [flight EXCEPT ![x].waiting = @ \ {c}, ![x].failed = IF ok THEN @ ELSE @ \cup {c}]
  BY DEF Send
<1>4. /\ Tail(q) \in Seq(Frame) /\ f = q[1] /\ f \in Frame
      /\ Len(q) \in Nat \ {0} /\ DOMAIN q = 1 .. Len(q) /\ DOMAIN Tail(q) = 1 .. Len(q) - 1
      /\ \A i \in 1 .. Len(q) - 1 : Tail(q)[i] = q[i + 1]
  BY <1>1, <1>2, Taken
<1>5. x \in Broadcasters /\ (f.news => f.list \in Presences)
  BY <1>4 DEF Frame, Broadcasters
<1>6. 1 \in DOMAIN q /\ flight[x].on
  <2>1. 1 \in DOMAIN q
    BY <1>4
  <2>2. QED
    BY <1>4, <2>1 DEF IInv, FramesAwaited
<1> DEFINE mine == [flight[x] EXCEPT !.waiting = flight[x].waiting \ {c},
                                     !.failed = IF ok THEN flight[x].failed ELSE flight[x].failed \cup {c}]
<1>7. flight' = [flight EXCEPT ![x] = mine]
  BY <1>2, <1>3, <1>5
<1>8. /\ mine \in Flights /\ mine.on = flight[x].on /\ mine.waiting = flight[x].waiting \ {c}
      /\ mine.failed \subseteq flight[x].failed \cup {c} /\ (ok => mine.failed = flight[x].failed)
  <2>1. flight[x] \in Flights
    BY <1>2, <1>5
  <2> HIDE DEF x
  <2>2. QED
    BY <2>1 DEF Flights
<1> HIDE DEF mine
<1>9. /\ flight' \in [Broadcasters -> Flights] /\ flight'[x] = mine
      /\ \A y \in Broadcasters \ {x} : flight'[y] = flight[y]
  BY <1>2, <1>5, <1>7, <1>8
<1>10. /\ out' \in [Conns -> Seq(Frame)] /\ out'[c] = Tail(q) /\ \A d \in Conns \ {c} : out'[d] = out[d]
  BY <1>1, <1>2, <1>4
<1>11. /\ seen' \in [Conns -> Presences] /\ \A d \in Conns \ {c} : seen'[d] = seen[d]
       /\ alive[c] => seen'[c] = IF f.news THEN f.list ELSE seen[c]
  BY <1>1, <1>2, <1>5
<1>12. TypeOK'
  BY <1>1, <1>2, <1>9, <1>10, <1>11 DEF TypeOK, Flights
<1>13. SessionsAwait' /\ RegisteredLively' /\ NoGhosts'
  <2>1. \A y \in Broadcasters : flight'[y].on = flight[y].on
    BY <1>8, <1>9
  <2>2. QED
    BY <1>1, <2>1 DEF IInv, SessionsAwait, RegisteredLively, NoGhosts, PresenceBacked, AbsentHasCause, GaugeOffByRepeats, OfUser, Broadcasters
<1>14. FailedGone'
  <2>1. ~ok => ~alive[c]
    BY <1>3
  <2>2. QED
    BY <1>1, <1>5, <1>8, <1>9, <2>1 DEF IInv, FailedGone
<1> HIDE DEF q, f, x
<1>15. FramesAwaited'
  <2>1. ASSUME NEW d \in Conns, d # c, NEW i \in DOMAIN out'[d]
        PROVE  /\ flight'[out'[d][i].by].on /\ d \in flight'[out'[d][i].by].waiting
               /\ \A j \in DOMAIN out'[d] : out'[d][i].by = out'[d][j].by => i = j
    <3>1. out'[d] = out[d]
      BY <1>10, <2>1
    <3>2. out[d][i] \in Frame
      BY <1>2, <2>1, <3>1
    <3>3. out[d][i].by \in Broadcasters
      BY <3>2 DEF Frame, Broadcasters
    <3>4. /\ flight[out[d][i].by].on /\ d \in flight[out[d][i].by].waiting
          /\ \A j \in DOMAIN out[d] : out[d][i].by = out[d][j].by => i = j
      BY <2>1, <3>1 DEF IInv, FramesAwaited
    <3>5. QED
      BY <1>8, <1>9, <2>1, <3>1, <3>3, <3>4
  <2>2. ASSUME NEW i \in DOMAIN out'[c]
        PROVE  /\ flight'[out'[c][i].by].on /\ c \in flight'[out'[c][i].by].waiting
               /\ \A j \in DOMAIN out'[c] : out'[c][i].by = out'[c][j].by => i = j
    <3>1. /\ i \in 1 .. Len(q) - 1 /\ out'[c][i] = q[i + 1] /\ i + 1 \in DOMAIN q /\ i + 1 # 1
      BY <1>4, <1>10, <2>2
    <3>2. q[i + 1] \in Frame
      BY <1>2, <3>1
    <3>3. q[i + 1].by \in Broadcasters
      BY <3>2 DEF Frame, Broadcasters
    <3>4. /\ flight[q[i + 1].by].on /\ c \in flight[q[i + 1].by].waiting
          /\ \A j \in DOMAIN q : q[i + 1].by = q[j].by => i + 1 = j
      BY <3>1 DEF IInv, FramesAwaited, q
    <3>5. q[i + 1].by # x
      BY <1>4, <1>6, <3>1, <3>4 DEF x
    <3>6. ASSUME NEW j \in DOMAIN out'[c], out'[c][i].by = out'[c][j].by
          PROVE  i = j
      <4>1. j \in 1 .. Len(q) - 1 /\ out'[c][j] = q[j + 1] /\ j + 1 \in DOMAIN q
        BY <1>4, <1>10, <3>6
      <4>2. i + 1 = j + 1
        BY <3>1, <3>4, <3>6, <4>1
      <4>3. QED
        BY <1>4, <3>1, <4>1, <4>2
    <3>7. QED
      BY <1>9, <3>1, <3>3, <3>4, <3>5, <3>6
  <2>3. QED
    BY <2>1, <2>2 DEF FramesAwaited
<1>16. ASSUME NEW d \in Conns, alive[d], NEW l, Knows(d, l)
       PROVE  Knows(d, l)'
  <2>1. CASE d # c
    BY <1>10, <1>11, <1>16, <2>1 DEF Knows
  <2>2. CASE d = c
    <3>1. /\ seen'[c] = IF f.news THEN f.list ELSE seen[c]
          /\ out'[c] = Tail(q) /\ out[c] = q
      BY <1>10, <1>11, <1>16, <2>2 DEF q
    <3>2. \A j \in DOMAIN Tail(q) : j \in Nat /\ j + 1 \in DOMAIN q /\ Tail(q)[j] = q[j + 1]
      BY <1>4
    <3>3. CASE (\A j \in DOMAIN q : ~q[j].news) /\ seen[c] = l
      BY <1>4, <1>6, <2>2, <3>1, <3>2, <3>3 DEF Knows
    <3>4. ASSUME NEW i \in DOMAIN q, q[i].news, q[i].list = l, \A j \in DOMAIN q : j > i => ~q[j].news
          PROVE  Knows(d, l)'
      <4>1. CASE i = 1
        <5>1. \A j \in DOMAIN Tail(q) : ~Tail(q)[j].news
          BY <1>4, <3>2, <3>4, <4>1
        <5>2. seen'[c] = l
          BY <1>4, <3>1, <3>4, <4>1
        <5>3. QED
          BY <2>2, <3>1, <5>1, <5>2 DEF Knows
      <4>2. CASE i # 1
        <5>1. i - 1 \in DOMAIN Tail(q) /\ Tail(q)[i - 1] = q[i]
          BY <1>4, <4>2
        <5>2. \A j \in DOMAIN Tail(q) : j > i - 1 => ~Tail(q)[j].news
          BY <1>4, <3>2, <3>4
        <5>3. QED
          BY <2>2, <3>1, <3>4, <5>1, <5>2 DEF Knows
      <4>3. QED
        BY <4>1, <4>2
    <3>5. QED
      BY <1>16, <2>2, <3>1, <3>3, <3>4 DEF Knows
  <2>3. QED
    BY <2>1, <2>2
<1>17. Informed'
  <2>1. ASSUME NEW d \in registered, alive[d]
        PROVE  \E l \in Presences : Knows(d, l)' /\ \A u \in Users \ unannounced : l[u] = presence[u] \/ Ending(u)'
    <3>1. PICK l \in Presences : Knows(d, l) /\ \A u \in Users \ unannounced : l[u] = presence[u] \/ Ending(u)
      BY <2>1 DEF IInv, Informed
    <3>2. Knows(d, l)'
      BY <1>2, <1>16, <2>1, <3>1 DEF TypeOK
    <3>3. \A u \in Users : Ending(u) => Ending(u)'
      BY <1>1 DEF Ending
    <3>4. QED
      BY <3>1, <3>2, <3>3
  <2>2. QED
    BY <1>1, <2>1 DEF Informed
<1>18. QED
  BY <1>12, <1>13, <1>14, <1>15, <1>17 DEF IInv

\* A manager that has just been created.
LEMMA Anew ==
  ASSUME registered = {}, presence = Nobody, gauge = 0, session = [c \in Conns |-> "off"],
         alive = [c \in Conns |-> FALSE], out = [c \in Conns |-> <<>>],
         flight = [x \in Broadcasters |-> Grounded], seen = [c \in Conns |-> Nobody], unannounced = {},
         repeats = 0, dropped = {}
  PROVE  IInv
<1>1. Nobody \in Presences /\ \A u \in Users : Nobody[u] = Absent
  BY DEF Presences, Nobody
<1>2. Grounded \in Flights /\ ~Grounded.on /\ Grounded.failed = {}
  BY DEF Grounded, Flights
<1>3. out \in [Conns -> Seq(Frame)] /\ \A c \in Conns : DOMAIN out[c] = {}
  OBVIOUS
<1>4. TypeOK
  BY <1>1, <1>2, <1>3 DEF TypeOK, Flights
<1>5. SessionsAwait /\ RegisteredLively /\ FailedGone /\ Informed
  BY <1>2 DEF SessionsAwait, RegisteredLively, FailedGone, Informed, Broadcasters
<1>6. FramesAwaited
  BY <1>3 DEF FramesAwaited
<1>7. PresenceBacked /\ AbsentHasCause
  BY <1>1 DEF PresenceBacked, AbsentHasCause, OfUser
<1>8. GaugeOffByRepeats
  BY FS_EmptySet DEF GaugeOffByRepeats
<1>9. QED
  BY <1>4, <1>5, <1>6, <1>7, <1>8 DEF IInv, NoGhosts

\* The invariant holds at the start.
LEMMA InitIInv == Init => IInv
BY Anew DEF Init

\* After a restart the process is as at its start.
LEMMA RestartKeeps == Restart => IInv'
<1>1. Init => IInv
  BY InitIInv
<1>2. Init' => IInv'
  BY <1>1, PTL
<1>3. Restart => Init'
  BY DEF Restart, Init
<1>4. QED
  BY <1>2, <1>3

-----------------------------------------------------------------------------
(* The theorems *)

\* Every step keeps the invariant.
LEMMA NextKeeps == IInv /\ [Next]_vars => IInv'
<1> SUFFICES ASSUME IInv, [Next]_vars PROVE IInv'
  OBVIOUS
<1>1. ASSUME NEW c \in Conns, Connect(c) PROVE IInv'
  BY <1>1, ConnectKeeps
<1>2. ASSUME NEW c \in Conns, End(c) PROVE IInv'
  BY <1>2, EndKeeps
<1>3. ASSUME NEW c \in Conns, Lose(c) PROVE IInv'
  BY <1>3, LoseKeeps
<1>4. ASSUME NEW c \in Conns, Send(c) PROVE IInv'
  BY <1>4, SendKeeps
<1>5. ASSUME NEW c \in Conns, NEW status \in Status, UpdatePresence(c, status) PROVE IInv'
  BY <1>5, UpdatePresenceKeeps
<1>6. ASSUME NEW x \in Broadcasters, Cleanup(x) PROVE IInv'
  BY <1>6, CleanupKeeps
<1>7. CASE Route(registered)
  BY <1>7, RouteKeeps
<1>8. ASSUME NEW u \in Users, Route(OfUser(u)) PROVE IInv'
  BY <1>8, RouteKeeps DEF OfUser
<1>9. CASE Restart
  BY <1>9, RestartKeeps
<1>10. CASE UNCHANGED vars
  <2>1. TypeOK'
    BY <1>10 DEF IInv, TypeOK, vars
  <2>2. SessionsAwait' /\ RegisteredLively' /\ FailedGone'
    BY <1>10 DEF IInv, SessionsAwait, RegisteredLively, FailedGone, vars
  <2>3. FramesAwaited'
    BY <1>10 DEF IInv, FramesAwaited, vars
  <2>4. Informed'
    BY <1>10 DEF IInv, Informed, Knows, Ending, vars
  <2>5. NoGhosts'
    BY <1>10 DEF IInv, NoGhosts, PresenceBacked, AbsentHasCause, GaugeOffByRepeats, OfUser, vars
  <2>6. QED
    BY <2>1, <2>2, <2>3, <2>4, <2>5 DEF IInv
<1>11. QED
  BY <1>1, <1>2, <1>3, <1>4, <1>5, <1>6, <1>7, <1>8, <1>9, <1>10 DEF Next

\* The invariant holds always.
LEMMA Invariant == Spec => []IInv
BY InitIInv, NextKeeps, PTL DEF Spec

\* Every variable keeps its type: in particular a frame of a presence list was
\* written by a session or the subscriber, and a broadcast awaits connections
\* only (manager.py, connection.py, routes.py).
THEOREM SocketsTypeOK == Spec => []TypeOK
<1>1. IInv => TypeOK
  BY DEF IInv
<1>2. QED
  BY <1>1, Invariant, PTL

\* However often disconnect() runs for a connection, by its own session and by
\* the cleanup of every broadcast that failed on it, no presence entry is left
\* without a connection, one is missing only after another connection of its user was
\* disconnected, and the gauge is too low by exactly the repeated disconnects.
THEOREM SocketsNoGhosts == Spec => []NoGhosts
<1>1. IInv => NoGhosts
  BY DEF IInv
<1>2. QED
  BY <1>1, Invariant, PTL

\* When nothing is in flight every registered client has the presence list of
\* the manager: the concurrent broadcasts of several sessions never leave an
\* older list at a client, except for users removed by an unannounced cleanup.
THEOREM SocketsSeenIsCurrent == Spec => []SeenIsCurrent
<1>1. ASSUME IInv, Calm, NEW c \in registered, NEW u \in Users \ unannounced
      PROVE  seen[c][u] = presence[u]
  <2>1. TypeOK /\ c \in Conns
    BY <1>1 DEF IInv, TypeOK
  <2>2. DOMAIN out[c] = {}
    <3>1. SUFFICES ASSUME NEW i \in DOMAIN out[c] PROVE FALSE
      OBVIOUS
    <3>2. out[c][i] \in Frame
      BY <2>1, <3>1 DEF TypeOK
    <3>3. out[c][i].by \in Broadcasters
      BY <3>2 DEF Frame, Broadcasters
    <3>4. flight[out[c][i].by].on
      BY <1>1, <2>1, <3>1 DEF IInv, FramesAwaited
    <3>5. QED
      BY <1>1, <3>3, <3>4 DEF Calm
  <2>3. \A d \in Conns : session[d] \in Lively => alive[d]
    BY <1>1 DEF Calm, Lively
  <2>4. alive[c]
    BY <1>1, <2>1, <2>3 DEF IInv, RegisteredLively
  <2>5. PICK l \in Presences : Knows(c, l) /\ \A w \in Users \ unannounced : l[w] = presence[w] \/ Ending(w)
    BY <1>1, <2>4 DEF IInv, Informed
  <2>6. seen[c] = l
    BY <2>2, <2>5 DEF Knows
  <2>7. ~Ending(u)
    BY <2>3 DEF Ending
  <2>8. QED
    BY <2>5, <2>6, <2>7
<1>2. IInv => SeenIsCurrent
  BY <1>1 DEF SeenIsCurrent
<1>3. QED
  BY <1>2, Invariant, PTL

-----------------------------------------------------------------------------
(* The bus *)

\* A call runs only handlers that are subscribed to its type, and none again that raised.
CallsSound ==
  \A e \in Emitters : emission[e].on =>
    /\ emission[e].todo \subseteq Subscribed[emission[e].type]
    /\ emission[e].errors \cap emission[e].todo = {}

BusInv == BusTypeOK /\ CallsSound /\ EveryHandlerOnce /\ FailuresExact

\* The calls in which h still runs for t.
NowCalls(t, h) == {e \in Emitters : Running(e, h) /\ emission[e].type = t}

\* A slot that is in use holds a call.
LEMMA CallOn ==
  ASSUME BusTypeOK, NEW e \in Emitters, emission[e].on
  PROVE  emission[e] \in Calls
<1>1. Idle.on = FALSE
  BY DEF Idle
<1>2. emission[e] # Idle
  BY <1>1, Zenon
<1>3. QED
  BY <1>2 DEF BusTypeOK

\* Runs and their counts are finite.
LEMMA RunsFinite ==
  ASSUME BusTypeOK, NEW t \in Types
  PROVE  /\ IsFiniteSet(PendingRuns(t)) /\ IsFiniteSet(RaisedRuns(t))
         /\ \A h \in Handlers : IsFiniteSet(NowCalls(t, h))
<1>1. IsFiniteSet(Handlers) /\ IsFiniteSet(Emitters)
  BY EventBusAssumption
<1>2. IsFiniteSet(PendingRuns(t))
  <2>1. IsFiniteSet(Emitters \X Handlers)
    BY <1>1, FS_Product
  <2>2. PendingRuns(t) \in SUBSET (Emitters \X Handlers)
    BY DEF PendingRuns
  <2>3. QED
    BY <2>1, <2>2, FS_Subset
<1>3. IsFiniteSet(RaisedRuns(t))
  <2> DEFINE Of(h) == {h} \X (1 .. raised[t][h])
             All   == {Of(h) : h \in Handlers}
             of    == [h \in Handlers |-> Of(h)]
  <2>1. IsFiniteSet(All)
    <3>1. of \in Surjection(Handlers, All)
      BY DEF Surjection
    <3>2. QED
      BY <1>1, <3>1, FS_Surjection
  <2>2. \A h \in Handlers : IsFiniteSet(Of(h))
    <3>1. SUFFICES ASSUME NEW h \in Handlers PROVE IsFiniteSet(Of(h))
      OBVIOUS
    <3> DEFINE n == raised[t][h]
    <3>2. 1 \in Int /\ n \in Int
      BY DEF BusTypeOK
    <3> HIDE DEF n
    <3>3. IsFiniteSet({h}) /\ IsFiniteSet(1 .. n)
      BY <3>2, FS_Singleton, FS_Interval
    <3>4. IsFiniteSet({h} \X (1 .. n))
      BY <3>3, FS_Product
    <3>5. QED
      BY <3>4 DEF n
  <2>3. \A T \in All : IsFiniteSet(T)
    BY <2>2
  <2>4. RaisedRuns(t) = UNION All
    BY DEF RaisedRuns
  <2> HIDE DEF All
  <2>5. QED
    BY <2>1, <2>3, <2>4, FS_UNION
<1>4. \A h \in Handlers : IsFiniteSet(NowCalls(t, h))
  <2>1. \A h \in Handlers : NowCalls(t, h) \in SUBSET Emitters
    BY DEF NowCalls
  <2>2. QED
    BY <1>1, <2>1, FS_Subset
<1>5. QED
  BY <1>2, <1>3, <1>4

\* What the end of a run does to its call, when errors are left that raised.
LEMMA RunEnds ==
  ASSUME BusTypeOK, CallsSound, NEW e \in Emitters, NEW h \in Handlers, Running(e, h),
         HandlerReturns(e, h) \/ HandlerRaises(e, h)
  PROVE  /\ emission[e] \in Calls /\ h \in Subscribed[emission[e].type]
         /\ emission'[e] \in Calls /\ emission'[e].on /\ emission'[e].type = emission[e].type
         /\ emission'[e].todo = emission[e].todo \ {h}
         /\ emission'[e].errors = IF HandlerReturns(e, h) THEN emission[e].errors ELSE emission[e].errors \cup {h}
         /\ \A x \in Emitters \ {e} : emission'[x] = emission[x]
         /\ emission' \in [Emitters -> {Idle} \cup Calls]
<1>1. emission[e].on /\ emission[e] \in Calls
  BY CallOn DEF Running
<1>2. h \in Subscribed[emission[e].type]
  BY <1>1 DEF Running, CallsSound
<1>3. CASE HandlerReturns(e, h)
  <2> DEFINE c == [emission[e] EXCEPT !.todo = emission[e].todo \ {h}]
  <2>1. emission' = [emission EXCEPT ![e] = c]
    BY <1>3 DEF HandlerReturns
  <2>2. c \in Calls
    BY <1>1 DEF Calls
  <2>3. c.type = emission[e].type /\ c.on /\ c.todo = emission[e].todo \ {h} /\ c.errors = emission[e].errors
    BY <1>1 DEF Calls
  <2> HIDE DEF c
  <2>4. /\ emission'[e] = c /\ emission' \in [Emitters -> {Idle} \cup Calls]
        /\ \A x \in Emitters \ {e} : emission'[x] = emission[x]
    BY <2>1, <2>2 DEF BusTypeOK
  <2>5. QED
    BY <1>1, <1>2, <1>3, <2>2, <2>3, <2>4
<1>4. CASE ~HandlerReturns(e, h)
  <2> DEFINE c == [emission[e] EXCEPT !.todo = emission[e].todo \ {h}, !.errors = emission[e].errors \cup {h}]
  <2>1. emission' = [emission EXCEPT ![e] = c]
    BY <1>4 DEF HandlerRaises
  <2>2. c \in Calls
    BY <1>1 DEF Calls
  <2>3. c.type = emission[e].type /\ c.on /\ c.todo = emission[e].todo \ {h} /\ c.errors = emission[e].errors \cup {h}
    BY <1>1 DEF Calls
  <2> HIDE DEF c
  <2>4. /\ emission'[e] = c /\ emission' \in [Emitters -> {Idle} \cup Calls]
        /\ \A x \in Emitters \ {e} : emission'[x] = emission[x]
    BY <2>1, <2>2 DEF BusTypeOK
  <2>5. QED
    BY <1>1, <1>2, <1>4, <2>2, <2>3, <2>4
<1>5. QED
  BY <1>3, <1>4

\* The end of a run counts once as ended, and stays to be counted if it raised.
LEMMA BusRunEnds ==
  ASSUME BusInv, NEW e \in Emitters, NEW h \in Handlers, HandlerReturns(e, h) \/ HandlerRaises(e, h)
  PROVE  BusInv'
<1> PICK u \in Types : u = emission[e].type
  BY CallOn DEF BusInv, HandlerReturns, HandlerRaises, Running, Calls
<1>1. Running(e, h)
  BY DEF HandlerReturns, HandlerRaises
<1>2. /\ emission[e] \in Calls /\ h \in Subscribed[u] /\ emission[e].on
      /\ emission'[e] \in Calls /\ emission'[e].on /\ emission'[e].type = u
      /\ emission'[e].todo = emission[e].todo \ {h}
      /\ emission'[e].errors = IF HandlerReturns(e, h) THEN emission[e].errors ELSE emission[e].errors \cup {h}
      /\ \A x \in Emitters \ {e} : emission'[x] = emission[x]
      /\ emission' \in [Emitters -> {Idle} \cup Calls]
  BY <1>1, RunEnds DEF BusInv, Running
<1>3. BusTypeOK /\ CallsSound
  BY DEF BusInv
<1>4. /\ ended' = [ended EXCEPT ![u][h] = @ + 1]
      /\ emitted' = emitted /\ total' = total /\ failures' = failures
  BY DEF HandlerReturns, HandlerRaises
<1>5. raised' = IF HandlerReturns(e, h) THEN raised ELSE [raised EXCEPT ![u][h] = @ + 1]
  BY DEF HandlerReturns, HandlerRaises
<1>6. BusTypeOK'
  <2>1. ended' \in [Types -> [Handlers -> Nat]]
    BY <1>3, <1>4 DEF BusTypeOK
  <2>2. raised' \in [Types -> [Handlers -> Nat]]
    BY <1>3, <1>5 DEF BusTypeOK
  <2>3. QED
    BY <1>2, <1>3, <1>4, <2>1, <2>2 DEF BusTypeOK
<1>7. CallsSound'
  <2>1. SUFFICES ASSUME NEW x \in Emitters, emission'[x].on
                 PROVE  /\ emission'[x].todo \subseteq Subscribed[emission'[x].type]
                        /\ emission'[x].errors \cap emission'[x].todo = {}
    BY DEF CallsSound
  <2>2. CASE x = e
    BY <1>2, <1>3, <2>2 DEF CallsSound
  <2>3. CASE x # e
    BY <1>2, <1>3, <2>1, <2>3 DEF CallsSound
  <2>4. QED
    BY <2>2, <2>3
<1>8. EveryHandlerOnce'
  <2>1. SUFFICES ASSUME NEW t \in Types, NEW g \in Handlers
                 PROVE  IF g \in Subscribed[t] THEN ended'[t][g] + Cardinality(NowCalls(t, g)') = emitted'[t] /\ total'[t] = emitted'[t]
                                               ELSE ended'[t][g] = 0
    BY DEF EveryHandlerOnce, Now, NowCalls
  <2>2. IF g \in Subscribed[t] THEN ended[t][g] + Cardinality(NowCalls(t, g)) = emitted[t] /\ total[t] = emitted[t]
                               ELSE ended[t][g] = 0
    BY DEF BusInv, EveryHandlerOnce, Now, NowCalls
  <2>3. CASE t = u /\ g = h
    <3>1. NowCalls(t, g)' = NowCalls(t, g) \ {e} /\ e \in NowCalls(t, g)
      BY <1>1, <1>2, <2>3 DEF NowCalls, Running
    <3>2. IsFiniteSet(NowCalls(t, g))
      BY <1>3, RunsFinite
    <3>3. Cardinality(NowCalls(t, g)') = Cardinality(NowCalls(t, g)) - 1 /\ Cardinality(NowCalls(t, g)) \in Nat
      BY <3>1, <3>2, FS_RemoveElement, FS_CardinalityType
    <3>4. ended'[t][g] = ended[t][g] + 1 /\ ended[t][g] \in Nat
      BY <1>3, <1>4, <2>3 DEF BusTypeOK
    <3>5. QED
      BY <1>2, <1>4, <2>2, <2>3, <3>3, <3>4
  <2>4. CASE ~(t = u /\ g = h)
    <3>1. NowCalls(t, g)' = NowCalls(t, g)
      BY <1>1, <1>2, <2>4 DEF NowCalls, Running
    <3>2. ended'[t][g] = ended[t][g]
      BY <1>3, <1>4, <2>4 DEF BusTypeOK
    <3>3. QED
      BY <1>4, <2>2, <3>1, <3>2
  <2>5. QED
    BY <2>3, <2>4
<1>9. FailuresExact'
  <2>1. SUFFICES ASSUME NEW t \in Types
                 PROVE  failures'[t] + Cardinality(PendingRuns(t)') = Cardinality(RaisedRuns(t)')
    BY DEF FailuresExact
  <2>2. failures[t] + Cardinality(PendingRuns(t)) = Cardinality(RaisedRuns(t))
    BY DEF BusInv, FailuresExact
  <2>3. CASE t = u /\ ~HandlerReturns(e, h)
    <3> DEFINE n == raised[u][h] + 1
    <3>1. PendingRuns(t)' = PendingRuns(t) \cup {<<e, h>>}
      BY <1>2, <2>3 DEF PendingRuns
    <3>2. <<e, h>> \notin PendingRuns(t)
      BY <1>1, <1>2, <1>3 DEF PendingRuns, CallsSound, Running
    <3>3. RaisedRuns(t)' = RaisedRuns(t) \cup {<<h, n>>}
      <4>1. raised[u][h] \in Nat /\ 1 .. n = (1 .. raised[u][h]) \cup {n}
        BY <1>3 DEF BusTypeOK
      <4>2. raised'[u][h] = n /\ \A g \in Handlers \ {h} : raised'[u][g] = raised[u][g]
        BY <1>3, <1>5, <2>3 DEF BusTypeOK
      <4>3. \A g \in Handlers : {g} \X (1 .. raised'[u][g]) = ({g} \X (1 .. raised[u][g])) \cup (IF g = h THEN {<<h, n>>} ELSE {})
        <5>1. {h} \X (1 .. n) = ({h} \X (1 .. raised[u][h])) \cup {<<h, n>>}
          <6> HIDE DEF n
          <6>1. QED
            BY <4>1
        <5> HIDE DEF n
        <5>2. QED
          BY <4>2, <5>1
      <4> HIDE DEF n
      <4>4. QED
        BY <2>3, <4>3 DEF RaisedRuns
    <3>4. <<h, n>> \notin RaisedRuns(t)
      BY <1>3, <2>3 DEF RaisedRuns, BusTypeOK
    <3>5. IsFiniteSet(PendingRuns(t)) /\ IsFiniteSet(RaisedRuns(t))
      BY <1>3, RunsFinite
    <3> HIDE DEF n
    <3>6. /\ Cardinality(PendingRuns(t)') = Cardinality(PendingRuns(t)) + 1
          /\ Cardinality(RaisedRuns(t)') = Cardinality(RaisedRuns(t)) + 1
          /\ Cardinality(PendingRuns(t)) \in Nat /\ Cardinality(RaisedRuns(t)) \in Nat
      BY <3>1, <3>2, <3>3, <3>4, <3>5, FS_AddElement, FS_CardinalityType
    <3>7. failures[t] \in Nat
      BY <1>3 DEF BusTypeOK
    <3>8. QED
      BY <1>4, <2>2, <3>6, <3>7
  <2>4. CASE ~(t = u /\ ~HandlerReturns(e, h))
    <3>1. PendingRuns(t)' = PendingRuns(t)
      BY <1>2, <2>4 DEF PendingRuns
    <3>2. RaisedRuns(t)' = RaisedRuns(t)
      <4>1. raised'[t] = raised[t]
        BY <1>3, <1>5, <2>4 DEF BusTypeOK
      <4>2. QED
        BY <4>1 DEF RaisedRuns
    <3>3. QED
      BY <1>4, <2>2, <3>1, <3>2
  <2>5. QED
    BY <2>3, <2>4
<1>10. QED
  BY <1>6, <1>7, <1>8, <1>9 DEF BusInv

\* A call that returns turns what its handlers raised into counted failures.
LEMMA BusReturns ==
  ASSUME BusInv, NEW e \in Emitters, Return(e)
  PROVE  BusInv'
<1> PICK u \in Types : u = emission[e].type
  BY CallOn DEF BusInv, Return, Calls
<1>1. BusTypeOK /\ CallsSound
  BY DEF BusInv
<1>2. emission[e] \in Calls /\ emission[e].on /\ emission[e].todo = {}
  BY <1>1, CallOn DEF Return
<1>3. /\ failures' = [failures EXCEPT ![u] = @ + Cardinality(emission[e].errors)]
      /\ emission' = [emission EXCEPT ![e] = Idle]
      /\ emitted' = emitted /\ total' = total /\ ended' = ended /\ raised' = raised
  BY DEF Return
<1>4. ~Idle.on
  BY DEF Idle
<1>5. /\ emission'[e] = Idle /\ \A x \in Emitters \ {e} : emission'[x] = emission[x]
      /\ emission' \in [Emitters -> {Idle} \cup Calls]
  BY <1>1, <1>3 DEF BusTypeOK
<1>6. IsFiniteSet(emission[e].errors) /\ Cardinality(emission[e].errors) \in Nat
  <2>1. emission[e].errors \in SUBSET Handlers
    BY <1>2 DEF Calls
  <2>2. QED
    BY <2>1, FS_Subset, FS_CardinalityType, EventBusAssumption
<1>7. BusTypeOK'
  BY <1>1, <1>3, <1>5, <1>6 DEF BusTypeOK
<1>8. CallsSound'
  <2>1. SUFFICES ASSUME NEW x \in Emitters, emission'[x].on
                 PROVE  /\ emission'[x].todo \subseteq Subscribed[emission'[x].type]
                        /\ emission'[x].errors \cap emission'[x].todo = {}
    BY DEF CallsSound
  <2>2. emission'[x] = emission[x]
    BY <1>4, <1>5, <2>1
  <2>3. QED
    BY <1>1, <2>1, <2>2 DEF CallsSound
<1>9. EveryHandlerOnce'
  <2>1. \A t \in Types, g \in Handlers : NowCalls(t, g)' = NowCalls(t, g)
    BY <1>2, <1>4, <1>5 DEF NowCalls, Running
  <2>2. \A t \in Types, g \in Handlers : Now(t, g)' = Now(t, g)
    BY <2>1 DEF Now, NowCalls
  <2>3. QED
    BY <1>3, <2>2 DEF BusInv, EveryHandlerOnce
<1>10. FailuresExact'
  <2>1. SUFFICES ASSUME NEW t \in Types
                 PROVE  failures'[t] + Cardinality(PendingRuns(t)') = Cardinality(RaisedRuns(t)')
    BY DEF FailuresExact
  <2>2. failures[t] + Cardinality(PendingRuns(t)) = Cardinality(RaisedRuns(t)) /\ failures[t] \in Nat
    BY <1>1 DEF BusInv, FailuresExact, BusTypeOK
  <2>3. RaisedRuns(t)' = RaisedRuns(t)
    BY <1>3 DEF RaisedRuns
  <2>4. CASE t = u
    <3> DEFINE mine == {e} \X emission[e].errors
    <3>1. PendingRuns(t)' = PendingRuns(t) \ mine
      BY <1>2, <1>4, <1>5, <2>4 DEF PendingRuns
    <3>2. PendingRuns(t) \cap mine = mine
      BY <1>2, <2>4 DEF PendingRuns, Calls
    <3>3. Cardinality(mine) = Cardinality(emission[e].errors)
      <4> DEFINE E == emission[e].errors
      <4>1. IsFiniteSet(E) /\ IsFiniteSet({e}) /\ Cardinality({e}) = 1 /\ Cardinality(E) \in Nat
        BY <1>6, FS_Singleton
      <4> HIDE DEF E
      <4>2. Cardinality({e} \X E) = Cardinality({e}) * Cardinality(E)
        BY <4>1, FS_Product
      <4>3. Cardinality({e} \X E) = Cardinality(E)
        BY <4>1, <4>2
      <4>4. QED
        BY <4>3 DEF E
    <3>4. IsFiniteSet(PendingRuns(t)) /\ Cardinality(PendingRuns(t)) \in Nat
      BY <1>1, RunsFinite, FS_CardinalityType
    <3> HIDE DEF mine
    <3>5. Cardinality(PendingRuns(t)') = Cardinality(PendingRuns(t)) - Cardinality(mine)
      BY <3>1, <3>2, <3>4, FS_Difference
    <3>6. failures'[t] = failures[t] + Cardinality(mine)
      BY <1>1, <1>3, <2>4, <3>3 DEF BusTypeOK
    <3>7. Cardinality(mine) \in Nat
      BY <1>6, <3>3
    <3>8. QED
      BY <2>2, <2>3, <3>4, <3>5, <3>6, <3>7
  <2>5. CASE t # u
    <3>1. PendingRuns(t)' = PendingRuns(t)
      BY <1>2, <1>4, <1>5, <2>5 DEF PendingRuns
    <3>2. failures'[t] = failures[t]
      BY <1>1, <1>3, <2>5 DEF BusTypeOK
    <3>3. QED
      BY <2>2, <2>3, <3>1, <3>2
  <2>6. QED
    BY <2>4, <2>5
<1>11. QED
  BY <1>7, <1>8, <1>9, <1>10 DEF BusInv

\* A call of emit has every subscribed handler before it.
LEMMA BusEmits ==
  ASSUME BusInv, NEW e \in Emitters, NEW u \in Types, Emit(e, u)
  PROVE  BusInv'
<1>1. BusTypeOK /\ CallsSound
  BY DEF BusInv
<1>2. Subscribed[u] \in SUBSET Handlers
  BY EventBusAssumption
<1>3. /\ ~emission[e].on /\ emitted' = [emitted EXCEPT ![u] = @ + 1]
      /\ failures' = failures /\ ended' = ended /\ raised' = raised
  BY DEF Emit
<1>4. emitted' \in [Types -> 0 .. MaxEmissions]
  <2>1. emitted[u] \in 0 .. MaxEmissions /\ emitted[u] < MaxEmissions
    BY <1>1 DEF BusTypeOK, Emit
  <2>2. emitted[u] + 1 \in 0 .. MaxEmissions
    BY <2>1, EventBusAssumption
  <2>3. QED
    BY <1>1, <1>3, <2>2 DEF BusTypeOK
<1>5. RaisedRuns(u)' = RaisedRuns(u) /\ \A t \in Types : RaisedRuns(t)' = RaisedRuns(t)
  BY <1>3 DEF RaisedRuns
<1>6. CASE Subscribed[u] = {}
  <2>1. emission' = emission /\ total' = total
    BY <1>6 DEF Emit
  <2>2. BusTypeOK'
    BY <1>1, <1>3, <1>4, <2>1 DEF BusTypeOK
  <2>3. CallsSound'
    BY <1>1, <2>1 DEF CallsSound
  <2>4. FailuresExact'
    <3>1. \A t \in Types : PendingRuns(t)' = PendingRuns(t)
      BY <2>1 DEF PendingRuns
    <3>2. QED
      BY <1>3, <1>5, <3>1 DEF BusInv, FailuresExact
  <2>5. EveryHandlerOnce'
    <3>1. \A t \in Types, g \in Handlers : NowCalls(t, g)' = NowCalls(t, g)
      BY <2>1 DEF NowCalls, Running
    <3>2. \A t \in Types, g \in Handlers : g \in Subscribed[t] => emitted'[t] = emitted[t]
      BY <1>1, <1>3, <1>6 DEF BusTypeOK
    <3>3. QED
      BY <1>3, <2>1, <3>1, <3>2 DEF BusInv, EveryHandlerOnce, Now, NowCalls
  <2>6. QED
    BY <2>2, <2>3, <2>4, <2>5 DEF BusInv
<1>7. CASE Subscribed[u] # {}
  <2> DEFINE c == [on |-> TRUE, type |-> u, todo |-> Subscribed[u], errors |-> {}]
  <2>1. /\ total' = [total EXCEPT ![u] = @ + 1]
        /\ emission' = [emission EXCEPT ![e] = c]
    BY <1>7 DEF Emit
  <2>2. c \in Calls /\ c.on /\ c.type = u /\ c.todo = Subscribed[u] /\ c.errors = {}
    BY <1>2 DEF Calls
  <2> HIDE DEF c
  <2>3. /\ emission'[e] = c /\ \A x \in Emitters \ {e} : emission'[x] = emission[x]
        /\ emission' \in [Emitters -> {Idle} \cup Calls]
    BY <1>1, <2>1, <2>2 DEF BusTypeOK
  <2>4. BusTypeOK'
    BY <1>1, <1>3, <1>4, <2>1, <2>3 DEF BusTypeOK
  <2>5. CallsSound'
    <3>1. SUFFICES ASSUME NEW x \in Emitters, emission'[x].on
                   PROVE  /\ emission'[x].todo \subseteq Subscribed[emission'[x].type]
                          /\ emission'[x].errors \cap emission'[x].todo = {}
      BY DEF CallsSound
    <3>2. CASE x = e
      BY <2>2, <2>3, <3>2
    <3>3. CASE x # e
      BY <1>1, <2>3, <3>1, <3>3 DEF CallsSound
    <3>4. QED
      BY <3>2, <3>3
  <2>6. FailuresExact'
    <3>1. \A t \in Types : PendingRuns(t)' = PendingRuns(t)
      BY <1>3, <2>2, <2>3 DEF PendingRuns
    <3>2. QED
      BY <1>3, <1>5, <3>1 DEF BusInv, FailuresExact
  <2>7. EveryHandlerOnce'
    <3>1. SUFFICES ASSUME NEW t \in Types, NEW g \in Handlers
                   PROVE  IF g \in Subscribed[t] THEN ended'[t][g] + Cardinality(NowCalls(t, g)') = emitted'[t] /\ total'[t] = emitted'[t]
                                                 ELSE ended'[t][g] = 0
      BY DEF EveryHandlerOnce, Now, NowCalls
    <3>2. IF g \in Subscribed[t] THEN ended[t][g] + Cardinality(NowCalls(t, g)) = emitted[t] /\ total[t] = emitted[t]
                                 ELSE ended[t][g] = 0
      BY DEF BusInv, EveryHandlerOnce, Now, NowCalls
    <3>3. CASE t = u /\ g \in Subscribed[u]
      <4>1. NowCalls(t, g)' = NowCalls(t, g) \cup {e} /\ e \notin NowCalls(t, g)
        BY <1>3, <2>2, <2>3, <3>3 DEF NowCalls, Running
      <4>2. IsFiniteSet(NowCalls(t, g))
        BY <1>1, RunsFinite
      <4>3. Cardinality(NowCalls(t, g)') = Cardinality(NowCalls(t, g)) + 1 /\ Cardinality(NowCalls(t, g)) \in Nat
        BY <4>1, <4>2, FS_AddElement, FS_CardinalityType
      <4>4. ended[t][g] \in Nat /\ emitted'[t] = emitted[t] + 1 /\ total'[t] = total[t] + 1
        BY <1>1, <1>3, <2>1, <3>3 DEF BusTypeOK
      <4>5. QED
        BY <1>3, <3>2, <3>3, <4>3, <4>4
    <3>4. CASE t = u /\ g \notin Subscribed[u]
      BY <1>3, <3>2, <3>4
    <3>5. CASE t # u
      <4>1. NowCalls(t, g)' = NowCalls(t, g)
        BY <1>3, <2>2, <2>3, <3>5 DEF NowCalls, Running
      <4>2. emitted'[t] = emitted[t] /\ total'[t] = total[t]
        BY <1>1, <1>3, <2>1, <3>5 DEF BusTypeOK
      <4>3. QED
        BY <1>3, <3>2, <4>1, <4>2
    <3>6. QED
      BY <3>3, <3>4, <3>5
  <2>8. QED
    BY <2>4, <2>5, <2>6, <2>7 DEF BusInv
<1>8. QED
  BY <1>6, <1>7

\* Before the first event all counts agree.
LEMMA BusStarts == BusInit => BusInv
<1> SUFFICES ASSUME BusInit PROVE BusInv
  OBVIOUS
<1>1. ~Idle.on
  BY DEF Idle
<1>2. BusTypeOK
  BY EventBusAssumption DEF BusInit, BusTypeOK
<1>3. CallsSound
  BY <1>1 DEF BusInit, CallsSound
<1>4. FailuresExact
  <2>1. \A t \in Types : PendingRuns(t) = {}
    BY <1>1 DEF BusInit, PendingRuns
  <2>2. \A t \in Types : RaisedRuns(t) = {}
    BY DEF BusInit, RaisedRuns
  <2>3. QED
    BY <2>1, <2>2, FS_EmptySet DEF BusInit, FailuresExact
<1>5. EveryHandlerOnce
  <2>1. \A t \in Types, g \in Handlers : NowCalls(t, g) = {}
    BY <1>1 DEF BusInit, NowCalls, Running
  <2>2. \A t \in Types, g \in Handlers : Now(t, g) = 0
    BY <2>1, FS_EmptySet DEF Now, NowCalls
  <2>3. QED
    BY <2>2 DEF BusInit, EveryHandlerOnce
<1>6. QED
  BY <1>2, <1>3, <1>4, <1>5 DEF BusInv

\* The end of the process is a start of the bus.
LEMMA BusStopped == BusStops => BusInv'
<1>1. BusStops => BusInit'
  BY DEF BusStops, BusInit
<1>2. (BusInit => BusInv)'
  BY BusStarts, PTL
<1>3. QED
  BY <1>1, <1>2

\* Nothing else touches the bus.
LEMMA BusUntouched == BusInv /\ UNCHANGED busVars => BusInv'
<1> SUFFICES ASSUME BusInv, UNCHANGED busVars PROVE BusInv'
  OBVIOUS
<1> USE DEF busVars
<1>1. BusTypeOK' /\ CallsSound'
  BY DEF BusInv, BusTypeOK, CallsSound
<1>2. EveryHandlerOnce'
  <2>1. \A t \in Types, h \in Handlers : Now(t, h)' = Now(t, h)
    BY DEF Now, Running
  <2>2. QED
    BY <2>1 DEF BusInv, EveryHandlerOnce
<1>3. FailuresExact'
  <2>1. \A t \in Types : PendingRuns(t)' = PendingRuns(t) /\ RaisedRuns(t)' = RaisedRuns(t)
    BY DEF PendingRuns, RaisedRuns
  <2>2. QED
    BY <2>1 DEF BusInv, FailuresExact
<1>4. QED
  BY <1>1, <1>2, <1>3 DEF BusInv

-----------------------------------------------------------------------------
(* Types of the delivery *)

\* Every action leaves the bus to one of its own.
LEMMA BusStepped ==
  ASSUME BusInv, [DeliveryNext]_allVars
  PROVE  BusInv'
<1>1. ASSUME NEW e \in Emitters, NEW t \in Types, EmitEvent(e, t) PROVE BusInv'
  BY <1>1, BusEmits DEF EmitEvent
<1>2. ASSUME NEW e \in Emitters, EmitEnds(e) PROVE BusInv'
  BY <1>2, BusReturns DEF EmitEnds
<1>3. ASSUME NEW e \in Emitters, NEW h \in Handlers, Returns(e, h) \/ Raises(e, h) PROVE BusInv'
  BY <1>3, BusRunEnds DEF Returns, Raises
<1>4. ASSUME NEW p \in Procs, LoopStep(p) \/ Disconnects(p) \/ RouteFails(p) \/ ProcessStarts(p) PROVE BusInv'
  <2>1. UNCHANGED busVars
    BY <1>4 DEF LoopStep, Subscribe, Retry, RouteMessage, Disconnects, RouteFails, ProcessStarts, LoopOnly
  <2>2. QED
    BY <2>1, BusUntouched
<1>5. ASSUME NEW p \in Procs, ProcessEnds(p) PROVE BusInv'
  BY <1>5, BusStopped, BusUntouched DEF ProcessEnds
<1>6. ASSUME UNCHANGED allVars PROVE BusInv'
  BY <1>6, BusUntouched DEF allVars
<1>7. QED
  BY <1>1, <1>2, <1>3, <1>4, <1>5, <1>6 DEF DeliveryNext, BusStep

\* What DeliveryTypeOK says of the delivery.
RowsTyped  == life \in Nat /\ written \in [Types -> [Handlers -> Nat]]
QueueTyped == /\ channel \in Seq(Message)
              /\ buffer \in [Procs -> Seq(Message)]
              /\ routed \in [Procs -> Seq(Message)]
              /\ missed \in [Procs -> SUBSET Message]
LoopTyped  == /\ up \in [Procs -> BOOLEAN]
              /\ link \in [Procs -> {"off", "connecting", "listening", "pausing", "backing off"}]
              /\ delay \in [Procs -> BackoffDelays]
              /\ faults \in 0 .. MaxFaults

\* The types in parts.
LEMMA TypesInParts == DeliveryTypeOK <=> BusTypeOK /\ RowsTyped /\ QueueTyped /\ LoopTyped
BY DEF DeliveryTypeOK, RowsTyped, QueueTyped, LoopTyped

\* Doubling stays among the delays.
LEMMA DelayDoubled == \A d \in BackoffDelays : Doubled(d) \in BackoffDelays
BY DEF Doubled, BackoffDelays

\* The message that a publication makes.
Published(t) == [life |-> life, type |-> t, run |-> ended[t]["bridge"] + 1]

\* It is a message.
LEMMA PublishedTyped ==
  ASSUME DeliveryTypeOK, NEW t \in Types
  PROVE  /\ Published(t) \in Message
         /\ Published(t).life = life /\ Published(t).type = t /\ Published(t).run = ended[t]["bridge"] + 1
<1> DEFINE n == ended[t]["bridge"] + 1
<1>1. n \in Nat /\ life \in Nat
  <2>1. ended[t] \in [Handlers -> Nat] /\ life \in Nat
    BY DEF DeliveryTypeOK, BusTypeOK
  <2>2. "bridge" \in Handlers
    BY EventDeliveryAssumption
  <2>3. ended[t]["bridge"] \in Nat
    BY <2>1, <2>2
  <2>4. QED
    BY <2>1, <2>3
<1>2. Published(t) = [life |-> life, type |-> t, run |-> n]
  BY DEF Published
<1> HIDE DEF n
<1>3. Published(t) \in Message /\ Published(t).life = life /\ Published(t).type = t /\ Published(t).run = n
  BY <1>1, <1>2 DEF Message
<1>4. QED
  BY <1>3 DEF n

\* The elements of a queue are messages.
LEMMA ToSetTyped == \A q \in Seq(Message) : ToSet(q) \in SUBSET Message
BY DEF ToSet

\* What handlers do keeps the types of rows and queues.
LEMMA EffectTyped ==
  ASSUME DeliveryTypeOK, NEW t \in Types, NEW h \in Handlers, life' = life, routed' = routed,
         Write(t, h) \/ Publish(t) \/ NoEffect
  PROVE  RowsTyped' /\ QueueTyped'
<1>1. CASE Write(t, h)
  <2>1. written' = [written EXCEPT ![t][h] = @ + 1] /\ channel' = channel /\ buffer' = buffer /\ missed' = missed
    BY <1>1 DEF Write
  <2>2. written' \in [Types -> [Handlers -> Nat]]
    <3>1. written \in [Types -> [Handlers -> Nat]]
      BY DEF DeliveryTypeOK
    <3>2. QED
      BY <2>1, <3>1
  <2>3. QED
    BY <2>1, <2>2 DEF DeliveryTypeOK, RowsTyped, QueueTyped
<1>2. CASE Publish(t)
  <2> DEFINE m == Published(t)
  <2>1. /\ channel' = Append(channel, m)
        /\ buffer' = [p \in Procs |-> IF link[p] = "listening" THEN Append(buffer[p], m) ELSE buffer[p]]
        /\ missed' = [p \in Procs |-> IF link[p] = "listening" THEN missed[p] ELSE missed[p] \cup {m}]
        /\ written' = written
    BY <1>2 DEF Publish, Published
  <2>2. m \in Message
    BY PublishedTyped
  <2> HIDE DEF m
  <2>3. channel' \in Seq(Message) /\ \A p \in Procs : Append(buffer[p], m) \in Seq(Message)
    BY <2>1, <2>2, AppendProperties DEF DeliveryTypeOK
  <2>4. buffer' \in [Procs -> Seq(Message)] /\ missed' \in [Procs -> SUBSET Message]
    BY <2>1, <2>2, <2>3 DEF DeliveryTypeOK
  <2>5. QED
    BY <2>1, <2>3, <2>4 DEF DeliveryTypeOK, RowsTyped, QueueTyped
<1>3. CASE NoEffect
  BY <1>3 DEF NoEffect, DeliveryTypeOK, RowsTyped, QueueTyped
<1>4. QED
  BY <1>1, <1>2, <1>3

\* One more fault is still within the bound.
LEMMA FaultTyped == faults \in 0 .. MaxFaults /\ Fault => faults' \in 0 .. MaxFaults
BY EventDeliveryAssumption DEF Fault

\* Bus, rows, loops and queues keep their types.
LEMMA DeliveryTypeStep ==
  ASSUME BusInv, DeliveryTypeOK, [DeliveryNext]_allVars
  PROVE  DeliveryTypeOK'
<1> SUFFICES RowsTyped' /\ QueueTyped' /\ LoopTyped'
  <2>1. BusTypeOK'
    BY BusStepped DEF BusInv
  <2>2. (DeliveryTypeOK <=> BusTypeOK /\ RowsTyped /\ QueueTyped /\ LoopTyped)'
    BY TypesInParts, PTL
  <2>3. QED
    BY <2>1, <2>2
<1>1. RowsTyped /\ QueueTyped /\ LoopTyped
  BY TypesInParts
<1>2. ASSUME NEW e \in Emitters, (\E t \in Types : EmitEvent(e, t)) \/ EmitEnds(e)
      PROVE  RowsTyped' /\ QueueTyped' /\ LoopTyped'
  BY <1>1, <1>2 DEF EmitEvent, EmitEnds, delivery, RowsTyped, QueueTyped, LoopTyped
<1>3. ASSUME NEW e \in Emitters, NEW h \in Handlers, Returns(e, h) \/ Raises(e, h)
      PROVE  RowsTyped' /\ QueueTyped' /\ LoopTyped'
  <2>1. emission[e].type \in Types
    BY <1>3, CallOn DEF DeliveryTypeOK, Returns, Raises, HandlerReturns, HandlerRaises, Running, Calls
  <2>2. \/ Write(emission[e].type, h) \/ Publish(emission[e].type) \/ NoEffect
    BY <1>3 DEF Returns, Raises
  <2>3. /\ life' = life /\ routed' = routed /\ up' = up /\ link' = link /\ delay' = delay
        /\ Fault \/ UNCHANGED faults
    BY <1>3 DEF Returns, Raises
  <2>4. RowsTyped' /\ QueueTyped'
    BY <2>1, <2>2, <2>3, EffectTyped
  <2>5. QED
    BY <1>1, <2>3, <2>4, FaultTyped DEF LoopTyped
<1>4. ASSUME NEW p \in Procs, Subscribe(p) \/ ProcessStarts(p)
      PROVE  RowsTyped' /\ QueueTyped' /\ LoopTyped'
  <2>1. 1 \in BackoffDelays
    BY DEF BackoffDelays
  <2>2. QED
    BY <1>1, <1>4, <2>1 DEF Subscribe, ProcessStarts, LoopOnly, RowsTyped, QueueTyped, LoopTyped
<1>5. ASSUME NEW p \in Procs, Retry(p)
      PROVE  RowsTyped' /\ QueueTyped' /\ LoopTyped'
  <2>1. delay' \in [Procs -> BackoffDelays]
    BY <1>1, <1>5, DelayDoubled DEF Retry, LoopTyped
  <2>2. QED
    BY <1>1, <1>5, <2>1 DEF Retry, LoopOnly, RowsTyped, QueueTyped, LoopTyped
<1>6. ASSUME NEW p \in Procs, Disconnects(p)
      PROVE  RowsTyped' /\ QueueTyped' /\ LoopTyped'
  <2>1. <<>> \in Seq(Message) /\ ToSet(buffer[p]) \in SUBSET Message
    BY <1>1, ToSetTyped DEF QueueTyped
  <2>2. buffer' \in [Procs -> Seq(Message)] /\ missed' \in [Procs -> SUBSET Message]
    BY <1>1, <1>6, <2>1 DEF Disconnects, QueueTyped
  <2>3. link' \in [Procs -> {"off", "connecting", "listening", "pausing", "backing off"}]
    BY <1>1, <1>6 DEF Disconnects, LoopTyped
  <2>4. QED
    BY <1>1, <1>6, <2>2, <2>3, FaultTyped DEF Disconnects, LoopOnly, RowsTyped, QueueTyped, LoopTyped
<1>7. ASSUME NEW p \in Procs, RouteMessage(p)
      PROVE  RowsTyped' /\ QueueTyped' /\ LoopTyped'
  <2>1. Head(buffer[p]) \in Message /\ Tail(buffer[p]) \in Seq(Message)
    BY <1>1, <1>7, HeadTailProperties DEF RouteMessage, QueueTyped
  <2>2. Append(routed[p], Head(buffer[p])) \in Seq(Message)
    BY <1>1, <2>1, AppendProperties DEF QueueTyped
  <2>3. buffer' \in [Procs -> Seq(Message)] /\ routed' \in [Procs -> Seq(Message)]
    BY <1>1, <1>7, <2>1, <2>2 DEF RouteMessage, QueueTyped
  <2>4. QED
    BY <1>1, <1>7, <2>3 DEF RouteMessage, LoopOnly, RowsTyped, QueueTyped, LoopTyped
<1>8. ASSUME NEW p \in Procs, RouteFails(p)
      PROVE  RowsTyped' /\ QueueTyped' /\ LoopTyped'
  <2>1. Head(buffer[p]) \in Message /\ Tail(buffer[p]) \in Seq(Message)
    BY <1>1, <1>8, HeadTailProperties DEF RouteFails, QueueTyped
  <2>2. buffer' \in [Procs -> Seq(Message)] /\ missed' \in [Procs -> SUBSET Message]
    BY <1>1, <1>8, <2>1 DEF RouteFails, QueueTyped
  <2>3. link' \in [Procs -> {"off", "connecting", "listening", "pausing", "backing off"}]
    BY <1>1, <1>8 DEF RouteFails, LoopTyped, AfterRoutingError
  <2>4. QED
    BY <1>1, <1>8, <2>2, <2>3, FaultTyped DEF RouteFails, LoopOnly, RowsTyped, QueueTyped, LoopTyped
<1>9. ASSUME NEW p \in Procs, ProcessEnds(p)
      PROVE  RowsTyped' /\ QueueTyped' /\ LoopTyped'
  <2>1. <<>> \in Seq(Message) /\ ToSet(buffer[p]) \in SUBSET Message
    BY <1>1, ToSetTyped DEF QueueTyped
  <2>2. buffer' \in [Procs -> Seq(Message)] /\ missed' \in [Procs -> SUBSET Message]
    BY <1>1, <1>9, <2>1 DEF ProcessEnds, QueueTyped
  <2>3. LoopTyped'
    <3>1. up' \in [Procs -> BOOLEAN] /\ link' \in [Procs -> {"off", "connecting", "listening", "pausing", "backing off"}]
      BY <1>1, <1>9 DEF ProcessEnds, LoopTyped
    <3>2. QED
      BY <1>1, <1>9, <3>1, FaultTyped DEF ProcessEnds, LoopTyped
  <2>4. RowsTyped'
    BY <1>1, <1>9 DEF ProcessEnds, RowsTyped
  <2>5. QED
    BY <1>1, <1>9, <2>2, <2>3, <2>4 DEF ProcessEnds, QueueTyped
<1>10. ASSUME UNCHANGED allVars
       PROVE  RowsTyped' /\ QueueTyped' /\ LoopTyped'
  BY <1>1, <1>10 DEF allVars, delivery, RowsTyped, QueueTyped, LoopTyped
<1>11. QED
  BY <1>2, <1>3, <1>4, <1>5, <1>6, <1>7, <1>8, <1>9, <1>10 DEF DeliveryNext, BusStep, LoopStep

-----------------------------------------------------------------------------
(* Rows *)

\* The rows of one handler for one type.
RowOK(t, h) == /\ ~Unaddressed(h, t) => ended[t][h] - raised[t][h] <= written[t][h]
               /\ written[t][h] <= ended[t][h]

\* A run that returned has left its row; one that raised may have.
LEMMA RowsStep ==
  ASSUME BusInv, DeliveryTypeOK, RowsMatchRuns, [DeliveryNext]_allVars
  PROVE  RowsMatchRuns'
<1> SUFFICES ASSUME NEW t \in Types, NEW h \in Subscribed[t] \cap {"audit", "notify"}
             PROVE  RowOK(t, h)'
  BY DEF RowsMatchRuns, RowOK
<1>1. RowOK(t, h)
  BY DEF RowsMatchRuns, RowOK
<1>2. h \in Handlers /\ h \in {"audit", "notify"} /\ h # "bridge"
  BY EventBusAssumption
<1>3. /\ ended \in [Types -> [Handlers -> Nat]] /\ raised \in [Types -> [Handlers -> Nat]]
      /\ written \in [Types -> [Handlers -> Nat]]
  BY DEF DeliveryTypeOK, BusTypeOK
<1>4. ASSUME UNCHANGED <<ended, raised, written>> PROVE RowOK(t, h)'
  BY <1>1, <1>4 DEF RowOK
<1>5. ASSUME NEW e \in Emitters, (\E x \in Types : EmitEvent(e, x)) \/ EmitEnds(e) PROVE RowOK(t, h)'
  BY <1>4, <1>5 DEF EmitEvent, EmitEnds, delivery, Emit, Return
<1>6. ASSUME NEW e \in Emitters, NEW g \in Handlers, Returns(e, g) \/ Raises(e, g) PROVE RowOK(t, h)'
  <2> PICK u \in Types : u = emission[e].type
    BY <1>6, CallOn DEF DeliveryTypeOK, Returns, Raises, HandlerReturns, HandlerRaises, Running, Calls
  <2>1. ended' = [ended EXCEPT ![u][g] = @ + 1]
    BY <1>6 DEF Returns, Raises, HandlerReturns, HandlerRaises
  <2>2. \/ Returns(e, g) /\ raised' = raised
        \/ Raises(e, g) /\ raised' = [raised EXCEPT ![u][g] = @ + 1]
    BY <1>6 DEF Returns, Raises, HandlerReturns, HandlerRaises
  <2>3. \/ written' = [written EXCEPT ![u][g] = @ + 1]
        \/ written' = written /\ (Returns(e, g) => g = "bridge" \/ Unaddressed(g, u))
    BY <1>6 DEF Returns, Raises, Write, Publish, NoEffect
  <2>4. CASE t = u /\ h = g
    <3> DEFINE n == ended[t][h]
               r == raised[t][h]
               w == written[t][h]
    <3>1. n \in Nat /\ r \in Nat /\ w \in Nat
      BY <1>2, <1>3
    <3>2. /\ ~Unaddressed(h, t) => n - r <= w
          /\ w <= n
      BY <1>1 DEF RowOK
    <3>3. ended'[t][h] = n + 1
      BY <1>2, <1>3, <2>1, <2>4
    <3>4. \/ Returns(e, g) /\ raised'[t][h] = r
          \/ raised'[t][h] = r + 1
      BY <1>2, <1>3, <2>2, <2>4
    <3>5. \/ written'[t][h] = w + 1
          \/ written'[t][h] = w /\ (Returns(e, g) => Unaddressed(h, t))
      BY <1>2, <1>3, <2>3, <2>4
    <3> HIDE DEF n, r, w
    <3>6. /\ ~Unaddressed(h, t) => ended'[t][h] - raised'[t][h] <= written'[t][h]
          /\ written'[t][h] <= ended'[t][h]
      BY <3>1, <3>2, <3>3, <3>4, <3>5
    <3>7. QED
      BY <3>6 DEF RowOK, Unaddressed
  <2>5. CASE ~(t = u /\ h = g)
    <3>1. ended'[t][h] = ended[t][h]
      BY <1>2, <1>3, <2>1, <2>5
    <3>2. raised'[t][h] = raised[t][h]
      BY <1>2, <1>3, <2>2, <2>5
    <3>3. written'[t][h] = written[t][h]
      BY <1>2, <1>3, <2>3, <2>5
    <3>4. QED
      BY <1>1, <3>1, <3>2, <3>3 DEF RowOK
  <2>6. QED
    BY <2>4, <2>5
<1>7. ASSUME NEW p \in Procs, LoopStep(p) \/ Disconnects(p) \/ RouteFails(p) \/ ProcessStarts(p)
      PROVE  RowOK(t, h)'
  BY <1>4, <1>7
  DEF LoopStep, Subscribe, Retry, RouteMessage, Disconnects, RouteFails, ProcessStarts, LoopOnly, busVars
<1>8. ASSUME NEW p \in Procs, ProcessEnds(p) PROVE RowOK(t, h)'
  <2>1. CASE p = Home
    <3>1. ended'[t][h] = 0 /\ raised'[t][h] = 0 /\ written'[t][h] = 0
      BY <1>2, <1>8, <2>1 DEF ProcessEnds, BusStops
    <3>2. QED
      BY <3>1 DEF RowOK
  <2>2. CASE p # Home
    BY <1>4, <1>8, <2>2 DEF ProcessEnds, busVars
  <2>3. QED
    BY <2>1, <2>2
<1>9. ASSUME UNCHANGED allVars PROVE RowOK(t, h)'
  BY <1>4, <1>9 DEF allVars, busVars, delivery
<1>10. QED
  BY <1>5, <1>6, <1>7, <1>8, <1>9 DEF DeliveryNext, BusStep

-----------------------------------------------------------------------------
(* Queues of messages *)

\* What s holds comes in the order of c.
InOrder(c, s) ==
  \A i, j \in DOMAIN s : i < j => \A k, l \in DOMAIN c : c[k] = s[i] /\ c[l] = s[j] => k < l

\* The messages of c are split between s, in their order, and M.
Splits(c, s, M) == InOrder(c, s) /\ ToSet(s) \cap M = {} /\ ToSet(s) \cup M = ToSet(c)

\* The positions of a queue, and what it holds.
LEMMA QueueDomain ==
  \A q \in Seq(Message) : Len(q) \in Nat /\ DOMAIN q = 1 .. Len(q) /\ ToSet(q) = {q[i] : i \in 1 .. Len(q)}
BY DEF ToSet

\* Whoever has the messages in order has each of them once.
LEMMA OrderedOnce ==
  ASSUME NEW c \in Seq(Message), NEW s \in Seq(Message), NEW M, Splits(c, s, M)
  PROVE  IsInjective(s)
<1> SUFFICES ASSUME NEW i \in DOMAIN s, NEW j \in DOMAIN s, s[i] = s[j], i # j PROVE FALSE
  BY DEF IsInjective
<1>1. \E k \in DOMAIN c : c[k] = s[i]
  BY DEF Splits, ToSet
<1>2. PICK k \in DOMAIN c : c[k] = s[i]
  BY <1>1
<1>3. i \in Int /\ j \in Int /\ k \in Int
  BY QueueDomain
<1>4. CASE i < j
  <2>1. k < k
    BY <1>2, <1>4 DEF Splits, InOrder
  <2>2. QED
    BY <1>3, <2>1
<1>5. CASE j < i
  <2>1. k < k
    BY <1>2, <1>5 DEF Splits, InOrder
  <2>2. QED
    BY <1>3, <2>1
<1>6. QED
  BY <1>3, <1>4, <1>5

\* The order of the places that CHOOSE finds.
LEMMA OrderedPlaces ==
  ASSUME NEW c \in Seq(Message), NEW s \in Seq(Message), NEW M, Splits(c, s, M),
         NEW i \in DOMAIN s, NEW j \in DOMAIN s, i < j
  PROVE  (CHOOSE k \in DOMAIN c : c[k] = s[i]) < (CHOOSE k \in DOMAIN c : c[k] = s[j])
<1> DEFINE K == CHOOSE k \in DOMAIN c : c[k] = s[i]
           L == CHOOSE k \in DOMAIN c : c[k] = s[j]
<1>1. (\E k \in DOMAIN c : c[k] = s[i]) /\ (\E k \in DOMAIN c : c[k] = s[j])
  BY DEF Splits, ToSet
<1>2. K \in DOMAIN c /\ c[K] = s[i]
  BY <1>1
<1>3. L \in DOMAIN c /\ c[L] = s[j]
  BY <1>1
<1> HIDE DEF K, L
<1>4. K < L
  BY <1>2, <1>3 DEF Splits, InOrder
<1>5. QED
  BY <1>4 DEF K, L

\* A queue with one more message.
LEMMA Grown ==
  ASSUME NEW q \in Seq(Message), NEW m \in Message
  PROVE  /\ Append(q, m) \in Seq(Message) /\ Len(q) \in Nat /\ DOMAIN q = 1 .. Len(q)
         /\ DOMAIN Append(q, m) = 1 .. Len(q) + 1
         /\ Append(q, m)[Len(q) + 1] = m /\ \A i \in 1 .. Len(q) : Append(q, m)[i] = q[i]
         /\ ToSet(Append(q, m)) = ToSet(q) \cup {m}
<1> DEFINE r == Append(q, m)
<1>1. /\ r \in Seq(Message) /\ Len(r) = Len(q) + 1 /\ r[Len(q) + 1] = m
      /\ \A i \in 1 .. Len(q) : r[i] = q[i]
  BY AppendProperties
<1>2. Len(q) \in Nat /\ DOMAIN q = 1 .. Len(q) /\ ToSet(q) = {q[i] : i \in 1 .. Len(q)}
  BY QueueDomain
<1>3. DOMAIN r = 1 .. Len(q) + 1 /\ ToSet(r) = {r[i] : i \in 1 .. Len(q) + 1}
  BY <1>1, QueueDomain
<1> HIDE DEF r
<1>4. ToSet(r) = ToSet(q) \cup {m}
  BY <1>1, <1>2, <1>3
<1>5. QED
  BY <1>1, <1>2, <1>3, <1>4 DEF r

\* Two queues, one after the other.
LEMMA JoinedQueues ==
  ASSUME NEW r \in Seq(Message), NEW b \in Seq(Message)
  PROVE  /\ r \o b \in Seq(Message) /\ Len(r) \in Nat /\ Len(b) \in Nat
         /\ DOMAIN (r \o b) = 1 .. Len(r) + Len(b)
         /\ \A i \in 1 .. Len(r) + Len(b) : (r \o b)[i] = IF i <= Len(r) THEN r[i] ELSE b[i - Len(r)]
         /\ ToSet(r \o b) = ToSet(r) \cup ToSet(b)
<1> DEFINE s == r \o b
<1>1. /\ s \in Seq(Message) /\ Len(s) = Len(r) + Len(b)
      /\ \A i \in 1 .. Len(r) + Len(b) : s[i] = IF i <= Len(r) THEN r[i] ELSE b[i - Len(r)]
  BY ConcatProperties
<1>2. /\ Len(r) \in Nat /\ ToSet(r) = {r[i] : i \in 1 .. Len(r)}
      /\ Len(b) \in Nat /\ ToSet(b) = {b[i] : i \in 1 .. Len(b)}
  BY QueueDomain
<1>3. DOMAIN s = 1 .. Len(r) + Len(b) /\ ToSet(s) = {s[i] : i \in 1 .. Len(r) + Len(b)}
  BY <1>1, QueueDomain
<1> HIDE DEF s
<1>4. ToSet(r) \subseteq ToSet(s)
  BY <1>1, <1>2, <1>3
<1>5. ToSet(b) \subseteq ToSet(s)
  <2>1. ASSUME NEW i \in 1 .. Len(b)
        PROVE  i + Len(r) \in 1 .. Len(r) + Len(b) /\ s[i + Len(r)] = b[i]
    <3>1. i + Len(r) \in 1 .. Len(r) + Len(b) /\ ~(i + Len(r) <= Len(r)) /\ (i + Len(r)) - Len(r) = i
      BY <1>2
    <3>2. QED
      BY <1>1, <3>1
  <2>2. QED
    BY <1>2, <1>3, <2>1
<1>6. ToSet(s) \subseteq ToSet(r) \cup ToSet(b)
  <2>1. \A i \in 1 .. Len(r) + Len(b) : i <= Len(r) => i \in 1 .. Len(r)
    BY <1>2
  <2>2. \A i \in 1 .. Len(r) + Len(b) : ~(i <= Len(r)) => i - Len(r) \in 1 .. Len(b)
    BY <1>2
  <2>3. QED
    BY <1>1, <1>2, <1>3, <2>1, <2>2
<1>7. QED
  BY <1>1, <1>2, <1>3, <1>4, <1>5, <1>6 DEF s

\* A new message that s does not get is missed.
LEMMA SplitsMissed ==
  ASSUME NEW c \in Seq(Message), NEW s \in Seq(Message), NEW M, NEW m \in Message,
         m \notin ToSet(c), Splits(c, s, M)
  PROVE  Splits(Append(c, m), s, M \cup {m})
<1> DEFINE d == Append(c, m)
<1>1. /\ Len(c) \in Nat /\ DOMAIN c = 1 .. Len(c) /\ DOMAIN d = 1 .. Len(c) + 1 /\ d[Len(c) + 1] = m
      /\ \A i \in 1 .. Len(c) : d[i] = c[i]
      /\ ToSet(d) = ToSet(c) \cup {m}
  BY Grown
<1> HIDE DEF d
<1>2. InOrder(c, s) /\ ToSet(s) \cap M = {} /\ ToSet(s) \cup M = ToSet(c)
  BY DEF Splits
<1>3. InOrder(d, s)
  <2>1. SUFFICES ASSUME NEW i \in DOMAIN s, NEW j \in DOMAIN s, i < j,
                        NEW k \in DOMAIN d, NEW l \in DOMAIN d, d[k] = s[i], d[l] = s[j]
                 PROVE  k < l
    BY DEF InOrder
  <2>2. s[i] # m /\ s[j] # m
    BY <1>2 DEF ToSet
  <2>3. k \in DOMAIN c /\ l \in DOMAIN c /\ c[k] = s[i] /\ c[l] = s[j]
    BY <1>1, <2>1, <2>2
  <2>4. QED
    BY <1>2, <2>1, <2>3 DEF InOrder
<1>4. ToSet(s) \cap (M \cup {m}) = {} /\ ToSet(s) \cup (M \cup {m}) = ToSet(d)
  BY <1>1, <1>2
<1>5. QED
  BY <1>3, <1>4 DEF Splits, d

\* A new message that s gets comes last.
LEMMA SplitsGrown ==
  ASSUME NEW c \in Seq(Message), NEW s \in Seq(Message), NEW M, NEW m \in Message,
         m \notin ToSet(c), Splits(c, s, M)
  PROVE  Splits(Append(c, m), Append(s, m), M)
<1> DEFINE d == Append(c, m)
           r == Append(s, m)
<1>1. /\ Len(c) \in Nat /\ DOMAIN c = 1 .. Len(c) /\ DOMAIN d = 1 .. Len(c) + 1 /\ d[Len(c) + 1] = m
      /\ \A i \in 1 .. Len(c) : d[i] = c[i]
      /\ ToSet(d) = ToSet(c) \cup {m}
  BY Grown
<1>2. /\ Len(s) \in Nat /\ DOMAIN s = 1 .. Len(s) /\ DOMAIN r = 1 .. Len(s) + 1 /\ r[Len(s) + 1] = m
      /\ \A i \in 1 .. Len(s) : r[i] = s[i]
      /\ ToSet(r) = ToSet(s) \cup {m}
  BY Grown
<1> HIDE DEF d, r
<1>3. InOrder(c, s) /\ ToSet(s) \cap M = {} /\ ToSet(s) \cup M = ToSet(c)
  BY DEF Splits
<1>4. \A k \in DOMAIN c : c[k] # m
  BY DEF ToSet
<1>5. InOrder(d, r)
  <2>1. SUFFICES ASSUME NEW i \in DOMAIN r, NEW j \in DOMAIN r, i < j,
                        NEW k \in DOMAIN d, NEW l \in DOMAIN d, d[k] = r[i], d[l] = r[j]
                 PROVE  k < l
    BY DEF InOrder
  <2>2. i \in DOMAIN s /\ r[i] = s[i]
    BY <1>2, <2>1
  <2>3. s[i] # m
    BY <1>3, <2>2 DEF ToSet
  <2>4. k \in DOMAIN c /\ c[k] = s[i]
    BY <1>1, <2>1, <2>2, <2>3
  <2>5. CASE j = Len(s) + 1
    <3>1. d[l] = m
      BY <1>2, <2>1, <2>5
    <3>2. l = Len(c) + 1
      BY <1>1, <1>4, <3>1
    <3>3. QED
      BY <1>1, <2>4, <3>2
  <2>6. CASE j # Len(s) + 1
    <3>1. j \in DOMAIN s /\ r[j] = s[j]
      BY <1>2, <2>6
    <3>2. s[j] # m
      BY <1>3, <3>1 DEF ToSet
    <3>3. l \in DOMAIN c /\ c[l] = s[j]
      BY <1>1, <2>1, <3>1, <3>2
    <3>4. QED
      BY <1>3, <2>1, <2>2, <2>4, <3>1, <3>3 DEF InOrder
  <2>7. QED
    BY <2>5, <2>6
<1>6. ToSet(r) \cap M = {} /\ ToSet(r) \cup M = ToSet(d)
  BY <1>1, <1>2, <1>3
<1>7. QED
  BY <1>5, <1>6 DEF Splits, d, r

\* Who loses messages keeps the others in their order.
LEMMA SplitsThinned ==
  ASSUME NEW c \in Seq(Message), NEW s \in Seq(Message), NEW M, Splits(c, s, M),
         NEW r \in Seq(Message), NEW at \in [DOMAIN r -> DOMAIN s], NEW D,
         \A i \in DOMAIN r : r[i] = s[at[i]],
         \A i, j \in DOMAIN r : i < j => at[i] < at[j],
         ToSet(r) \cup D = ToSet(s), ToSet(r) \cap D = {}
  PROVE  Splits(c, r, M \cup D)
<1>1. InOrder(c, s) /\ ToSet(s) \cap M = {} /\ ToSet(s) \cup M = ToSet(c)
  BY DEF Splits
<1>2. InOrder(c, r)
  <2>1. SUFFICES ASSUME NEW i \in DOMAIN r, NEW j \in DOMAIN r, i < j,
                        NEW k \in DOMAIN c, NEW l \in DOMAIN c, c[k] = r[i], c[l] = r[j]
                 PROVE  k < l
    BY DEF InOrder
  <2>2. /\ at[i] \in DOMAIN s /\ at[j] \in DOMAIN s /\ at[i] < at[j]
        /\ c[k] = s[at[i]] /\ c[l] = s[at[j]]
    BY <2>1
  <2>3. QED
    BY <1>1, <2>2 DEF InOrder
<1>3. ToSet(r) \cap (M \cup D) = {} /\ ToSet(r) \cup (M \cup D) = ToSet(c)
  BY <1>1
<1>4. QED
  BY <1>2, <1>3 DEF Splits

\* When all of b is lost, r is left.
LEMMA SplitsDropped ==
  ASSUME NEW c \in Seq(Message), NEW r \in Seq(Message), NEW b \in Seq(Message), NEW M,
         Splits(c, r \o b, M)
  PROVE  Splits(c, r \o <<>>, M \cup ToSet(b))
<1> DEFINE s == r \o b
           at == [i \in DOMAIN r |-> i]
<1>1. r \o <<>> = r
  BY ConcatEmptySeq
<1>2. /\ s \in Seq(Message) /\ Len(r) \in Nat /\ Len(b) \in Nat /\ DOMAIN s = 1 .. Len(r) + Len(b)
      /\ \A i \in 1 .. Len(r) + Len(b) : s[i] = IF i <= Len(r) THEN r[i] ELSE b[i - Len(r)]
      /\ ToSet(s) = ToSet(r) \cup ToSet(b) /\ DOMAIN r = 1 .. Len(r) /\ DOMAIN b = 1 .. Len(b)
  BY JoinedQueues, QueueDomain
<1>3. IsInjective(s)
  BY <1>2, OrderedOnce
<1> HIDE DEF s
<1>4. at \in [DOMAIN r -> DOMAIN s] /\ \A i \in DOMAIN r : r[i] = s[at[i]]
  BY <1>2
<1>5. \A i, j \in DOMAIN r : i < j => at[i] < at[j]
  OBVIOUS
<1>6. ToSet(r) \cap ToSet(b) = {}
  <2>1. SUFFICES ASSUME NEW i \in DOMAIN r, NEW j \in DOMAIN b, r[i] = b[j] PROVE FALSE
    BY DEF ToSet
  <2>2. /\ i \in DOMAIN s /\ j + Len(r) \in DOMAIN s /\ i # j + Len(r)
        /\ s[i] = r[i] /\ s[j + Len(r)] = b[j]
    BY <1>2
  <2>3. QED
    BY <1>3, <2>1, <2>2 DEF IsInjective
<1> HIDE DEF at
<1>7. Splits(c, r, M \cup ToSet(b))
  <2>1. Splits(c, s, M)
    BY DEF s
  <2>2. QED
    BY <1>2, <1>4, <1>5, <1>6, <2>1, SplitsThinned
<1>8. QED
  BY <1>1, <1>7

\* When the head of b is lost, the rest is left.
LEMMA SplitsBeheaded ==
  ASSUME NEW c \in Seq(Message), NEW r \in Seq(Message), NEW b \in Seq(Message), b # <<>>, NEW M,
         Splits(c, r \o b, M)
  PROVE  Splits(c, r \o Tail(b), M \cup {Head(b)})
<1> DEFINE s == r \o b
           q == r \o Tail(b)
           n == Len(r)
           at == [i \in DOMAIN q |-> IF i <= n THEN i ELSE i + 1]
<1>1. /\ Tail(b) \in Seq(Message) /\ Len(Tail(b)) = Len(b) - 1 /\ Len(b) \in Nat \ {0}
      /\ \A i \in 1 .. Len(b) - 1 : Tail(b)[i] = b[i + 1]
      /\ Head(b) = b[1]
  BY HeadTailProperties, EmptySeq
<1>2. /\ s \in Seq(Message) /\ n \in Nat /\ DOMAIN s = 1 .. n + Len(b)
      /\ \A i \in 1 .. n + Len(b) : s[i] = IF i <= n THEN r[i] ELSE b[i - n]
  BY JoinedQueues
<1>3. /\ q \in Seq(Message) /\ DOMAIN q = 1 .. n + (Len(b) - 1)
      /\ \A i \in DOMAIN q : q[i] = IF i <= n THEN r[i] ELSE b[(i - n) + 1]
  <2> DEFINE t == Tail(b)
  <2>1. /\ t \in Seq(Message) /\ Len(t) = Len(b) - 1
        /\ \A i \in 1 .. Len(b) - 1 : t[i] = b[i + 1]
    BY <1>1
  <2> HIDE DEF t
  <2>2. /\ r \o t \in Seq(Message) /\ n \in Nat /\ DOMAIN (r \o t) = 1 .. n + Len(t)
        /\ \A i \in 1 .. n + Len(t) : (r \o t)[i] = IF i <= n THEN r[i] ELSE t[i - n]
    BY <2>1, JoinedQueues
  <2>3. q = r \o t
    BY DEF t
  <2> HIDE DEF q, n
  <2>4. ASSUME NEW i \in DOMAIN q PROVE q[i] = IF i <= n THEN r[i] ELSE b[(i - n) + 1]
    <3>1. i \in 1 .. n + (Len(b) - 1) /\ Len(b) \in Nat
      BY <1>1, <2>1, <2>2, <2>3
    <3>2. ~(i <= n) => i - n \in 1 .. Len(b) - 1
      BY <2>2, <3>1
    <3>3. ~(i <= n) => t[i - n] = b[(i - n) + 1]
      BY <2>1, <3>2
    <3>4. QED
      BY <2>1, <2>2, <2>3, <3>1, <3>3
  <2>5. QED
    BY <2>1, <2>2, <2>3, <2>4
<1>4. IsInjective(s)
  BY <1>2, OrderedOnce
<1>5. Splits(c, s, M)
  OBVIOUS
<1> HIDE DEF s, q, n
<1>6. \A i \in DOMAIN q : at[i] \in DOMAIN s /\ at[i] # n + 1 /\ q[i] = s[at[i]]
  <2>1. SUFFICES ASSUME NEW i \in DOMAIN q PROVE at[i] \in DOMAIN s /\ at[i] # n + 1 /\ q[i] = s[at[i]]
    OBVIOUS
  <2>2. i \in 1 .. n + (Len(b) - 1) /\ at[i] = IF i <= n THEN i ELSE i + 1
    BY <1>3
  <2> HIDE DEF at
  <2>3. CASE i <= n
    <3>1. at[i] = i /\ i \in 1 .. n + Len(b) /\ i # n + 1
      BY <1>1, <1>2, <2>2, <2>3
    <3>2. s[i] = r[i] /\ q[i] = r[i]
      BY <1>2, <1>3, <2>3, <3>1
    <3>3. QED
      BY <1>2, <3>1, <3>2
  <2>4. CASE ~(i <= n)
    <3>1. i + 1 \in 1 .. n + Len(b) /\ ~(i + 1 <= n) /\ (i + 1) - n = (i - n) + 1 /\ i + 1 # n + 1
      BY <1>1, <1>2, <2>2, <2>4
    <3>2. s[i + 1] = b[(i + 1) - n]
      BY <1>2, <3>1
    <3>3. QED
      BY <1>2, <1>3, <2>2, <2>4, <3>1, <3>2
  <2>5. QED
    BY <2>3, <2>4
<1>7. at \in [DOMAIN q -> DOMAIN s] /\ \A i, j \in DOMAIN q : i < j => at[i] < at[j]
  BY <1>1, <1>2, <1>3, <1>6
<1>8. \A j \in DOMAIN s : j # n + 1 => \E i \in DOMAIN q : at[i] = j
  <2>1. SUFFICES ASSUME NEW j \in DOMAIN s, j # n + 1 PROVE \E i \in DOMAIN q : at[i] = j
    OBVIOUS
  <2>2. CASE j <= n
    <3>1. j \in DOMAIN q /\ at[j] = j
      BY <1>1, <1>2, <1>3, <2>2
    <3>2. QED
      BY <3>1
  <2>3. CASE ~(j <= n)
    <3>1. j - 1 \in DOMAIN q /\ ~(j - 1 <= n) /\ (j - 1) + 1 = j
      BY <1>1, <1>2, <1>3, <2>1, <2>3
    <3>2. at[j - 1] = (j - 1) + 1
      BY <3>1
    <3>3. QED
      BY <3>1, <3>2
  <2>4. QED
    BY <2>2, <2>3
<1>9. n + 1 \in DOMAIN s /\ s[n + 1] = Head(b)
  <2>1. n + 1 \in 1 .. n + Len(b) /\ ~(n + 1 <= n) /\ (n + 1) - n = 1
    BY <1>1, <1>2
  <2>2. s[n + 1] = b[(n + 1) - n]
    BY <1>2, <2>1
  <2>3. QED
    BY <1>1, <1>2, <2>1, <2>2
<1> HIDE DEF at
<1>10. ToSet(q) \cup {Head(b)} = ToSet(s)
  <2>1. ToSet(q) \cup {Head(b)} \subseteq ToSet(s)
    BY <1>6, <1>9 DEF ToSet
  <2>2. ASSUME NEW x \in ToSet(s), x # Head(b) PROVE x \in ToSet(q)
    <3>1. PICK j \in DOMAIN s : x = s[j]
      BY DEF ToSet
    <3>2. PICK i \in DOMAIN q : at[i] = j
      BY <1>8, <1>9, <2>2, <3>1
    <3>3. QED
      BY <1>6, <3>1, <3>2 DEF ToSet
  <2>3. QED
    BY <2>1, <2>2
<1>11. ToSet(q) \cap {Head(b)} = {}
  BY <1>4, <1>6, <1>9 DEF ToSet, IsInjective
<1>12. Splits(c, q, M \cup {Head(b)})
  <2> DEFINE D == {Head(b)}
  <2>1. ToSet(q) \cup D = ToSet(s) /\ ToSet(q) \cap D = {}
    BY <1>10, <1>11
  <2>2. \A i \in DOMAIN q : q[i] = s[at[i]]
    BY <1>6
  <2> HIDE DEF D
  <2>3. Splits(c, q, M \cup D)
    BY <1>2, <1>3, <1>5, <1>7, <2>1, <2>2, SplitsThinned
  <2>4. QED
    BY <2>3 DEF D
<1>13. QED
  BY <1>12 DEF q

\* Passing on the head of b does not change what has been seen.
LEMMA HeadPassed ==
  ASSUME NEW r \in Seq(Message), NEW b \in Seq(Message), b # <<>>
  PROVE  Append(r, Head(b)) \o Tail(b) = r \o b
<1>1. /\ Tail(b) \in Seq(Message) /\ Len(Tail(b)) = Len(b) - 1 /\ Len(b) \in Nat \ {0} /\ Head(b) \in Message
      /\ \A i \in 1 .. Len(b) - 1 : Tail(b)[i] = b[i + 1]
      /\ Head(b) = b[1]
  BY HeadTailProperties, EmptySeq
<1> DEFINE q == Append(r, Head(b))
           x == q \o Tail(b)
           y == r \o b
<1>2. /\ q \in Seq(Message) /\ Len(q) = Len(r) + 1 /\ Len(r) \in Nat /\ q[Len(r) + 1] = Head(b)
      /\ \A i \in 1 .. Len(r) : q[i] = r[i]
  BY <1>1, AppendProperties, QueueDomain
<1>3. /\ y \in Seq(Message) /\ Len(y) = Len(r) + Len(b)
      /\ \A i \in 1 .. Len(r) + Len(b) : y[i] = IF i <= Len(r) THEN r[i] ELSE b[i - Len(r)]
  BY ConcatProperties
<1> HIDE DEF q, y
<1>4. /\ x \in Seq(Message) /\ Len(x) = Len(q) + Len(Tail(b))
      /\ \A i \in 1 .. Len(q) + Len(Tail(b)) : x[i] = IF i <= Len(q) THEN q[i] ELSE Tail(b)[i - Len(q)]
  <2> DEFINE t == Tail(b)
  <2>1. t \in Seq(Message) /\ x = q \o t
    BY <1>1
  <2> HIDE DEF t, x
  <2>2. /\ q \o t \in Seq(Message) /\ Len(q \o t) = Len(q) + Len(t)
        /\ \A i \in 1 .. Len(q) + Len(t) : (q \o t)[i] = IF i <= Len(q) THEN q[i] ELSE t[i - Len(q)]
    BY <1>2, <2>1, ConcatProperties
  <2>3. QED
    BY <2>1, <2>2 DEF t
<1> HIDE DEF x
<1>5. Len(x) = Len(y) /\ \A i \in 1 .. Len(x) : x[i] = y[i]
  <2>1. Len(x) = Len(r) + Len(b) /\ Len(x) = Len(y)
    BY <1>1, <1>2, <1>3, <1>4
  <2>2. SUFFICES ASSUME NEW i \in 1 .. Len(r) + Len(b) PROVE x[i] = y[i]
    BY <2>1
  <2>3. CASE i <= Len(r)
    <3>1. i \in 1 .. Len(r) /\ i <= Len(q) /\ i \in 1 .. Len(q) + Len(Tail(b))
      BY <1>1, <1>2, <2>3
    <3>2. x[i] = q[i]
      BY <1>4, <3>1
    <3>3. y[i] = r[i]
      BY <1>3, <2>3
    <3>4. QED
      BY <1>2, <3>1, <3>2, <3>3
  <2>4. CASE i = Len(r) + 1
    <3>1. ~(i <= Len(r)) /\ i - Len(r) = 1 /\ i <= Len(q) /\ i \in 1 .. Len(q) + Len(Tail(b))
      BY <1>1, <1>2, <2>4
    <3>2. y[i] = b[i - Len(r)]
      BY <1>3, <3>1
    <3>3. x[i] = q[i]
      BY <1>4, <3>1
    <3>4. QED
      BY <1>1, <1>2, <2>4, <3>1, <3>2, <3>3
  <2>5. CASE i > Len(r) + 1
    <3> DEFINE k == i - Len(r)
    <3>1. k \in 1 .. Len(b) /\ k > 1 /\ i - Len(q) = k - 1
      BY <1>1, <1>2, <2>5
    <3>2. y[i] = b[k]
      BY <1>1, <1>2, <1>3, <2>5
    <3>3. x[i] = Tail(b)[k - 1]
      <4>1. i \in 1 .. Len(q) + Len(Tail(b)) /\ ~(i <= Len(q))
        BY <1>1, <1>2, <2>5
      <4>2. x[i] = Tail(b)[i - Len(q)]
        BY <1>4, <4>1
      <4>3. QED
        BY <3>1, <4>2
    <3> HIDE DEF k
    <3>4. Tail(b)[k - 1] = b[(k - 1) + 1] /\ (k - 1) + 1 = k
      BY <1>1, <3>1
    <3>5. QED
      BY <3>2, <3>3, <3>4
  <2>6. i \in Int /\ Len(r) \in Int
    BY <1>1, <1>2
  <2>7. QED
    BY <2>3, <2>4, <2>5, <2>6
<1>6. x = y
  BY <1>3, <1>4, <1>5, SeqEqual
<1>7. QED
  BY <1>6 DEF x, y, q

-----------------------------------------------------------------------------
(* What every process sees *)

\* Every published message is of a run of the bridge that has ended.
Known(m)     == /\ m.life <= life
                /\ m.life = life => m.run <= ended[m.type]["bridge"] /\ m.run >= 1
ChannelKnown == \A m \in ToSet(channel) : Known(m)

SeenInv == /\ IsInjective(channel) /\ ChannelKnown
           /\ \A p \in Procs : Splits(channel, routed[p] \o buffer[p], missed[p])

\* The next message is a new one.
LEMMA PublishedNew ==
  ASSUME DeliveryTypeOK, ChannelKnown, NEW t \in Types
  PROVE  Published(t) \notin ToSet(channel)
<1> DEFINE m == Published(t)
<1>1. m.life = life /\ m.type = t /\ m.run = ended[t]["bridge"] + 1 /\ m.run \in Nat
  BY PublishedTyped DEF Message
<1>2. ended[t]["bridge"] \in Nat
  <2>1. ended[t] \in [Handlers -> Nat] /\ "bridge" \in Handlers
    BY EventDeliveryAssumption DEF DeliveryTypeOK, BusTypeOK
  <2>2. QED
    BY <2>1
<1> HIDE DEF m
<1>3. ~Known(m)
  BY <1>1, <1>2 DEF Known
<1>4. QED
  BY <1>3 DEF ChannelKnown, m

\* A run of the bridge that publishes: everyone who listens gets the message, the others
\* have missed it.
LEMMA PublishSeen ==
  ASSUME DeliveryTypeOK, SeenInv, NEW t \in Types, Publish(t), life' = life, routed' = routed,
         ended' = [ended EXCEPT ![t]["bridge"] = @ + 1]
  PROVE  SeenInv'
<1> DEFINE m == Published(t)
<1>1. /\ channel' = Append(channel, m)
      /\ buffer' = [p \in Procs |-> IF link[p] = "listening" THEN Append(buffer[p], m) ELSE buffer[p]]
      /\ missed' = [p \in Procs |-> IF link[p] = "listening" THEN missed[p] ELSE missed[p] \cup {m}]
  BY DEF Publish, Published
<1>2. m \in Message /\ m.life = life /\ m.type = t /\ m.run = ended[t]["bridge"] + 1 /\ m \notin ToSet(channel)
  BY PublishedTyped, PublishedNew DEF SeenInv
<1>3. channel \in Seq(Message) /\ life \in Nat
  BY DEF DeliveryTypeOK
<1>4. /\ ended \in [Types -> [Handlers -> Nat]] /\ "bridge" \in Handlers
      /\ \A u \in Types : ended[u]["bridge"] \in Nat
      /\ ended'[t]["bridge"] = ended[t]["bridge"] + 1
      /\ \A u \in Types : ended'[u]["bridge"] >= ended[u]["bridge"] /\ ended'[u]["bridge"] \in Nat
  <2>1. ended \in [Types -> [Handlers -> Nat]] /\ "bridge" \in Handlers
    BY EventDeliveryAssumption DEF DeliveryTypeOK, BusTypeOK
  <2>2. \A u \in Types : ended[u]["bridge"] \in Nat /\ ended'[u]["bridge"] = IF u = t THEN ended[u]["bridge"] + 1 ELSE ended[u]["bridge"]
    BY <2>1
  <2>3. QED
    BY <2>1, <2>2
<1> HIDE DEF m
<1>5. IsInjective(channel')
  <2>1. /\ DOMAIN channel = 1 .. Len(channel) /\ DOMAIN channel' = 1 .. Len(channel) + 1 /\ Len(channel) \in Nat
        /\ channel'[Len(channel) + 1] = m /\ \A i \in 1 .. Len(channel) : channel'[i] = channel[i]
    BY <1>1, <1>2, <1>3, Grown
  <2>2. \A i \in DOMAIN channel : channel[i] # m
    BY <1>2 DEF ToSet
  <2>3. QED
    BY <2>1, <2>2 DEF SeenInv, IsInjective
<1>6. ChannelKnown'
  <2>1. ToSet(channel') = ToSet(channel) \cup {m} /\ ToSet(channel) \in SUBSET Message
    BY <1>1, <1>2, <1>3, Grown, ToSetTyped
  <2>2. SUFFICES ASSUME NEW x \in ToSet(channel')
                 PROVE  /\ x.life <= life'
                        /\ x.life = life' => x.run <= ended'[x.type]["bridge"] /\ x.run >= 1
    BY DEF ChannelKnown, Known
  <2>3. CASE x = m
    BY <1>2, <1>3, <1>4, <2>3
  <2>4. CASE x # m
    <3>1. x \in ToSet(channel) /\ Known(x) /\ x \in Message
      BY <2>1, <2>2, <2>4 DEF SeenInv, ChannelKnown
    <3>2. x.type \in Types /\ x.run \in Nat
      BY <3>1 DEF Message
    <3>3. ended'[x.type]["bridge"] >= ended[x.type]["bridge"]
          /\ ended[x.type]["bridge"] \in Nat /\ ended'[x.type]["bridge"] \in Nat
      BY <1>4, <3>2
    <3>4. QED
      BY <3>1, <3>2, <3>3 DEF Known
  <2>5. QED
    BY <2>3, <2>4
<1>7. \A p \in Procs : Splits(channel', routed'[p] \o buffer'[p], missed'[p])
  <2>1. SUFFICES ASSUME NEW p \in Procs PROVE Splits(channel', routed'[p] \o buffer'[p], missed'[p])
    OBVIOUS
  <2> DEFINE r == routed[p]
             b == buffer[p]
             M == missed[p]
  <2>2. r \in Seq(Message) /\ b \in Seq(Message) /\ r \o b \in Seq(Message)
    BY JoinedQueues DEF DeliveryTypeOK
  <2>3. Splits(channel, r \o b, M)
    BY DEF SeenInv
  <2>4. CASE link[p] = "listening"
    <3>1. routed'[p] = r /\ buffer'[p] = Append(b, m) /\ missed'[p] = M
      BY <1>1, <2>4
    <3> HIDE DEF r, b, M
    <3>2. r \o Append(b, m) = Append(r \o b, m)
      <4>1. <<m>> \in Seq(Message) /\ Append(b, m) = b \o <<m>> /\ Append(r \o b, m) = (r \o b) \o <<m>>
        BY <1>2, <2>2, AppendIsConcat
      <4>2. QED
        BY <2>2, <4>1, ConcatAssociative
    <3>3. Splits(Append(channel, m), Append(r \o b, m), M)
      BY <1>2, <1>3, <2>2, <2>3, SplitsGrown
    <3>4. QED
      BY <1>1, <3>1, <3>2, <3>3
  <2>5. CASE link[p] # "listening"
    <3>1. routed'[p] = r /\ buffer'[p] = b /\ missed'[p] = M \cup {m}
      BY <1>1, <2>5
    <3> HIDE DEF r, b, M
    <3>2. Splits(Append(channel, m), r \o b, M \cup {m})
      BY <1>2, <1>3, <2>2, <2>3, SplitsMissed
    <3>3. QED
      BY <1>1, <3>1, <3>2
  <2>6. QED
    BY <2>4, <2>5
<1>8. QED
  BY <1>5, <1>6, <1>7 DEF SeenInv

\* While nothing is published, what has been stays known.
LEMMA ChannelStaysKnown ==
  ASSUME DeliveryTypeOK, ChannelKnown, channel' = channel,
         \/ life' = life /\ \A u \in Types : ended'[u]["bridge"] \in Nat /\ ended'[u]["bridge"] >= ended[u]["bridge"]
         \/ life' = life + 1
  PROVE  ChannelKnown'
<1>1. SUFFICES ASSUME NEW x \in ToSet(channel)
               PROVE  /\ x.life <= life'
                      /\ x.life = life' => x.run <= ended'[x.type]["bridge"] /\ x.run >= 1
  BY DEF ChannelKnown, Known
<1>2. channel \in Seq(Message) /\ life \in Nat
  BY DEF DeliveryTypeOK
<1>3. x \in Message /\ Known(x)
  BY <1>2, ToSetTyped DEF ChannelKnown
<1>4. x.type \in Types /\ x.run \in Nat /\ x.life \in Nat
  BY <1>3 DEF Message
<1>5. ended[x.type]["bridge"] \in Nat
  <2>1. ended[x.type] \in [Handlers -> Nat] /\ "bridge" \in Handlers
    BY <1>4, EventDeliveryAssumption DEF DeliveryTypeOK, BusTypeOK
  <2>2. QED
    BY <2>1
<1>6. CASE life' = life + 1
  BY <1>2, <1>3, <1>4, <1>6 DEF Known
<1>7. CASE life' # life + 1
  <2>1. life' = life /\ ended'[x.type]["bridge"] \in Nat /\ ended'[x.type]["bridge"] >= ended[x.type]["bridge"]
    BY <1>4, <1>7
  <2>2. QED
    BY <1>2, <1>3, <1>4, <1>5, <2>1 DEF Known
<1>8. QED
  BY <1>6, <1>7

\* No step lets a process see a message twice, out of order, or not account for it.
LEMMA SeenStep ==
  ASSUME BusInv, DeliveryTypeOK, SeenInv, [DeliveryNext]_allVars
  PROVE  SeenInv'
<1>1. /\ channel \in Seq(Message) /\ buffer \in [Procs -> Seq(Message)] /\ routed \in [Procs -> Seq(Message)]
      /\ missed \in [Procs -> SUBSET Message]
      /\ \A p \in Procs : Splits(channel, routed[p] \o buffer[p], missed[p])
  BY DEF DeliveryTypeOK, SeenInv
<1>2. /\ ended \in [Types -> [Handlers -> Nat]] /\ "bridge" \in Handlers
      /\ \A u \in Types : ended[u]["bridge"] \in Nat
  <2>1. ended \in [Types -> [Handlers -> Nat]] /\ "bridge" \in Handlers
    BY EventDeliveryAssumption DEF DeliveryTypeOK, BusTypeOK
  <2>2. QED
    BY <2>1
<1>3. ASSUME channel' = channel, ChannelKnown',
             \A p \in Procs : Splits(channel, routed'[p] \o buffer'[p], missed'[p])
      PROVE  SeenInv'
  BY <1>3 DEF SeenInv
<1>4. ASSUME UNCHANGED <<channel, life, ended>> PROVE ChannelKnown'
  <2>1. \A u \in Types : ended'[u]["bridge"] \in Nat /\ ended'[u]["bridge"] >= ended[u]["bridge"]
    BY <1>2, <1>4
  <2>2. QED
    BY <1>4, <2>1, ChannelStaysKnown DEF SeenInv
<1>5. ASSUME UNCHANGED <<channel, life, ended, buffer, routed, missed>> PROVE SeenInv'
  BY <1>1, <1>3, <1>4, <1>5
<1>6. ASSUME NEW e \in Emitters, (\E t \in Types : EmitEvent(e, t)) \/ EmitEnds(e) PROVE SeenInv'
  BY <1>5, <1>6 DEF EmitEvent, EmitEnds, delivery, Emit, Return
<1>7. ASSUME NEW e \in Emitters, NEW h \in Handlers, Returns(e, h) \/ Raises(e, h) PROVE SeenInv'
  <2> PICK u \in Types : u = emission[e].type
    BY <1>7, CallOn DEF DeliveryTypeOK, Returns, Raises, HandlerReturns, HandlerRaises, Running, Calls
  <2>1. ended' = [ended EXCEPT ![u][h] = @ + 1] /\ life' = life /\ routed' = routed
    BY <1>7 DEF Returns, Raises, HandlerReturns, HandlerRaises
  <2>2. \/ h = "bridge" /\ Publish(u)
        \/ UNCHANGED <<channel, buffer, missed>>
    BY <1>7 DEF Returns, Raises, Write, NoEffect
  <2>3. CASE h = "bridge" /\ Publish(u)
    BY <2>1, <2>3, PublishSeen
  <2>4. CASE UNCHANGED <<channel, buffer, missed>>
    <3>1. \A x \in Types : ended'[x]["bridge"] \in Nat /\ ended'[x]["bridge"] >= ended[x]["bridge"]
      <4>1. \A x \in Types : ended'[x]["bridge"] = IF x = u /\ h = "bridge" THEN ended[x]["bridge"] + 1 ELSE ended[x]["bridge"]
        BY <1>2, <2>1
      <4>2. QED
        BY <1>2, <4>1
    <3>2. ChannelKnown'
      BY <2>1, <2>4, <3>1, ChannelStaysKnown DEF SeenInv
    <3>3. QED
      BY <1>1, <1>3, <2>1, <2>4, <3>2
  <2>5. QED
    BY <2>2, <2>3, <2>4
<1>8. ASSUME NEW p \in Procs, Subscribe(p) \/ Retry(p) \/ ProcessStarts(p) PROVE SeenInv'
  BY <1>5, <1>8 DEF Subscribe, Retry, ProcessStarts, LoopOnly, busVars
<1>9. ASSUME NEW p \in Procs, RouteMessage(p) PROVE SeenInv'
  <2>1. /\ UNCHANGED <<channel, life, ended, missed>> /\ buffer[p] # <<>>
        /\ buffer' = [buffer EXCEPT ![p] = Tail(@)]
        /\ routed' = [routed EXCEPT ![p] = Append(@, Head(buffer[p]))]
    BY <1>9 DEF RouteMessage, LoopOnly, busVars
  <2>2. routed'[p] \o buffer'[p] = routed[p] \o buffer[p]
    BY <1>1, <2>1, HeadPassed
  <2>3. \A x \in Procs \ {p} : routed'[x] = routed[x] /\ buffer'[x] = buffer[x]
    BY <1>1, <2>1
  <2>4. \A x \in Procs : routed'[x] \o buffer'[x] = routed[x] \o buffer[x]
    BY <2>2, <2>3
  <2>5. \A x \in Procs : Splits(channel, routed'[x] \o buffer'[x], missed'[x])
    BY <1>1, <2>1, <2>4
  <2>6. QED
    BY <1>3, <1>4, <2>1, <2>5
<1>10. ASSUME NEW p \in Procs, RouteFails(p) PROVE SeenInv'
  <2>1. /\ UNCHANGED <<channel, life, ended, routed>> /\ buffer[p] # <<>>
        /\ buffer' = [buffer EXCEPT ![p] = Tail(@)]
        /\ missed' = [missed EXCEPT ![p] = @ \cup {Head(buffer[p])}]
    BY <1>10 DEF RouteFails, LoopOnly, busVars
  <2>2. buffer'[p] = Tail(buffer[p]) /\ missed'[p] = missed[p] \cup {Head(buffer[p])}
    BY <1>1, <2>1
  <2>3. Splits(channel, routed[p] \o Tail(buffer[p]), missed[p] \cup {Head(buffer[p])})
    BY <1>1, <2>1, SplitsBeheaded
  <2>4. \A x \in Procs \ {p} : missed'[x] = missed[x] /\ buffer'[x] = buffer[x]
    BY <1>1, <2>1
  <2>5. \A x \in Procs : Splits(channel, routed'[x] \o buffer'[x], missed'[x])
    BY <1>1, <2>1, <2>2, <2>3, <2>4
  <2>6. QED
    BY <1>3, <1>4, <2>1, <2>5
<1>11. ASSUME NEW p \in Procs, Disconnects(p) \/ ProcessEnds(p) PROVE SeenInv'
  <2>1. /\ UNCHANGED <<channel, routed>>
        /\ buffer' = [buffer EXCEPT ![p] = <<>>]
        /\ missed' = [missed EXCEPT ![p] = @ \cup ToSet(buffer[p])]
    BY <1>11 DEF Disconnects, ProcessEnds, LoopOnly
  <2>2. buffer'[p] = <<>> /\ missed'[p] = missed[p] \cup ToSet(buffer[p])
    BY <1>1, <2>1
  <2>3. Splits(channel, routed[p] \o <<>>, missed[p] \cup ToSet(buffer[p]))
    BY <1>1, SplitsDropped
  <2>4. \A x \in Procs \ {p} : missed'[x] = missed[x] /\ buffer'[x] = buffer[x]
    BY <1>1, <2>1
  <2>5. \A x \in Procs : Splits(channel, routed'[x] \o buffer'[x], missed'[x])
    BY <1>1, <2>1, <2>2, <2>3, <2>4
  <2>6. UNCHANGED <<life, ended>> \/ life' = life + 1
    BY <1>11 DEF Disconnects, ProcessEnds, LoopOnly, busVars
  <2>7. ChannelKnown'
    <3>1. CASE UNCHANGED <<life, ended>>
      BY <1>4, <2>1, <3>1
    <3>2. CASE life' = life + 1
      BY <2>1, <3>2, ChannelStaysKnown DEF SeenInv
    <3>3. QED
      BY <2>6, <3>1, <3>2
  <2>8. QED
    BY <1>3, <2>1, <2>5, <2>7
<1>12. ASSUME UNCHANGED allVars PROVE SeenInv'
  BY <1>5, <1>12 DEF allVars, busVars, delivery
<1>13. QED
  BY <1>6, <1>7, <1>8, <1>9, <1>10, <1>11, <1>12 DEF DeliveryNext, BusStep, LoopStep

\* Messages of one type and one life of the process differ in their run.
LEMMA RunsBoundMessages ==
  ASSUME DeliveryTypeOK, ChannelKnown, NEW t \in Types
  PROVE  Cardinality({m \in ToSet(channel) : m.life = life /\ m.type = t}) <= ended[t]["bridge"]
<1> DEFINE mine == {m \in ToSet(channel) : m.life = life /\ m.type = t}
           n == ended[t]["bridge"]
           f == [m \in mine |-> m.run]
<1>1. n \in Nat
  <2>1. ended[t] \in [Handlers -> Nat] /\ "bridge" \in Handlers
    BY EventDeliveryAssumption DEF DeliveryTypeOK, BusTypeOK
  <2>2. QED
    BY <2>1
<1>2. \A m \in mine : m \in Message /\ m.life = life /\ m.type = t /\ m.run \in Nat /\ m.run >= 1 /\ m.run <= n
  <2>1. ToSet(channel) \in SUBSET Message
    BY ToSetTyped DEF DeliveryTypeOK
  <2>2. SUFFICES ASSUME NEW m \in mine
                 PROVE  m \in Message /\ m.life = life /\ m.type = t /\ m.run \in Nat /\ m.run >= 1 /\ m.run <= n
    OBVIOUS
  <2>3. m \in Message /\ m.life = life /\ m.type = t /\ Known(m)
    BY <2>1 DEF ChannelKnown
  <2>4. QED
    BY <2>3 DEF Known, Message
<1>3. \A m1, m2 \in mine : m1.run = m2.run => m1 = m2
  BY <1>2 DEF Message
<1> HIDE DEF mine, n
<1>4. f \in Injection(mine, 1 .. n)
  <2>1. f \in [mine -> 1 .. n]
    BY <1>1, <1>2
  <2>2. IsInjective(f)
    BY <1>3 DEF IsInjective
  <2>3. QED
    BY <2>1, <2>2 DEF Injection
<1>5. IsFiniteSet(1 .. n) /\ Cardinality(1 .. n) = n
  BY <1>1, FS_Interval
<1> HIDE DEF f
<1>6. Cardinality(mine) <= n
  BY <1>4, <1>5, FS_Injection
<1>7. QED
  BY <1>6 DEF mine, n

\* What every process sees is what OncePerProcess says.
LEMMA SeenOnce == DeliveryTypeOK /\ SeenInv => OncePerProcess
<1> SUFFICES ASSUME DeliveryTypeOK, SeenInv PROVE OncePerProcess
  OBVIOUS
<1>1. IsInjective(channel)
  BY DEF SeenInv
<1>2. \A t \in Types : Cardinality({m \in ToSet(channel) : m.life = life /\ m.type = t}) <= ended[t]["bridge"]
  BY RunsBoundMessages DEF SeenInv
<1>3. ASSUME NEW p \in Procs
      PROVE  LET view == routed[p] \o buffer[p] IN
             /\ IsInjective(view)
             /\ \A i, j \in DOMAIN view : i < j =>
                  (CHOOSE k \in DOMAIN channel : channel[k] = view[i])
                    < (CHOOSE k \in DOMAIN channel : channel[k] = view[j])
             /\ ToSet(view) \cap missed[p] = {}
             /\ ToSet(view) \cup missed[p] = ToSet(channel)
  <2> DEFINE view == routed[p] \o buffer[p]
  <2>1. view \in Seq(Message) /\ channel \in Seq(Message)
    BY JoinedQueues DEF DeliveryTypeOK
  <2>2. Splits(channel, view, missed[p])
    BY DEF SeenInv
  <2> HIDE DEF view
  <2>3. IsInjective(view)
    BY <2>1, <2>2, OrderedOnce
  <2>4. \A i, j \in DOMAIN view : i < j =>
          (CHOOSE k \in DOMAIN channel : channel[k] = view[i]) < (CHOOSE k \in DOMAIN channel : channel[k] = view[j])
    BY <2>1, <2>2, OrderedPlaces
  <2>5. ToSet(view) \cap missed[p] = {} /\ ToSet(view) \cup missed[p] = ToSet(channel)
    BY <2>2 DEF Splits
  <2>6. QED
    BY <2>3, <2>4, <2>5 DEF view
<1>4. QED
  BY <1>1, <1>2, <1>3 DEF OncePerProcess

-----------------------------------------------------------------------------
(* The delivery *)

DeliveryInv == BusInv /\ DeliveryTypeOK /\ RowsMatchRuns /\ SeenInv

\* At the start there is nothing to account for.
LEMMA DeliveryStarts == DeliveryInit => DeliveryInv
<1> SUFFICES ASSUME DeliveryInit PROVE DeliveryInv
  OBVIOUS
<1>1. BusInv
  BY BusStarts DEF DeliveryInit
<1>2. DeliveryTypeOK
  <2>1. 1 \in BackoffDelays /\ 0 \in 0 .. MaxFaults /\ <<>> \in Seq(Message)
    BY EventDeliveryAssumption DEF BackoffDelays
  <2>2. BusTypeOK
    BY <1>1 DEF BusInv
  <2>3. RowsTyped /\ QueueTyped /\ LoopTyped
    BY <2>1 DEF DeliveryInit, RowsTyped, QueueTyped, LoopTyped
  <2>4. QED
    BY <2>2, <2>3, TypesInParts
<1>3. RowsMatchRuns
  <2>1. \A t \in Types, h \in Handlers : ended[t][h] = 0 /\ raised[t][h] = 0 /\ written[t][h] = 0
    BY DEF DeliveryInit, BusInit
  <2>2. \A t \in Types : \A h \in Subscribed[t] \cap {"audit", "notify"} :
          ended[t][h] = 0 /\ raised[t][h] = 0 /\ written[t][h] = 0
    BY <2>1, EventBusAssumption
  <2>3. QED
    BY <2>2 DEF RowsMatchRuns
<1>4. SeenInv
  <2>1. channel = <<>> /\ \A p \in Procs : routed[p] = <<>> /\ buffer[p] = <<>> /\ missed[p] = {}
    BY DEF DeliveryInit
  <2>2. <<>> \o <<>> = <<>> /\ <<>> \in Seq(Message)
    BY ConcatEmptySeq
  <2>3. DOMAIN <<>> = {}
    OBVIOUS
  <2>4. ToSet(<<>>) = {} /\ IsInjective(<<>>) /\ Splits(<<>>, <<>>, {})
    BY <2>3 DEF ToSet, IsInjective, Splits, InOrder
  <2>5. ChannelKnown
    BY <2>1, <2>4 DEF ChannelKnown
  <2>6. QED
    BY <2>1, <2>2, <2>4, <2>5 DEF SeenInv
<1>5. QED
  BY <1>1, <1>2, <1>3, <1>4 DEF DeliveryInv

\* The invariant is inductive.
LEMMA DeliveryInvStep == DeliveryInv /\ [DeliveryNext]_allVars => DeliveryInv'
<1> SUFFICES ASSUME DeliveryInv, [DeliveryNext]_allVars PROVE DeliveryInv'
  OBVIOUS
<1>1. BusInv /\ DeliveryTypeOK /\ RowsMatchRuns /\ SeenInv
  BY DEF DeliveryInv
<1>2. BusInv' /\ DeliveryTypeOK' /\ RowsMatchRuns' /\ SeenInv'
  BY <1>1, BusStepped, DeliveryTypeStep, RowsStep, SeenStep
<1>3. QED
  BY <1>2 DEF DeliveryInv

\* For every number of processes, handlers and concurrent calls of emit: bus, rows, loops
\* and queues have their types (src/app/core/events.py, src/app/websocket/broadcaster.py).
THEOREM DeliveryTyped == DeliverySpec => []DeliveryTypeOK
<1>1. DeliveryInv => DeliveryTypeOK
  BY DEF DeliveryInv
<1>2. QED
  BY DeliveryStarts, DeliveryInvStep, <1>1, PTL DEF DeliverySpec

\* For every number of handlers and concurrent calls of emit, and however often the
\* process ends: every subscribed handler runs once for every call, every exception is
\* counted once, and every run that returned has committed its row (EventBus.emit, the
\* handlers of audit and notifications).
THEOREM DeliveryHandlersAccounted == DeliverySpec => []HandlersAccounted
<1>1. DeliveryInv => HandlersAccounted
  BY DEF DeliveryInv, BusInv, HandlersAccounted
<1>2. QED
  BY DeliveryStarts, DeliveryInvStep, <1>1, PTL DEF DeliverySpec

\* For every number of processes, and whatever connections, routes and processes fail:
\* each process passes a message on at most once and in the order of publication, or has
\* missed it (publish_event, redis_subscriber_loop).
THEOREM DeliveryOncePerProcess == DeliverySpec => []OncePerProcess
<1>1. DeliveryInv => OncePerProcess
  BY SeenOnce DEF DeliveryInv
<1>2. QED
  BY DeliveryStarts, DeliveryInvStep, <1>1, PTL DEF DeliverySpec

-----------------------------------------------------------------------------
(* The mailbox *)

\* What waits for a process is in its buffer, the oldest message first.
LEMMA HeadIsOldest ==
  ASSUME NEW c \in Seq(Message), NEW r \in Seq(Message), NEW b \in Seq(Message), NEW M,
         Splits(c, r \o b, M), IsInjective(c)
  PROVE  /\ ToSet(c) \ (ToSet(r) \cup M) = ToSet(b)
         /\ b # <<>> => /\ Head(b) \in ToSet(b)
                        /\ \A i, j \in DOMAIN c : c[i] = Head(b) /\ c[j] \in ToSet(b) => i <= j
<1> DEFINE s == r \o b
<1>1. /\ s \in Seq(Message) /\ Len(r) \in Nat /\ Len(b) \in Nat
      /\ DOMAIN s = 1 .. Len(r) + Len(b) /\ ToSet(s) = ToSet(r) \cup ToSet(b)
      /\ \A i \in 1 .. Len(r) + Len(b) : s[i] = IF i <= Len(r) THEN r[i] ELSE b[i - Len(r)]
  BY JoinedQueues
<1>2. Splits(c, s, M)
  OBVIOUS
<1> HIDE DEF s
<1>3. IsInjective(s)
  BY <1>1, <1>2, OrderedOnce
<1>4. /\ ToSet(b) = {b[i] : i \in 1 .. Len(b)} /\ ToSet(r) = {r[i] : i \in 1 .. Len(r)}
      /\ DOMAIN c = 1 .. Len(c) /\ Len(c) \in Nat
  BY QueueDomain
<1>5. \A i \in 1 .. Len(b) : i + Len(r) \in DOMAIN s /\ s[i + Len(r)] = b[i]
  <2>1. SUFFICES ASSUME NEW i \in 1 .. Len(b) PROVE i + Len(r) \in DOMAIN s /\ s[i + Len(r)] = b[i]
    OBVIOUS
  <2>2. i + Len(r) \in 1 .. Len(r) + Len(b) /\ ~(i + Len(r) <= Len(r)) /\ (i + Len(r)) - Len(r) = i
    BY <1>1
  <2>3. QED
    BY <1>1, <2>2
<1>6. \A i \in 1 .. Len(r) : i \in DOMAIN s /\ s[i] = r[i]
  <2>1. SUFFICES ASSUME NEW i \in 1 .. Len(r) PROVE i \in DOMAIN s /\ s[i] = r[i]
    OBVIOUS
  <2>2. i \in 1 .. Len(r) + Len(b) /\ i <= Len(r)
    BY <1>1
  <2>3. QED
    BY <1>1, <2>2
<1>7. ToSet(b) \cap ToSet(r) = {}
  <2>1. SUFFICES ASSUME NEW i \in 1 .. Len(b), NEW j \in 1 .. Len(r), b[i] = r[j] PROVE FALSE
    BY <1>4
  <2>2. i + Len(r) \in DOMAIN s /\ j \in DOMAIN s /\ s[i + Len(r)] = s[j]
    BY <1>5, <1>6, <2>1
  <2>3. i + Len(r) # j
    BY <1>1
  <2>4. QED
    BY <1>3, <2>2, <2>3 DEF IsInjective
<1>8. ToSet(c) \ (ToSet(r) \cup M) = ToSet(b)
  BY <1>1, <1>2, <1>7 DEF Splits
<1>9. ASSUME b # <<>>
      PROVE  /\ Head(b) \in ToSet(b)
             /\ \A i, j \in DOMAIN c : c[i] = Head(b) /\ c[j] \in ToSet(b) => i <= j
  <2>1. Head(b) = b[1] /\ 1 \in 1 .. Len(b)
    BY <1>1, <1>9, EmptySeq, HeadTailProperties
  <2>2. Head(b) \in ToSet(b)
    BY <1>4, <2>1
  <2>3. ASSUME NEW i \in DOMAIN c, NEW j \in DOMAIN c, c[i] = Head(b), c[j] \in ToSet(b)
        PROVE  i <= j
    <3>1. PICK k \in 1 .. Len(b) : c[j] = b[k]
      BY <1>4, <2>3
    <3>2. i \in Int /\ j \in Int /\ k \in Int
      BY <1>4
    <3>3. CASE k = 1
      <4>1. c[i] = c[j]
        BY <2>1, <2>3, <3>1, <3>3
      <4>2. i = j
        BY <2>3, <4>1 DEF IsInjective
      <4>3. QED
        BY <3>2, <4>2
    <3>4. CASE k # 1
      <4>1. 1 + Len(r) < k + Len(r)
        BY <1>1, <3>2, <3>4
      <4>2. /\ 1 + Len(r) \in DOMAIN s /\ s[1 + Len(r)] = b[1]
            /\ k + Len(r) \in DOMAIN s /\ s[k + Len(r)] = b[k]
        BY <1>5, <2>1
      <4>3. c[i] = s[1 + Len(r)] /\ c[j] = s[k + Len(r)]
        BY <2>1, <2>3, <3>1, <4>2
      <4>4. i < j
        BY <1>2, <4>1, <4>2, <4>3 DEF Splits, InOrder
      <4>5. QED
        BY <3>2, <4>4
    <3>5. QED
      BY <3>3, <3>4
  <2>4. QED
    BY <2>2, <2>3
<1>10. QED
  BY <1>8, <1>9

\* What a process has not been given and has not lost is in its buffer.
LEMMA WaitingIsBuffered ==
  ASSUME DeliveryTypeOK, SeenInv, NEW p \in Procs
  PROVE  /\ MB!Waiting(p) = ToSet(buffer[p])
         /\ buffer[p] # <<>> =>
              /\ Head(buffer[p]) \in MB!Waiting(p)
              /\ \A i, j \in DOMAIN channel :
                   channel[i] = Head(buffer[p]) /\ channel[j] \in MB!Waiting(p) => i <= j
<1>1. channel \in Seq(Message) /\ routed[p] \in Seq(Message) /\ buffer[p] \in Seq(Message)
  BY DEF DeliveryTypeOK
<1>2. IsInjective(channel) /\ Splits(channel, routed[p] \o buffer[p], missed[p])
  BY DEF SeenInv
<1>3. MB!Waiting(p) = ToSet(channel) \ (ToSet(routed[p]) \cup missed[p])
  BY DEF MB!Waiting, MB!ToSet, ToSet
<1>4. QED
  BY <1>1, <1>2, <1>3, HeadIsOldest

\* A message that is published is posted; those whose loop does not listen have missed it.
LEMMA PublishPosts ==
  ASSUME DeliveryTypeOK, SeenInv, NEW t \in Types, Publish(t), routed' = routed
  PROVE  MB!Post
<1> DEFINE m == Published(t)
<1>1. m \in Message /\ m \notin ToSet(channel) /\ channel \in Seq(Message)
  BY PublishedTyped, PublishedNew DEF SeenInv, DeliveryTypeOK
<1>2. /\ channel' = Append(channel, m)
      /\ missed' = [p \in Procs |-> IF link[p] = "listening" THEN missed[p] ELSE missed[p] \cup {m}]
  BY DEF Publish, Published
<1> HIDE DEF m
<1>3. Len(channel') = Len(channel) + 1 /\ channel'[Len(channel')] = m
  BY <1>1, <1>2, AppendProperties
<1>4. MB!Last(channel') = m /\ m \notin MB!ToSet(channel)
  BY <1>1, <1>3 DEF MB!Last, MB!ToSet, ToSet
<1> DEFINE away == {p \in Procs : link[p] # "listening"}
<1>5. missed' = [p \in Procs |-> IF p \in away THEN missed[p] \cup {m} ELSE missed[p]]
  BY <1>2
<1>6. away \in SUBSET Procs
  OBVIOUS
<1> HIDE DEF away
<1>7. QED
  BY <1>1, <1>2, <1>3, <1>4, <1>5, <1>6 DEF MB!Post

\* Every step of the delivery is one of the mailbox, or none.
LEMMA DeliveryStepPosts ==
  ASSUME DeliveryInv, [DeliveryNext]_allVars
  PROVE  [MB!Next]_<<channel, routed, missed>>
<1>1. /\ DeliveryTypeOK /\ SeenInv /\ missed \in [Procs -> SUBSET Message]
      /\ routed \in [Procs -> Seq(Message)]
  BY DEF DeliveryInv, DeliveryTypeOK
<1>2. ASSUME UNCHANGED <<channel, routed, missed>> PROVE [MB!Next]_<<channel, routed, missed>>
  BY <1>2
<1>3. ASSUME NEW e \in Emitters, (\E t \in Types : EmitEvent(e, t)) \/ EmitEnds(e)
      PROVE  [MB!Next]_<<channel, routed, missed>>
  BY <1>3 DEF EmitEvent, EmitEnds, delivery
<1>4. ASSUME NEW e \in Emitters, NEW h \in Handlers, Returns(e, h) \/ Raises(e, h)
      PROVE  [MB!Next]_<<channel, routed, missed>>
  <2> PICK u \in Types : u = emission[e].type
    BY <1>1, <1>4, CallOn DEF DeliveryTypeOK, Returns, Raises, HandlerReturns, HandlerRaises, Running, Calls
  <2>1. routed' = routed
    BY <1>4 DEF Returns, Raises
  <2>2. \/ Publish(u)
        \/ UNCHANGED <<channel, missed>>
    BY <1>4 DEF Returns, Raises, Write, NoEffect
  <2>3. CASE Publish(u)
    BY <1>1, <2>1, <2>3, PublishPosts DEF MB!Next
  <2>4. QED
    BY <2>1, <2>2, <2>3
<1>5. ASSUME NEW p \in Procs, Subscribe(p) \/ Retry(p) \/ ProcessStarts(p)
      PROVE  [MB!Next]_<<channel, routed, missed>>
  BY <1>5 DEF Subscribe, Retry, ProcessStarts, LoopOnly
<1>6. ASSUME NEW p \in Procs, RouteMessage(p) PROVE [MB!Next]_<<channel, routed, missed>>
  <2>1. /\ UNCHANGED <<channel, missed>> /\ buffer[p] # <<>>
        /\ routed' = [routed EXCEPT ![p] = Append(@, Head(buffer[p]))]
    BY <1>6 DEF RouteMessage, LoopOnly
  <2>2. /\ Head(buffer[p]) \in MB!Waiting(p)
        /\ \A i, j \in DOMAIN channel :
             channel[i] = Head(buffer[p]) /\ channel[j] \in MB!Waiting(p) => i <= j
    BY <1>1, <2>1, WaitingIsBuffered
  <2>3. MB!Deliver(p)
    BY <2>1, <2>2 DEF MB!Deliver
  <2>4. QED
    BY <2>3 DEF MB!Next
<1>7. ASSUME NEW p \in Procs, NEW some \in SUBSET ToSet(buffer[p]), UNCHANGED <<channel, routed>>,
             missed' = [missed EXCEPT ![p] = @ \cup some]
      PROVE  [MB!Next]_<<channel, routed, missed>>
  <2>1. some \in SUBSET MB!Waiting(p)
    BY <1>1, WaitingIsBuffered
  <2>2. MB!Lose(p)
    BY <1>7, <2>1 DEF MB!Lose
  <2>3. QED
    BY <2>2 DEF MB!Next
<1>8. ASSUME NEW p \in Procs, RouteFails(p) PROVE [MB!Next]_<<channel, routed, missed>>
  <2>1. /\ UNCHANGED <<channel, routed>> /\ buffer[p] # <<>>
        /\ missed' = [missed EXCEPT ![p] = @ \cup {Head(buffer[p])}]
    BY <1>8 DEF RouteFails, LoopOnly
  <2>2. {Head(buffer[p])} \in SUBSET ToSet(buffer[p])
    BY <1>1, <2>1, WaitingIsBuffered
  <2>3. QED
    BY <1>7, <2>1, <2>2
<1>9. ASSUME NEW p \in Procs, Disconnects(p) \/ ProcessEnds(p) PROVE [MB!Next]_<<channel, routed, missed>>
  <2>1. /\ UNCHANGED <<channel, routed>>
        /\ missed' = [missed EXCEPT ![p] = @ \cup ToSet(buffer[p])]
    BY <1>9 DEF Disconnects, ProcessEnds, LoopOnly
  <2>2. QED
    BY <1>7, <2>1
<1>10. ASSUME UNCHANGED allVars PROVE [MB!Next]_<<channel, routed, missed>>
  BY <1>10 DEF allVars, delivery
<1>11. QED
  BY <1>3, <1>4, <1>5, <1>6, <1>8, <1>9, <1>10 DEF DeliveryNext, BusStep, LoopStep

\* For every number of processes: publication and the loops of all processes implement a
\* mailbox for each of them, in which no message is ever out of order, repeated, or back
\* after it was lost (publish_event, redis_subscriber_loop).
THEOREM DeliveryIsMailbox == DeliverySpec => MailboxSpec
<1>1. DeliveryInit => MB!Init
  BY DEF DeliveryInit, MB!Init
<1>2. DeliveryInv /\ [DeliveryNext]_allVars => [MB!Next]_<<channel, routed, missed>>
  BY DeliveryStepPosts
<1>3. QED
  BY <1>1, <1>2, DeliveryStarts, DeliveryInvStep, PTL DEF DeliverySpec, MailboxSpec, MB!Spec, MB!mailbox

=============================================================================
