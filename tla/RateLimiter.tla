---------------------------- MODULE RateLimiter -----------------------------
(***************************************************************************)
(* The sliding-window rate limiter, for one key                            *)
(* (src/app/middleware/rate_limit.py).                                     *)
(*                                                                         *)
(* A request takes the time, then a Lua script in Redis atomically forgets *)
(* the stamps outside the window, counts the rest and adds the request's   *)
(* stamp if there is room.  If the call raises, the worker process falls   *)
(* back to the same algorithm on a list of its own, with the time taken    *)
(* anew.  The stamp is the worker's, not Redis's: scripts may run in       *)
(* another order than their stamps.  A call may raise although the script  *)
(* ran.                                                                    *)
(***************************************************************************)
EXTENDS Integers, FiniteSets

CONSTANTS
  Workers,   \* the server processes
  Requests,  \* slots for concurrent requests of the key
  Redis,     \* the shared store
  Limit,     \* requests per window
  Window,    \* length of the window
  MaxDelay,  \* bound: from taking the stamp to the run of the script
  MaxTime    \* bound: end of the modelled time

ASSUME RateLimiterAssumption ==
  /\ Limit \in Nat \ {0} /\ Window \in Nat \ {0}
  /\ MaxDelay \in 0 .. Window - 1 /\ MaxTime \in Nat
  /\ Redis \notin Workers

VARIABLES
  now,
  pending,   \* pending[r]: the worker and stamp of a request before its script
  stamps,    \* stamps[s][t]: how many entries store s keeps for time t
  admitted   \* history: admitted[s][t], the requests let through on s's word

limiterVars == <<now, pending, stamps, admitted>>

Times  == 0 .. MaxTime
Stores == Workers \cup {Redis}
NoRequest == [on |-> FALSE]

LimiterTypeOK ==
  /\ now \in Times
  /\ pending \in [Requests -> {NoRequest} \cup [on : {TRUE}, worker : Workers, stamp : Times]]
  /\ stamps \in [Stores -> [Times -> Nat]]
  /\ admitted \in [Stores -> [Times -> Nat]]

LimiterInit ==
  /\ now = 0
  /\ pending = [r \in Requests |-> NoRequest]
  /\ stamps = [s \in Stores |-> [t \in Times |-> 0]]
  /\ admitted = [s \in Stores |-> [t \in Times |-> 0]]

\* The entries of f for the times in S, those of one time told apart by their members.
Scored(f, S) == UNION {{t} \X (1 .. f[t]) : t \in S}

\* zcard.
Card(f, S) == Cardinality(Scored(f, S))

\* zremrangebyscore: the entries that are still inside the window at time t.
Recent(f, t) == [u \in Times |-> IF u <= t - Window THEN 0 ELSE f[u]]

\* Mutant: one request too many.
RoomForOneMore(f, t) == Card(Recent(f, t), Times) <= Limit

Room(f, t) == Card(Recent(f, t), Times) < Limit

\* The entries of f when a request with stamp t has been checked against them.
Slide(f, t) == IF Room(f, t) THEN [Recent(f, t) EXCEPT ![t] = @ + 1] ELSE Recent(f, t)

\* History: the entries made by requests that were let through.
Admit(s, t) ==
  IF Room(stamps[s], t) THEN admitted' = [admitted EXCEPT ![s][t] = @ + 1]
                        ELSE UNCHANGED admitted

-----------------------------------------------------------------------------
\* Mutant: the stamp is the end of the window, not its start.
ArriveAtEnd(r, w) ==
  /\ ~pending[r].on
  /\ pending' = [pending EXCEPT ![r] = [on |-> TRUE, worker |-> w, stamp |-> now + Window]]
  /\ UNCHANGED <<now, stamps, admitted>>

Arrive(r, w) ==
  /\ ~pending[r].on
  /\ pending' = [pending EXCEPT ![r] = [on |-> TRUE, worker |-> w, stamp |-> now]]
  /\ UNCHANGED <<now, stamps, admitted>>

Done(r) == pending' = [pending EXCEPT ![r] = NoRequest]

CheckRedis(r) ==
  /\ pending[r].on
  /\ stamps' = [stamps EXCEPT ![Redis] = Slide(@, pending[r].stamp)]
  /\ Admit(Redis, pending[r].stamp)
  /\ Done(r)
  /\ UNCHANGED now

\* The member of the sorted set is the stamp with a random suffix.  If it is the
\* member of another request of the same time, it replaces that entry: the
\* request is let through and leaves no entry of its own.
CheckRedisSameMember(r) ==
  /\ pending[r].on
  /\ LET t == pending[r].stamp IN
       /\ stamps[Redis][t] > 0 /\ Room(stamps[Redis], t)
       /\ stamps' = [stamps EXCEPT ![Redis] = Recent(@, t)]
  /\ Done(r)
  /\ UNCHANGED <<now, admitted>>

\* The script did not run: only the worker's own list is used.
CheckMemory(r) ==
  /\ pending[r].on
  /\ stamps' = [stamps EXCEPT ![pending[r].worker] = Slide(@, now)]
  /\ Admit(pending[r].worker, now)
  /\ Done(r)
  /\ UNCHANGED now

\* The script runs but its answer is lost: the fallback follows as its own check.
AnswerLost(r) ==
  /\ pending[r].on
  /\ stamps' = [stamps EXCEPT ![Redis] = Slide(@, pending[r].stamp),
                              ![pending[r].worker] = Slide(@, now)]
  /\ Admit(pending[r].worker, now)
  /\ Done(r)
  /\ UNCHANGED now

\* A worker is restarted with an empty list; Redis is not.
WorkerRestarts(w) ==
  /\ stamps' = [stamps EXCEPT ![w] = [t \in Times |-> 0]]
  /\ admitted' = [admitted EXCEPT ![w] = [t \in Times |-> 0]]
  /\ pending' = [r \in Requests |->
       IF pending[r].on /\ pending[r].worker = w THEN NoRequest ELSE pending[r]]
  /\ UNCHANGED now

Tick ==
  /\ now < MaxTime
  /\ \A r \in Requests : pending[r].on => now - pending[r].stamp < MaxDelay
  /\ now' = now + 1
  /\ UNCHANGED <<pending, stamps, admitted>>

LimiterNext ==
  \/ \E r \in Requests : \/ \E w \in Workers : Arrive(r, w)
                         \/ CheckRedis(r) \/ CheckRedisSameMember(r)
                         \/ CheckMemory(r) \/ AnswerLost(r)
  \/ \E w \in Workers : WorkerRestarts(w)
  \/ Tick

LimiterSpec == LimiterInit /\ [][LimiterNext]_limiterVars

-----------------------------------------------------------------------------
(* Properties *)

\* The entries whose stamp lies in the half-open interval of the given length
\* that ends at t.
Within(f, t, length) == Card(f, {u \in Times : t - length < u /\ u <= t})

\* However scripts overtake each other, no store lets more than Limit requests
\* through in any interval that is MaxDelay shorter than the window, not counting
\* those that replaced the entry of another request.
WindowRespected ==
  \A s \in Stores, t \in Times : Within(admitted[s], t, Window - MaxDelay) <= Limit
=============================================================================
