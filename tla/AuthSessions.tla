---------------------------- MODULE AuthSessions ----------------------------
(***************************************************************************)
(* The tokens of one user (src/app/modules/auth/service.py,                *)
(* src/app/core/security.py).                                              *)
(*                                                                         *)
(* A token carries the user's claims, its kind and its expiry in whole     *)
(* seconds, and nothing that would tell apart two tokens issued in the     *)
(* same second: they are the same string.  Revoking a token stores it in   *)
(* Redis with a time to live cut down to whole seconds.  Every call        *)
(* decodes its token, then awaits Redis, then awaits the database, so      *)
(* calls overlap in between.                                               *)
(*                                                                         *)
(* change_password writes the user row and no token, so it has no step     *)
(* here; logout of an access token alone is a logout that is cut short.    *)
(*                                                                         *)
(* Time runs in half seconds, fine enough to tell a fraction cut off.      *)
(***************************************************************************)
EXTENDS Integers, FiniteSets

CONSTANTS
  Calls,                    \* slots for concurrent calls
  AccessLife, RefreshLife,  \* life times in seconds
  MaxTime                   \* bound: end of the modelled time, in half seconds

ASSUME AuthAssumption ==
  /\ AccessLife \in Nat \ {0} /\ RefreshLife \in Nat \ {0} /\ MaxTime \in Nat
  /\ IsFiniteSet(Calls)

VARIABLES
  now,        \* half seconds
  issued,     \* the tokens that clients were given
  blacklist,  \* blacklist[k]: when Redis forgets k, 0 if it does not hold it
  active,     \* users.is_active
  call,       \* call[c]: progress of a call
  revoked,    \* history: tokens of logouts that have returned
  rotated     \* history: rotated[k], successful refreshes with k begun before Tail(k)

vars == <<now, issued, blacklist, active, call, revoked, rotated>>

Seconds == MaxTime \div 2
Tokens  == [kind : {"access", "refresh"}, exp : 0 .. Seconds + AccessLife + RefreshLife]
Free    == [pc |-> "free"]

\* checked: when the blacklist was read; after: the logout had returned by then.
Progress ==
  [pc : {"request", "refresh", "rotate", "issue", "served"}, token : Tokens,
   checked : 0 .. MaxTime, after : BOOLEAN]
Logouts == [pc : {"logout", "logout2"}, token : Tokens, other : Tokens]

TypeOK ==
  /\ now \in 0 .. MaxTime
  /\ issued \subseteq Tokens
  /\ blacklist \in [Tokens -> Nat] /\ \A k \in Tokens : blacklist[k] <= 2 * k.exp
  /\ active \in BOOLEAN
  /\ call \in [Calls -> {Free} \cup Progress \cup Logouts]
  /\ revoked \subseteq issued
  /\ rotated \in [Tokens -> Nat]

Init ==
  /\ now = 0 /\ issued = {} /\ active = TRUE
  /\ blacklist = [k \in Tokens |-> 0]
  /\ call = [c \in Calls |-> Free]
  /\ revoked = {}
  /\ rotated = [k \in Tokens |-> 0]

\* decode_token: an expiry in the current second is still good.
Decodes(k) == now \div 2 <= k.exp

Blacklisted(k) == now < blacklist[k]

\* _generate_tokens; the pair exists from now on.
Pair == {[kind |-> "access",  exp |-> now \div 2 + AccessLife],
         [kind |-> "refresh", exp |-> now \div 2 + RefreshLife]}

Issue == issued' = issued \cup Pair

\* Mutant: the expiry itself is taken for the time to live.
TtlAbsolute(k) == IF 2 * k.exp > now THEN k.exp ELSE 0

\* Mutant: the time to live is one second short.
TtlShort(k) == IF 2 * k.exp > now THEN (2 * k.exp - now) \div 2 - 1 ELSE 0

\* _blacklist_token: int() of the remaining seconds; nothing is stored for 0.
Ttl(k) == IF 2 * k.exp > now THEN (2 * k.exp - now) \div 2 ELSE 0
Blacklist(k) ==
  blacklist' = IF Ttl(k) > 0 THEN [blacklist EXCEPT ![k] = now + 2 * Ttl(k)] ELSE blacklist

\* From when on a revoked token may be forgotten although it still decodes.
Tail(k) == 2 * k.exp - 1

At(c, pc) == call[c].pc = pc
To(c, pc) == call' = [call EXCEPT ![c].pc = pc]
End(c)    == call' = [call EXCEPT ![c] = Free]

-----------------------------------------------------------------------------
\* login: the user row is read, and the pair issued, in one step.
Login ==
  /\ active
  /\ UNCHANGED <<now, blacklist, active, call, revoked, rotated>>
  /\ Issue

\* get_current_user and refresh_tokens: a decodable token of the right kind is
\* looked up in the blacklist and found not to be there.
PassBlacklist(c, k) ==
  /\ At(c, "free") /\ Decodes(k) /\ ~Blacklisted(k)
  /\ call' = [call EXCEPT ![c] =
       [pc |-> IF k.kind = "access" THEN "request" ELSE "refresh", token |-> k,
        checked |-> now, after |-> k \in revoked]]
  /\ UNCHANGED <<now, issued, blacklist, active, revoked, rotated>>

\* The user was looked up and is active: a request is served, a refresh goes on
\* to revoke its token.
PassUser(c) ==
  /\ active
  /\ \/ At(c, "request") /\ To(c, "served")
     \/ At(c, "refresh") /\ To(c, "rotate")
  /\ UNCHANGED <<now, issued, blacklist, active, revoked, rotated>>

\* History only: a rotation of k by a call begun at the given time.
CountRotation(k, begun) ==
  rotated' = IF begun < Tail(k) THEN [rotated EXCEPT ![k] = @ + 1] ELSE rotated

\* Mutant: the old refresh token is not revoked.
RotateOnly(c) ==
  /\ At(c, "rotate")
  /\ CountRotation(call[c].token, call[c].checked)
  /\ To(c, "issue")
  /\ UNCHANGED <<now, issued, blacklist, active, revoked>>

\* The old token is revoked.
Rotate(c) ==
  /\ At(c, "rotate")
  /\ Blacklist(call[c].token)
  /\ CountRotation(call[c].token, call[c].checked)
  /\ To(c, "issue")
  /\ UNCHANGED <<now, issued, active, revoked>>

\* The new pair is issued.
IssueRotated(c) ==
  /\ At(c, "issue")
  /\ End(c)
  /\ UNCHANGED <<now, blacklist, active, revoked, rotated>>
  /\ Issue

\* A served request is over; or a call is refused, raises or dies half way.
Leave(c) ==
  /\ ~At(c, "free")
  /\ End(c)
  /\ UNCHANGED <<now, issued, blacklist, active, revoked, rotated>>

-----------------------------------------------------------------------------
\* logout: the access token, then the refresh token, is revoked; one that does
\* not decode is skipped.
Logout(c, k, other) ==
  /\ At(c, "free") /\ k.kind = "access" /\ other.kind = "refresh"
  /\ call' = [call EXCEPT ![c] = [pc |-> "logout", token |-> k, other |-> other]]
  /\ UNCHANGED <<now, issued, blacklist, active, revoked, rotated>>

RevokeOr(k) == IF Decodes(k) THEN Blacklist(k) ELSE UNCHANGED blacklist

RevokeAccess(c) ==
  /\ At(c, "logout") /\ RevokeOr(call[c].token) /\ To(c, "logout2")
  /\ UNCHANGED <<now, issued, active, revoked, rotated>>

RevokeRefresh(c) ==
  /\ At(c, "logout2") /\ RevokeOr(call[c].other) /\ End(c)
  /\ revoked' = revoked \cup {call[c].token, call[c].other}
  /\ UNCHANGED <<now, issued, active, rotated>>

-----------------------------------------------------------------------------
ToggleUser ==
  /\ active' = ~active
  /\ UNCHANGED <<now, issued, blacklist, call, revoked, rotated>>

Tick ==
  /\ now < MaxTime
  /\ now' = now + 1
  /\ UNCHANGED <<issued, blacklist, active, call, revoked, rotated>>

Next ==
  \/ Login \/ ToggleUser \/ Tick
  \/ \E c \in Calls :
       \/ \E k \in issued : PassBlacklist(c, k)
       \/ \E k, other \in issued : Logout(c, k, other)
       \/ PassUser(c) \/ Rotate(c) \/ IssueRotated(c) \/ Leave(c)
       \/ RevokeAccess(c) \/ RevokeRefresh(c)

Spec == Init /\ [][Next]_vars

-----------------------------------------------------------------------------
(* Properties *)

\* Once a logout has returned, a call that begins with one of its tokens gets
\* past the blacklist only in the token's last moments, never before, whatever
\* other logouts, refreshes and logins did to the same token in between.
RevokedRefused ==
  \A c \in Calls : call[c] \in Progress /\ call[c].after => call[c].checked >= Tail(call[c].token)

\* A refresh token rotates a bounded number of times: only calls that overlap the
\* first rotation can repeat it, as long as they begin before its tail.
RotationBounded ==
  \A k \in Tokens : rotated[k] <= Cardinality(Calls)
=============================================================================
