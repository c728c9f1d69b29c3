------------------------- MODULE AuthSessionsProofs -------------------------
(***************************************************************************)
(* Proofs about AuthSessions, for every number of overlapping calls and    *)
(* every life time of the tokens: a revoked token is refused until its     *)
(* last moments, and a refresh token rotates a bounded number of times.    *)
(***************************************************************************)
EXTENDS AuthSessions, FiniteSetTheorems, TLAPS

USE AuthAssumption

-----------------------------------------------------------------------------
(* Types *)

\* The tokens of a new pair are tokens.
LEMMA PairTokens ==
  ASSUME now \in 0 .. MaxTime
  PROVE  Pair \subseteq Tokens
<1>1. now \div 2 \in 0 .. Seconds
  BY DEF Seconds
<1>2. /\ now \div 2 + AccessLife \in 0 .. Seconds + AccessLife + RefreshLife
      /\ now \div 2 + RefreshLife \in 0 .. Seconds + AccessLife + RefreshLife
  BY <1>1 DEF Seconds
<1>3. QED
  BY <1>2 DEF Pair, Tokens

\* An expiry is a number of seconds.
LEMMA ExpNat ==
  ASSUME NEW k \in Tokens
  PROVE  k.exp \in Nat /\ Tail(k) \in Int
BY DEF Tokens, Seconds, Tail

\* What a revocation stores ends with the token, or at most half a second before.
LEMMA TtlCovers ==
  ASSUME now \in 0 .. MaxTime, NEW k \in Tokens
  PROVE  /\ Ttl(k) \in Nat
         /\ Ttl(k) > 0 => now + 2 * Ttl(k) \in Tail(k) .. 2 * k.exp
         /\ Ttl(k) = 0 => now >= Tail(k)
<1>1. k.exp \in Nat
  BY ExpNat
<1>2. CASE 2 * k.exp > now
  <2> DEFINE d == (2 * k.exp - now) \div 2
  <2>1. d \in Nat /\ 2 * d <= 2 * k.exp - now /\ 2 * k.exp - now <= 2 * d + 1
    BY <1>1, <1>2
  <2>2. Ttl(k) = d
    BY <1>2 DEF Ttl
  <2>3. QED
    BY <1>1, <2>1, <2>2 DEF Tail
<1>3. CASE ~(2 * k.exp > now)
  BY <1>1, <1>3 DEF Ttl, Tail
<1>4. QED
  BY <1>2, <1>3

\* Revoking a token keeps the blacklist well typed and touches no other token.
LEMMA BlacklistTypes ==
  ASSUME TypeOK, NEW k \in Tokens, Blacklist(k)
  PROVE  /\ blacklist' \in [Tokens -> Nat]
         /\ \A j \in Tokens : blacklist'[j] <= 2 * j.exp
         /\ \A j \in Tokens : j # k => blacklist'[j] = blacklist[j]
         /\ blacklist'[k] >= Tail(k) \/ now >= Tail(k)
<1>1. /\ Ttl(k) \in Nat /\ now \in Nat
      /\ Ttl(k) > 0 => now + 2 * Ttl(k) \in Tail(k) .. 2 * k.exp
      /\ Ttl(k) = 0 => now >= Tail(k)
  BY TtlCovers DEF TypeOK
<1>2. k.exp \in Nat /\ Tail(k) \in Int
  BY ExpNat
<1>3. CASE Ttl(k) > 0
  <2>1. blacklist' = [blacklist EXCEPT ![k] = now + 2 * Ttl(k)]
    BY <1>3 DEF Blacklist
  <2>2. now + 2 * Ttl(k) \in Nat /\ now + 2 * Ttl(k) <= 2 * k.exp /\ now + 2 * Ttl(k) >= Tail(k)
    BY <1>1, <1>2, <1>3
  <2>3. QED
    BY <2>1, <2>2 DEF TypeOK
<1>4. CASE Ttl(k) = 0
  <2>1. blacklist' = blacklist
    BY <1>4 DEF Blacklist
  <2>2. QED
    BY <1>1, <1>4, <2>1 DEF TypeOK
<1>5. QED
  BY <1>1, <1>3, <1>4

\* What a call carries at each place.
LEMMA CallShape ==
  ASSUME TypeOK, NEW c \in Calls
  PROVE  /\ At(c, "free") => call[c] = Free
         /\ call[c].pc \in {"request", "refresh", "rotate", "issue", "served"} => call[c] \in Progress
         /\ call[c].pc \in {"logout", "logout2"} => call[c] \in Logouts
         /\ call[c] \in Progress => call[c].pc \in {"request", "refresh", "rotate", "issue", "served"}
         /\ call[c] \in Logouts => call[c].pc \in {"logout", "logout2"}
<1>1. call[c] = Free \/ call[c] \in Progress \/ call[c] \in Logouts
  BY DEF TypeOK
<1>2. QED
  BY <1>1 DEF At, Free, Progress, Logouts

\* A call that goes on carries what it carried.
LEMMA ToTypes ==
  ASSUME TypeOK, NEW c \in Calls, NEW pc,
         \/ call[c] \in Progress /\ pc \in {"request", "refresh", "rotate", "issue", "served"}
         \/ call[c] \in Logouts /\ pc \in {"logout", "logout2"},
         To(c, pc)
  PROVE  call' \in [Calls -> {Free} \cup Progress \cup Logouts]
<1>1. [call[c] EXCEPT !.pc = pc] \in Progress \cup Logouts
  BY DEF Progress, Logouts
<1>2. call' = [call EXCEPT ![c] = [call[c] EXCEPT !.pc = pc]]
  BY DEF To
<1>3. QED
  BY <1>1, <1>2 DEF TypeOK

\* A call that ends leaves every call well typed.
LEMMA EndTypes ==
  ASSUME TypeOK, NEW c \in Calls, End(c)
  PROVE  call' \in [Calls -> {Free} \cup Progress \cup Logouts]
BY DEF TypeOK, End

\* A logout is called with tokens that were issued.
LogoutsIssued ==
  \A c \in Calls : call[c].pc \in {"logout", "logout2"} => {call[c].token, call[c].other} \subseteq issued

\* Every step keeps the types.
LEMMA TypesStep ==
  ASSUME TypeOK, LogoutsIssued, [Next]_vars
  PROVE  TypeOK'
<1>1. CASE Login
  BY <1>1, PairTokens DEF Login, Issue, TypeOK
<1>2. CASE ToggleUser \/ Tick \/ UNCHANGED vars
  <2>1. now' \in 0 .. MaxTime
    BY <1>2 DEF ToggleUser, Tick, vars, TypeOK
  <2>2. active' \in BOOLEAN
    BY <1>2 DEF ToggleUser, Tick, vars, TypeOK
  <2>3. QED
    BY <1>2, <2>1, <2>2 DEF ToggleUser, Tick, vars, TypeOK
<1>3. ASSUME NEW c \in Calls, NEW k \in issued, PassBlacklist(c, k) PROVE TypeOK'
  <2>1. k \in Tokens /\ now \in 0 .. MaxTime
    BY DEF TypeOK
  <2>2. [pc |-> IF k.kind = "access" THEN "request" ELSE "refresh", token |-> k,
         checked |-> now, after |-> k \in revoked] \in Progress
    BY <2>1 DEF Progress
  <2>3. call' \in [Calls -> {Free} \cup Progress \cup Logouts]
    BY <1>3, <2>2 DEF PassBlacklist, TypeOK
  <2>4. QED
    BY <1>3, <2>3 DEF PassBlacklist, TypeOK
<1>4. ASSUME NEW c \in Calls, NEW k \in issued, NEW other \in issued, Logout(c, k, other)
      PROVE  TypeOK'
  <2>1. [pc |-> "logout", token |-> k, other |-> other] \in Logouts
    BY DEF Logouts, TypeOK
  <2>2. QED
    BY <1>4, <2>1 DEF Logout, TypeOK
<1>5. ASSUME NEW c \in Calls, PassUser(c) PROVE TypeOK'
  <2>1. call[c] \in Progress
    BY <1>5, CallShape DEF PassUser, At
  <2>2. call' \in [Calls -> {Free} \cup Progress \cup Logouts]
    BY <1>5, <2>1, ToTypes DEF PassUser
  <2>3. QED
    BY <1>5, <2>2 DEF PassUser, TypeOK
<1>6. ASSUME NEW c \in Calls, Rotate(c) PROVE TypeOK'
  <2>1. call[c] \in Progress /\ call[c].token \in Tokens
    BY <1>6, CallShape DEF Rotate, At, Progress
  <2>2. call' \in [Calls -> {Free} \cup Progress \cup Logouts]
    BY <1>6, <2>1, ToTypes DEF Rotate
  <2>3. blacklist' \in [Tokens -> Nat] /\ \A j \in Tokens : blacklist'[j] <= 2 * j.exp
    BY <1>6, <2>1, BlacklistTypes DEF Rotate
  <2>4. rotated' \in [Tokens -> Nat]
    BY <1>6, <2>1 DEF Rotate, CountRotation, TypeOK
  <2>5. QED
    BY <1>6, <2>2, <2>3, <2>4 DEF Rotate, TypeOK
<1>7. ASSUME NEW c \in Calls, IssueRotated(c) PROVE TypeOK'
  BY <1>7, EndTypes, PairTokens DEF IssueRotated, Issue, TypeOK
<1>8. ASSUME NEW c \in Calls, Leave(c) PROVE TypeOK'
  BY <1>8, EndTypes DEF Leave, TypeOK
<1>9. ASSUME NEW c \in Calls, RevokeAccess(c) PROVE TypeOK'
  <2>1. call[c] \in Logouts /\ call[c].token \in Tokens
    BY <1>9, CallShape DEF RevokeAccess, At, Logouts
  <2>2. call' \in [Calls -> {Free} \cup Progress \cup Logouts]
    BY <1>9, <2>1, ToTypes DEF RevokeAccess
  <2>3. blacklist' \in [Tokens -> Nat] /\ \A j \in Tokens : blacklist'[j] <= 2 * j.exp
    BY <1>9, <2>1, BlacklistTypes DEF RevokeAccess, RevokeOr, TypeOK
  <2>4. QED
    BY <1>9, <2>2, <2>3 DEF RevokeAccess, TypeOK
<1>10. ASSUME NEW c \in Calls, RevokeRefresh(c) PROVE TypeOK'
  <2>1. call[c] \in Logouts /\ call[c].other \in Tokens
    BY <1>10, CallShape DEF RevokeRefresh, At, Logouts
  <2>2. blacklist' \in [Tokens -> Nat] /\ \A j \in Tokens : blacklist'[j] <= 2 * j.exp
    BY <1>10, <2>1, BlacklistTypes DEF RevokeRefresh, RevokeOr, TypeOK
  <2>3. revoked' \subseteq issued'
    BY <1>10 DEF RevokeRefresh, At, LogoutsIssued, TypeOK
  <2>4. call' \in [Calls -> {Free} \cup Progress \cup Logouts]
    BY <1>10, EndTypes DEF RevokeRefresh
  <2>5. QED
    BY <1>10, <2>2, <2>3, <2>4 DEF RevokeRefresh, TypeOK
<1>11. QED
  BY <1>1, <1>2, <1>3, <1>4, <1>5, <1>6, <1>7, <1>8, <1>9, <1>10 DEF Next

\* No step of another call changes a call.
LEMMA OthersCalls ==
  ASSUME TypeOK, NEW c \in Calls, NEW d \in Calls, c # d,
         \/ \E k \in issued : PassBlacklist(c, k)
         \/ \E k, other \in issued : Logout(c, k, other)
         \/ PassUser(c) \/ Rotate(c) \/ IssueRotated(c) \/ Leave(c)
         \/ RevokeAccess(c) \/ RevokeRefresh(c)
  PROVE  call'[d] = call[d]
BY DEF TypeOK, PassBlacklist, Logout, PassUser, Rotate, IssueRotated, Leave, RevokeAccess,
       RevokeRefresh, To, End

\* The tokens of a logout stay issued.
LEMMA LogoutsStep ==
  ASSUME TypeOK, LogoutsIssued, [Next]_vars
  PROVE  LogoutsIssued'
<1> SUFFICES ASSUME NEW d \in Calls, call'[d].pc \in {"logout", "logout2"}
             PROVE  {call'[d].token, call'[d].other} \subseteq issued'
  BY DEF LogoutsIssued
<1>1. issued \subseteq issued'
  BY DEF Next, vars, Login, ToggleUser, Tick, PassBlacklist, Logout, PassUser, Rotate, IssueRotated,
         Leave, RevokeAccess, RevokeRefresh, Issue
<1>2. CASE call'[d] = call[d]
  BY <1>1, <1>2 DEF LogoutsIssued
<1>3. CASE call'[d] # call[d]
  <2>1. \/ \E k \in issued : PassBlacklist(d, k)
        \/ \E k, other \in issued : Logout(d, k, other)
        \/ PassUser(d) \/ Rotate(d) \/ IssueRotated(d) \/ Leave(d)
        \/ RevokeAccess(d) \/ RevokeRefresh(d)
    BY <1>3, OthersCalls DEF Next, vars, Login, ToggleUser, Tick
  <2>2. ASSUME NEW k \in issued, PassBlacklist(d, k) PROVE FALSE
    BY <2>2 DEF PassBlacklist, TypeOK
  <2>3. ASSUME NEW k \in issued, NEW other \in issued, Logout(d, k, other)
        PROVE  {call'[d].token, call'[d].other} \subseteq issued'
    BY <1>1, <2>3 DEF Logout, TypeOK
  <2>4. ~(IssueRotated(d) \/ Leave(d) \/ RevokeRefresh(d))
    BY DEF IssueRotated, Leave, RevokeRefresh, End, Free, TypeOK
  <2>5. ~(PassUser(d) \/ Rotate(d))
    <3>1. PassUser(d) \/ Rotate(d) => call[d] \in Progress
      BY CallShape DEF PassUser, Rotate, At
    <3>2. call[d] \in Progress /\ (PassUser(d) \/ Rotate(d)) => call'[d].pc \in {"served", "rotate", "issue"}
      BY DEF PassUser, Rotate, To, TypeOK, Progress
    <3>3. QED
      BY <3>1, <3>2
  <2>6. CASE RevokeAccess(d)
    <3>1. At(d, "logout") /\ call[d] \in Logouts
      BY <2>6, CallShape DEF RevokeAccess, At
    <3>2. call'[d].token = call[d].token /\ call'[d].other = call[d].other
      BY <2>6, <3>1 DEF RevokeAccess, To, TypeOK, Logouts
    <3>3. QED
      BY <1>1, <3>1, <3>2 DEF LogoutsIssued, At
  <2>7. QED
    BY <2>1, <2>2, <2>3, <2>4, <2>5, <2>6
<1>4. QED
  BY <1>2, <1>3

\* Every state of the tokens and the calls is well typed.
THEOREM AuthTypeOK == Spec => []TypeOK
<1>1. Init => TypeOK /\ LogoutsIssued
  BY DEF Init, TypeOK, LogoutsIssued, Free, Tokens, Seconds
<1>2. TypeOK /\ LogoutsIssued /\ [Next]_vars => TypeOK' /\ LogoutsIssued'
  BY TypesStep, LogoutsStep
<1>3. QED
  BY <1>1, <1>2, PTL DEF Spec

-----------------------------------------------------------------------------
(* A revoked token is refused *)

\* Token k is on the blacklist until its last moments, or they have come.
Sealed(k) == now >= Tail(k) \/ blacklist[k] >= Tail(k)

\* The tokens of a logout are sealed as it goes over them.
RevokedSealed ==
  /\ \A k \in revoked : Sealed(k)
  /\ \A c \in Calls, k \in Tokens : At(c, "logout2") /\ call[c].token = k => Sealed(k)

\* A revocation seals its token; one that does not decode has run out.
LEMMA RevokeSeals ==
  ASSUME TypeOK, NEW k \in Tokens, Blacklist(k) \/ RevokeOr(k), now' = now
  PROVE  Sealed(k)'
<1>1. CASE Blacklist(k)
  BY <1>1, BlacklistTypes DEF Sealed, Tail
<1>2. CASE ~Decodes(k)
  <2>1. k.exp \in Nat /\ now \in Nat
    BY ExpNat DEF TypeOK
  <2>2. now >= 2 * k.exp
    BY <1>2, <2>1 DEF Decodes
  <2>3. QED
    BY <2>1, <2>2 DEF Sealed, Tail
<1>3. QED
  BY <1>1, <1>2 DEF RevokeOr

\* What is sealed stays sealed.
LEMMA SealedStays ==
  ASSUME TypeOK, [Next]_vars, NEW k \in Tokens, Sealed(k)
  PROVE  Sealed(k)'
<1>1. now' >= now /\ now \in Nat /\ now' \in Int
  BY DEF Next, vars, Login, ToggleUser, Tick, PassBlacklist, Logout, PassUser, Rotate, IssueRotated,
         Leave, RevokeAccess, RevokeRefresh, TypeOK
<1>2. \/ blacklist' = blacklist
      \/ \E c \in Calls : Rotate(c) \/ RevokeAccess(c) \/ RevokeRefresh(c)
  BY DEF Next, vars, Login, ToggleUser, Tick, PassBlacklist, Logout, PassUser, IssueRotated, Leave
<1>3. \/ blacklist' = blacklist
      \/ \E j \in Tokens : Blacklist(j)
  <2>1. ASSUME NEW c \in Calls, Rotate(c) PROVE \E j \in Tokens : Blacklist(j)
    BY <2>1, CallShape DEF Rotate, At, Progress
  <2>2. ASSUME NEW c \in Calls, RevokeAccess(c) \/ RevokeRefresh(c)
        PROVE  blacklist' = blacklist \/ \E j \in Tokens : Blacklist(j)
    BY <2>2, CallShape DEF RevokeAccess, RevokeRefresh, RevokeOr, At, Logouts
  <2>3. QED
    BY <1>2, <2>1, <2>2
<1>4. ASSUME NEW j \in Tokens, Blacklist(j)
      PROVE  \/ blacklist'[k] = blacklist[k]
             \/ blacklist'[k] >= Tail(k) \/ now >= Tail(k)
  BY <1>4, BlacklistTypes
<1>5. \/ blacklist'[k] = blacklist[k]
      \/ blacklist'[k] >= Tail(k) \/ now >= Tail(k)
  BY <1>3, <1>4
<1>6. Tail(k) \in Int /\ Tail(k)' = Tail(k)
  BY ExpNat DEF Tail
<1>7. QED
  BY <1>1, <1>5, <1>6 DEF Sealed

\* A logout seals its tokens before it returns, and nothing unseals them.
LEMMA RevokedSealedStep ==
  ASSUME TypeOK, LogoutsIssued, RevokedSealed, [Next]_vars
  PROVE  RevokedSealed'
<1>1. \A k \in Tokens : Sealed(k) => Sealed(k)'
  BY SealedStays
<1>2. revoked \subseteq Tokens
  BY DEF TypeOK
<1>3. ASSUME NEW d \in Calls, RevokeRefresh(d), NEW k \in {call[d].token, call[d].other}
      PROVE  Sealed(k)'
  <2>1. /\ At(d, "logout2") /\ k \in Tokens
        /\ RevokeOr(call[d].other) /\ now' = now
    BY <1>3, CallShape DEF RevokeRefresh, At, Logouts
  <2>2. CASE k = call[d].other
    BY <2>1, <2>2, RevokeSeals
  <2>3. CASE k = call[d].token
    BY <1>1, <2>1, <2>3 DEF RevokedSealed
  <2>4. QED
    BY <2>2, <2>3
<1>4. ASSUME NEW k \in revoked' PROVE Sealed(k)'
  <2>1. \/ revoked' = revoked
        \/ \E d \in Calls : RevokeRefresh(d) /\ revoked' = revoked \cup {call[d].token, call[d].other}
    BY DEF Next, vars, Login, ToggleUser, Tick, PassBlacklist, Logout, PassUser, Rotate,
           IssueRotated, Leave, RevokeAccess, RevokeRefresh
  <2>2. k \in revoked => Sealed(k)'
    BY <1>1, <1>2 DEF RevokedSealed
  <2>3. QED
    BY <1>3, <2>1, <2>2
<1>5. ASSUME NEW d \in Calls, NEW k \in Tokens, call'[d].pc = "logout2", call'[d].token = k
      PROVE  Sealed(k)'
  <2>1. CASE call'[d] = call[d]
    BY <1>1, <1>5, <2>1 DEF RevokedSealed, At
  <2>2. CASE call'[d] # call[d]
    <3>1. \/ \E j \in issued : PassBlacklist(d, j)
          \/ \E j, other \in issued : Logout(d, j, other)
          \/ PassUser(d) \/ Rotate(d) \/ IssueRotated(d) \/ Leave(d)
          \/ RevokeAccess(d) \/ RevokeRefresh(d)
      BY <2>2, OthersCalls DEF Next, vars, Login, ToggleUser, Tick
    <3>2. ~(\E j \in issued : PassBlacklist(d, j)) /\ ~(\E j, other \in issued : Logout(d, j, other))
      BY <1>5 DEF PassBlacklist, Logout, TypeOK
    <3>3. ~(IssueRotated(d) \/ Leave(d) \/ RevokeRefresh(d))
      BY <1>5 DEF IssueRotated, Leave, RevokeRefresh, End, Free, TypeOK
    <3>4. ~(PassUser(d) \/ Rotate(d))
      <4>1. PassUser(d) \/ Rotate(d) => call[d] \in Progress
        BY CallShape DEF PassUser, Rotate, At
      <4>2. call[d] \in Progress /\ (PassUser(d) \/ Rotate(d))
              => call'[d].pc \in {"served", "rotate", "issue"}
        BY DEF PassUser, Rotate, To, TypeOK, Progress
      <4>3. QED
        BY <1>5, <4>1, <4>2
    <3>5. RevokeAccess(d)
      BY <3>1, <3>2, <3>3, <3>4
    <3>6. call[d] \in Logouts /\ RevokeOr(call[d].token) /\ now' = now
      BY <3>5, CallShape DEF RevokeAccess, At
    <3>7. call[d].token = k
      BY <1>5, <3>5, <3>6 DEF RevokeAccess, To, TypeOK, Logouts
    <3>8. QED
      BY <3>6, <3>7, RevokeSeals
  <2>3. QED
    BY <2>1, <2>2
<1>6. QED
  BY <1>4, <1>5 DEF RevokedSealed, At

\* A call passes the blacklist with a revoked token only in the token's tail.
LEMMA RefusedStep ==
  ASSUME TypeOK, RevokedSealed, RevokedRefused, [Next]_vars
  PROVE  RevokedRefused'
<1> SUFFICES ASSUME NEW d \in Calls, call'[d] \in Progress, call'[d].after
             PROVE  call'[d].checked >= Tail(call'[d].token)
  BY DEF RevokedRefused, Progress, Tokens, Seconds, Tail
<1>1. CASE call'[d] = call[d]
  BY <1>1 DEF RevokedRefused
<1>2. CASE call'[d] # call[d]
  <2>1. \/ \E k \in issued : PassBlacklist(d, k)
        \/ \E j, other \in issued : Logout(d, j, other)
        \/ PassUser(d) \/ Rotate(d) \/ IssueRotated(d) \/ Leave(d)
        \/ RevokeAccess(d) \/ RevokeRefresh(d)
    BY <1>2, OthersCalls DEF Next, vars, Login, ToggleUser, Tick
  <2>2. ASSUME NEW k \in issued, PassBlacklist(d, k)
        PROVE  call'[d].checked >= Tail(call'[d].token)
    <3>1. call'[d].token = k /\ call'[d].checked = now /\ (call'[d].after <=> k \in revoked)
      BY <2>2 DEF PassBlacklist, TypeOK
    <3>2. k \in Tokens /\ Sealed(k)
      BY <3>1 DEF RevokedSealed, TypeOK
    <3>3. ~(now < blacklist[k]) /\ now \in Nat /\ blacklist[k] \in Nat
      BY <2>2, <3>2 DEF PassBlacklist, Blacklisted, TypeOK
    <3>4. Tail(k) \in Int
      BY <3>2, ExpNat
    <3>5. now >= Tail(k)
      BY <3>2, <3>3, <3>4 DEF Sealed
    <3>6. QED
      BY <3>1, <3>5
  <2>3. ~(\E j, other \in issued : Logout(d, j, other))
    BY DEF Logout, TypeOK, Progress
  <2>4. ~(IssueRotated(d) \/ Leave(d) \/ RevokeRefresh(d))
    BY DEF IssueRotated, Leave, RevokeRefresh, End, Free, TypeOK, Progress
  <2>5. ~RevokeAccess(d)
    <3>1. RevokeAccess(d) => call[d] \in Logouts
      BY CallShape DEF RevokeAccess, At
    <3>2. RevokeAccess(d) /\ call[d] \in Logouts => call'[d].pc = "logout2"
      BY DEF RevokeAccess, To, TypeOK, Logouts
    <3>3. QED
      BY <3>1, <3>2 DEF Progress
  <2>6. CASE PassUser(d) \/ Rotate(d)
    <3>1. call[d] \in Progress
      BY <2>6, CallShape DEF PassUser, Rotate, At
    <3>2. /\ call'[d].token = call[d].token /\ call'[d].checked = call[d].checked
          /\ call'[d].after = call[d].after
      <4>1. PICK p : To(d, p)
        BY <2>6 DEF PassUser, Rotate
      <4>2. call'[d] = [call[d] EXCEPT !.pc = p]
        BY <4>1 DEF To, TypeOK
      <4>3. QED
        BY <3>1, <4>2 DEF Progress
    <3>3. QED
      BY <3>1, <3>2 DEF RevokedRefused
  <2>7. QED
    BY <2>1, <2>2, <2>3, <2>4, <2>5, <2>6
<1>3. QED
  BY <1>1, <1>2

\* Once a logout has returned, its tokens get past the blacklist only in their last
\* moments, whatever other logouts, refreshes and logins do in between.
THEOREM AuthRevokedRefused == Spec => []RevokedRefused
<1> DEFINE Inv == TypeOK /\ LogoutsIssued /\ RevokedSealed /\ RevokedRefused
<1>1. Init => Inv
  <2> SUFFICES ASSUME Init PROVE Inv
    OBVIOUS
  <2>1. TypeOK /\ LogoutsIssued
    BY DEF Init, TypeOK, LogoutsIssued, Free, Tokens, Seconds
  <2>2. RevokedSealed /\ RevokedRefused
    BY DEF Init, RevokedSealed, RevokedRefused, At, Free, Progress
  <2>3. QED
    BY <2>1, <2>2
<1>2. Inv /\ [Next]_vars => Inv'
  BY TypesStep, LogoutsStep, RevokedSealedStep, RefusedStep
<1>3. QED
  BY <1>1, <1>2, PTL DEF Spec

-----------------------------------------------------------------------------
(* A refresh token rotates a bounded number of times *)

\* The calls that may still rotate k as calls begun before its tail.
Pending(k) ==
  {c \in Calls : /\ call[c].pc \in {"refresh", "rotate"} /\ call[c].token = k
                 /\ call[c].checked < Tail(k)}

\* After its first rotation a token is sealed, so nobody joins those; and each of
\* them rotates it once.
RotationReserved ==
  \A k \in Tokens : /\ rotated[k] > 0 => Sealed(k)
                    /\ rotated[k] + Cardinality(Pending(k)) <= Cardinality(Calls)

\* The pending calls are some of the calls.
LEMMA PendingFinite ==
  ASSUME NEW k \in Tokens
  PROVE  /\ IsFiniteSet(Pending(k)) /\ Cardinality(Pending(k)) \in Nat
         /\ Cardinality(Calls) \in Nat /\ Cardinality(Pending(k)) <= Cardinality(Calls)
<1>1. Pending(k) \subseteq Calls
  BY DEF Pending
<1>2. QED
  BY <1>1, FS_Subset, FS_CardinalityType

\* A token that is not rotated and gets no new pending call keeps its bound.
LEMMA ReservedQuiet ==
  ASSUME TypeOK, RotationReserved, [Next]_vars, NEW k \in Tokens,
         rotated'[k] = rotated[k], Pending(k)' \subseteq Pending(k)
  PROVE  /\ rotated'[k] > 0 => Sealed(k)'
         /\ rotated'[k] + Cardinality(Pending(k)') <= Cardinality(Calls)
<1>1. Cardinality(Pending(k)') <= Cardinality(Pending(k)) /\ Cardinality(Pending(k)') \in Nat
  BY PendingFinite, FS_Subset, FS_CardinalityType
<1>2. rotated[k] \in Nat /\ Cardinality(Pending(k)) \in Nat /\ Cardinality(Calls) \in Nat
  BY PendingFinite DEF TypeOK
<1>3. rotated[k] + Cardinality(Pending(k)) <= Cardinality(Calls)
  BY DEF RotationReserved
<1>4. rotated[k] > 0 => Sealed(k)'
  BY SealedStays DEF RotationReserved
<1>5. QED
  BY <1>1, <1>2, <1>3, <1>4

\* A token's first pending calls join while it is not rotated; later ones are refused.
LEMMA JoinReserved ==
  ASSUME TypeOK, RotationReserved, [Next]_vars, NEW d \in Calls, NEW j \in issued,
         PassBlacklist(d, j), NEW k \in Tokens
  PROVE  /\ rotated'[k] > 0 => Sealed(k)'
         /\ rotated'[k] + Cardinality(Pending(k)') <= Cardinality(Calls)
<1>1. rotated'[k] = rotated[k] /\ rotated[k] \in Nat
  BY DEF PassBlacklist, TypeOK
<1>2. CASE rotated[k] = 0
  <2>1. Pending(k)' \subseteq Calls
    BY DEF Pending
  <2>2. Cardinality(Pending(k)') <= Cardinality(Calls) /\ Cardinality(Pending(k)') \in Nat
    BY <2>1, FS_Subset, FS_CardinalityType
  <2>3. Cardinality(Calls) \in Nat
    BY FS_CardinalityType
  <2>4. QED
    BY <1>1, <1>2, <2>2, <2>3
<1>3. CASE rotated[k] > 0
  <2>1. Sealed(k)
    BY <1>3 DEF RotationReserved
  <2>2. \A c \in Calls \ {d} : call'[c] = call[c]
    BY DEF PassBlacklist, TypeOK
  <2>3. d \notin Pending(k)'
    <3>1. call'[d].token = j /\ call'[d].checked = now
      BY DEF PassBlacklist, TypeOK
    <3>2. ~(now < blacklist[j]) /\ now \in Nat
      BY DEF PassBlacklist, Blacklisted, TypeOK
    <3>3. blacklist[k] \in Nat /\ Tail(k) \in Int
      BY ExpNat DEF TypeOK
    <3>4. j = k => now >= Tail(k)
      BY <2>1, <3>2, <3>3 DEF Sealed
    <3>5. Tail(k)' = Tail(k)
      BY DEF Tail
    <3>6. QED
      BY <3>1, <3>2, <3>3, <3>4, <3>5 DEF Pending
  <2>4. Pending(k)' \subseteq Pending(k)
    BY <2>2, <2>3 DEF Pending, Tail
  <2>5. QED
    BY <1>1, <2>4, ReservedQuiet
<1>4. QED
  BY <1>1, <1>2, <1>3

\* A rotation spends the place its call holds among the pending ones.
LEMMA RotateReserved ==
  ASSUME TypeOK, RotationReserved, [Next]_vars, NEW d \in Calls, Rotate(d), NEW k \in Tokens
  PROVE  /\ rotated'[k] > 0 => Sealed(k)'
         /\ rotated'[k] + Cardinality(Pending(k)') <= Cardinality(Calls)
<1>1. call[d] \in Progress /\ call[d].token \in Tokens /\ call[d].pc = "rotate"
  BY CallShape DEF Rotate, At, Progress
<1>2. call'[d].pc = "issue" /\ \A c \in Calls \ {d} : call'[c] = call[c]
  BY <1>1 DEF Rotate, To, TypeOK, Progress
<1>3. Pending(k)' = Pending(k) \ {d}
  BY <1>2 DEF Pending, Tail
<1>4. CASE k = call[d].token /\ call[d].checked < Tail(k)
  <2>1. d \in Pending(k)
    BY <1>1, <1>4 DEF Pending
  <2>2. Cardinality(Pending(k)') = Cardinality(Pending(k)) - 1
    <3>1. Cardinality(Pending(k) \ {d}) = Cardinality(Pending(k)) - 1
      BY <2>1, PendingFinite, FS_RemoveElement
    <3>2. QED
      BY <1>3, <3>1
  <2>3. rotated'[k] = rotated[k] + 1 /\ rotated[k] \in Nat
    BY <1>4 DEF Rotate, CountRotation, TypeOK
  <2>4. Cardinality(Pending(k)) \in Nat /\ Cardinality(Calls) \in Nat
    BY PendingFinite
  <2>5. rotated[k] + Cardinality(Pending(k)) <= Cardinality(Calls)
    BY DEF RotationReserved
  <2>6. Sealed(k)'
    BY <1>4, RevokeSeals DEF Rotate
  <2>7. QED
    BY <2>2, <2>3, <2>4, <2>5, <2>6
<1>5. CASE ~(k = call[d].token /\ call[d].checked < Tail(k))
  <2>1. rotated'[k] = rotated[k]
    BY <1>1, <1>5 DEF Rotate, CountRotation, TypeOK
  <2>2. QED
    BY <1>3, <2>1, ReservedQuiet
<1>6. QED
  BY <1>4, <1>5

\* Every step keeps the bound of every token.
LEMMA ReservedStep ==
  ASSUME TypeOK, RotationReserved, [Next]_vars
  PROVE  RotationReserved'
<1> SUFFICES ASSUME NEW k \in Tokens
             PROVE  /\ rotated'[k] > 0 => Sealed(k)'
                    /\ rotated'[k] + Cardinality(Pending(k)') <= Cardinality(Calls)
  BY DEF RotationReserved, Tokens, Seconds
<1>1. ASSUME NEW d \in Calls, NEW j \in issued, PassBlacklist(d, j)
      PROVE  /\ rotated'[k] > 0 => Sealed(k)'
             /\ rotated'[k] + Cardinality(Pending(k)') <= Cardinality(Calls)
  BY <1>1, JoinReserved
<1>2. ASSUME NEW d \in Calls, Rotate(d)
      PROVE  /\ rotated'[k] > 0 => Sealed(k)'
             /\ rotated'[k] + Cardinality(Pending(k)') <= Cardinality(Calls)
  BY <1>2, RotateReserved
<1>3. ASSUME NEW d \in Calls,
             \/ \E j, other \in issued : Logout(d, j, other)
             \/ PassUser(d) \/ IssueRotated(d) \/ Leave(d) \/ RevokeAccess(d) \/ RevokeRefresh(d)
      PROVE  rotated' = rotated /\ Pending(k)' \subseteq Pending(k)
  <2>1. rotated' = rotated
    BY <1>3 DEF Logout, PassUser, IssueRotated, Leave, RevokeAccess, RevokeRefresh
  <2>2. \A c \in Calls \ {d} : call'[c] = call[c]
    BY <1>3, OthersCalls
  <2>3. d \in Pending(k)' => d \in Pending(k)
    <3>1. ASSUME PassUser(d) PROVE d \in Pending(k)' => d \in Pending(k)
      <4>1. PICK p : To(d, p) /\ call[d].pc \in {"request", "refresh"} /\ call[d] \in Progress
                     /\ (p \in {"refresh", "rotate"} => call[d].pc = "refresh")
        BY <3>1, CallShape DEF PassUser, At
      <4>2. call'[d] = [call[d] EXCEPT !.pc = p]
        BY <4>1 DEF To, TypeOK
      <4>3. call'[d].token = call[d].token /\ call'[d].checked = call[d].checked /\ call'[d].pc = p
        BY <4>1, <4>2 DEF Progress
      <4>4. QED
        BY <4>1, <4>3 DEF Pending, Tail
    <3>2. ASSUME RevokeAccess(d) PROVE d \notin Pending(k)'
      <4>1. call[d] \in Logouts
        BY <3>2, CallShape DEF RevokeAccess, At
      <4>2. call'[d].pc = "logout2"
        BY <3>2, <4>1 DEF RevokeAccess, To, TypeOK, Logouts
      <4>3. QED
        BY <4>2 DEF Pending
    <3>3. ASSUME IssueRotated(d) \/ Leave(d) \/ RevokeRefresh(d) PROVE d \notin Pending(k)'
      BY <3>3 DEF IssueRotated, Leave, RevokeRefresh, End, Free, TypeOK, Pending
    <3>4. ASSUME NEW j \in issued, NEW other \in issued, Logout(d, j, other) PROVE d \notin Pending(k)'
      BY <3>4 DEF Logout, TypeOK, Pending
    <3>5. QED
      BY <1>3, <3>1, <3>2, <3>3, <3>4
  <2>4. QED
    BY <2>1, <2>2, <2>3 DEF Pending, Tail
<1>4. CASE Login \/ ToggleUser \/ Tick \/ UNCHANGED vars
  <2>1. rotated' = rotated /\ call' = call
    BY <1>4 DEF Login, ToggleUser, Tick, vars
  <2>2. Pending(k)' = Pending(k)
    BY <2>1 DEF Pending, Tail
  <2>3. QED
    BY <2>1, <2>2, ReservedQuiet
<1>5. QED
  BY <1>1, <1>2, <1>3, <1>4, ReservedQuiet DEF Next

\* A refresh token rotates at most as often as there are calls at a time: only calls
\* that overlap the first rotation repeat it.
THEOREM AuthRotationBounded == Spec => []RotationBounded
<1> DEFINE Inv == TypeOK /\ LogoutsIssued /\ RotationReserved
<1>1. Init => Inv
  <2> SUFFICES ASSUME Init PROVE Inv
    OBVIOUS
  <2>1. TypeOK /\ LogoutsIssued
    BY DEF Init, TypeOK, LogoutsIssued, Free, Tokens, Seconds
  <2>2. \A k \in Tokens : rotated[k] = 0
    BY DEF Init
  <2>3. \A k \in Tokens : Cardinality(Pending(k)) <= Cardinality(Calls) /\ Cardinality(Pending(k)) \in Nat
    BY PendingFinite
  <2>4. RotationReserved
    BY <2>2, <2>3 DEF RotationReserved
  <2>5. QED
    BY <2>1, <2>4
<1>2. Inv /\ [Next]_vars => Inv'
  BY TypesStep, LogoutsStep, ReservedStep
<1>3. Inv => RotationBounded
  <2> SUFFICES ASSUME Inv, NEW k \in Tokens PROVE rotated[k] <= Cardinality(Calls)
    BY DEF RotationBounded
  <2>1. rotated[k] + Cardinality(Pending(k)) <= Cardinality(Calls)
    BY DEF RotationReserved
  <2>2. rotated[k] \in Nat /\ Cardinality(Pending(k)) \in Nat /\ Cardinality(Calls) \in Nat
    BY PendingFinite DEF TypeOK
  <2>3. QED
    BY <2>1, <2>2
<1>4. QED
  BY <1>1, <1>2, <1>3, PTL DEF Spec
=============================================================================
