------------------------------ MODULE Metering ------------------------------
(***************************************************************************)
(* Usage metering of one business and one metric                           *)
(* (src/app/modules/metering).  A caller first asks check_usage_limit      *)
(* whether its estimate still fits the tier's limit, does its work, and    *)
(* then calls increment_usage with what it really used.  Nothing holds     *)
(* the quota between the two calls: the check awaits two queries (the      *)
(* subscription's tier, then the meter row of the current cycle), and any  *)
(* other caller may run at each await.                                     *)
(*                                                                         *)
(* usage is the current_usage of the meter row of the current billing      *)
(* cycle; a cycle without a row counts as 0.                               *)
(***************************************************************************)
EXTENDS Integers, FiniteSets

CONSTANTS
  Callers,    \* the concurrent users of the metric
  Tiers,      \* values of subscriptions.tier_id ("free" when there is no active row)
  TierLimit,  \* TIER_LIMITS[tier][metric], NoLimit when the tier has no entry
  NoLimit,    \* the None of TIER_LIMITS.get(...).get(...)
  MinCheck,   \* the smallest check_amount a caller passes
  Checks,     \* the check_amounts callers pass
  MaxAmount,  \* the largest amount one caller adds afterwards
  Cap         \* a number no tier's limit exceeds (unlimited tiers aside)

ASSUME CallersAssumption == IsFiniteSet(Callers)
ASSUME LimitAssumption   == /\ NoLimit \notin Nat
                            /\ TierLimit \in [Tiers -> Nat \cup {NoLimit}]
                            /\ Cap \in Nat
                            /\ \A t \in Tiers : TierLimit[t] # NoLimit => TierLimit[t] <= Cap
ASSUME AmountAssumption  == /\ MaxAmount \in Nat
                            /\ MinCheck \in 0 .. Cap
                            /\ Checks \subseteq {n \in Nat : MinCheck <= n}

VARIABLES
  tier,   \* the tier the business has now
  usage,  \* current_usage of the current cycle's meter row
  phase,  \* [Callers -> "idle" | "checking" | "admitted"]
  limit,  \* limit[c]: the limit c's running check has read
  asked   \* asked[c]: the check_amount of c's running check

meterVars == <<tier, usage, phase, limit, asked>>

Limits == Nat \cup {NoLimit}

TypeOK ==
  /\ tier  \in Tiers
  /\ usage \in Nat
  /\ phase \in [Callers -> {"idle", "checking", "admitted"}]
  /\ limit \in [Callers -> Limits]
  /\ asked \in [Callers -> Checks \cup {0}]

Init ==
  /\ tier  \in Tiers
  /\ usage = 0
  /\ phase = [c \in Callers |-> "idle"]
  /\ limit = [c \in Callers |-> NoLimit]
  /\ asked = [c \in Callers |-> 0]

-----------------------------------------------------------------------------
(* check_usage_limit *)

\* _get_business_tier returned: the limit is fixed, the meter is yet to be read.
ReadTier(c, amount) ==
  /\ phase[c] = "idle"
  /\ phase' = [phase EXCEPT ![c] = "checking"]
  /\ limit' = [limit EXCEPT ![c] = TierLimit[tier]]
  /\ asked' = [asked EXCEPT ![c] = amount]
  /\ UNCHANGED <<tier, usage>>

\* Mutant: the check forgets the amount it was asked about.
FitsIgnoresAmount(c) == limit[c] = NoLimit \/ usage <= limit[c]

Fits(c) == limit[c] = NoLimit \/ usage + asked[c] <= limit[c]

\* Mutant: the check lets everybody through.
AdmitAnyway(c) ==
  /\ phase[c] = "checking"
  /\ phase' = [phase EXCEPT ![c] = "admitted"]
  /\ UNCHANGED <<tier, usage, limit, asked>>

\* get_current_meter returned and the estimate fits.
Admit(c) ==
  /\ phase[c] = "checking"
  /\ Fits(c)
  /\ phase' = [phase EXCEPT ![c] = "admitted"]
  /\ UNCHANGED <<tier, usage, limit, asked>>

\* get_current_meter returned and the estimate does not fit: ForbiddenError.
Refuse(c) ==
  /\ phase[c] = "checking"
  /\ ~Fits(c)
  /\ phase' = [phase EXCEPT ![c] = "idle"]
  /\ UNCHANGED <<tier, usage, limit, asked>>

\* Any other way out of the pair of calls: a query raises, or the caller
\* never gets to (or never completes) its increment_usage.
Abandon(c) ==
  /\ phase[c] # "idle"
  /\ phase' = [phase EXCEPT ![c] = "idle"]
  /\ UNCHANGED <<tier, usage, limit, asked>>

\* A server process stops: the callers it was running are gone mid-way.
Crash(S) ==
  /\ phase' = [c \in Callers |-> IF c \in S THEN "idle" ELSE phase[c]]
  /\ UNCHANGED <<tier, usage, limit, asked>>

-----------------------------------------------------------------------------
\* Mutant: the upsert subtracts.
Decrement(c, amount) ==
  /\ phase[c] = "admitted"
  /\ usage' = usage - amount
  /\ phase' = [phase EXCEPT ![c] = "idle"]
  /\ UNCHANGED <<tier, limit, asked>>

\* increment_usage: one upsert adds to the row, whatever it holds by now.
Increment(c, amount) ==
  /\ phase[c] = "admitted"
  /\ usage' = usage + amount
  /\ phase' = [phase EXCEPT ![c] = "idle"]
  /\ UNCHANGED <<tier, limit, asked>>

\* The subscription row is changed from outside (operator, billing provider).
ChangeTier(t) ==
  /\ tier' = t
  /\ UNCHANGED <<usage, phase, limit, asked>>

\* The month ends: the next check and the next upsert address a new row.
NewCycle ==
  /\ usage' = 0
  /\ UNCHANGED <<tier, phase, limit, asked>>

CallerStep(c) ==
  \/ \E amount \in Checks : ReadTier(c, amount)
  \/ Admit(c)
  \/ Refuse(c)
  \/ Abandon(c)
  \/ \E amount \in 0 .. MaxAmount : Increment(c, amount)

Next ==
  \/ \E c \in Callers : CallerStep(c)
  \/ \E S \in SUBSET Callers : Crash(S)
  \/ \E t \in Tiers : ChangeTier(t)
  \/ NewCycle

Spec == Init /\ [][Next]_meterVars

-----------------------------------------------------------------------------
(* What metering promises *)

Admitted == {c \in Callers : phase[c] = "admitted"}

\* Every tier has a limit for this metric.
Capped == \A t \in Tiers : TierLimit[t] # NoLimit

\* What n callers past their check may still add.
Overrun(n) == n * MaxAmount

\* The limit is not hard, but what it can be overrun by is: at the moment the
\* last caller was admitted its estimate still fitted, and only the callers that
\* were past the check by then (at most all of them) add to the meter
\* afterwards.  Covers check_usage_limit and increment_usage under any
\* interleaving, tier change and cycle change.
UsageBounded ==
  Capped => usage <= (Cap - MinCheck) + Overrun(Cardinality(Callers))

\* The same with what is still to come counted in: the admitted callers' part
\* of the overrun is not yet spent.  This is the inductive form.
UsageReserved ==
  Capped => usage + Overrun(Cardinality(Admitted))
              <= (Cap - MinCheck) + Overrun(Cardinality(Callers))

\* A running check holds a tier's limit and a legal estimate.
ChecksInRange ==
  \A c \in Callers : phase[c] = "checking" =>
    /\ asked[c] \in Checks
    /\ \E t \in Tiers : limit[c] = TierLimit[t]

IInv == TypeOK /\ ChecksInRange /\ UsageReserved
=============================================================================
