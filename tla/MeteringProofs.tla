--------------------------- MODULE MeteringProofs ---------------------------
(***************************************************************************)
(* Proofs about Metering, for every set of callers, every table of limits   *)
(* and every size of check and increment.                                  *)
(***************************************************************************)
EXTENDS Metering, FiniteSetTheorems, TLAPS

USE CallersAssumption, LimitAssumption, AmountAssumption

\* Every state of the meter and of the callers' checks is well typed.
THEOREM MeteringTypeOK == Spec => []TypeOK
<1>1. Init => TypeOK
  BY DEF Init, TypeOK, Limits
<1>2. TypeOK /\ [Next]_meterVars => TypeOK'
  <2> SUFFICES ASSUME TypeOK, [Next]_meterVars PROVE TypeOK'
    OBVIOUS
  <2> USE DEF TypeOK, Limits
  <2>1. ASSUME NEW c \in Callers, NEW amount \in Checks, ReadTier(c, amount)
        PROVE  TypeOK'
    BY <2>1 DEF ReadTier
  <2>2. ASSUME NEW c \in Callers, Admit(c) \/ Refuse(c) \/ Abandon(c)
        PROVE  TypeOK'
    BY <2>2 DEF Admit, Refuse, Abandon
  <2>3. ASSUME NEW c \in Callers, NEW amount \in 0 .. MaxAmount, Increment(c, amount)
        PROVE  TypeOK'
    BY <2>3 DEF Increment
  <2>4. ASSUME NEW t \in Tiers, ChangeTier(t) PROVE TypeOK'
    BY <2>4 DEF ChangeTier
  <2>5. CASE NewCycle
    BY <2>5 DEF NewCycle
  <2>6. ASSUME NEW S \in SUBSET Callers, Crash(S) PROVE TypeOK'
    BY <2>6 DEF Crash
  <2>7. CASE UNCHANGED meterVars
    BY <2>7 DEF meterVars
  <2>8. QED
    BY <2>1, <2>2, <2>3, <2>4, <2>5, <2>6, <2>7 DEF Next, CallerStep
<1>3. QED
  BY <1>1, <1>2, PTL DEF Spec

-----------------------------------------------------------------------------
(* Counting the admitted callers *)

\* The admitted callers are some of the callers.
LEMMA AdmittedFinite ==
  /\ IsFiniteSet(Admitted)
  /\ Cardinality(Admitted) \in Nat
  /\ Cardinality(Callers) \in Nat
  /\ Cardinality(Admitted) <= Cardinality(Callers)
<1>1. Admitted \subseteq Callers
  BY DEF Admitted
<1>2. QED
  BY <1>1, FS_Subset, FS_CardinalityType

\* One more admitted caller adds MaxAmount to what may still come.
LEMMA OverrunStep ==
  ASSUME NEW n \in Nat
  PROVE  /\ Overrun(n) \in Nat
         /\ Overrun(n + 1) = Overrun(n) + MaxAmount
BY DEF Overrun

\* More callers, more overrun.
LEMMA OverrunMonotone ==
  ASSUME NEW m \in Nat, NEW n \in Nat, m <= n
  PROVE  Overrun(m) <= Overrun(n)
BY DEF Overrun

-----------------------------------------------------------------------------
(* The bound *)

\* No caller is admitted initially, and no usage is recorded.
LEMMA InitReserved == Init => UsageReserved
<1> SUFFICES ASSUME Init, Capped PROVE UsageReserved
  BY DEF UsageReserved
<1>1. Admitted = {}
  BY DEF Init, Admitted
<1>2. Overrun(Cardinality(Admitted)) = 0
  BY <1>1, FS_EmptySet DEF Overrun
<1>3. Overrun(Cardinality(Callers)) \in Nat
  BY AdmittedFinite, OverrunStep
<1>4. QED
  BY <1>2, <1>3 DEF Init, UsageReserved

\* An admission happens only while the estimate fits a tier's limit, so what
\* is reserved stays bounded however many callers were admitted before.
LEMMA AdmitReserved ==
  ASSUME IInv, NEW c \in Callers, Admit(c)
  PROVE  UsageReserved'
<1> SUFFICES ASSUME Capped
             PROVE  usage' + Overrun(Cardinality(Admitted'))
                      <= (Cap - MinCheck) + Overrun(Cardinality(Callers))
  BY DEF UsageReserved, Capped
<1>1. limit[c] \in Nat /\ limit[c] <= Cap /\ asked[c] \in Nat /\ MinCheck <= asked[c]
  BY DEF IInv, ChecksInRange, Admit, Capped
<1>2. usage' = usage /\ usage \in Nat /\ usage + asked[c] <= limit[c]
  BY <1>1 DEF Admit, Fits, IInv, TypeOK
<1>3. usage' \in Nat /\ usage' <= Cap - MinCheck
  BY <1>1, <1>2
<1>4. Admitted' \subseteq Callers
  BY DEF Admitted
<1>5. /\ Cardinality(Admitted') \in Nat
      /\ Cardinality(Callers) \in Nat
      /\ Cardinality(Admitted') <= Cardinality(Callers)
  BY <1>4, FS_Subset, FS_CardinalityType
<1>6. /\ Overrun(Cardinality(Admitted')) <= Overrun(Cardinality(Callers))
      /\ Overrun(Cardinality(Admitted')) \in Nat
      /\ Overrun(Cardinality(Callers)) \in Nat
  BY <1>5, OverrunMonotone, OverrunStep
<1>7. QED
  BY <1>3, <1>6

\* A caller that leaves the admitted set takes its share of the overrun with
\* it; what it adds to the meter is at most that share.
LEMMA LeaveReserved ==
  ASSUME IInv, NEW c \in Callers, phase[c] = "admitted",
         phase' = [phase EXCEPT ![c] = "idle"],
         NEW amount \in 0 .. MaxAmount, usage' = usage + amount
  PROVE  UsageReserved'
<1> SUFFICES ASSUME Capped
             PROVE  usage' + Overrun(Cardinality(Admitted'))
                      <= (Cap - MinCheck) + Overrun(Cardinality(Callers))
  BY DEF UsageReserved, Capped
<1> DEFINE n == Cardinality(Admitted')
<1>1. Admitted' = Admitted \ {c} /\ c \in Admitted
  BY DEF Admitted, IInv, TypeOK
<1>2. n \in Nat /\ Cardinality(Admitted) = n + 1
  <2>1. /\ IsFiniteSet(Admitted \ {c})
        /\ Cardinality(Admitted \ {c}) = Cardinality(Admitted) - 1
    BY <1>1, AdmittedFinite, FS_RemoveElement
  <2>2. Cardinality(Admitted \ {c}) \in Nat
    BY <2>1, FS_CardinalityType
  <2>3. QED
    BY <1>1, <2>1, <2>2, AdmittedFinite
<1>3. Overrun(n) \in Nat /\ Overrun(Cardinality(Admitted)) = Overrun(n) + MaxAmount
  BY <1>2, OverrunStep
<1>4. usage + Overrun(Cardinality(Admitted)) <= (Cap - MinCheck) + Overrun(Cardinality(Callers))
  BY DEF IInv, UsageReserved
<1>5. Overrun(Cardinality(Callers)) \in Nat /\ usage \in Nat
  BY AdmittedFinite, OverrunStep DEF IInv, TypeOK
<1>6. QED
  BY <1>3, <1>4, <1>5

\* The admitted set is untouched by every other step of a caller.
LEMMA QuietReserved ==
  ASSUME IInv, Admitted' = Admitted, usage' = usage
  PROVE  UsageReserved'
BY DEF IInv, UsageReserved, Capped

\* Callers lost in a crash leave their share of the overrun unspent.
LEMMA CrashReserved ==
  ASSUME IInv, NEW S \in SUBSET Callers, Crash(S)
  PROVE  UsageReserved'
<1>1. Admitted' = Admitted \ S /\ usage' = usage /\ usage \in Nat
  BY DEF Crash, Admitted, IInv, TypeOK
<1>2. /\ Cardinality(Admitted') \in Nat
      /\ Cardinality(Admitted') <= Cardinality(Admitted)
  <2>1. Admitted \ S \in SUBSET Admitted
    OBVIOUS
  <2>2. /\ IsFiniteSet(Admitted \ S)
        /\ Cardinality(Admitted \ S) <= Cardinality(Admitted)
    BY <2>1, AdmittedFinite, FS_Subset
  <2>3. QED
    BY <1>1, <2>2, FS_CardinalityType
<1>3. /\ Overrun(Cardinality(Admitted')) <= Overrun(Cardinality(Admitted))
      /\ Overrun(Cardinality(Admitted')) \in Nat
      /\ Overrun(Cardinality(Admitted)) \in Nat
      /\ Overrun(Cardinality(Callers)) \in Nat
  BY <1>2, AdmittedFinite, OverrunMonotone, OverrunStep
<1>4. QED
  BY <1>1, <1>3 DEF IInv, UsageReserved, Capped

\* A new cycle starts with an empty meter.
LEMMA NewCycleReserved ==
  ASSUME IInv, NewCycle
  PROVE  UsageReserved'
<1>1. Admitted' = Admitted /\ usage' = 0 /\ usage \in Nat
  BY DEF NewCycle, Admitted, IInv, TypeOK
<1>2. /\ Overrun(Cardinality(Admitted)) <= Overrun(Cardinality(Callers))
      /\ Overrun(Cardinality(Admitted)) \in Nat
      /\ Overrun(Cardinality(Callers)) \in Nat
  BY AdmittedFinite, OverrunMonotone, OverrunStep
<1>3. QED
  BY <1>1, <1>2 DEF UsageReserved, Capped

\* Checks carry a legal estimate and a limit some tier has.
LEMMA ChecksStep ==
  ASSUME IInv, [Next]_meterVars
  PROVE  ChecksInRange'
<1> USE DEF IInv, TypeOK, ChecksInRange
<1>1. ASSUME NEW c \in Callers, NEW amount \in Checks, ReadTier(c, amount)
      PROVE  ChecksInRange'
  BY <1>1 DEF ReadTier
<1>2. ASSUME NEW c \in Callers, Admit(c) \/ Refuse(c) \/ Abandon(c)
      PROVE  ChecksInRange'
  BY <1>2 DEF Admit, Refuse, Abandon
<1>3. ASSUME NEW c \in Callers, NEW amount \in 0 .. MaxAmount, Increment(c, amount)
      PROVE  ChecksInRange'
  BY <1>3 DEF Increment
<1>4. ASSUME NEW t \in Tiers, ChangeTier(t) PROVE ChecksInRange'
  BY <1>4 DEF ChangeTier
<1>5. CASE NewCycle
  BY <1>5 DEF NewCycle
<1>6. ASSUME NEW S \in SUBSET Callers, Crash(S) PROVE ChecksInRange'
  BY <1>6 DEF Crash
<1>7. CASE UNCHANGED meterVars
  BY <1>7 DEF meterVars
<1>8. QED
  BY <1>1, <1>2, <1>3, <1>4, <1>5, <1>6, <1>7 DEF Next, CallerStep

\* The reservation is inductive together with the types and the range of checks.
LEMMA ReservedStep ==
  ASSUME IInv, [Next]_meterVars
  PROVE  UsageReserved'
<1> USE DEF IInv, TypeOK
<1>1. ASSUME NEW c \in Callers, NEW amount \in Checks, ReadTier(c, amount)
      PROVE  UsageReserved'
  <2>1. Admitted' = Admitted /\ usage' = usage
    BY <1>1 DEF ReadTier, Admitted
  <2>2. QED
    BY <2>1, QuietReserved
<1>2. ASSUME NEW c \in Callers, Admit(c) PROVE UsageReserved'
  BY <1>2, AdmitReserved
<1>3. ASSUME NEW c \in Callers, Refuse(c) PROVE UsageReserved'
  <2>1. Admitted' = Admitted /\ usage' = usage
    BY <1>3 DEF Refuse, Admitted
  <2>2. QED
    BY <2>1, QuietReserved
<1>4. ASSUME NEW c \in Callers, Abandon(c) PROVE UsageReserved'
  <2>1. CASE phase[c] = "admitted"
    <3>1. 0 \in 0 .. MaxAmount /\ usage' = usage + 0
      BY <1>4 DEF Abandon
    <3>2. QED
      BY <1>4, <2>1, <3>1, LeaveReserved DEF Abandon
  <2>2. CASE phase[c] # "admitted"
    <3>1. Admitted' = Admitted /\ usage' = usage
      BY <1>4, <2>2 DEF Abandon, Admitted
    <3>2. QED
      BY <3>1, QuietReserved
  <2>3. QED
    BY <2>1, <2>2
<1>5. ASSUME NEW c \in Callers, NEW amount \in 0 .. MaxAmount, Increment(c, amount)
      PROVE  UsageReserved'
  BY <1>5, LeaveReserved DEF Increment
<1>6. ASSUME NEW t \in Tiers, ChangeTier(t) PROVE UsageReserved'
  <2>1. Admitted' = Admitted /\ usage' = usage
    BY <1>6 DEF ChangeTier, Admitted
  <2>2. QED
    BY <2>1, QuietReserved
<1>7. CASE NewCycle
  BY <1>7, NewCycleReserved
<1>8. ASSUME NEW S \in SUBSET Callers, Crash(S) PROVE UsageReserved'
  BY <1>8, CrashReserved
<1>9. CASE UNCHANGED meterVars
  <2>1. Admitted' = Admitted /\ usage' = usage
    BY <1>9 DEF meterVars, Admitted
  <2>2. QED
    BY <2>1, QuietReserved
<1>10. QED
  BY <1>1, <1>2, <1>3, <1>4, <1>5, <1>6, <1>7, <1>8, <1>9 DEF Next, CallerStep

\* UsageReserved is an invariant of the meter.
THEOREM MeteringReserved == Spec => []UsageReserved
<1>1. Init => IInv
  BY InitReserved DEF Init, IInv, TypeOK, Limits, ChecksInRange
<1>2. IInv /\ [Next]_meterVars /\ TypeOK' => IInv'
  BY ChecksStep, ReservedStep DEF IInv
<1>3. IInv => UsageReserved
  BY DEF IInv
<1>4. QED
  BY <1>1, <1>2, <1>3, MeteringTypeOK, PTL DEF Spec

\* The meter never exceeds the cap by more than what the callers past their
\* check can add: usage <= (Cap - MinCheck) + Cardinality(Callers) * MaxAmount.
THEOREM MeteringBounded == Spec => []UsageBounded
<1>1. TypeOK /\ UsageReserved => UsageBounded
  <2>1. Overrun(Cardinality(Admitted)) \in Nat /\ Overrun(Cardinality(Callers)) \in Nat
    BY AdmittedFinite, OverrunStep
  <2>2. QED
    BY <2>1 DEF TypeOK, UsageReserved, UsageBounded
<1>2. QED
  BY <1>1, MeteringTypeOK, MeteringReserved, PTL
=============================================================================
