------------------------ MODULE WorkflowEngineProofs ------------------------
(***************************************************************************)
(* Proofs about WorkflowEngine, for every number of concurrent runs and    *)
(* every table of limits: the engine implements the abstract quota of      *)
(* Metering, which bounds what it counts; and what the log and the meter   *)
(* say about a run is true.                                                *)
(***************************************************************************)
EXTENDS WorkflowEngine, SequenceTheorems, TLAPS

MP == INSTANCE MeteringProofs WITH Callers <- Runs, Checks <- {1}, MinCheck <- 1, MaxAmount <- 1

-----------------------------------------------------------------------------
(* The engine implements Metering *)

\* Every step of the engine is a step of the quota, or leaves it alone.
LEMMA StepRefines ==
  ASSUME [Next]_vars
  PROVE  [M!Next]_(M!meterVars)
<1> USE DEF M!Next, M!CallerStep, M!meterVars
<1>1. ASSUME NEW r \in Runs, NEW d \in LogDepth, Start(r, d) PROVE UNCHANGED M!meterVars
  BY <1>1 DEF Start
<1>2. ASSUME NEW r \in Runs, Match(r) PROVE M!Next
  BY <1>2 DEF Match
<1>3. ASSUME NEW r \in Runs, CheckPasses(r) \/ CheckRefuses(r) \/ CheckRaises(r) \/ ActionsFail(r)
      PROVE  M!Next
  BY <1>3 DEF CheckPasses, CheckRefuses, CheckRaises, ActionsFail
<1>4. ASSUME NEW r \in Runs, RaisesUncaught(r) \/ LogSuccess(r)
      PROVE  [M!Next]_(M!meterVars)
  BY <1>4 DEF RaisesUncaught, LogSuccess
<1>5. ASSUME NEW r \in Runs, Count(r) PROVE M!Next
  BY <1>5 DEF Count
<1>6. ASSUME NEW r \in Runs,
             \/ Mismatch(r) \/ LogSkipped(r) \/ LogRefused(r) \/ ActionsSucceed(r)
             \/ LogFailed(r) \/ Handle(r) \/ Recycle(r)
      PROVE  UNCHANGED M!meterVars
  BY <1>6 DEF Mismatch, LogSkipped, LogRefused, ActionsSucceed, LogFailed, Handle, Recycle
<1>7. ASSUME NEW S \in SUBSET Runs, Crash(S) PROVE M!Next
  BY <1>7 DEF Crash
<1>8. CASE Meter
  BY <1>8 DEF Meter
<1>9. CASE UNCHANGED vars
  BY <1>9 DEF vars
<1>10. QED
  BY <1>1, <1>2, <1>3, <1>4, <1>5, <1>6, <1>7, <1>8, <1>9 DEF Next, RunStep

\* The engine uses the meter as Metering says, in every interleaving and crash.
THEOREM EngineMeters == Spec => MeteringSpec
<1>1. Init => M!Init
  BY DEF Init
<1>2. [Next]_vars => [M!Next]_(M!meterVars)
  BY StepRefines
<1>3. QED
  BY <1>1, <1>2, PTL DEF Spec, MeteringSpec, M!Spec

\* What the engine assumes of its constants is what Metering's theorems need.
LEMMA MeterAssumptions == MP!CallersAssumption /\ MP!LimitAssumption /\ MP!AmountAssumption
BY EngineAssumption
   DEF MP!CallersAssumption, MP!LimitAssumption, MP!AmountAssumption, IsFiniteSet, MP!IsFiniteSet

\* The quota that the engine uses is the one Metering's theorems are about.
LEMMA SameMeter ==
  /\ M!Spec => MP!Spec
  /\ MP!UsageBounded <=> M!UsageBounded
  /\ MP!TypeOK <=> M!TypeOK
<1>1. M!Init => MP!Init
  BY DEF M!Init, MP!Init
<1>2. [M!Next]_(M!meterVars) => [MP!Next]_(MP!meterVars)
  BY DEF M!Next, M!CallerStep, M!meterVars, MP!Next, MP!CallerStep, MP!meterVars,
     M!ReadTier, M!Admit, M!Refuse, M!Abandon, M!Increment, M!Fits, M!Crash, M!ChangeTier, M!NewCycle,
     MP!ReadTier, MP!Admit, MP!Refuse, MP!Abandon, MP!Increment, MP!Fits, MP!Crash, MP!ChangeTier,
     MP!NewCycle
<1>3. M!Spec => MP!Spec
  BY <1>1, <1>2, PTL DEF M!Spec, MP!Spec
<1>4. MP!UsageBounded <=> M!UsageBounded
  BY DEF M!UsageBounded, M!Capped, M!Overrun, M!Cardinality, M!IsFiniteSet,
         MP!UsageBounded, MP!Capped, MP!Overrun, MP!Cardinality, MP!IsFiniteSet
<1>5. MP!TypeOK <=> M!TypeOK
  BY DEF M!TypeOK, MP!TypeOK, M!Limits, MP!Limits
<1>6. QED
  BY <1>3, <1>4, <1>5

\* However many runs overlap, a metered limit of executions is overrun by less than
\* their number: usage <= (Cap - 1) + Cardinality(Runs).
THEOREM EngineUsageBounded == Spec => []M!UsageBounded
<1>1. MP!Spec => []MP!UsageBounded
  BY MeterAssumptions, MP!MeteringBounded
<1>2. QED
  BY <1>1, EngineMeters, SameMeter, PTL DEF MeteringSpec

-----------------------------------------------------------------------------
(* Types *)

\* The part of the types that is the engine's own.
RunTypes ==
  /\ pc      \in [Runs -> {"idle"} \cup Active \cup Over]
  /\ depth   \in [Runs -> LogDepth]
  /\ matched \in [Runs -> BOOLEAN]
  /\ effect  \in [Runs -> {"none", "some", "all"}]
  /\ rows    \in [Runs -> Seq(Status)]
  /\ counted \in [Runs -> Nat]

\* Writing a row preserves the types.
LEMMA WriteRowTypes ==
  ASSUME RunTypes, NEW r \in Runs, NEW status \in Status,
         NEW after \in {"done", "counting"}, NEW onError \in {"unlogged", "handling"},
         WriteRow(r, status, after, onError)
  PROVE  /\ rows' \in [Runs -> Seq(Status)]
         /\ pc' \in [Runs -> {"idle"} \cup Active \cup Over]
<1>1. Append(rows[r], status) \in Seq(Status)
  BY DEF RunTypes
<1>2. rows' \in [Runs -> Seq(Status)]
  BY <1>1 DEF RunTypes, WriteRow
<1>3. pc' \in [Runs -> {"idle"} \cup Active \cup Over]
  BY DEF RunTypes, WriteRow, Goto, Active, Over
<1>4. QED
  BY <1>2, <1>3

\* Every step of the engine keeps the types of the runs.
LEMMA RunTypesStep ==
  ASSUME RunTypes, [Next]_vars
  PROVE  RunTypes'
<1> USE DEF RunTypes, Goto, Active, Over, LogDepth
<1>1. ASSUME NEW r \in Runs, NEW d \in LogDepth, Start(r, d) PROVE RunTypes'
  BY <1>1 DEF Start
<1>2. ASSUME NEW r \in Runs,
             \/ Mismatch(r) \/ Match(r) \/ CheckPasses(r) \/ CheckRefuses(r) \/ CheckRaises(r)
             \/ RaisesUncaught(r)
      PROVE  RunTypes'
  BY <1>2 DEF Mismatch, Match, CheckPasses, CheckRefuses, CheckRaises, RaisesUncaught
<1>3. ASSUME NEW r \in Runs, ActionsSucceed(r) \/ ActionsFail(r) PROVE RunTypes'
  BY <1>3 DEF ActionsSucceed, ActionsFail
<1>4. ASSUME NEW r \in Runs, LogSkipped(r) \/ LogRefused(r) \/ LogFailed(r) \/ LogSuccess(r)
      PROVE  RunTypes'
  BY <1>4, WriteRowTypes DEF LogSkipped, LogRefused, LogFailed, LogSuccess, Status
<1>5. ASSUME NEW r \in Runs, Count(r) PROVE RunTypes'
  <2>1. counted' \in [Runs -> Nat]
    <3>1. counted' = counted \/ counted' = [counted EXCEPT ![r] = @ + 1]
      BY <1>5 DEF Count
    <3>2. counted[r] + 1 \in Nat
      OBVIOUS
    <3>3. QED
      BY <3>1, <3>2
  <2>2. pc' \in [Runs -> {"idle"} \cup Active \cup Over]
    BY <1>5 DEF Count
  <2>3. QED
    BY <1>5, <2>1, <2>2 DEF Count
<1>6. ASSUME NEW r \in Runs, Handle(r) PROVE RunTypes'
  BY <1>6, WriteRowTypes DEF Handle, Status
<1>7. ASSUME NEW r \in Runs, Recycle(r) PROVE RunTypes'
  BY <1>7 DEF Recycle
<1>8. ASSUME NEW S \in SUBSET Runs, Crash(S) PROVE RunTypes'
  BY <1>8 DEF Crash
<1>9. CASE Meter \/ UNCHANGED vars
  BY <1>9 DEF Meter, vars, runVars
<1>10. QED
  BY <1>1, <1>2, <1>3, <1>4, <1>5, <1>6, <1>7, <1>8, <1>9 DEF Next, RunStep

\* Every state of the runs and of the meter is well typed.
THEOREM EngineTypeOK == Spec => []TypeOK
<1>1. Init => RunTypes
  BY DEF Init, RunTypes, LogDepth, Status
<1>2. RunTypes /\ [Next]_vars => RunTypes'
  BY RunTypesStep
<1>3. MP!Spec => []MP!TypeOK
  BY MeterAssumptions, MP!MeteringTypeOK
<1>4. M!TypeOK /\ RunTypes => TypeOK
  BY DEF TypeOK, RunTypes
<1>5. QED
  BY <1>1, <1>2, <1>3, <1>4, EngineMeters, SameMeter, PTL DEF Spec, MeteringSpec

-----------------------------------------------------------------------------
(* The log and the meter *)

Failures  == {<<"failed">>, <<"failed", "failed">>}
Successes == {<<"success">>, <<"success", "failed">>}

\* What holds of a run wherever it stands, a lost one included.
Told(r) ==
  /\ counted[r] \in {0, 1}
  /\ counted[r] = 1 => effect[r] = "all"
  /\ \/ rows[r] = <<>>
     \/ /\ rows[r] = <<"skipped">> /\ depth[r] = "all" /\ ~matched[r]
        /\ effect[r] = "none" /\ counted[r] = 0
     \/ rows[r] \in Failures /\ depth[r] # "none"
     \/ rows[r] \in Successes /\ depth[r] = "all" /\ effect[r] = "all"

Untouched(r) == rows[r] = <<>> /\ effect[r] = "none" /\ counted[r] = 0

\* What a run at each place has done and left behind so far.
Placed(r) ==
  /\ pc[r] \in {"idle", "matching", "checking", "acting", "skipping", "refusing", "raised"} => Untouched(r)
  /\ pc[r] = "skipping" => depth[r] = "all" /\ ~matched[r]
  /\ pc[r] = "refusing" => depth[r] # "none"
  /\ pc[r] = "failing" => depth[r] # "none" /\ rows[r] = <<>> /\ effect[r] # "all" /\ counted[r] = 0
  /\ pc[r] = "recording" => depth[r] = "all" /\ rows[r] = <<>> /\ effect[r] = "all" /\ counted[r] = 0
  /\ pc[r] = "counting" => /\ effect[r] = "all" /\ counted[r] = 0
                           /\ rows[r] = IF depth[r] = "all" THEN <<"success">> ELSE <<>>
  /\ pc[r] = "handling" => /\ rows[r] \in {<<>>, <<"failed">>, <<"success">>}
                           /\ effect[r] # "all" => depth[r] # "none"
  /\ pc[r] = "done" =>
       /\ rows[r] = <<>> => /\ depth[r] # "all"
                            /\ \/ depth[r] = "none"
                               \/ effect[r] = "none" /\ counted[r] = 0 /\ ~matched[r]
                               \/ effect[r] = "all" /\ counted[r] = 1
       /\ rows[r] = <<"success">> => counted[r] = 1
  /\ pc[r] = "unlogged" => depth[r] # "none"

Accounted == \A r \in Runs : Told(r) /\ Placed(r)

\* What the log of a run says, spelt out for the sequences that occur.
LEMMA RowsSpelt ==
  ASSUME NEW s \in Status, NEW t \in Status
  PROVE  Append(<<>>, s) = <<s>> /\ Append(<<s>>, t) = <<s, t>>
<1>1. Append(<<>>, s) = <<s>>
  OBVIOUS
<1>2. /\ <<s>> \in Seq(Status) /\ Len(<<s>>) = 1
      /\ <<s, t>> \in Seq(Status) /\ Len(<<s, t>>) = 2
  OBVIOUS
<1>3. /\ Append(<<s>>, t) \in Seq(Status) /\ Len(Append(<<s>>, t)) = 2
      /\ Append(<<s>>, t)[1] = s /\ Append(<<s>>, t)[2] = t
  BY <1>2, AppendProperties
<1>4. \A i \in 1 .. 2 : Append(<<s>>, t)[i] = <<s, t>>[i]
  BY <1>3
<1>5. Append(<<s>>, t) = <<s, t>>
  BY <1>2, <1>3, <1>4, SeqEqual
<1>6. QED
  BY <1>1, <1>5

\* The logs that occur are different from each other.
LEMMA RowsDiffer ==
  /\ <<"skipped">> # <<>> /\ <<"failed">> # <<>> /\ <<"success">> # <<>>
  /\ <<"failed", "failed">> # <<>> /\ <<"success", "failed">> # <<>>
  /\ <<"skipped">> # <<"success">> /\ <<"failed">> # <<"success">> /\ <<"failed">> # <<"skipped">>
  /\ <<"failed", "failed">> # <<"success">> /\ <<"success", "failed">> # <<"success">>
  /\ <<"failed", "failed">> # <<"failed">> /\ <<"success", "failed">> # <<"failed">>
  /\ <<"failed", "failed">> # <<"skipped">> /\ <<"success", "failed">> # <<"skipped">>
  /\ <<"success", "failed">> # <<"failed", "failed">>
OBVIOUS

\* A step of one run leaves the account of the others as it is.
LEMMA OthersAccounted ==
  ASSUME Accounted, NEW q \in Runs,
         pc'[q] = pc[q], depth'[q] = depth[q], matched'[q] = matched[q], effect'[q] = effect[q],
         rows'[q] = rows[q], counted'[q] = counted[q]
  PROVE  Told(q)' /\ Placed(q)'
BY DEF Accounted, Told, Placed, Untouched

\* The steps before anything is logged.
LEMMA BeginAccounted ==
  ASSUME RunTypes, Accounted, NEW r \in Runs,
         \/ \E d \in LogDepth : Start(r, d)
         \/ Mismatch(r) \/ Match(r) \/ CheckPasses(r) \/ CheckRefuses(r) \/ CheckRaises(r)
         \/ RaisesUncaught(r) \/ Recycle(r)
  PROVE  Accounted'
<1> SUFFICES ASSUME NEW q \in Runs PROVE Told(q)' /\ Placed(q)'
  BY DEF Accounted
<1>1. CASE q # r
  BY <1>1, OthersAccounted DEF RunTypes, Start, Mismatch, Match, CheckPasses, CheckRefuses,
     CheckRaises, RaisesUncaught, Recycle, Goto
<1>2. CASE q = r
  <2>1. Told(r) /\ Placed(r)
    BY DEF Accounted
  <2>2. ASSUME NEW d \in LogDepth, Start(r, d) PROVE Told(r)' /\ Placed(r)'
    <3>1. /\ pc[r] = "idle" /\ pc'[r] = "matching"
          /\ rows'[r] = rows[r] /\ effect'[r] = effect[r] /\ counted'[r] = counted[r]
      BY <2>2 DEF Start, Goto, RunTypes
    <3>2. QED
      BY <2>1, <3>1 DEF Told, Placed, Untouched
  <2>3. ASSUME \/ Mismatch(r) \/ Match(r) \/ CheckPasses(r) \/ CheckRefuses(r) \/ CheckRaises(r)
               \/ RaisesUncaught(r)
        PROVE  Told(r)' /\ Placed(r)'
    <3>1. /\ depth[r] \in LogDepth /\ depth'[r] = depth[r]
          /\ rows'[r] = rows[r] /\ effect'[r] = effect[r] /\ counted'[r] = counted[r]
      BY <2>3 DEF Mismatch, Match, CheckPasses, CheckRefuses, CheckRaises, RaisesUncaught, RunTypes
    <3>2. /\ pc[r] \in {"matching", "checking", "acting"}
          /\ \/ pc'[r] = "skipping" /\ depth[r] = "all" /\ ~matched'[r]
             \/ pc'[r] = "refusing" /\ depth[r] # "none"
             \/ pc'[r] = "done" /\ depth[r] # "all" /\ (depth[r] = "none" \/ ~matched'[r])
             \/ pc'[r] \in {"checking", "acting", "raised"}
      BY <2>3, <3>1 DEF Mismatch, Match, CheckPasses, CheckRefuses, CheckRaises, RaisesUncaught, RunTypes,
         Goto, WantsAll, WantsErrors, LogDepth
    <3>3. QED
      BY <2>1, <3>1, <3>2, RowsDiffer DEF Told, Placed, Untouched
  <2>4. ASSUME Recycle(r) PROVE Told(r)' /\ Placed(r)'
    BY <2>4 DEF Told, Placed, Untouched, Recycle, Goto, RunTypes
  <2>5. QED
    BY <1>2, <2>2, <2>3, <2>4
<1>3. QED
  BY <1>1, <1>2

\* The actions of the rule take effect, all of them or not.
LEMMA ActAccounted ==
  ASSUME RunTypes, Accounted, NEW r \in Runs, ActionsSucceed(r) \/ ActionsFail(r)
  PROVE  Accounted'
<1> SUFFICES ASSUME NEW q \in Runs PROVE Told(q)' /\ Placed(q)'
  BY DEF Accounted
<1>1. CASE q # r
  BY <1>1, OthersAccounted DEF RunTypes, ActionsSucceed, ActionsFail, Goto
<1>2. CASE q = r
  <2>1. Told(r) /\ Placed(r)
    BY DEF Accounted
  <2>2. /\ pc[r] = "acting" /\ depth[r] \in LogDepth /\ depth'[r] = depth[r]
        /\ rows'[r] = rows[r] /\ counted'[r] = counted[r] /\ matched'[r] = matched[r]
    BY DEF RunTypes, ActionsSucceed, ActionsFail
  <2>3. \/ pc'[r] = "recording" /\ effect'[r] = "all" /\ depth[r] = "all"
        \/ pc'[r] = "counting" /\ effect'[r] = "all" /\ depth[r] # "all"
        \/ pc'[r] = "failing" /\ effect'[r] \in {"none", "some"} /\ depth[r] # "none"
        \/ pc'[r] = "done" /\ effect'[r] \in {"none", "some"} /\ depth[r] = "none"
    BY <2>2 DEF RunTypes, ActionsSucceed, ActionsFail, Goto, WantsAll, WantsErrors, LogDepth
  <2>4. QED
    BY <1>2, <2>1, <2>2, <2>3, RowsDiffer DEF Told, Placed, Untouched
<1>3. QED
  BY <1>1, <1>2

\* What a write of a row does to its run.
LEMMA WriteRowSpelt ==
  ASSUME RunTypes, NEW r \in Runs, NEW status, NEW after, NEW onError,
         WriteRow(r, status, after, onError)
  PROVE  \/ rows'[r] = Append(rows[r], status) /\ pc'[r] \in {after, onError}
         \/ rows'[r] = rows[r] /\ pc'[r] = onError
BY DEF RunTypes, WriteRow, Goto

\* A row is written, or its write raises with or without effect.
LEMMA LogAccounted ==
  ASSUME RunTypes, Accounted, NEW r \in Runs,
         LogSkipped(r) \/ LogRefused(r) \/ LogFailed(r) \/ LogSuccess(r) \/ Handle(r)
  PROVE  Accounted'
<1> SUFFICES ASSUME NEW q \in Runs PROVE Told(q)' /\ Placed(q)'
  BY DEF Accounted
<1>1. CASE q # r
  BY <1>1, OthersAccounted DEF LogSkipped, LogRefused, LogFailed, LogSuccess, Handle, RunTypes, WriteRow, Goto
<1>2. /\ Told(r) /\ Placed(r)
      /\ depth[r] \in LogDepth /\ depth'[r] = depth[r]
      /\ effect'[r] = effect[r] /\ counted'[r] = counted[r] /\ matched'[r] = matched[r]
  BY DEF LogSkipped, LogRefused, LogFailed, LogSuccess, Handle, RunTypes, Accounted
<1>3. /\ Append(<<>>, "skipped") = <<"skipped">>
      /\ Append(<<>>, "failed") = <<"failed">>
      /\ Append(<<>>, "success") = <<"success">>
      /\ Append(<<"failed">>, "failed") = <<"failed", "failed">>
      /\ Append(<<"success">>, "failed") = <<"success", "failed">>
  BY RowsSpelt DEF Status
<1>4. CASE LogSkipped(r)
  <2>1. pc[r] = "skipping" /\ WriteRow(r, "skipped", "done", "unlogged")
    BY <1>4 DEF LogSkipped
  <2>2. /\ rows'[r] \in {<<>>, <<"skipped">>}
        /\ pc'[r] = "unlogged" \/ (pc'[r] = "done" /\ rows'[r] = <<"skipped">>)
    BY <1>2, <1>3, <2>1, WriteRowSpelt DEF Placed, Untouched
  <2>3. Told(r)' /\ Placed(r)'
    BY <1>2, <2>1, <2>2 DEF Told, Placed, Untouched
  <2>4. QED
    BY <1>1, <2>3
<1>5. CASE LogRefused(r) \/ LogFailed(r)
  <2>1. /\ pc[r] \in {"refusing", "failing"}
        /\ \/ WriteRow(r, "failed", "done", "unlogged")
           \/ WriteRow(r, "failed", "done", "handling")
    BY <1>5 DEF LogRefused, LogFailed
  <2>2. /\ rows'[r] \in {<<>>, <<"failed">>}
        /\ pc'[r] \in {"unlogged", "handling"} \/ (pc'[r] = "done" /\ rows'[r] = <<"failed">>)
    BY <1>2, <1>3, <2>1, WriteRowSpelt DEF Placed, Untouched
  <2>3. Told(r)' /\ Placed(r)'
    BY <1>2, <2>1, <2>2 DEF Told, Placed, Untouched, Failures
  <2>4. QED
    BY <1>1, <2>3
<1>6. CASE LogSuccess(r)
  <2>1. pc[r] = "recording" /\ WriteRow(r, "success", "counting", "handling")
    BY <1>6 DEF LogSuccess
  <2>2. /\ rows'[r] \in {<<>>, <<"success">>}
        /\ pc'[r] = "handling" \/ (pc'[r] = "counting" /\ rows'[r] = <<"success">>)
    BY <1>2, <1>3, <2>1, WriteRowSpelt DEF Placed, Untouched
  <2>3. Told(r)' /\ Placed(r)'
    BY <1>2, <2>1, <2>2 DEF Told, Placed, Untouched, Successes
  <2>4. QED
    BY <1>1, <2>3
<1>7. CASE Handle(r)
  <2>1. pc[r] = "handling" /\ rows[r] \in {<<>>, <<"failed">>, <<"success">>}
    BY <1>2, <1>7 DEF Handle, Placed
  <2>2. CASE depth[r] # "none"
    <3>1. WriteRow(r, "failed", "done", "unlogged")
      BY <1>2, <1>7, <2>2 DEF Handle, WantsErrors, LogDepth
    <3>2. \/ rows'[r] = Append(rows[r], "failed") /\ pc'[r] \in {"done", "unlogged"}
          \/ rows'[r] = rows[r] /\ pc'[r] = "unlogged"
      BY <3>1, WriteRowSpelt
    <3>3. Told(r)'
      BY <1>2, <1>3, <2>1, <2>2, <3>2, RowsDiffer DEF Told, Failures, Successes
    <3>4. Placed(r)'
      BY <1>2, <1>3, <2>1, <2>2, <3>2, RowsDiffer DEF Placed, Untouched
    <3>5. QED
      BY <1>1, <3>3, <3>4
  <2>3. CASE depth[r] = "none"
    <3>1. rows'[r] = rows[r] /\ pc'[r] = "done"
      BY <1>7, <2>3 DEF Handle, WantsErrors, Goto, RunTypes
    <3>2. Told(r)' /\ Placed(r)'
      BY <1>2, <2>3, <3>1, RowsDiffer DEF Told, Placed, Untouched, Failures, Successes
    <3>3. QED
      BY <1>1, <3>2
  <2>4. QED
    BY <2>2, <2>3
<1>8. QED
  BY <1>4, <1>5, <1>6, <1>7

\* The meter is incremented, or that raises with or without effect.
LEMMA CountAccounted ==
  ASSUME RunTypes, Accounted, NEW r \in Runs, Count(r)
  PROVE  Accounted'
<1> SUFFICES ASSUME NEW q \in Runs PROVE Told(q)' /\ Placed(q)'
  BY DEF Accounted
<1>1. CASE q # r
  <2>1. counted'[q] = counted[q]
    <3>1. counted' = counted \/ counted' = [counted EXCEPT ![r] = @ + 1]
      BY DEF Count
    <3>2. QED
      BY <1>1, <3>1 DEF RunTypes
  <2>2. /\ pc'[q] = pc[q] /\ depth'[q] = depth[q] /\ matched'[q] = matched[q]
        /\ effect'[q] = effect[q] /\ rows'[q] = rows[q]
    BY <1>1 DEF Count, Goto, RunTypes
  <2>3. QED
    BY <2>1, <2>2, OthersAccounted
<1>2. CASE q = r
  <2>1. /\ pc[r] = "counting"
        /\ depth'[r] = depth[r] /\ rows'[r] = rows[r] /\ effect'[r] = effect[r]
        /\ matched'[r] = matched[r]
    BY DEF Count
  <2>2. /\ effect[r] = "all" /\ counted[r] = 0
        /\ rows[r] = IF depth[r] = "all" THEN <<"success">> ELSE <<>>
    BY <2>1 DEF Accounted, Placed
  <2>3. \/ counted' = [counted EXCEPT ![r] = @ + 1] /\ pc' \in {[pc EXCEPT ![r] = "done"], [pc EXCEPT ![r] = "handling"]}
        \/ counted' = counted /\ pc' = [pc EXCEPT ![r] = "handling"]
    BY DEF Count, Goto
  <2>4. \/ counted'[r] = 1 /\ pc'[r] \in {"done", "handling"}
        \/ counted'[r] = 0 /\ pc'[r] = "handling"
    BY <2>2, <2>3 DEF RunTypes
  <2>5. Told(r)'
    BY <2>1, <2>2, <2>4 DEF Told, Successes
  <2>6. Placed(r)'
    BY <2>1, <2>2, <2>4, RowsDiffer DEF Placed
  <2>7. QED
    BY <1>2, <2>5, <2>6
<1>3. QED
  BY <1>1, <1>2

\* A run that is lost has left nothing behind that it did not do.
LEMMA CrashAccounted ==
  ASSUME RunTypes, Accounted, NEW S \in SUBSET Runs, Crash(S)
  PROVE  Accounted'
<1> SUFFICES ASSUME NEW q \in Runs PROVE Told(q)' /\ Placed(q)'
  BY DEF Accounted
<1>1. depth' = depth /\ matched' = matched /\ rows' = rows /\ counted' = counted
  BY DEF Crash
<1>2. pc'[q] = IF q \in S THEN "killed" ELSE pc[q]
  BY DEF Crash
<1>3. effect'[q] = effect[q] \/ (q \in S /\ pc[q] = "acting")
  BY DEF Crash
<1>4. Told(q) /\ Placed(q)
  BY DEF Accounted
<1>5. Told(q)'
  BY <1>1, <1>2, <1>3, <1>4 DEF Told, Placed, Untouched
<1>6. Placed(q)'
  BY <1>1, <1>2, <1>3, <1>4 DEF Placed, Untouched
<1>7. QED
  BY <1>5, <1>6

\* Every step keeps the accounts of all runs.
LEMMA AccountedStep ==
  ASSUME RunTypes, Accounted, [Next]_vars
  PROVE  Accounted'
<1>1. CASE Meter \/ UNCHANGED vars
  BY <1>1 DEF Accounted, Told, Placed, Untouched, Meter, vars, runVars
<1>2. QED
  BY <1>1, BeginAccounted, ActAccounted, LogAccounted, CountAccounted, CrashAccounted DEF Next, RunStep

\* What the accounts say of a run is what the log and the meter are to agree on.
LEMMA AccountedAgree ==
  ASSUME RunTypes, Accounted
  PROVE  LogAndMeterAgree
<1> SUFFICES ASSUME NEW r \in Runs
    PROVE  /\ Has(r, "success") => effect[r] = "all"
           /\ Has(r, "skipped") => rows[r] = <<"skipped">> /\ effect[r] = "none" /\ counted[r] = 0
           /\ depth[r] = "none" => rows[r] = <<>>
           /\ depth[r] = "errors_only" => \A i \in DOMAIN rows[r] : rows[r][i] = "failed"
           /\ \A i, j \in DOMAIN rows[r] : rows[r][i] = "success" /\ rows[r][j] = "success" => i = j
           /\ pc[r] = "done" =>
                /\ WantsAll(r) => rows[r] # <<>>
                /\ WantsErrors(r) /\ matched[r] /\ effect[r] # "all" => Has(r, "failed")
           /\ pc[r] = "raised" => rows[r] = <<>> /\ effect[r] = "none" /\ counted[r] = 0
           /\ pc[r] = "unlogged" => WantsErrors(r)
           /\ counted[r] <= 1
           /\ counted[r] = 1 => effect[r] = "all"
           /\ /\ pc[r] = "done" /\ depth[r] # "none" /\ ~Has(r, "failed")
              => (counted[r] = 1 <=> effect[r] = "all")
  BY DEF LogAndMeterAgree, RowsHonest, NoSilentEnd, CountedOnce
<1>0. /\ WantsAll(r) <=> depth[r] = "all"
      /\ WantsErrors(r) <=> depth[r] # "none"
  BY DEF RunTypes, LogDepth, WantsAll, WantsErrors
<1>1. Told(r) /\ Placed(r)
  BY DEF Accounted
<1>2. CASE rows[r] = <<>>
  BY <1>0, <1>1, <1>2 DEF Told, Placed, Untouched, Has
<1>3. CASE rows[r] = <<"skipped">>
  BY <1>0, <1>1, <1>3, RowsDiffer DEF Told, Placed, Untouched, Has, Failures, Successes
<1>4. CASE rows[r] \in Failures
  <2>1. Has(r, "failed") /\ \A i \in DOMAIN rows[r] : rows[r][i] = "failed"
    BY <1>4 DEF Has, Failures
  <2>2. depth[r] # "none" /\ rows[r] # <<>>
    BY <1>1, <1>4, RowsDiffer DEF Told, Failures, Successes
  <2>3. QED
    BY <1>0, <1>1, <2>1, <2>2 DEF Told, Placed, Untouched, Has
<1>5. CASE rows[r] \in Successes
  <2>1. /\ \A i \in DOMAIN rows[r] : rows[r][i] = "success" <=> i = 1
        /\ \A i \in DOMAIN rows[r] : rows[r][i] # "skipped"
        /\ rows[r] # <<"success">> => Has(r, "failed")
    BY <1>5 DEF Has, Successes
  <2>2. rows[r] \notin Failures /\ rows[r] # <<>> /\ rows[r] # <<"skipped">>
    BY <1>5, RowsDiffer DEF Failures, Successes
  <2>3. depth[r] = "all" /\ effect[r] = "all"
    BY <1>1, <1>5, <2>2 DEF Told
  <2>4. QED
    BY <1>0, <1>1, <2>1, <2>2, <2>3 DEF Told, Placed, Untouched, Has
<1>6. QED
  BY <1>1, <1>2, <1>3, <1>4, <1>5 DEF Told

\* The log and the meter tell the truth about every run, whichever step raises, and
\* with however many runs at a time.
THEOREM EngineLogAndMeterAgree == Spec => []LogAndMeterAgree
<1>1. Init => RunTypes /\ Accounted
  BY DEF Init, RunTypes, Accounted, Told, Placed, Untouched, LogDepth, Status
<1>2. RunTypes /\ Accounted /\ [Next]_vars => RunTypes' /\ Accounted'
  BY RunTypesStep, AccountedStep
<1>3. RunTypes /\ Accounted => LogAndMeterAgree
  BY AccountedAgree
<1>4. QED
  BY <1>1, <1>2, <1>3, PTL DEF Spec
=============================================================================
