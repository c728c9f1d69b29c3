--------------------------- MODULE WorkflowEngine ---------------------------
(***************************************************************************)
(* Execution of workflow rules for one business                            *)
(* (src/app/modules/workflows/engine.py, evaluate_and_run_workflow).       *)
(*                                                                         *)
(* A run is one background task: the rule's conditions are evaluated, the  *)
(* workflow_executions quota is checked, every action of the rule runs     *)
(* concurrently, the verdict is written to workflow_execution_logs as far  *)
(* as the rule's log_depth wants it, and a successful run is counted on    *)
(* the meter.  Each await is a step here; every database step may raise,   *)
(* and then the code's own except clauses decide what comes next.  The     *)
(* process may be stopped at any moment, which kills the running tasks.   *)
(*                                                                         *)
(* The quota itself is module Metering, instantiated with the runs as its  *)
(* callers: a run asks for 1 and, if it succeeds, adds 1.                  *)
(***************************************************************************)
EXTENDS Integers, Sequences, FiniteSets

CONSTANTS
  Runs,       \* slots for concurrent runs; a slot is reused when its run is over
  Tiers, TierLimit, NoLimit, Cap

ASSUME EngineAssumption ==
  /\ IsFiniteSet(Runs)
  /\ NoLimit \notin Nat /\ Cap \in Nat \ {0}
  /\ TierLimit \in [Tiers -> Nat \cup {NoLimit}]
  /\ \A t \in Tiers : TierLimit[t] # NoLimit => TierLimit[t] <= Cap

VARIABLES
  tier, usage, phase, limit, asked,  \* the meter, see Metering
  pc,      \* where run r stands
  depth,   \* log_depth of the rule that run r executes
  matched, \* conditions_matched: FALSE once a condition of r's rule has failed
  effect,  \* which of r's actions have taken effect: "none", "some" or "all"
  rows,    \* committed workflow_execution_logs rows of run r, in order
  counted  \* how often run r has been added to the meter

M == INSTANCE Metering WITH Callers <- Runs, Checks <- {1}, MinCheck <- 1, MaxAmount <- 1

runVars == <<pc, depth, matched, effect, rows, counted>>
vars == <<tier, usage, phase, limit, asked, pc, depth, matched, effect, rows, counted>>

LogDepth == {"all", "errors_only", "none"}
Status   == {"skipped", "failed", "success"}
Active   == {"matching", "checking", "acting", "skipping", "refusing",
             "failing", "recording", "counting", "handling"}
\* The task returns; or it ends with an exception raised before any action ran, or by
\* the write of a row; or its process stops.
Over     == {"done", "raised", "unlogged", "killed"}

TypeOK ==
  /\ M!TypeOK
  /\ pc      \in [Runs -> {"idle"} \cup Active \cup Over]
  /\ depth   \in [Runs -> LogDepth]
  /\ matched \in [Runs -> BOOLEAN]
  /\ effect  \in [Runs -> {"none", "some", "all"}]
  /\ rows    \in [Runs -> Seq(Status)]
  /\ counted \in [Runs -> Nat]

Init ==
  /\ M!Init
  /\ pc      = [r \in Runs |-> "idle"]
  /\ depth   = [r \in Runs |-> "none"]
  /\ matched = [r \in Runs |-> TRUE]
  /\ effect  = [r \in Runs |-> "none"]
  /\ rows    = [r \in Runs |-> <<>>]
  /\ counted = [r \in Runs |-> 0]

Goto(r, to) == pc' = [pc EXCEPT ![r] = to]

WantsAll(r)    == depth[r] = "all"
WantsErrors(r) == depth[r] \in {"all", "errors_only"}

\* Write one log row and commit.  The row is committed, or the statement or the
\* commit raises; a raising commit may still have been applied by the server.
WriteRow(r, status, after, onError) ==
  \/ /\ rows' = [rows EXCEPT ![r] = Append(@, status)]
     /\ \/ Goto(r, after)
        \/ Goto(r, onError)
  \/ /\ UNCHANGED rows
     /\ Goto(r, onError)

-----------------------------------------------------------------------------
(* The steps of a run *)

\* The trigger listener spawns a task for a rule of the given log depth.
Start(r, d) ==
  /\ pc[r] = "idle"
  /\ Goto(r, "matching")
  /\ depth' = [depth EXCEPT ![r] = d]
  /\ UNCHANGED <<tier, usage, phase, limit, asked, matched, effect, rows, counted>>

\* Mutant: a skipped rule is logged at every depth.
MismatchAlwaysLogs(r) ==
  /\ pc[r] = "matching" /\ Goto(r, "skipping")
  /\ matched' = [matched EXCEPT ![r] = FALSE]
  /\ UNCHANGED <<tier, usage, phase, limit, asked, depth, effect, rows, counted>>

\* A condition does not match: skip, with a row only at depth ALL.
Mismatch(r) ==
  /\ pc[r] = "matching"
  /\ Goto(r, IF WantsAll(r) THEN "skipping" ELSE "done")
  /\ matched' = [matched EXCEPT ![r] = FALSE]
  /\ UNCHANGED <<tier, usage, phase, limit, asked, depth, effect, rows, counted>>

LogSkipped(r) ==
  /\ pc[r] = "skipping"
  /\ WriteRow(r, "skipped", "done", "unlogged")
  /\ UNCHANGED <<tier, usage, phase, limit, asked, depth, matched, effect, counted>>

\* All conditions match: the quota check reads the tier.
Match(r) ==
  /\ pc[r] = "matching"
  /\ M!ReadTier(r, 1)
  /\ Goto(r, "checking")
  /\ UNCHANGED <<depth, matched, effect, rows, counted>>

\* Mutant: the run goes on whatever the quota check says.
CheckIgnored(r) ==
  /\ pc[r] = "checking"
  /\ phase' = [phase EXCEPT ![r] = "admitted"]
  /\ Goto(r, "acting")
  /\ UNCHANGED <<tier, usage, limit, asked, depth, matched, effect, rows, counted>>

CheckPasses(r) ==
  /\ pc[r] = "checking"
  /\ M!Admit(r)
  /\ Goto(r, "acting")
  /\ UNCHANGED <<depth, matched, effect, rows, counted>>

\* Mutant: a refusal is logged only at depth ALL.
CheckRefusesQuietly(r) ==
  /\ pc[r] = "checking"
  /\ M!Refuse(r)
  /\ Goto(r, IF WantsAll(r) THEN "refusing" ELSE "done")
  /\ UNCHANGED <<depth, matched, effect, rows, counted>>

\* ForbiddenError: a failed row unless the depth is NONE, and no action runs.
CheckRefuses(r) ==
  /\ pc[r] = "checking"
  /\ M!Refuse(r)
  /\ Goto(r, IF WantsErrors(r) THEN "refusing" ELSE "done")
  /\ UNCHANGED <<depth, matched, effect, rows, counted>>

\* Mutant: a refusal is logged with a status of its own.
LogForbidden(r) ==
  /\ pc[r] = "refusing"
  /\ WriteRow(r, "forbidden", "done", "unlogged")
  /\ UNCHANGED <<tier, usage, phase, limit, asked, depth, matched, effect, counted>>

LogRefused(r) ==
  /\ pc[r] = "refusing"
  /\ WriteRow(r, "failed", "done", "unlogged")
  /\ UNCHANGED <<tier, usage, phase, limit, asked, depth, matched, effect, counted>>

\* The check raises anything else: only ForbiddenError is caught there.
CheckRaises(r) ==
  /\ pc[r] = "checking"
  /\ M!Abandon(r)
  /\ Goto(r, "raised")
  /\ UNCHANGED <<depth, matched, effect, rows, counted>>

\* Outside every try: a condition cannot be evaluated, or an action's parameters
\* cannot be rendered before any action runs.  The task ends with the exception.
RaisesUncaught(r) ==
  /\ \/ pc[r] = "matching" /\ UNCHANGED <<tier, usage, phase, limit, asked>>
     \/ pc[r] = "acting" /\ M!Abandon(r)
  /\ Goto(r, "raised")
  /\ UNCHANGED <<depth, matched, effect, rows, counted>>

\* gather: every action succeeded.
ActionsSucceed(r) ==
  /\ pc[r] = "acting"
  /\ effect' = [effect EXCEPT ![r] = "all"]
  /\ Goto(r, IF WantsAll(r) THEN "recording" ELSE "counting")
  /\ UNCHANGED <<tier, usage, phase, limit, asked, depth, matched, rows, counted>>

\* Mutant: a failure is logged only at depth ALL.
ActionsFailQuietly(r) ==
  /\ pc[r] = "acting"
  /\ M!Abandon(r)
  /\ \E e \in {"none", "some"} : effect' = [effect EXCEPT ![r] = e]
  /\ Goto(r, IF WantsAll(r) THEN "failing" ELSE "done")
  /\ UNCHANGED <<depth, matched, rows, counted>>

\* Mutant: a failed run is counted like a successful one.
ActionsFailCounted(r) ==
  /\ pc[r] = "acting"
  /\ \E e \in {"none", "some"} : effect' = [effect EXCEPT ![r] = e]
  /\ Goto(r, "counting")
  /\ UNCHANGED <<tier, usage, phase, limit, asked, depth, matched, rows, counted>>

\* Mutant: gather is awaited outside the try and raises.
ActionsFailUncaught(r) ==
  /\ pc[r] = "acting"
  /\ M!Abandon(r)
  /\ \E e \in {"none", "some"} : effect' = [effect EXCEPT ![r] = e]
  /\ Goto(r, "raised")
  /\ UNCHANGED <<depth, matched, rows, counted>>

\* gather: some action raised; the others have taken effect all the same.
ActionsFail(r) ==
  /\ pc[r] = "acting"
  /\ M!Abandon(r)
  /\ \E e \in {"none", "some"} : effect' = [effect EXCEPT ![r] = e]
  /\ Goto(r, IF WantsErrors(r) THEN "failing" ELSE "done")
  /\ UNCHANGED <<depth, matched, rows, counted>>

LogFailed(r) ==
  /\ pc[r] = "failing"
  /\ WriteRow(r, "failed", "done", "handling")
  /\ UNCHANGED <<tier, usage, phase, limit, asked, depth, matched, effect, counted>>

\* The row of a success; if it raises, the meter is never reached.
LogSuccess(r) ==
  /\ pc[r] = "recording"
  /\ WriteRow(r, "success", "counting", "handling")
  /\ IF pc'[r] = "handling" THEN M!Abandon(r)
                            ELSE UNCHANGED <<tier, usage, phase, limit, asked>>
  /\ UNCHANGED <<depth, matched, effect, counted>>

\* increment_usage: applied, or raised before it was applied, or applied by the
\* server although the commit raised.
Count(r) ==
  /\ pc[r] = "counting"
  /\ \/ /\ M!Increment(r, 1)
        /\ counted' = [counted EXCEPT ![r] = @ + 1]
        /\ Goto(r, "done") \/ Goto(r, "handling")
     \/ /\ M!Abandon(r)
        /\ Goto(r, "handling")
        /\ UNCHANGED counted
  /\ UNCHANGED <<depth, matched, effect, rows>>

\* Mutant: the except clause awaits a row that is not written at depth NONE.
HandleWaits(r) ==
  /\ pc[r] = "handling" /\ WantsErrors(r)
  /\ WriteRow(r, "failed", "done", "unlogged")
  /\ UNCHANGED <<tier, usage, phase, limit, asked, depth, matched, effect, counted>>

\* The outer except clause: log the system failure if the depth wants errors.
Handle(r) ==
  /\ pc[r] = "handling"
  /\ IF WantsErrors(r) THEN WriteRow(r, "failed", "done", "unlogged")
                       ELSE Goto(r, "done") /\ UNCHANGED rows
  /\ UNCHANGED <<tier, usage, phase, limit, asked, depth, matched, effect, counted>>

-----------------------------------------------------------------------------
(* The environment *)

\* A finished run's slot is free for the next run.
Recycle(r) ==
  /\ pc[r] \in Over
  /\ Goto(r, "idle")
  /\ depth'   = [depth EXCEPT ![r] = "none"]
  /\ matched' = [matched EXCEPT ![r] = TRUE]
  /\ effect'  = [effect EXCEPT ![r] = "none"]
  /\ rows'    = [rows EXCEPT ![r] = <<>>]
  /\ counted' = [counted EXCEPT ![r] = 0]
  /\ UNCHANGED <<tier, usage, phase, limit, asked>>

\* A server process stops: its background tasks S are not persisted, so they
\* are lost where they stand; actions in flight may have taken effect in part.
Crash(S) ==
  /\ S # {} /\ \A r \in S : pc[r] \in Active
  /\ M!Crash(S)
  /\ pc' = [r \in Runs |-> IF r \in S THEN "killed" ELSE pc[r]]
  /\ \E e \in [{r \in S : pc[r] = "acting"} -> {"none", "some", "all"}] :
       effect' = [r \in Runs |-> IF r \in DOMAIN e THEN e[r] ELSE effect[r]]
  /\ UNCHANGED <<depth, matched, rows, counted>>

Meter ==
  /\ \/ \E t \in Tiers : M!ChangeTier(t)
     \/ M!NewCycle
  /\ UNCHANGED runVars

RunStep(r) ==
  \/ Mismatch(r) \/ LogSkipped(r)
  \/ Match(r) \/ CheckPasses(r) \/ CheckRefuses(r) \/ LogRefused(r) \/ CheckRaises(r)
  \/ RaisesUncaught(r) \/ ActionsSucceed(r) \/ ActionsFail(r)
  \/ LogFailed(r) \/ LogSuccess(r) \/ Count(r) \/ Handle(r)

Next ==
  \/ \E r \in Runs : \/ \E d \in LogDepth : Start(r, d)
                     \/ RunStep(r)
                     \/ Recycle(r)
  \/ \E S \in SUBSET Runs : Crash(S)
  \/ Meter

\* The event loop keeps scheduling a task that can run.
Fairness == \A r \in Runs : WF_vars(RunStep(r))

Spec == Init /\ [][Next]_vars /\ Fairness

-----------------------------------------------------------------------------
(* Properties *)

Has(r, status) == \E i \in DOMAIN rows[r] : rows[r][i] = status

\* The log tells the truth about a run at every moment: a success row only when
\* every action took effect, a skipped row never together with another row,
\* nothing at depth NONE, only failures at depth ERRORS_ONLY, and at most one
\* success.
RowsHonest ==
  \A r \in Runs :
    /\ Has(r, "success") => effect[r] = "all"
    /\ Has(r, "skipped") => rows[r] = <<"skipped">> /\ effect[r] = "none" /\ counted[r] = 0
    /\ depth[r] = "none" => rows[r] = <<>>
    /\ depth[r] = "errors_only" => \A i \in DOMAIN rows[r] : rows[r][i] = "failed"
    /\ \A i, j \in DOMAIN rows[r] : rows[r][i] = "success" /\ rows[r][j] = "success" => i = j

\* A run that returns leaves a row at depth ALL.  One that returns although it was
\* refused or not all of its actions succeeded leaves a failed row wherever the depth
\* wants errors, so only a rule whose conditions do not match is passed over silently
\* at ERRORS_ONLY.  An exception ends a task without its row in two cases: no action
\* has run yet, and the run has left nothing at all behind; or the write of a row that
\* the depth asks for is what raised.  What is half done and not logged otherwise is
\* the work of a stopped process.
NoSilentEnd ==
  \A r \in Runs :
    /\ pc[r] = "done" =>
         /\ WantsAll(r) => rows[r] # <<>>
         /\ WantsErrors(r) /\ matched[r] /\ effect[r] # "all" => Has(r, "failed")
    /\ pc[r] = "raised" => rows[r] = <<>> /\ effect[r] = "none" /\ counted[r] = 0
    /\ pc[r] = "unlogged" => WantsErrors(r)

\* A run is counted at most once, only if every one of its actions took effect;
\* and one that ended without reporting a failure was counted or did nothing.
CountedOnce ==
  \A r \in Runs :
    /\ counted[r] <= 1
    /\ counted[r] = 1 => effect[r] = "all"
    /\ /\ pc[r] = "done" /\ depth[r] # "none" /\ ~Has(r, "failed")
       => (counted[r] = 1 <=> effect[r] = "all")

\* What the log and the meter say of a run agrees with what the run did, whatever
\* raised, crashed or was cut off, at every log depth
\* (src/app/modules/workflows/engine.py:115).
LogAndMeterAgree == RowsHonest /\ NoSilentEnd /\ CountedOnce

\* The engine uses the meter as Metering says, in every interleaving and crash.
MeteringSpec == M!Spec

\* Every task that was spawned comes to an end.
RunsEnd == \A r \in Runs : pc[r] = "matching" ~> pc[r] \in Over
=============================================================================
