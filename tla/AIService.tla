----------------------------- MODULE AIService ------------------------------
(***************************************************************************)
(* The AI endpoints of one business (src/app/modules/ai/service.py).       *)
(*                                                                         *)
(* A request checks the ai_tokens quota with a fixed estimate, gathers     *)
(* context, calls the model, writes an AILog row, adds the tokens to the   *)
(* meter and answers.  Any exception after the context is caught and the   *)
(* request falls back to a canned reply with a second AILog row of its     *)
(* own.  The streaming chat sends the chunks to the client as they arrive, *)
(* before anything is logged or metered, stores the message as a memory    *)
(* in between, and can be abandoned by the client.  The quota is module    *)
(* Metering with the requests as its callers.                              *)
(*                                                                         *)
(* A database call that raises may leave the session unusable or not,      *)
(* depending on what raised: the fallback's own write may succeed or fail. *)
(***************************************************************************)
EXTENDS Integers, Sequences, FiniteSets

CONSTANTS
  Requests,   \* slots for concurrent requests
  Tiers, TierLimit, NoLimit, Cap,
  Estimate,   \* Estimate[kind]: the check_amount of the endpoint
  MinEstimate,
  MaxTokens,  \* bound: the most tokens one reply costs
  MaxChunks   \* bound: chunks of one stream

Kinds == {"stream", "reply", "recommendations"}

ASSUME ServiceAssumption ==
  /\ IsFiniteSet(Requests)
  /\ NoLimit \notin Nat /\ Cap \in Nat
  /\ TierLimit \in [Tiers -> Nat \cup {NoLimit}]
  /\ \A t \in Tiers : TierLimit[t] # NoLimit => TierLimit[t] <= Cap
  /\ MaxTokens \in Nat /\ MaxChunks \in Nat
  /\ MinEstimate \in 0 .. Cap
  /\ Estimate \in [Kinds -> Nat] /\ \A k \in Kinds : MinEstimate <= Estimate[k]

VARIABLES
  tier, usage, phase, limit, asked,  \* the meter, see Metering
  pc,       \* where request q stands
  kind,     \* which endpoint q called
  tokens,   \* what the model reports, or the stream's word count gives, for q
  rows,     \* committed ai_logs rows of q: "model" or "mock"
  sent,     \* what the client has received: "chunk", "model" or "mock"
  metered   \* how often q was added to the meter

M == INSTANCE Metering WITH Callers <- Requests, MinCheck <- MinEstimate,
       Checks <- {Estimate[k] : k \in Kinds}, MaxAmount <- MaxTokens

meter   == <<tier, usage, phase, limit, asked>>
vars    == <<tier, usage, phase, limit, asked, pc, kind, tokens, rows, sent, metered>>
Working == {"checking", "context", "calling", "streaming", "logging",
            "remembering", "metering", "fallback", "answering"}
\* Answered, refused by the quota, an exception before the model was asked, a canned
\* reply whose row could not be written, a client that left, a process that stopped.
Over    == {"done", "refused", "error", "unlogged", "gone", "lost"}

TypeOK ==
  /\ M!TypeOK
  /\ pc      \in [Requests -> {"idle"} \cup Working \cup Over]
  /\ kind    \in [Requests -> Kinds]
  /\ tokens  \in [Requests -> 0 .. MaxTokens]
  /\ rows    \in [Requests -> Seq({"model", "mock"})]
  /\ sent    \in [Requests -> Seq({"chunk", "model", "mock"})]
  /\ metered \in [Requests -> Nat]

Fresh(q) ==
  /\ kind'    = [kind EXCEPT ![q] = "reply"]
  /\ tokens'  = [tokens EXCEPT ![q] = 0]
  /\ rows'    = [rows EXCEPT ![q] = <<>>]
  /\ sent'    = [sent EXCEPT ![q] = <<>>]
  /\ metered' = [metered EXCEPT ![q] = 0]

Init ==
  /\ M!Init
  /\ pc      = [q \in Requests |-> "idle"]
  /\ kind    = [q \in Requests |-> "reply"]
  /\ tokens  = [q \in Requests |-> 0]
  /\ rows    = [q \in Requests |-> <<>>]
  /\ sent    = [q \in Requests |-> <<>>]
  /\ metered = [q \in Requests |-> 0]

Goto(q, to) == pc' = [pc EXCEPT ![q] = to]
Send(q, what) == sent' = [sent EXCEPT ![q] = Append(@, what)]

\* Leave the happy path while the quota admission is still held.
LeaveTo(q, to) == Goto(q, to) /\ M!Abandon(q)

-----------------------------------------------------------------------------
(* Quota check and context *)

Start(q, k) ==
  /\ pc[q] = "idle"
  /\ M!ReadTier(q, Estimate[k])
  /\ kind' = [kind EXCEPT ![q] = k]
  /\ Goto(q, "checking")
  /\ UNCHANGED <<tokens, rows, sent, metered>>

\* Mutant: the endpoint goes on whatever the quota check says.
CheckIgnored(q) ==
  /\ pc[q] = "checking" /\ Goto(q, "context")
  /\ phase' = [phase EXCEPT ![q] = "admitted"]
  /\ UNCHANGED <<tier, usage, limit, asked, kind, tokens, rows, sent, metered>>

CheckPasses(q) ==
  /\ pc[q] = "checking" /\ M!Admit(q) /\ Goto(q, "context")
  /\ UNCHANGED <<kind, tokens, rows, sent, metered>>

CheckRefuses(q) ==
  /\ pc[q] = "checking" /\ M!Refuse(q) /\ Goto(q, "refused")
  /\ UNCHANGED <<kind, tokens, rows, sent, metered>>

\* Neither the check nor the context queries are inside the try block.
RaisesEarly(q) ==
  /\ pc[q] \in {"checking", "context"} /\ LeaveTo(q, "error")
  /\ UNCHANGED <<kind, tokens, rows, sent, metered>>

\* With a GEMINI_API_KEY the model is called, without one the reply is canned.
GatherContext(q) ==
  /\ pc[q] = "context"
  /\ \/ Goto(q, "calling") /\ UNCHANGED meter
     \/ LeaveTo(q, "fallback")
  /\ UNCHANGED <<kind, tokens, rows, sent, metered>>

-----------------------------------------------------------------------------
(* The model call *)

\* generate_content_async returned.  A recommendations reply that is not a
\* JSON list is dropped for the canned list; a stream has only begun.
ModelAnswers(q) ==
  /\ pc[q] = "calling"
  /\ \E n \in 0 .. MaxTokens : tokens' = [tokens EXCEPT ![q] = n]
  /\ \/ /\ Goto(q, IF kind[q] = "stream" THEN "streaming" ELSE "logging")
        /\ UNCHANGED meter
     \/ kind[q] = "recommendations" /\ LeaveTo(q, "fallback")
  /\ UNCHANGED <<kind, rows, sent, metered>>

Chunk(q) ==
  /\ pc[q] = "streaming" /\ Len(sent[q]) < MaxChunks
  /\ Send(q, "chunk")
  /\ UNCHANGED <<tier, usage, phase, limit, asked, pc, kind, tokens, rows, metered>>

StreamEnds(q) ==
  /\ pc[q] = "streaming" /\ Goto(q, "logging")
  /\ UNCHANGED <<tier, usage, phase, limit, asked, kind, tokens, rows, sent, metered>>

\* The call or the stream raises, at any point of it.
ModelFails(q) ==
  /\ pc[q] \in {"calling", "streaming"} /\ LeaveTo(q, "fallback")
  /\ UNCHANGED <<kind, tokens, rows, sent, metered>>

-----------------------------------------------------------------------------
(* Bookkeeping after the model has answered *)

\* Mutant: a failed log write is swallowed and the request goes on.
LogModelBestEffort(q) ==
  /\ pc[q] = "logging"
  /\ \/ rows' = [rows EXCEPT ![q] = Append(@, "model")]
     \/ UNCHANGED rows
  /\ Goto(q, IF kind[q] = "stream" THEN "remembering" ELSE "metering")
  /\ UNCHANGED <<tier, usage, phase, limit, asked, kind, tokens, sent, metered>>

\* The AILog row is committed, then the next step; or the write raises (a
\* raising commit may have been applied) and the request falls back.
LogModel(q) ==
  /\ pc[q] = "logging"
  /\ \/ /\ rows' = [rows EXCEPT ![q] = Append(@, "model")]
        /\ \/ /\ Goto(q, IF kind[q] = "stream" THEN "remembering" ELSE "metering")
              /\ UNCHANGED meter
           \/ LeaveTo(q, "fallback")
     \/ UNCHANGED rows /\ LeaveTo(q, "fallback")
  /\ UNCHANGED <<kind, tokens, sent, metered>>

\* store_memory: an embedding call and a commit of its own.
Remember(q) ==
  /\ pc[q] = "remembering"
  /\ \/ Goto(q, "metering") /\ UNCHANGED meter
     \/ LeaveTo(q, "fallback")
  /\ UNCHANGED <<kind, tokens, rows, sent, metered>>

\* Mutant: a failed increment_usage is swallowed and the answer sent.
MeterBestEffort(q) ==
  /\ pc[q] = "metering"
  /\ \/ M!Increment(q, tokens[q]) /\ metered' = [metered EXCEPT ![q] = @ + 1]
     \/ M!Abandon(q) /\ UNCHANGED metered
  /\ Goto(q, "done")
  /\ IF kind[q] = "stream" THEN UNCHANGED sent ELSE Send(q, "model")
  /\ UNCHANGED <<kind, tokens, rows>>

\* increment_usage, then the answer (a stream has sent its answer already).
MeterTokens(q) ==
  /\ pc[q] = "metering"
  /\ \/ /\ M!Increment(q, tokens[q])
        /\ metered' = [metered EXCEPT ![q] = @ + 1]
        /\ \/ /\ Goto(q, "done")
              /\ IF kind[q] = "stream" THEN UNCHANGED sent ELSE Send(q, "model")
           \/ Goto(q, "fallback") /\ UNCHANGED sent
     \/ LeaveTo(q, "fallback") /\ UNCHANGED <<sent, metered>>
  /\ UNCHANGED <<kind, tokens, rows>>

-----------------------------------------------------------------------------
(* The canned reply *)

\* Mutant: the fallback's row carries a feature name of its own.
LogFallback(q) ==
  /\ pc[q] = "fallback"
  /\ rows' = [rows EXCEPT ![q] = Append(@, "fallback")] /\ Goto(q, "answering")
  /\ UNCHANGED <<tier, usage, phase, limit, asked, kind, tokens, sent, metered>>

\* Mutant: the canned reply is given whether or not its row is written.
LogMockBestEffort(q) ==
  /\ pc[q] = "fallback" /\ Goto(q, "answering")
  /\ \/ rows' = [rows EXCEPT ![q] = Append(@, "mock")]
     \/ UNCHANGED rows
  /\ UNCHANGED <<tier, usage, phase, limit, asked, kind, tokens, sent, metered>>

LogMock(q) ==
  /\ pc[q] = "fallback"
  /\ \/ rows' = [rows EXCEPT ![q] = Append(@, "mock")] /\ Goto(q, "answering")
     \/ rows' = [rows EXCEPT ![q] = Append(@, "mock")] /\ Goto(q, "unlogged")
     \/ UNCHANGED rows /\ Goto(q, "unlogged")
  /\ UNCHANGED <<tier, usage, phase, limit, asked, kind, tokens, sent, metered>>

\* Mutant: the stream never yields its canned text.
AnswerMockNotStreamed(q) ==
  /\ pc[q] = "answering" /\ kind[q] # "stream" /\ Send(q, "mock") /\ Goto(q, "done")
  /\ UNCHANGED <<tier, usage, phase, limit, asked, kind, tokens, rows, metered>>

AnswerMock(q) ==
  /\ pc[q] = "answering" /\ Send(q, "mock") /\ Goto(q, "done")
  /\ UNCHANGED <<tier, usage, phase, limit, asked, kind, tokens, rows, metered>>

-----------------------------------------------------------------------------
(* The environment *)

\* A streaming client disconnects: GeneratorExit or a cancellation ends the
\* generator, and "except Exception" catches neither.
ClientLeaves(q) ==
  /\ kind[q] = "stream"
  /\ pc[q] \in Working
  /\ Goto(q, "gone")
  /\ IF phase[q] = "idle" THEN UNCHANGED meter ELSE M!Abandon(q)
  /\ UNCHANGED <<kind, tokens, rows, sent, metered>>

Recycle(q) ==
  /\ pc[q] \in Over /\ Goto(q, "idle") /\ Fresh(q)
  /\ UNCHANGED meter

Crash(S) ==
  /\ S # {} /\ \A q \in S : pc[q] \in Working
  /\ M!Crash(S)
  /\ pc' = [q \in Requests |-> IF q \in S THEN "lost" ELSE pc[q]]
  /\ UNCHANGED <<kind, tokens, rows, sent, metered>>

MeterChanges ==
  /\ M!NewCycle \/ \E t \in Tiers : M!ChangeTier(t)
  /\ UNCHANGED <<pc, kind, tokens, rows, sent, metered>>

RequestStep(q) ==
  \/ CheckPasses(q) \/ CheckRefuses(q) \/ RaisesEarly(q) \/ GatherContext(q)
  \/ ModelAnswers(q) \/ StreamEnds(q) \/ ModelFails(q)
  \/ LogModel(q) \/ Remember(q) \/ MeterTokens(q) \/ LogMock(q) \/ AnswerMock(q)

Next ==
  \/ \E q \in Requests :
       \/ \E k \in Kinds : Start(q, k)
       \/ RequestStep(q) \/ Chunk(q) \/ ClientLeaves(q) \/ Recycle(q)
  \/ \E S \in SUBSET Requests : Crash(S)
  \/ MeterChanges

Fairness == \A q \in Requests : WF_vars(RequestStep(q))

Spec == Init /\ [][Next]_vars /\ Fairness

-----------------------------------------------------------------------------
(* Properties *)

Logged(q, what)   == \E i \in DOMAIN rows[q] : rows[q][i] = what
Received(q, what) == \E i \in DOMAIN sent[q] : sent[q][i] = what

\* No whole answer is given before it is accounted for: the model's with its one row
\* and one metering, the canned one with its one row, written last, and never both.
AnswerAccounted ==
  \A q \in Requests :
    /\ Received(q, "model") => rows[q] = <<"model">> /\ metered[q] = 1
    /\ Received(q, "mock") => rows[q] \in {<<"mock">>, <<"model", "mock">>} /\ ~Received(q, "model")

\* Tokens are added to the meter only for a reply whose log row is committed,
\* and never twice for one request, whatever fails after it.
MeteredOnceAndLogged ==
  \A q \in Requests : metered[q] <= 1 /\ (metered[q] = 1 => Logged(q, "model"))

\* How requests end.  One that is completed without the canned reply, a stream too, has
\* its row and is metered.  One that never got to the model has left nothing anywhere.
\* Only a stream has given anything to its client before it is completed, and one that
\* is cut off has given nothing but chunks.  So what a client has of the model without
\* a row and a metering is chunks of a stream whose client left, whose process stopped,
\* that went over to the canned reply, or that could not log that one either.
EndAccounted ==
  \A q \in Requests :
    /\ pc[q] = "done" => Received(q, "mock") \/ (rows[q] = <<"model">> /\ metered[q] = 1)
    /\ pc[q] \in {"refused", "error"} => sent[q] = <<>> /\ rows[q] = <<>> /\ metered[q] = 0
    /\ pc[q] # "done" /\ kind[q] # "stream" => sent[q] = <<>>
    /\ pc[q] \in {"gone", "lost", "unlogged"} => ~Received(q, "model") /\ ~Received(q, "mock")

\* What clients have received, the log and the meter agree, except for the chunks of
\* streams that EndAccounted names (src/app/modules/ai/service.py:61, :143).  With them
\* the table is less than the "Audit log of all AI actions, requests, and outputs" that
\* src/app/modules/ai/models.py:19 calls it.
AnswersAccounted == AnswerAccounted /\ MeteredOnceAndLogged /\ EndAccounted

\* The endpoints use the meter as Metering says.
MeteringSpec == M!Spec

\* Every request comes to an end.
RequestsEnd == \A q \in Requests : pc[q] = "checking" ~> pc[q] \in Over
=============================================================================
