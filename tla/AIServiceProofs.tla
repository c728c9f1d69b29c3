--------------------------- MODULE AIServiceProofs --------------------------
(***************************************************************************)
(* Proofs about AIService, for every number of concurrent requests, every  *)
(* estimate and every size of reply: the endpoints implement the abstract  *)
(* quota of Metering, which bounds the tokens; and every answer is in the  *)
(* log and on the meter as it should be.                                   *)
(***************************************************************************)
EXTENDS AIService, SequenceTheorems, TLAPS

MP == INSTANCE MeteringProofs WITH Callers <- Requests, MinCheck <- MinEstimate,
        Checks <- {Estimate[k] : k \in Kinds}, MaxAmount <- MaxTokens

-----------------------------------------------------------------------------
(* Types *)

Feature == {"model", "mock"}
Payload == {"chunk", "model", "mock"}

\* The part of the types that is the endpoints' own.
RequestTypes ==
  /\ pc      \in [Requests -> {"idle"} \cup Working \cup Over]
  /\ kind    \in [Requests -> Kinds]
  /\ tokens  \in [Requests -> 0 .. MaxTokens]
  /\ rows    \in [Requests -> Seq(Feature)]
  /\ sent    \in [Requests -> Seq(Payload)]
  /\ metered \in [Requests -> Nat]

\* A row or a payload more is still a log, or a reply.
LEMMA AppendTypes ==
  ASSUME RequestTypes, NEW q \in Requests
  PROVE  /\ \A f \in Feature : [rows EXCEPT ![q] = Append(@, f)] \in [Requests -> Seq(Feature)]
         /\ \A p \in Payload : [sent EXCEPT ![q] = Append(@, p)] \in [Requests -> Seq(Payload)]
<1>1. /\ \A f \in Feature : Append(rows[q], f) \in Seq(Feature)
      /\ \A p \in Payload : Append(sent[q], p) \in Seq(Payload)
  BY DEF RequestTypes
<1>2. QED
  BY <1>1 DEF RequestTypes

\* Every step keeps the requests well typed.
LEMMA RequestTypesStep ==
  ASSUME RequestTypes, [Next]_vars
  PROVE  RequestTypes'
<1> USE ServiceAssumption DEF Goto, LeaveTo, Working, Over, Kinds
<1>1. ASSUME NEW q \in Requests, NEW k \in Kinds, Start(q, k) PROVE RequestTypes'
  BY <1>1 DEF Start, RequestTypes
<1>2. ASSUME NEW q \in Requests,
             \/ CheckPasses(q) \/ CheckRefuses(q) \/ RaisesEarly(q) \/ GatherContext(q)
             \/ StreamEnds(q) \/ ModelFails(q) \/ Remember(q) \/ ClientLeaves(q)
      PROVE  RequestTypes'
  BY <1>2 DEF CheckPasses, CheckRefuses, RaisesEarly, GatherContext, StreamEnds, ModelFails,
              Remember, ClientLeaves, RequestTypes
<1>3. ASSUME NEW q \in Requests, ModelAnswers(q) PROVE RequestTypes'
  BY <1>3 DEF ModelAnswers, RequestTypes
<1>4. ASSUME NEW q \in Requests, Chunk(q) \/ AnswerMock(q) PROVE RequestTypes'
  <2>1. sent' \in [Requests -> Seq(Payload)]
    BY <1>4, AppendTypes DEF Chunk, AnswerMock, Send, Payload
  <2>2. QED
    BY <1>4, <2>1 DEF Chunk, AnswerMock, RequestTypes
<1>5. ASSUME NEW q \in Requests, LogModel(q) \/ LogMock(q) PROVE RequestTypes'
  <2>1. rows' \in [Requests -> Seq(Feature)]
    <3>1. \/ rows' = rows
          \/ rows' = [rows EXCEPT ![q] = Append(@, "model")]
          \/ rows' = [rows EXCEPT ![q] = Append(@, "mock")]
      BY <1>5 DEF LogModel, LogMock
    <3>2. /\ [rows EXCEPT ![q] = Append(@, "model")] \in [Requests -> Seq(Feature)]
          /\ [rows EXCEPT ![q] = Append(@, "mock")] \in [Requests -> Seq(Feature)]
      BY AppendTypes DEF Feature
    <3>3. QED
      BY <3>1, <3>2 DEF RequestTypes
  <2>2. pc' \in [Requests -> {"idle"} \cup Working \cup Over]
    BY <1>5 DEF LogModel, LogMock, RequestTypes
  <2>3. QED
    BY <1>5, <2>1, <2>2 DEF LogModel, LogMock, RequestTypes
<1>6. ASSUME NEW q \in Requests, MeterTokens(q) PROVE RequestTypes'
  <2>1. sent' \in [Requests -> Seq(Payload)]
    <3>1. sent' = sent \/ sent' = [sent EXCEPT ![q] = Append(@, "model")]
      BY <1>6 DEF MeterTokens, Send
    <3>2. [sent EXCEPT ![q] = Append(@, "model")] \in [Requests -> Seq(Payload)]
      BY AppendTypes DEF Payload
    <3>3. QED
      BY <3>1, <3>2 DEF RequestTypes
  <2>2. metered' \in [Requests -> Nat]
    <3>1. metered' = metered \/ metered' = [metered EXCEPT ![q] = @ + 1]
      BY <1>6 DEF MeterTokens
    <3>2. metered[q] + 1 \in Nat
      BY DEF RequestTypes
    <3>3. QED
      BY <3>1, <3>2 DEF RequestTypes
  <2>3. pc' \in [Requests -> {"idle"} \cup Working \cup Over]
    BY <1>6 DEF MeterTokens, RequestTypes
  <2>4. QED
    BY <1>6, <2>1, <2>2, <2>3 DEF MeterTokens, RequestTypes
<1>7. ASSUME NEW q \in Requests, Recycle(q) PROVE RequestTypes'
  BY <1>7 DEF Recycle, Fresh, RequestTypes
<1>8. ASSUME NEW S \in SUBSET Requests, Crash(S) PROVE RequestTypes'
  BY <1>8 DEF Crash, RequestTypes
<1>9. CASE MeterChanges \/ UNCHANGED vars
  BY <1>9 DEF MeterChanges, vars, RequestTypes
<1>10. QED
  BY <1>1, <1>2, <1>3, <1>4, <1>5, <1>6, <1>7, <1>8, <1>9 DEF Next, RequestStep

\* The requests are well typed in every reachable state.
LEMMA RequestsTyped == Spec => []RequestTypes
<1>1. Init => RequestTypes
  BY ServiceAssumption DEF Init, RequestTypes, Kinds
<1>2. RequestTypes /\ [Next]_vars => RequestTypes'
  BY RequestTypesStep
<1>3. QED
  BY <1>1, <1>2, PTL DEF Spec

-----------------------------------------------------------------------------
(* The endpoints implement Metering *)

\* Every step of a request is a step of the quota, or leaves it alone.  What is added
\* to the meter is what the reply cost, and that is what a caller may add.
LEMMA StepRefines ==
  ASSUME RequestTypes, [Next]_vars
  PROVE  [M!Next]_(M!meterVars)
<1> USE DEF M!Next, M!CallerStep, M!meterVars, LeaveTo
<1>1. ASSUME NEW q \in Requests, NEW k \in Kinds, Start(q, k) PROVE M!Next
  BY <1>1 DEF Start
<1>2. ASSUME NEW q \in Requests, CheckPasses(q) \/ CheckRefuses(q) \/ RaisesEarly(q) \/ ModelFails(q)
      PROVE  M!Next
  BY <1>2 DEF CheckPasses, CheckRefuses, RaisesEarly, ModelFails
<1>3. ASSUME NEW q \in Requests,
             \/ GatherContext(q) \/ ModelAnswers(q) \/ LogModel(q) \/ Remember(q)
             \/ ClientLeaves(q)
      PROVE  [M!Next]_(M!meterVars)
  BY <1>3 DEF GatherContext, ModelAnswers, LogModel, Remember, ClientLeaves, meter
<1>4. ASSUME NEW q \in Requests, MeterTokens(q) PROVE M!Next
  <2>1. tokens[q] \in 0 .. MaxTokens
    BY DEF RequestTypes
  <2>2. M!Increment(q, tokens[q]) \/ M!Abandon(q)
    BY <1>4 DEF MeterTokens
  <2>3. QED
    BY <2>1, <2>2
<1>5. ASSUME NEW q \in Requests,
             \/ Chunk(q) \/ StreamEnds(q) \/ LogMock(q) \/ AnswerMock(q) \/ Recycle(q)
      PROVE  UNCHANGED M!meterVars
  BY <1>5 DEF Chunk, StreamEnds, LogMock, AnswerMock, Recycle, meter
<1>6. ASSUME NEW S \in SUBSET Requests, Crash(S) PROVE M!Next
  BY <1>6 DEF Crash
<1>7. CASE MeterChanges
  BY <1>7 DEF MeterChanges
<1>8. CASE UNCHANGED vars
  BY <1>8 DEF vars
<1>9. QED
  BY <1>1, <1>2, <1>3, <1>4, <1>5, <1>6, <1>7, <1>8 DEF Next, RequestStep

\* The endpoints use the meter as Metering says, whatever raises, leaves or crashes.
THEOREM EndpointsMeter == Spec => MeteringSpec
<1>1. Init => M!Init
  BY DEF Init
<1>2. RequestTypes /\ [Next]_vars => [M!Next]_(M!meterVars)
  BY StepRefines
<1>3. QED
  BY <1>1, <1>2, RequestsTyped, PTL DEF Spec, MeteringSpec, M!Spec

\* What the endpoints assume of their constants is what Metering's theorems need.
LEMMA MeterAssumptions == MP!CallersAssumption /\ MP!LimitAssumption /\ MP!AmountAssumption
BY ServiceAssumption
   DEF MP!CallersAssumption, MP!LimitAssumption, MP!AmountAssumption, IsFiniteSet, MP!IsFiniteSet

\* The quota that the endpoints use is the one Metering's theorems are about.
LEMMA SameMeter ==
  /\ M!Spec => MP!Spec
  /\ MP!UsageBounded <=> M!UsageBounded
  /\ MP!TypeOK <=> M!TypeOK
<1>1. M!Init => MP!Init
  BY DEF M!Init, MP!Init
<1>2. [M!Next]_(M!meterVars) => [MP!Next]_(MP!meterVars)
  BY DEF M!Next, M!CallerStep, M!meterVars, MP!Next, MP!CallerStep, MP!meterVars,
     M!ReadTier, M!Admit, M!Refuse, M!Abandon, M!Increment, M!Fits, M!Crash, M!ChangeTier, M!NewCycle,
     MP!ReadTier, MP!Admit, MP!Refuse, MP!Abandon, MP!Increment, MP!Fits, MP!Crash, MP!ChangeTier,
     MP!NewCycle
<1>3. M!Spec => MP!Spec
  BY <1>1, <1>2, PTL DEF M!Spec, MP!Spec
<1>4. MP!UsageBounded <=> M!UsageBounded
  BY DEF M!UsageBounded, M!Capped, M!Overrun, M!Cardinality, M!IsFiniteSet,
         MP!UsageBounded, MP!Capped, MP!Overrun, MP!Cardinality, MP!IsFiniteSet
<1>5. MP!TypeOK <=> M!TypeOK
  BY DEF M!TypeOK, MP!TypeOK, M!Limits, MP!Limits
<1>6. QED
  BY <1>3, <1>4, <1>5

\* A metered limit of tokens is overrun by less than what all the requests at work
\* can cost: usage <= (Cap - MinEstimate) + Cardinality(Requests) * MaxTokens.
THEOREM TokensBounded == Spec => []M!UsageBounded
<1>1. MP!Spec => []MP!UsageBounded
  BY MeterAssumptions, MP!MeteringBounded
<1>2. QED
  BY <1>1, EndpointsMeter, SameMeter, PTL DEF MeteringSpec

\* Every state of the requests and of the meter is well typed.
THEOREM ServiceTypeOK == Spec => []TypeOK
<1>1. MP!Spec => []MP!TypeOK
  BY MeterAssumptions, MP!MeteringTypeOK
<1>2. M!TypeOK /\ RequestTypes => TypeOK
  BY DEF TypeOK, RequestTypes, Feature, Payload
<1>3. QED
  BY <1>1, <1>2, RequestsTyped, EndpointsMeter, SameMeter, PTL DEF MeteringSpec

-----------------------------------------------------------------------------
(* The log, the meter and the answer *)

OnlyChunks(q) == \A i \in DOMAIN sent[q] : sent[q][i] = "chunk"

\* What holds of a request wherever it stands, a lost or abandoned one included.
MeteredIfLogged(q) ==
  /\ metered[q] \in {0, 1}
  /\ metered[q] = 1 => rows[q] \in {<<"model">>, <<"model", "mock">>}

\* What a request at each place has logged, metered and sent so far.
Placed(q) ==
  /\ pc[q] \in {"idle", "checking", "context", "calling", "streaming", "logging", "refused", "error"} =>
       rows[q] = <<>> /\ metered[q] = 0
  /\ pc[q] \in {"idle", "checking", "context", "calling", "refused", "error"} => sent[q] = <<>>
  /\ pc[q] = "streaming" => kind[q] = "stream"
  /\ pc[q] # "done" /\ kind[q] # "stream" => sent[q] = <<>>
  /\ pc[q] \in {"remembering", "metering"} => rows[q] = <<"model">> /\ metered[q] = 0
  /\ pc[q] = "fallback" => rows[q] \in {<<>>, <<"model">>}
  /\ pc[q] = "answering" => rows[q] \in {<<"mock">>, <<"model", "mock">>}
  /\ pc[q] \in Working \cup {"gone", "lost", "unlogged"} => OnlyChunks(q)
  /\ pc[q] = "done" =>
       IF \E i \in DOMAIN sent[q] : sent[q][i] = "mock"
       THEN /\ rows[q] \in {<<"mock">>, <<"model", "mock">>}
            /\ \A i \in DOMAIN sent[q] : sent[q][i] # "model"
       ELSE rows[q] = <<"model">> /\ metered[q] = 1

Kept(q) == MeteredIfLogged(q) /\ Placed(q)

\* The logs that occur are different from each other.
LEMMA RowsDiffer ==
  /\ <<"model">> # <<>> /\ <<"mock">> # <<>> /\ <<"model", "mock">> # <<>>
  /\ <<"model">> # <<"mock">> /\ <<"model", "mock">> # <<"mock">> /\ <<"model", "mock">> # <<"model">>
OBVIOUS

\* What writing a row makes of the logs that occur.
LEMMA RowsSpelt ==
  /\ Append(<<>>, "model") = <<"model">> /\ Append(<<>>, "mock") = <<"mock">>
  /\ Append(<<"model">>, "mock") = <<"model", "mock">>
<1>1. Append(<<>>, "model") = <<"model">> /\ Append(<<>>, "mock") = <<"mock">>
  OBVIOUS
<1>2. /\ <<"model">> \in Seq(Feature) /\ Len(<<"model">>) = 1 /\ "mock" \in Feature
      /\ <<"model", "mock">> \in Seq(Feature) /\ Len(<<"model", "mock">>) = 2
  BY DEF Feature
<1>3. /\ Append(<<"model">>, "mock") \in Seq(Feature) /\ Len(Append(<<"model">>, "mock")) = 2
      /\ Append(<<"model">>, "mock")[1] = "model" /\ Append(<<"model">>, "mock")[2] = "mock"
  BY <1>2, AppendProperties
<1>4. \A i \in 1 .. 2 : Append(<<"model">>, "mock")[i] = <<"model", "mock">>[i]
  BY <1>3
<1>5. Append(<<"model">>, "mock") = <<"model", "mock">>
  BY <1>2, <1>3, <1>4, SeqEqual
<1>6. QED
  BY <1>1, <1>5

\* What a client has received once one more payload is sent.
LEMMA SentSpelt ==
  ASSUME NEW s \in Seq(Payload), NEW p \in Payload, \A i \in DOMAIN s : s[i] = "chunk"
  PROVE  /\ \A i \in DOMAIN Append(s, p) : Append(s, p)[i] \in {"chunk", p}
         /\ \E i \in DOMAIN Append(s, p) : Append(s, p)[i] = p
<1>1. /\ Append(s, p) \in Seq(Payload) /\ Len(s) \in Nat /\ DOMAIN s = 1 .. Len(s)
      /\ Len(Append(s, p)) = Len(s) + 1 /\ DOMAIN Append(s, p) = 1 .. Len(s) + 1
      /\ Append(s, p)[Len(s) + 1] = p
      /\ \A i \in 1 .. Len(s) : Append(s, p)[i] = s[i]
  BY AppendProperties, LenProperties
<1>2. Len(s) + 1 \in DOMAIN Append(s, p)
  BY <1>1
<1>3. \A i \in DOMAIN Append(s, p) : i = Len(s) + 1 \/ i \in DOMAIN s
  BY <1>1
<1>4. QED
  BY <1>1, <1>2, <1>3

\* A step of one request leaves the account of the others as it is.
LEMMA OthersKept ==
  ASSUME NEW q \in Requests, Kept(q), pc'[q] = pc[q], kind'[q] = kind[q], rows'[q] = rows[q],
         sent'[q] = sent[q], metered'[q] = metered[q]
  PROVE  Kept(q)'
BY DEF Kept, MeteredIfLogged, Placed, OnlyChunks

\* The steps that log, meter and send nothing: forward, or to the fallback, or away.
LEMMA QuietKept ==
  ASSUME NEW q \in Requests, Kept(q), rows'[q] = rows[q], sent'[q] = sent[q],
         metered'[q] = metered[q], kind'[q] = kind[q] \/ pc[q] = "idle",
         pc'[q] = "streaming" => kind'[q] = "stream",
         \/ pc[q] \in Working /\ pc'[q] \in {"gone", "lost"}
         \/ pc[q] \in {"checking", "context"} /\ pc'[q] \in {"refused", "error"}
         \/ pc[q] \in Working /\ pc'[q] = "fallback" /\ rows[q] \in {<<>>, <<"model">>}
         \/ /\ pc[q] \in {"idle", "checking", "context", "calling", "streaming"}
            /\ pc'[q] \in {"checking", "context", "calling", "streaming", "logging"}
            /\ pc[q] = "streaming" => pc'[q] = "logging"
         \/ pc[q] = "remembering" /\ pc'[q] = "metering"
  PROVE  Kept(q)'
BY DEF Kept, MeteredIfLogged, Placed, OnlyChunks, Working

\* A request writes a row: the model's, or after a failure the canned one.
LEMMA LogKept ==
  ASSUME RequestTypes, NEW q \in Requests, Kept(q), LogModel(q) \/ LogMock(q)
  PROVE  Kept(q)'
<1>1. sent'[q] = sent[q] /\ metered'[q] = metered[q] /\ kind'[q] = kind[q]
  BY DEF LogModel, LogMock
<1>2. CASE LogModel(q)
  <2>1. /\ pc[q] = "logging" /\ rows[q] = <<>> /\ metered[q] = 0 /\ OnlyChunks(q)
        /\ kind[q] # "stream" => sent[q] = <<>>
    BY <1>2 DEF LogModel, Kept, Placed, Working
  <2>2. \/ rows'[q] = Append(rows[q], "model") /\ pc'[q] \in {"remembering", "metering", "fallback"}
        \/ rows'[q] = rows[q] /\ pc'[q] = "fallback"
    BY <1>2 DEF LogModel, Goto, LeaveTo, RequestTypes
  <2>3. \/ rows'[q] = <<"model">> /\ pc'[q] \in {"remembering", "metering", "fallback"}
        \/ rows'[q] = <<>> /\ pc'[q] = "fallback"
    BY <2>1, <2>2, RowsSpelt
  <2>4. QED
    BY <1>1, <2>1, <2>3 DEF Kept, MeteredIfLogged, Placed, OnlyChunks
<1>3. CASE LogMock(q)
  <2>1. /\ pc[q] = "fallback" /\ rows[q] \in {<<>>, <<"model">>} /\ OnlyChunks(q) /\ MeteredIfLogged(q)
        /\ kind[q] # "stream" => sent[q] = <<>>
    BY <1>3 DEF LogMock, Kept, Placed, Working
  <2>2. \/ rows'[q] = Append(rows[q], "mock") /\ pc'[q] \in {"answering", "unlogged"}
        \/ rows'[q] = rows[q] /\ pc'[q] = "unlogged"
    BY <1>3 DEF LogMock, Goto, RequestTypes
  <2>3. Append(rows[q], "mock") = IF rows[q] = <<>> THEN <<"mock">> ELSE <<"model", "mock">>
    BY <2>1, RowsSpelt, RowsDiffer
  <2>4. MeteredIfLogged(q)'
    BY <1>1, <2>1, <2>2, <2>3, RowsDiffer DEF MeteredIfLogged
  <2>5. Placed(q)'
    BY <1>1, <2>1, <2>2, <2>3 DEF Placed, OnlyChunks
  <2>6. QED
    BY <2>4, <2>5 DEF Kept
<1>4. QED
  BY <1>2, <1>3

\* A request adds its tokens to the meter and gives the model's answer.
LEMMA MeterKept ==
  ASSUME RequestTypes, NEW q \in Requests, Kept(q), MeterTokens(q)
  PROVE  Kept(q)'
<1>1. /\ pc[q] = "metering" /\ rows[q] = <<"model">> /\ metered[q] = 0 /\ OnlyChunks(q)
      /\ rows'[q] = rows[q] /\ kind'[q] = kind[q] /\ (kind[q] # "stream" => sent[q] = <<>>)
  BY DEF MeterTokens, Kept, Placed, Working
<1>2. \/ /\ metered'[q] = 1 /\ pc'[q] = "done"
         /\ sent'[q] = sent[q] \/ sent'[q] = Append(sent[q], "model")
      \/ metered'[q] \in {0, 1} /\ pc'[q] = "fallback" /\ sent'[q] = sent[q]
  <2>1. \/ /\ metered' = [metered EXCEPT ![q] = @ + 1] /\ pc' = [pc EXCEPT ![q] = "done"]
           /\ sent' = sent \/ sent' = [sent EXCEPT ![q] = Append(@, "model")]
        \/ /\ metered' = [metered EXCEPT ![q] = @ + 1] \/ metered' = metered
           /\ pc' = [pc EXCEPT ![q] = "fallback"] /\ sent' = sent
    BY DEF MeterTokens, Goto, LeaveTo, Send
  <2>2. QED
    BY <1>1, <2>1 DEF RequestTypes
<1>3. pc'[q] = "done" => \A i \in DOMAIN sent'[q] : sent'[q][i] # "mock"
  <2>1. sent[q] \in Seq(Payload) /\ "model" \in Payload /\ \A i \in DOMAIN sent[q] : sent[q][i] = "chunk"
    BY <1>1 DEF RequestTypes, OnlyChunks, Payload
  <2>2. \A i \in DOMAIN Append(sent[q], "model") : Append(sent[q], "model")[i] \in {"chunk", "model"}
    BY <2>1, SentSpelt
  <2>3. QED
    BY <1>2, <2>1, <2>2
<1>4. MeteredIfLogged(q)'
  BY <1>1, <1>2 DEF MeteredIfLogged
<1>5. Placed(q)'
  <2>1. CASE pc'[q] = "done"
    BY <1>1, <1>2, <1>3, <2>1 DEF Placed, Working
  <2>2. CASE pc'[q] = "fallback"
    <3>1. OnlyChunks(q)' /\ rows'[q] = <<"model">>
      BY <1>1, <1>2, <2>2 DEF OnlyChunks
    <3>2. QED
      BY <1>1, <1>2, <2>2, <3>1 DEF Placed
  <2>3. QED
    BY <1>2, <2>1, <2>2
<1>6. QED
  BY <1>4, <1>5 DEF Kept

\* A request sends the client a chunk, or the canned reply.
LEMMA SendKept ==
  ASSUME RequestTypes, NEW q \in Requests, Kept(q), Chunk(q) \/ AnswerMock(q)
  PROVE  Kept(q)'
<1>1. rows'[q] = rows[q] /\ metered'[q] = metered[q] /\ kind'[q] = kind[q] /\ pc[q] \in Working
  BY DEF Chunk, AnswerMock, Working
<1>2. sent[q] \in Seq(Payload) /\ OnlyChunks(q) /\ \A i \in DOMAIN sent[q] : sent[q][i] = "chunk"
  BY <1>1 DEF RequestTypes, Kept, Placed, OnlyChunks
<1>3. CASE Chunk(q)
  <2>1. pc'[q] = pc[q] /\ sent'[q] = Append(sent[q], "chunk") /\ "chunk" \in Payload
    BY <1>3 DEF Chunk, Send, RequestTypes, Payload
  <2>2. \A i \in DOMAIN Append(sent[q], "chunk") : Append(sent[q], "chunk")[i] = "chunk"
    BY <1>2, <2>1, SentSpelt
  <2>3. OnlyChunks(q)'
    BY <2>1, <2>2 DEF OnlyChunks
  <2>4. pc'[q] = "streaming" /\ kind'[q] = "stream" /\ rows'[q] = <<>> /\ metered'[q] = 0
    BY <1>1, <1>3, <2>1 DEF Chunk, Kept, Placed
  <2>5. MeteredIfLogged(q)'
    BY <2>4 DEF MeteredIfLogged
  <2>6. Placed(q)'
    BY <2>3, <2>4 DEF Placed
  <2>7. QED
    BY <2>5, <2>6 DEF Kept
<1>4. CASE AnswerMock(q)
  <2>1. /\ pc[q] = "answering" /\ pc'[q] = "done" /\ "mock" \in Payload
        /\ sent'[q] = Append(sent[q], "mock")
    BY <1>4 DEF AnswerMock, Send, Goto, RequestTypes, Payload
  <2>2. /\ \A i \in DOMAIN Append(sent[q], "mock") : Append(sent[q], "mock")[i] # "model"
        /\ \E i \in DOMAIN Append(sent[q], "mock") : Append(sent[q], "mock")[i] = "mock"
    BY <1>2, <2>1, SentSpelt
  <2>3. rows[q] \in {<<"mock">>, <<"model", "mock">>} /\ MeteredIfLogged(q)
    BY <2>1 DEF Kept, Placed
  <2>4. MeteredIfLogged(q)'
    BY <1>1, <2>3 DEF MeteredIfLogged
  <2>5. /\ \E i \in DOMAIN sent'[q] : sent'[q][i] = "mock"
        /\ \A i \in DOMAIN sent'[q] : sent'[q][i] # "model"
        /\ rows'[q] \in {<<"mock">>, <<"model", "mock">>}
    BY <1>1, <2>1, <2>2, <2>3
  <2>6. Placed(q)'
    BY <2>1, <2>5 DEF Placed, Working
  <2>7. QED
    BY <2>4, <2>6 DEF Kept
<1>5. QED
  BY <1>3, <1>4

\* Every step of a request keeps the accounts of all of them.
LEMMA KeptStep ==
  ASSUME RequestTypes, [Next]_vars, \A q \in Requests : Kept(q)
  PROVE  \A q \in Requests : Kept(q)'
<1> SUFFICES ASSUME NEW p \in Requests PROVE Kept(p)'
  OBVIOUS
<1>1. ASSUME NEW q \in Requests, (\E k \in Kinds : Start(q, k)) \/ RequestStep(q)
                                  \/ Chunk(q) \/ ClientLeaves(q) \/ Recycle(q)
      PROVE  Kept(p)'
  <2>1. CASE p # q
    <3>1. /\ pc'[p] = pc[p] /\ kind'[p] = kind[p] /\ rows'[p] = rows[p] /\ sent'[p] = sent[p]
          /\ metered'[p] = metered[p]
      BY <1>1, <2>1
         DEF RequestTypes, RequestStep, Start, CheckPasses, CheckRefuses, RaisesEarly, GatherContext,
             ModelAnswers, StreamEnds, ModelFails, LogModel, Remember, MeterTokens, LogMock,
             AnswerMock, Chunk, ClientLeaves, Recycle, Fresh, Goto, LeaveTo, Send
    <3>2. QED
      BY <3>1, OthersKept
  <2>2. CASE p = q
    <3>1. CASE \/ \E k \in Kinds : Start(q, k)
               \/ CheckPasses(q) \/ CheckRefuses(q) \/ RaisesEarly(q) \/ GatherContext(q)
               \/ ModelAnswers(q) \/ StreamEnds(q) \/ ModelFails(q) \/ Remember(q)
               \/ ClientLeaves(q)
      <4>1. /\ rows'[q] = rows[q] /\ sent'[q] = sent[q] /\ metered'[q] = metered[q]
            /\ kind'[q] = kind[q] \/ pc[q] = "idle"
            /\ pc'[q] = "streaming" => kind'[q] = "stream"
        BY <3>1 DEF RequestTypes, Goto, LeaveTo, Start, CheckPasses, CheckRefuses, RaisesEarly, GatherContext, ModelAnswers,
                    StreamEnds, ModelFails, Remember, ClientLeaves
      <4>2. \/ pc[q] \in Working /\ pc'[q] \in {"gone", "lost"}
            \/ pc[q] \in {"checking", "context"} /\ pc'[q] \in {"refused", "error"}
            \/ pc[q] \in {"context", "calling", "streaming", "remembering"} /\ pc'[q] = "fallback"
            \/ /\ pc[q] \in {"idle", "checking", "context", "calling", "streaming"}
               /\ pc'[q] \in {"checking", "context", "calling", "streaming", "logging"}
               /\ pc[q] = "streaming" => pc'[q] = "logging"
            \/ pc[q] = "remembering" /\ pc'[q] = "metering"
        BY <3>1 DEF RequestTypes, Working, Start, CheckPasses, CheckRefuses, RaisesEarly, GatherContext,
                    ModelAnswers, StreamEnds, ModelFails, Remember, ClientLeaves, Goto, LeaveTo
      <4>3. pc[q] \in {"context", "calling", "streaming", "remembering"}
              => pc[q] \in Working /\ rows[q] \in {<<>>, <<"model">>}
        BY DEF Kept, Placed, Working
      <4>4. QED
        BY <2>2, <4>1, <4>2, <4>3, QuietKept
    <3>2. CASE LogModel(q) \/ LogMock(q)
      BY <2>2, <3>2, LogKept
    <3>3. CASE MeterTokens(q)
      BY <2>2, <3>3, MeterKept
    <3>4. CASE Chunk(q) \/ AnswerMock(q)
      BY <2>2, <3>4, SendKept
    <3>5. CASE Recycle(q)
      <4>1. rows'[q] = <<>> /\ sent'[q] = <<>> /\ metered'[q] = 0 /\ pc'[q] = "idle"
        BY <3>5 DEF Recycle, Fresh, Goto, RequestTypes
      <4>2. QED
        BY <2>2, <4>1 DEF Kept, MeteredIfLogged, Placed, OnlyChunks
    <3>6. QED
      BY <1>1, <3>1, <3>2, <3>3, <3>4, <3>5 DEF RequestStep
  <2>3. QED
    BY <2>1, <2>2
<1>2. ASSUME NEW S \in SUBSET Requests, Crash(S) PROVE Kept(p)'
  <2>1. /\ rows'[p] = rows[p] /\ sent'[p] = sent[p] /\ metered'[p] = metered[p] /\ kind'[p] = kind[p]
        /\ pc'[p] = pc[p] \/ (pc[p] \in Working /\ pc'[p] = "lost")
    BY <1>2 DEF Crash
  <2>2. QED
    BY <2>1, QuietKept, OthersKept
<1>3. CASE MeterChanges \/ UNCHANGED vars
  <2>1. /\ pc'[p] = pc[p] /\ kind'[p] = kind[p] /\ rows'[p] = rows[p] /\ sent'[p] = sent[p]
        /\ metered'[p] = metered[p]
    BY <1>3 DEF MeterChanges, vars
  <2>2. QED
    BY <2>1, OthersKept
<1>4. QED
  BY <1>1, <1>2, <1>3 DEF Next

\* What a client has received of a request is in the log and on the meter before it is
\* given, whichever step raises, whoever leaves, and with however many requests at a time,
\* except for chunks of streams that are under way or have been cut off or gone over to
\* the canned reply; and a request that ends earlier than that leaves nothing behind.
THEOREM ServiceAnswersAccounted == Spec => []AnswersAccounted
<1>1. Init => \A q \in Requests : Kept(q)
  BY DEF Init, Kept, MeteredIfLogged, Placed, OnlyChunks, Working
<1>2. RequestTypes /\ (\A q \in Requests : Kept(q)) /\ [Next]_vars
        => (\A q \in Requests : Kept(q))'
  BY KeptStep
<1>3. RequestTypes /\ (\A q \in Requests : Kept(q)) => AnswersAccounted
  <2> SUFFICES ASSUME RequestTypes, \A q \in Requests : Kept(q) PROVE AnswersAccounted
    OBVIOUS
  <2>1. AnswerAccounted
    <3> SUFFICES ASSUME NEW q \in Requests
                 PROVE  /\ Received(q, "model") => rows[q] = <<"model">> /\ metered[q] = 1
                        /\ Received(q, "mock") => /\ rows[q] \in {<<"mock">>, <<"model", "mock">>}
                                                  /\ ~Received(q, "model")
      BY DEF AnswerAccounted
    <3>1. pc[q] \in {"idle", "refused", "error", "done"} \cup Working \cup {"gone", "lost", "unlogged"}
      BY DEF RequestTypes, Over
    <3>2. CASE pc[q] = "done"
      BY <3>2 DEF Kept, Placed, Received
    <3>3. CASE pc[q] # "done"
      BY <3>1, <3>3 DEF Kept, Placed, Received, OnlyChunks
    <3>4. QED
      BY <3>2, <3>3
  <2>2. \A q \in Requests : rows[q] \in {<<"model">>, <<"model", "mock">>} => Logged(q, "model")
    BY DEF Logged
  <2>3. MeteredOnceAndLogged
    BY <2>2 DEF MeteredOnceAndLogged, Kept, MeteredIfLogged
  <2>4. EndAccounted
    BY DEF EndAccounted, Kept, Placed, OnlyChunks, Received
  <2>5. QED
    BY <2>1, <2>3, <2>4 DEF AnswersAccounted
<1>4. QED
  BY <1>1, <1>2, <1>3, RequestsTyped, PTL DEF Spec
=============================================================================
