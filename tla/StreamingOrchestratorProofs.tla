-------------------- MODULE StreamingOrchestratorProofs ---------------------
(***************************************************************************)
(* invoke_stream() for any catalogue, policies, number of streams and      *)
(* number of chunks: the type invariant, OneModelPerStream,                *)
(* AuditedExactlyOnce, DecisionNamesTheDeliverer, AttemptsAccounted and,   *)
(* of a step, HealthFollowsOutcomes.                                       *)
(*                                                                         *)
(* The properties speak of the audit record, which is written last, so     *)
(* none is inductive.  StreamOK says what each point of the generator      *)
(* carries towards it: while models are tried (Trying) the attempts so far *)
(* failed retryably, each of another eligible model and none of the one    *)
(* now connected to, the codes collected are those of their failures, and  *)
(* nothing has been delivered until that model is committed to; the result *)
(* that _finalize_stream is entered with is already Told as the record     *)
(* will be.                                                                *)
(***************************************************************************)
EXTENDS StreamingOrchestrator, RouteEvaluationLemmas

RetryableStatuses == {"throttled", "transient_error", "timeout"}

\* The local variables of a generator that is trying models.
Frames == [ decision : Decisions, current : Models, attempts : Seq(Attempts),
            extra : SUBSET RoutingReasonCode, result : {NoRecord}, how : {"none"} ]

\* Every attempt was of another eligible model.
Spent(atts, candidates) ==
    /\ \A i, j \in DOMAIN atts : atts[i].model_alias = atts[j].model_alias => i = j
    /\ Tried(atts) \subseteq EligibleAliases(candidates)

\* The codes say how attempts with these statuses failed.
Collected(codes, statuses) ==
    /\ "MODEL_THROTTLED" \in codes <=> "throttled" \in statuses
    /\ "MODEL_UNAVAILABLE" \in codes <=> statuses \cap {"transient_error", "timeout"} # {}
    /\ "NO_ELIGIBLE_MODEL" \notin codes

\* The locals of a generator that is connecting to, or reading from, f.current.
Trying(s, f) ==
    /\ Policy(s) # NoPolicy
    /\ f \in Frames
    /\ f.decision.selected # NoModel =>
          f.decision.selected \in EligibleAliases(f.decision.candidates)
    /\ f.decision.reason_codes \cap OutcomeCodes = {}
    /\ f.current \in EligibleAliases(f.decision.candidates)
    /\ f.current \notin Tried(f.attempts)
    /\ Statuses(f.attempts) \subseteq RetryableStatuses
    /\ Spent(f.attempts, f.decision.candidates)
    /\ Len(f.attempts) < Policy(s).maximum_attempts
    /\ Collected(f.extra, Statuses(f.attempts))

\* What the record of a stream says of its attempts and of what was delivered.
Told(s, rec) ==
    LET d    == rec.decision
        atts == rec.attempts
    IN  /\ d \in Decisions /\ atts \in Seq(Attempts)
        /\ \A i \in DOMAIN atts : i < Len(atts) =>
              /\ atts[i].status \in RetryableStatuses
              /\ \A j \in DOMAIN delivered[s] : delivered[s][j] # atts[i].model_alias
        /\ (d.selected # NoModel) <=> (atts # << >> /\ atts[Len(atts)].status = "succeeded")
        /\ d.selected # NoModel => delivered[s] # << >> /\ delivered[s][1] = d.selected
        /\ d.fallback_used <=>
              ("FALLBACK_SELECTED" \in d.reason_codes /\ d.selected # NoModel)
        /\ "FALLBACK_SELECTED" \in d.reason_codes => delivered[s] # << >>
        /\ Accounted(s, d, atts)

Points == {"idle", "opened", "connecting", "suspended", "finalize", "done"}

StreamOK(s) ==
    /\ request[s] \in StreamRequests /\ pc[s] \in Points /\ ended[s] \in Endings
    /\ delivered[s] \in Seq(Models)
    /\ \A i, j \in DOMAIN delivered[s] : delivered[s][i] = delivered[s][j]
    /\ pc[s] # "done" => ended[s] = "none" /\ saves[s] = 0 /\ audit[s] = NoRecord
    /\ pc[s] \in {"idle", "opened", "connecting"} => delivered[s] = << >>
    /\ pc[s] \in {"connecting", "suspended"} => Trying(s, frame[s])
    /\ pc[s] = "connecting" => "FALLBACK_SELECTED" \notin frame[s].extra
    /\ pc[s] = "suspended" =>
          /\ delivered[s] # << >>
          /\ \A i \in DOMAIN delivered[s] : delivered[s][i] = frame[s].current
          /\ frame[s].current # frame[s].decision.selected <=>
                "FALLBACK_SELECTED" \in frame[s].extra
    /\ pc[s] = "finalize" =>
          /\ frame[s].result \in InferenceResults /\ Told(s, frame[s].result)
          /\ frame[s].how \in {"exhausted", "drained", "failed"}
    /\ pc[s] = "done" =>
          /\ ended[s] # "none" /\ saves[s] \in {0, 1}
          /\ ended[s] \in {"exhausted", "drained", "failed"} => saves[s] = 1
          /\ ended[s] \in {"rejected", "abandoned", "raised"} => saves[s] = 0
          /\ audit[s] # NoRecord =>
                /\ audit[s] \in [decision : Decisions, attempts : Seq(Attempts)]
                /\ Told(s, audit[s])

\* The variables as functions.
Shapes ==
    /\ request = [s \in Streams |-> request[s]] /\ pc = [s \in Streams |-> pc[s]]
    /\ frame = [s \in Streams |-> frame[s]] /\ delivered = [s \in Streams |-> delivered[s]]
    /\ ended = [s \in Streams |-> ended[s]] /\ audit = [s \in Streams |-> audit[s]]
    /\ saves = [s \in Streams |-> saves[s]] /\ failures \in [Models -> Nat]

StreamInv == Shapes /\ \A s \in Streams : StreamOK(s)

-----------------------------------------------------------------------------
(***************************************************************************)
(* A step is one stream's: the others are left as they were.               *)
(***************************************************************************)
\* The step of a stream leaves the locals and the records of the others alone.
Only(s) ==
    \A t \in Streams \ {s} :
        /\ pc'[t] = pc[t] /\ frame'[t] = frame[t] /\ delivered'[t] = delivered[t]
        /\ ended'[t] = ended[t] /\ audit'[t] = audit[t] /\ saves'[t] = saves[t]

\* What a record says depends on the stream's request and on what it delivered.
LEMMA ToldStays ==
    ASSUME NEW t, NEW rec, request' = request, delivered'[t] = delivered[t], Told(t, rec)
    PROVE  Told(t, rec)'
<1>1. SilentFailures(t, rec.attempts)' = SilentFailures(t, rec.attempts)
  <2>1. {j \in DOMAIN rec.attempts : delivered'[t] = << >> \/ j < Len(rec.attempts)}
          = {j \in DOMAIN rec.attempts : delivered[t] = << >> \/ j < Len(rec.attempts)}
    OBVIOUS
  <2> QED BY <2>1 DEF SilentFailures
<1>2. Accounted(t, rec.decision, rec.attempts)'
  BY <1>1 DEF Told, Accounted, Policy
<1> QED BY <1>2 DEF Told

LEMMA Elsewhere ==
    ASSUME NEW t, StreamOK(t), request' = request,
           pc'[t] = pc[t], frame'[t] = frame[t], delivered'[t] = delivered[t],
           ended'[t] = ended[t], audit'[t] = audit[t], saves'[t] = saves[t]
    PROVE  StreamOK(t)'
<1>1. Policy(t)' = Policy(t)
  BY DEF Policy
<1>2. /\ pc[t] \in {"connecting", "suspended"} => Trying(t, frame[t])'
      /\ pc[t] = "finalize" => Told(t, frame[t].result)'
      /\ pc[t] = "done" /\ audit[t] # NoRecord => Told(t, audit[t])'
  <2>1. /\ pc[t] \in {"connecting", "suspended"} => Trying(t, frame[t])
        /\ pc[t] = "finalize" => Told(t, frame[t].result)
        /\ pc[t] = "done" /\ audit[t] # NoRecord => Told(t, audit[t])
    BY DEF StreamOK
  <2>2. pc[t] \in {"connecting", "suspended"} => Trying(t, frame[t])'
    BY <1>1, <2>1 DEF Trying
  <2>3. ASSUME pc[t] = "finalize" PROVE Told(t, frame[t].result)'
    <3>1. PICK rec : rec = frame[t].result
      OBVIOUS
    <3>2. Told(t, rec)
      BY <2>1, <2>3, <3>1
    <3>3. Told(t, rec)'
      BY <3>2, ToldStays
    <3> QED BY <3>1, <3>3 DEF Told
  <2>4. ASSUME pc[t] = "done", audit[t] # NoRecord PROVE Told(t, audit[t])'
    <3>1. PICK rec : rec = audit[t]
      OBVIOUS
    <3>2. Told(t, rec)
      BY <2>1, <2>4, <3>1
    <3>3. Told(t, rec)'
      BY <3>2, ToldStays
    <3> QED BY <3>1, <3>3 DEF Told
  <2> QED BY <2>2, <2>3, <2>4
<1> QED BY <1>2 DEF StreamOK

\* If the stream that moved is in order afterwards, all are.
LEMMA Lifts ==
    ASSUME StreamInv, NEW s \in Streams, Shapes', request' = request, Only(s), StreamOK(s)'
    PROVE  StreamInv'
<1>1. ASSUME NEW t \in Streams PROVE StreamOK(t)'
  <2>1. CASE t = s
    BY <2>1
  <2>2. CASE t # s
    BY <2>2, Elsewhere DEF StreamInv, Only
  <2> QED BY <2>1, <2>2
<1> QED BY <1>1 DEF StreamInv

\* record_outcome keeps a counter per model.
LEMMA RecordOutcomeType ==
    ASSUME NEW counters \in [Models -> Nat], NEW m \in Models, NEW status
    PROVE  RecordOutcome(counters, m, status) \in [Models -> Nat]
BY DEF RecordOutcome

\* What Settle and Connect leave in the locals of the stream.
LEMMA SettleShape ==
    ASSUME Shapes, NEW s \in Streams, NEW d, NEW succeeded, NEW codes, NEW atts, NEW how,
           Settle(s, d, succeeded, codes, atts, how)
    PROVE  /\ pc' = [pc EXCEPT ![s] = "finalize"] /\ pc'[s] = "finalize"
           /\ frame'[s].how = how
           /\ frame'[s].result = InferenceResult(AggregateDecision(d, succeeded, codes), NoModel, atts)
           /\ frame' = [frame EXCEPT ![s] = frame'[s]]
<1> DEFINE f == [ decision |-> d, current |-> NoModel, attempts |-> atts, extra |-> codes,
                  result |-> InferenceResult(AggregateDecision(d, succeeded, codes), NoModel, atts),
                  how |-> how ]
<1>1. frame' = [frame EXCEPT ![s] = f] /\ pc' = [pc EXCEPT ![s] = "finalize"]
  BY DEF Settle, GoTo
<1>2. f.how = how
      /\ f.result = InferenceResult(AggregateDecision(d, succeeded, codes), NoModel, atts)
  OBVIOUS
<1> HIDE DEF f
<1>3. frame'[s] = f /\ pc'[s] = "finalize"
  BY <1>1 DEF Shapes
<1> QED BY <1>1, <1>2, <1>3

LEMMA ConnectShape ==
    ASSUME Shapes, NEW s \in Streams, NEW d, NEW alias, NEW codes, NEW atts,
           Connect(s, d, alias, codes, atts)
    PROVE  /\ pc' = [pc EXCEPT ![s] = "connecting"] /\ pc'[s] = "connecting"
           /\ frame'[s].decision = d /\ frame'[s].current = alias
           /\ frame'[s].attempts = atts /\ frame'[s].extra = codes
           /\ frame'[s].how = "none"
           /\ d \in Decisions /\ alias \in Models /\ codes \in SUBSET RoutingReasonCode
                 /\ atts \in Seq(Attempts) => frame'[s] \in Frames
           /\ frame' = [frame EXCEPT ![s] = frame'[s]]
<1> DEFINE f == [ decision |-> d, current |-> alias, attempts |-> atts, extra |-> codes,
                  result |-> NoRecord, how |-> "none" ]
<1>1. frame' = [frame EXCEPT ![s] = f] /\ pc' = [pc EXCEPT ![s] = "connecting"]
  BY DEF Connect, GoTo
<1>2. /\ f.decision = d /\ f.current = alias /\ f.attempts = atts /\ f.extra = codes
      /\ f.how = "none"
      /\ d \in Decisions /\ alias \in Models /\ codes \in SUBSET RoutingReasonCode
            /\ atts \in Seq(Attempts) => f \in Frames
  BY DEF Frames
<1> HIDE DEF f
<1>3. frame'[s] = f /\ pc'[s] = "connecting"
  BY <1>1 DEF Shapes
<1> QED BY <1>1, <1>2, <1>3

\* A step that moves one stream's generator only.
LEMMA GeneratorMoves ==
    ASSUME Shapes, NEW s \in Streams, NEW point, NEW f, failures' \in [Models -> Nat],
           pc' = [pc EXCEPT ![s] = point], frame' = [frame EXCEPT ![s] = f],
           UNCHANGED << request, delivered, ended, audit, saves >>
    PROVE  Shapes' /\ Only(s)
BY DEF Shapes, Only

\* The generator ends: nothing else of the stream changes.
LEMMA EndShape ==
    ASSUME Shapes, NEW s \in Streams, NEW how, End(s, how)
    PROVE  /\ pc'[s] = "done" /\ ended'[s] = how
           /\ pc' = [pc EXCEPT ![s] = "done"] /\ ended' = [ended EXCEPT ![s] = how]
           /\ frame' = [frame EXCEPT ![s] = NoFrame]
BY DEF End, GoTo, Shapes

-----------------------------------------------------------------------------
(***************************************************************************)
(* Connecting to a model and settling the result.                          *)
(***************************************************************************)
\* _aggregate_decision, field by field.
LEMMA AggregateFields ==
    ASSUME NEW d \in Decisions, NEW succeeded, NEW codes
    PROVE  LET a == AggregateDecision(d, succeeded, codes)
           IN  /\ a.selected = succeeded
               /\ a.fallback_used = (succeeded # NoModel /\ succeeded # d.selected)
               /\ a.candidates = d.candidates
               /\ a.reason_codes = (d.reason_codes \ {"NO_ELIGIBLE_MODEL"}) \cup codes
BY DEF AggregateDecision, Decisions, RoutingDecisions

\* The result that _finalize_stream is entered with is told as the record will be.
LEMMA SettlePreserves ==
    ASSUME StreamInv, NEW s \in Streams, pc[s] \in {"opened", "connecting", "suspended"},
           UNCHANGED << request, delivered, ended, audit, saves >>,
           failures' \in [Models -> Nat],
           NEW d \in Decisions, NEW codes \in SUBSET RoutingReasonCode,
           NEW atts \in Seq(Attempts),
           NEW succeeded \in EligibleAliases(d.candidates) \cup {NoModel},
           NEW how \in {"exhausted", "drained", "failed"},
           Settle(s, d, succeeded, codes, atts, how),
           \A i \in DOMAIN atts : i < Len(atts) =>
              /\ atts[i].status \in RetryableStatuses
              /\ \A j \in DOMAIN delivered[s] : delivered[s][j] # atts[i].model_alias,
           (succeeded # NoModel) <=> (atts # << >> /\ atts[Len(atts)].status = "succeeded"),
           succeeded # NoModel => delivered[s] # << >> /\ delivered[s][1] = succeeded,
           succeeded # NoModel => (succeeded # d.selected <=> "FALLBACK_SELECTED" \in codes),
           "FALLBACK_SELECTED" \in codes => delivered[s] # << >>,
           d.reason_codes \cap OutcomeCodes = {}, Spent(atts, d.candidates),
           Len(atts) <= Policy(s).maximum_attempts, Collected(codes, SilentFailures(s, atts))
    PROVE  StreamInv'
<1> DEFINE a   == AggregateDecision(d, succeeded, codes)
           res == InferenceResult(a, NoModel, atts)
<1>1. Shapes
  BY DEF StreamInv
<1>2. /\ pc' = [pc EXCEPT ![s] = "finalize"] /\ pc'[s] = "finalize"
      /\ frame'[s].how = how /\ frame'[s].result = res
      /\ frame' = [frame EXCEPT ![s] = frame'[s]]
  BY <1>1, SettleShape
<1>3. Shapes' /\ Only(s)
  BY <1>1, <1>2, GeneratorMoves
<1>4. a \in Decisions
  BY AggregateDecisionType DEF Decisions
<1>5. /\ a.selected = succeeded
      /\ a.fallback_used = (succeeded # NoModel /\ succeeded # d.selected)
      /\ a.candidates = d.candidates
      /\ a.reason_codes = (d.reason_codes \ {"NO_ELIGIBLE_MODEL"}) \cup codes
  BY AggregateFields
<1> HIDE DEF a
<1>5a. Accounted(s, a, atts)
  BY <1>5 DEF Accounted, Spent, Collected, OutcomeCodes
<1>5b. Accounted(s, a, atts)'
  BY <1>5a DEF Accounted, SilentFailures, Policy
<1>6. res \in InferenceResults /\ res.decision = a /\ res.attempts = atts
  BY <1>4 DEF InferenceResult, InferenceResults
<1> HIDE DEF res
<1>7. Told(s, res)'
  <2>1. "FALLBACK_SELECTED" \in a.reason_codes <=> "FALLBACK_SELECTED" \in codes
    BY <1>5 DEF OutcomeCodes
  <2>2. a.fallback_used <=> ("FALLBACK_SELECTED" \in a.reason_codes /\ a.selected # NoModel)
    BY <1>5, <2>1
  <2> QED BY <1>4, <1>5, <1>6, <1>5b, <2>1, <2>2 DEF Told
<1>8. Told(s, frame[s].result)'
  BY <1>2, <1>7
<1>9. /\ request'[s] \in StreamRequests /\ ended'[s] = "none" /\ saves'[s] = 0
      /\ audit'[s] = NoRecord /\ delivered'[s] \in Seq(Models)
      /\ \A i, j \in DOMAIN delivered'[s] : delivered'[s][i] = delivered'[s][j]
  BY DEF StreamInv, StreamOK
<1>10. StreamOK(s)'
  BY <1>2, <1>6, <1>8, <1>9 DEF StreamOK, Points, Endings
<1> QED BY <1>3, <1>10, Lifts

\* The next model is connected to before anything was delivered.
LEMMA ConnectPreserves ==
    ASSUME StreamInv, NEW s \in Streams, pc[s] \in {"opened", "connecting"},
           UNCHANGED << request, delivered, ended, audit, saves >>,
           failures' \in [Models -> Nat], Policy(s) # NoPolicy,
           NEW d \in Decisions, NEW codes \in SUBSET RoutingReasonCode,
           NEW atts \in Seq(Attempts), NEW alias,
           d.selected # NoModel => d.selected \in EligibleAliases(d.candidates),
           d.reason_codes \cap OutcomeCodes = {}, Spent(atts, d.candidates),
           Statuses(atts) \subseteq RetryableStatuses, Collected(codes, Statuses(atts)),
           alias = NextCandidate(d, Policy(s), atts), alias # NoModel,
           "FALLBACK_SELECTED" \notin codes,
           Connect(s, d, alias, codes, atts)
    PROVE  StreamInv'
<1>1. Shapes
  BY DEF StreamInv
<1>2. /\ pc' = [pc EXCEPT ![s] = "connecting"] /\ pc'[s] = "connecting"
      /\ frame'[s].decision = d /\ frame'[s].current = alias
      /\ frame'[s].attempts = atts /\ frame'[s].extra = codes
      /\ frame' = [frame EXCEPT ![s] = frame'[s]]
  BY <1>1, ConnectShape
<1>3. Shapes' /\ Only(s)
  BY <1>1, <1>2, GeneratorMoves
<1>4. request[s] \in StreamRequests
  BY DEF StreamInv, StreamOK
<1>5. ValidPolicy(Policy(s))
  BY <1>4, StreamAssumption DEF Policy
<1>6. /\ alias \in EligibleAliases(d.candidates) /\ alias \notin Tried(atts)
      /\ Len(atts) < Policy(s).maximum_attempts
  BY <1>5, NextCandidateFacts
<1>7. Policy(s)' = Policy(s)
  BY DEF Policy
<1>8. frame'[s] \in Frames
  <2>1. alias \in Models
    BY <1>6 DEF EligibleAliases
  <2> QED BY <1>1, <2>1, ConnectShape
<1>9. Trying(s, frame[s])'
  BY <1>2, <1>6, <1>7, <1>8 DEF Trying
<1>10. /\ request'[s] \in StreamRequests /\ ended'[s] = "none" /\ saves'[s] = 0
      /\ audit'[s] = NoRecord /\ delivered'[s] \in Seq(Models) /\ delivered'[s] = << >>
      /\ \A i, j \in DOMAIN delivered'[s] : delivered'[s][i] = delivered'[s][j]
  BY DEF StreamInv, StreamOK
<1>11. StreamOK(s)'
  BY <1>2, <1>9, <1>10 DEF StreamOK, Points, Endings
<1> QED BY <1>3, <1>11, Lifts

\* The generator ends without a record.
LEMMA EndPreserves ==
    ASSUME StreamInv, NEW s \in Streams, pc[s] # "done",
           NEW how \in {"rejected", "abandoned", "raised", "error"}, End(s, how),
           UNCHANGED << request, failures, delivered, audit, saves >>
    PROVE  StreamInv'
<1>1. Shapes
  BY DEF StreamInv
<1>2. /\ pc'[s] = "done" /\ ended'[s] = how
      /\ pc' = [pc EXCEPT ![s] = "done"] /\ ended' = [ended EXCEPT ![s] = how]
      /\ frame' = [frame EXCEPT ![s] = NoFrame]
  BY <1>1, EndShape
<1>3. Shapes' /\ Only(s)
  BY <1>1, <1>2 DEF Shapes, Only
<1>4. /\ request'[s] \in StreamRequests /\ saves'[s] = 0
      /\ audit'[s] = NoRecord /\ delivered'[s] \in Seq(Models)
      /\ \A i, j \in DOMAIN delivered'[s] : delivered'[s][i] = delivered'[s][j]
  BY DEF StreamInv, StreamOK
<1>5. StreamOK(s)'
  BY <1>2, <1>4 DEF StreamOK, Points, Endings
<1> QED BY <1>3, <1>5, Lifts

-----------------------------------------------------------------------------
(***************************************************************************)
(* The steps of a stream.                                                  *)
(***************************************************************************)
LEMMA PolicyLimits ==
    ASSUME NEW s, StreamOK(s), Policy(s) # NoPolicy
    PROVE  Policy(s).maximum_attempts \in Nat
BY StreamAssumption DEF StreamOK, Policy, ValidPolicy

LEMMA CategoryStatus ==
    ASSUME NEW category \in ProviderErrorCategory
    PROVE  /\ StatusForCategory(category) \in InvocationAttemptStatus
           /\ StatusForCategory(category) # "succeeded"
           /\ category # "permanent" => StatusForCategory(category) \in RetryableStatuses
           /\ ReasonCodesForCategory(category) \in SUBSET RoutingReasonCode
           /\ Collected(ReasonCodesForCategory(category), {StatusForCategory(category)})
           /\ "FALLBACK_SELECTED" \notin ReasonCodesForCategory(category)
BY DEF Collected, ProviderErrorCategory, StatusForCategory, ReasonCodesForCategory,
       InvocationAttemptStatus, RetryableStatuses, RoutingReasonCode

\* What the attempts of a stream look like with one more, of the model the stream
\* is at: all before it failed retryably, and none was of that model.
LEMMA OneAttemptMore ==
    ASSUME NEW s, NEW f, Trying(s, f), NEW status \in InvocationAttemptStatus,
           Policy(s).maximum_attempts \in Nat
    PROVE  LET atts == Append(f.attempts, Attempt(f.current, status))
           IN  /\ atts \in Seq(Attempts) /\ atts # << >>
               /\ atts[Len(atts)].status = status
               /\ \A i \in DOMAIN atts : i < Len(atts) =>
                     /\ atts[i].status \in RetryableStatuses
                     /\ atts[i].model_alias # f.current
               /\ status \in RetryableStatuses => Statuses(atts) \subseteq RetryableStatuses
               /\ f.current \in Models
               /\ Spent(atts, f.decision.candidates) /\ Len(atts) <= Policy(s).maximum_attempts
               /\ Statuses(atts) = Statuses(f.attempts) \cup {status}
               /\ delivered[s] = << >> => SilentFailures(s, atts) = Statuses(atts)
               /\ delivered[s] # << >> => SilentFailures(s, atts) = Statuses(f.attempts)
<1> DEFINE atts == Append(f.attempts, Attempt(f.current, status))
<1>1. /\ f.attempts \in Seq(Attempts) /\ f.current \in Models
      /\ f.current \notin Tried(f.attempts)
      /\ Statuses(f.attempts) \subseteq RetryableStatuses
      /\ f.current \in EligibleAliases(f.decision.candidates)
      /\ Spent(f.attempts, f.decision.candidates)
      /\ Len(f.attempts) < Policy(s).maximum_attempts
  BY DEF Trying, Frames
<1>2. /\ Len(atts) = Len(f.attempts) + 1 /\ atts # << >>
      /\ atts[Len(atts)].model_alias = f.current
      /\ Tried(atts) = Tried(f.attempts) \cup {f.current}
      /\ atts[Len(atts)].status = status
      /\ \A i \in DOMAIN atts : i < Len(atts) =>
            i \in DOMAIN f.attempts /\ atts[i] = f.attempts[i]
      /\ Statuses(atts) = Statuses(f.attempts) \cup {status}
  BY <1>1, AppendFacts
<1>3. Attempt(f.current, status) \in Attempts
  BY <1>1 DEF Attempt, Attempts
<1>4. atts \in Seq(Attempts)
  BY <1>1, <1>3
<1> HIDE DEF atts
<1>5. \A i \in DOMAIN atts : i < Len(atts) =>
         /\ atts[i].status \in RetryableStatuses
         /\ atts[i].model_alias # f.current
  BY <1>1, <1>2 DEF Statuses, Tried
<1>6. DOMAIN atts = 1 .. Len(atts) /\ DOMAIN f.attempts = 1 .. Len(f.attempts)
      /\ Len(f.attempts) \in Nat
  BY <1>1, <1>4
<1>7. Spent(atts, f.decision.candidates)
  <2>1. ASSUME NEW i \in DOMAIN atts, NEW j \in DOMAIN atts,
               atts[i].model_alias = atts[j].model_alias
        PROVE  i = j
    <3>1. CASE i < Len(atts) /\ j < Len(atts)
      BY <1>1, <1>2, <2>1, <3>1 DEF Spent
    <3>2. CASE ~(i < Len(atts) /\ j < Len(atts))
      BY <1>2, <1>5, <1>6, <2>1, <3>2
    <3> QED BY <3>1, <3>2
  <2> QED BY <1>1, <1>2, <2>1 DEF Spent
<1>8. Len(atts) <= Policy(s).maximum_attempts
  BY <1>1, <1>2, <1>6
<1>9. /\ delivered[s] = << >> => SilentFailures(s, atts) = Statuses(atts)
      /\ delivered[s] # << >> => SilentFailures(s, atts) = Statuses(f.attempts)
  <2>1. CASE delivered[s] = << >>
    BY <2>1 DEF SilentFailures, Statuses
  <2>2. CASE delivered[s] # << >>
    <3>1. {j \in DOMAIN atts : j < Len(atts)} = DOMAIN f.attempts
      BY <1>2, <1>6
    <3> QED BY <1>2, <2>2, <3>1 DEF SilentFailures, Statuses
  <2> QED BY <2>1, <2>2
<1> QED BY <1>1, <1>2, <1>4, <1>5, <1>7, <1>8, <1>9 DEF atts

LEMMA OpenPreserves ==
    ASSUME StreamInv, NEW s \in Streams, Open(s)
    PROVE  StreamInv'
<1>1. /\ Shapes /\ pc[s] = "idle" /\ StreamOK(s)
      /\ UNCHANGED << request, failures, delivered, audit, saves >>
  BY DEF StreamInv, Open
<1>2. CASE request[s].key # NoKey
  BY <1>1, <1>2, EndPreserves DEF Open
<1>3. CASE request[s].key = NoKey
  <2>1. pc' = [pc EXCEPT ![s] = "opened"] /\ UNCHANGED << frame, ended >>
    BY <1>3 DEF Open, GoTo
  <2>2. pc'[s] = "opened" /\ Shapes' /\ Only(s)
    BY <1>1, <2>1 DEF Shapes, Only
  <2>3. StreamOK(s)'
    BY <1>1, <2>1, <2>2 DEF StreamOK, Points
  <2> QED BY <1>1, <2>2, <2>3, Lifts
<1> QED BY <1>2, <1>3

LEMMA EvaluatePreserves ==
    ASSUME StreamInv, NEW s \in Streams, EvaluateStream(s)
    PROVE  StreamInv'
<1> DEFINE health == [m \in Models |-> GetHealth(failures, m)]
           d      == Evaluate(s, request[s], Policy(s), health)
           first  == NextCandidate(d, Policy(s), << >>)
<1>1. /\ pc[s] = "opened" /\ Policy(s) # NoPolicy /\ Shapes /\ StreamOK(s)
      /\ UNCHANGED << request, failures, delivered, ended, audit, saves >>
      /\ IF first = NoModel THEN Settle(s, d, NoModel, {}, << >>, "exhausted")
         ELSE Connect(s, d, first, {}, << >>)
  BY DEF StreamInv, EvaluateStream
<1>2. health \in [Models -> ModelHealthStatus]
  BY DEF GetHealth, ModelHealthStatus
<1>3. ValidPolicy(Policy(s)) /\ ValidRequest(request[s])
  BY <1>1, StreamAssumption DEF Policy, StreamOK
<1>4. DecisionFacts(d, s, request[s], Policy(s), health)
  BY <1>2, <1>3, EvaluateFacts
<1> HIDE DEF d, health
<1>5. /\ d \in Decisions /\ d.reason_codes \cap OutcomeCodes = {}
      /\ d.selected # NoModel => d.selected \in EligibleAliases(d.candidates)
  BY <1>4 DEF DecisionFacts, RoutingDecisions, Decisions
<1>6. /\ << >> \in Seq(Attempts) /\ Statuses(<< >>) = {} /\ failures' \in [Models -> Nat]
      /\ Spent(<< >>, d.candidates) /\ Collected({}, Statuses(<< >>))
      /\ Policy(s).maximum_attempts \in Nat
  BY <1>1, <1>3 DEF Statuses, Shapes, Spent, Tried, Collected, ValidPolicy
<1>7. CASE first = NoModel
  <2>1. Settle(s, d, NoModel, {}, << >>, "exhausted")
    BY <1>1, <1>7
  <2>2. PICK none : none = << >>
    OBVIOUS
  <2>3. none \in Seq(Attempts) /\ DOMAIN none = {} /\ ~ (none # << >>)
    BY <2>2
  <2>4. Settle(s, d, NoModel, {}, none, "exhausted")
    BY <2>1, <2>2
  <2>5. /\ Spent(none, d.candidates) /\ Len(none) <= Policy(s).maximum_attempts
        /\ Collected({}, SilentFailures(s, none))
    BY <1>6, <2>2, <2>3 DEF SilentFailures, Collected
  <2> QED BY <1>1, <1>5, <1>6, <2>3, <2>4, <2>5, SettlePreserves
<1>8. CASE first # NoModel
  BY <1>1, <1>5, <1>6, <1>8, ConnectPreserves
<1> QED BY <1>7, <1>8

LEMMA ConnectFailsPreserves ==
    ASSUME StreamInv, NEW s \in Streams, NEW category \in ProviderErrors,
           ConnectFails(s, category)
    PROVE  StreamInv'
<1> DEFINE f      == frame[s]
           status == StatusForCategory(category)
           atts   == Append(f.attempts, Attempt(f.current, status))
           codes  == f.extra \cup ReasonCodesForCategory(category)
           next   == IF category = "permanent" THEN NoModel
                     ELSE NextCandidate(f.decision, Policy(s), atts)
<1>1. /\ pc[s] = "connecting" /\ Shapes /\ StreamOK(s) /\ Trying(s, f)
      /\ UNCHANGED << request, delivered, ended, audit, saves >>
      /\ failures' = RecordOutcome(failures, f.current, status)
      /\ IF next = NoModel THEN Settle(s, f.decision, NoModel, codes, atts, "exhausted")
         ELSE Connect(s, f.decision, next, codes, atts)
  BY DEF StreamInv, StreamOK, ConnectFails
<1>2. category \in ProviderErrorCategory
  BY StreamAssumption
<1>3. /\ status \in InvocationAttemptStatus /\ status # "succeeded"
      /\ category # "permanent" => status \in RetryableStatuses
      /\ ReasonCodesForCategory(category) \in SUBSET RoutingReasonCode
      /\ Collected(ReasonCodesForCategory(category), {status})
      /\ "FALLBACK_SELECTED" \notin ReasonCodesForCategory(category)
      /\ Policy(s).maximum_attempts \in Nat
  BY <1>1, <1>2, CategoryStatus, PolicyLimits DEF Trying
<1> HIDE DEF status
<1>4. /\ atts \in Seq(Attempts) /\ atts # << >>
      /\ atts[Len(atts)].status = status
      /\ \A i \in DOMAIN atts : i < Len(atts) => atts[i].status \in RetryableStatuses
      /\ status \in RetryableStatuses => Statuses(atts) \subseteq RetryableStatuses
      /\ f.current \in Models
      /\ Spent(atts, f.decision.candidates) /\ Len(atts) <= Policy(s).maximum_attempts
      /\ Statuses(atts) = Statuses(f.attempts) \cup {status}
      /\ delivered[s] = << >> => SilentFailures(s, atts) = Statuses(atts)
  <2> HIDE DEF f
  <2> QED BY <1>1, <1>3, OneAttemptMore, SMTT(30)
<1> HIDE DEF atts
<1>5. failures' \in [Models -> Nat]
  BY <1>1, <1>4, RecordOutcomeType DEF Shapes
<1>6. /\ Policy(s) # NoPolicy /\ f.decision \in Decisions
      /\ Collected(codes, Statuses(atts))
      /\ f.decision.selected # NoModel =>
            f.decision.selected \in EligibleAliases(f.decision.candidates)
      /\ f.decision.reason_codes \cap OutcomeCodes = {}
      /\ codes \in SUBSET RoutingReasonCode /\ delivered[s] = << >>
      /\ "FALLBACK_SELECTED" \notin codes
  BY <1>1, <1>3, <1>4 DEF Trying, Frames, StreamOK, Collected
<1> HIDE DEF codes
<1>7. CASE next = NoModel
  <2>1. \A i \in DOMAIN atts : i < Len(atts) =>
           /\ atts[i].status \in RetryableStatuses
           /\ \A j \in DOMAIN delivered[s] : delivered[s][j] # atts[i].model_alias
    BY <1>4, <1>6
  <2>2. Collected(codes, SilentFailures(s, atts))
    BY <1>4, <1>6
  <2> QED BY <1>1, <1>3, <1>4, <1>5, <1>6, <1>7, <2>1, <2>2, SettlePreserves
<1>8. CASE next # NoModel
  <2>1. category # "permanent" /\ next = NextCandidate(f.decision, Policy(s), atts)
    BY <1>8
  <2> QED BY <1>1, <1>3, <1>4, <1>5, <1>6, <1>8, <2>1, ConnectPreserves
<1> QED BY <1>7, <1>8

\* A chunk of the model the stream is at is delivered.
LEMMA YieldShape ==
    ASSUME StreamInv, NEW s \in Streams, pc[s] \in {"connecting", "suspended"}, Yield(s)
    PROVE  /\ delivered' = [delivered EXCEPT ![s] = delivered'[s]]
           /\ delivered'[s] \in Seq(Models) /\ delivered'[s] # << >>
           /\ \A i \in DOMAIN delivered'[s] : delivered'[s][i] = frame[s].current
<1> DEFINE before == delivered[s]
           m == frame[s].current
           after == Append(before, m)
<1>1. /\ before \in Seq(Models) /\ m \in Models
      /\ \A i \in DOMAIN before : before[i] = m
  BY DEF StreamInv, StreamOK, Trying, EligibleAliases
<1>2. delivered' = [delivered EXCEPT ![s] = after] /\ delivered'[s] = after
  BY DEF Yield, StreamInv, Shapes
<1> HIDE DEF before, m
<1>3. after \in Seq(Models) /\ after # << >> /\ \A i \in DOMAIN after : after[i] = m
  BY <1>1
<1> QED BY <1>2, <1>3 DEF m

LEMMA FirstChunkPreserves ==
    ASSUME StreamInv, NEW s \in Streams, FirstChunk(s)
    PROVE  StreamInv'
<1> DEFINE f == frame[s]
           extra == IF f.current # f.decision.selected
                    THEN f.extra \cup {"FALLBACK_SELECTED"} ELSE f.extra
           g == [f EXCEPT !.extra = extra]
<1>1. /\ pc[s] = "connecting" /\ Shapes /\ StreamOK(s) /\ Trying(s, f) /\ Yield(s)
      /\ UNCHANGED << request, failures, ended, audit, saves >>
      /\ pc' = [pc EXCEPT ![s] = "suspended"]
  BY DEF StreamInv, StreamOK, FirstChunk, GoTo
<1>2. /\ delivered' = [delivered EXCEPT ![s] = delivered'[s]]
      /\ delivered'[s] \in Seq(Models) /\ delivered'[s] # << >>
      /\ \A i \in DOMAIN delivered'[s] : delivered'[s][i] = f.current
  BY <1>1, YieldShape
<1>3. frame' = [frame EXCEPT ![s] = g]
  BY <1>1 DEF FirstChunk, Shapes
<1>4. frame'[s] = g /\ pc'[s] = "suspended" /\ Shapes' /\ Only(s)
  BY <1>1, <1>2, <1>3 DEF Shapes, Only
<1>5. extra \in SUBSET RoutingReasonCode
      /\ (f.current # f.decision.selected <=> "FALLBACK_SELECTED" \in extra)
      /\ Collected(extra, Statuses(f.attempts))
  BY <1>1 DEF Trying, Frames, RoutingReasonCode, Collected, StreamOK
<1> HIDE DEF extra
<1>6. /\ g.decision = f.decision /\ g.current = f.current /\ g.attempts = f.attempts
      /\ g.extra = extra /\ g \in Frames
  BY <1>1, <1>5 DEF Trying, Frames
<1> HIDE DEF g
<1>7. Policy(s)' = Policy(s)
  BY <1>1 DEF Policy
<1>8. Trying(s, frame[s])'
  BY <1>1, <1>4, <1>5, <1>6, <1>7 DEF Trying
<1>9. /\ frame'[s].current = f.current
      /\ frame'[s].current # frame'[s].decision.selected <=>
            "FALLBACK_SELECTED" \in frame'[s].extra
  BY <1>4, <1>5, <1>6
<1>10. StreamOK(s)'
  BY <1>1, <1>2, <1>4, <1>8, <1>9 DEF StreamOK, Points
<1> QED BY <1>1, <1>4, <1>10, Lifts

LEMMA NextChunkPreserves ==
    ASSUME StreamInv, NEW s \in Streams, NextChunk(s)
    PROVE  StreamInv'
<1>1. /\ pc[s] = "suspended" /\ Shapes /\ StreamOK(s) /\ Trying(s, frame[s]) /\ Yield(s)
      /\ UNCHANGED << request, pc, frame, failures, ended, audit, saves >>
  BY DEF StreamInv, StreamOK, NextChunk
<1>2. /\ delivered' = [delivered EXCEPT ![s] = delivered'[s]]
      /\ delivered'[s] \in Seq(Models) /\ delivered'[s] # << >>
      /\ \A i \in DOMAIN delivered'[s] : delivered'[s][i] = frame[s].current
  BY <1>1, YieldShape
<1>3. Shapes' /\ Only(s)
  BY <1>1, <1>2 DEF Shapes, Only
<1>4. Trying(s, frame[s])'
  BY <1>1 DEF Trying, Policy
<1>5. StreamOK(s)'
  BY <1>1, <1>2, <1>4 DEF StreamOK
<1> QED BY <1>1, <1>3, <1>5, Lifts

LEMMA StreamFailsPreserves ==
    ASSUME StreamInv, NEW s \in Streams, NEW category \in ProviderErrors,
           StreamFails(s, category)
    PROVE  StreamInv'
<1> DEFINE f      == frame[s]
           status == StatusForCategory(category)
           atts   == Append(f.attempts, Attempt(f.current, status))
<1>1. /\ pc[s] = "suspended" /\ Shapes /\ StreamOK(s) /\ Trying(s, f)
      /\ UNCHANGED << request, delivered, ended, audit, saves >>
      /\ failures' = RecordOutcome(failures, f.current, status)
      /\ Settle(s, f.decision, NoModel, f.extra, atts, "failed")
  BY DEF StreamInv, StreamOK, StreamFails
<1>2. category \in ProviderErrorCategory
  BY StreamAssumption
<1>3. /\ status \in InvocationAttemptStatus /\ status # "succeeded"
      /\ Policy(s).maximum_attempts \in Nat
  BY <1>1, <1>2, CategoryStatus, PolicyLimits DEF Trying
<1> HIDE DEF status
<1>4. /\ atts \in Seq(Attempts) /\ atts # << >> /\ atts[Len(atts)].status = status
      /\ \A i \in DOMAIN atts : i < Len(atts) =>
            atts[i].status \in RetryableStatuses /\ atts[i].model_alias # f.current
      /\ f.current \in Models
      /\ Spent(atts, f.decision.candidates) /\ Len(atts) <= Policy(s).maximum_attempts
      /\ delivered[s] # << >> => SilentFailures(s, atts) = Statuses(f.attempts)
  BY <1>1, <1>3, OneAttemptMore
<1> HIDE DEF atts
<1>5. failures' \in [Models -> Nat]
  BY <1>1, <1>4, RecordOutcomeType DEF Shapes
<1>6. /\ f.decision \in Decisions /\ f.extra \in SUBSET RoutingReasonCode
      /\ f.decision.reason_codes \cap OutcomeCodes = {}
      /\ Collected(f.extra, SilentFailures(s, atts))
      /\ \A j \in DOMAIN delivered[s] : delivered[s][j] = f.current
      /\ delivered[s] # << >>
  BY <1>1, <1>4 DEF Trying, Frames, StreamOK
<1>7. \A i \in DOMAIN atts : i < Len(atts) =>
         /\ atts[i].status \in RetryableStatuses
         /\ \A j \in DOMAIN delivered[s] : delivered[s][j] # atts[i].model_alias
  BY <1>4, <1>6
<1> QED BY <1>1, <1>3, <1>4, <1>5, <1>6, <1>7, SettlePreserves

LEMMA StreamEndsPreserves ==
    ASSUME StreamInv, NEW s \in Streams, StreamEnds(s)
    PROVE  StreamInv'
<1> DEFINE f    == frame[s]
           atts == Append(f.attempts, Attempt(f.current, "succeeded"))
<1>1. /\ pc[s] = "suspended" /\ Shapes /\ StreamOK(s) /\ Trying(s, f)
      /\ UNCHANGED << request, delivered, ended, audit, saves >>
      /\ failures' = RecordOutcome(failures, f.current, "succeeded")
      /\ Settle(s, f.decision, f.current, f.extra, atts, "drained")
  BY DEF StreamInv, StreamOK, StreamEnds
<1>2. /\ atts \in Seq(Attempts) /\ atts # << >> /\ atts[Len(atts)].status = "succeeded"
      /\ \A i \in DOMAIN atts : i < Len(atts) =>
            atts[i].status \in RetryableStatuses /\ atts[i].model_alias # f.current
      /\ f.current \in Models
      /\ Spent(atts, f.decision.candidates) /\ Len(atts) <= Policy(s).maximum_attempts
      /\ delivered[s] # << >> => SilentFailures(s, atts) = Statuses(f.attempts)
  <2>1. Policy(s).maximum_attempts \in Nat
    BY <1>1, PolicyLimits DEF Trying
  <2> QED BY <1>1, <2>1, OneAttemptMore DEF InvocationAttemptStatus
<1> HIDE DEF atts
<1>3. failures' \in [Models -> Nat]
  BY <1>1, <1>2, RecordOutcomeType DEF Shapes
<1>4. /\ f.decision \in Decisions /\ f.extra \in SUBSET RoutingReasonCode
      /\ f.current \in EligibleAliases(f.decision.candidates) /\ f.current # NoModel
      /\ f.current # f.decision.selected <=> "FALLBACK_SELECTED" \in f.extra
      /\ f.decision.reason_codes \cap OutcomeCodes = {}
      /\ Collected(f.extra, SilentFailures(s, atts))
      /\ delivered[s] # << >> /\ \A j \in DOMAIN delivered[s] : delivered[s][j] = f.current
  BY <1>1, <1>2, CatalogueAssumption DEF Trying, Frames, StreamOK
<1>5. delivered[s][1] = f.current
  <2>1. delivered[s] \in Seq(Models)
    BY <1>1 DEF StreamOK
  <2>2. 1 \in DOMAIN delivered[s]
    BY <1>4, <2>1
  <2> QED BY <1>4, <2>2
<1>6. \A i \in DOMAIN atts : i < Len(atts) =>
         /\ atts[i].status \in RetryableStatuses
         /\ \A j \in DOMAIN delivered[s] : delivered[s][j] # atts[i].model_alias
  BY <1>2, <1>4
<1> QED BY <1>1, <1>2, <1>3, <1>4, <1>5, <1>6, SettlePreserves

\* The record saved is the result the stream was finalized with.
LEMMA FinalizePreserves ==
    ASSUME StreamInv, NEW s \in Streams, FinalizeStream(s) \/ FinalizeRaises(s)
    PROVE  StreamInv'
<1>1. /\ pc[s] = "finalize" /\ Shapes /\ StreamOK(s)
      /\ UNCHANGED << request, failures, delivered >>
  BY DEF StreamInv, FinalizeStream, FinalizeRaises
<1>2. CASE ~ Save(s)
  BY <1>1, <1>2, EndPreserves DEF FinalizeStream, FinalizeRaises
<1>3. CASE Save(s)
  <2> DEFINE res == frame[s].result
             rec == AuditRecord(res)
  <2>1. PICK how \in {"exhausted", "drained", "failed", "error"} : End(s, how)
    BY <1>1 DEF FinalizeStream, FinalizeRaises, StreamOK
  <2>2. /\ pc'[s] = "done" /\ ended'[s] = how
        /\ pc' = [pc EXCEPT ![s] = "done"] /\ ended' = [ended EXCEPT ![s] = how]
        /\ frame' = [frame EXCEPT ![s] = NoFrame]
    BY <1>1, <2>1, EndShape
  <2>3. /\ audit' = [audit EXCEPT ![s] = rec] /\ saves' = [saves EXCEPT ![s] = @ + 1]
    BY <1>3 DEF Save
  <2>4. res \in InferenceResults /\ Told(s, res)
    BY <1>1 DEF StreamOK
  <2>5. /\ rec.decision = res.decision /\ rec.attempts = res.attempts
        /\ rec \in [decision : Decisions, attempts : Seq(Attempts)]
    BY <2>4 DEF AuditRecord, InferenceResults
  <2> HIDE DEF res, rec
  <2>6. audit'[s] = rec /\ saves'[s] = 1 /\ Shapes' /\ Only(s)
    <3>1. saves[s] = 0
      BY <1>1 DEF StreamOK
    <3>2. saves' = [saves EXCEPT ![s] = 1]
      BY <2>3, <3>1
    <3>3. audit'[s] = rec /\ saves'[s] = 1
      BY <1>1, <2>3, <3>2 DEF Shapes
    <3>4. Shapes'
      BY <1>1, <2>2, <2>3, <3>2 DEF Shapes
    <3>5. Only(s)
      BY <1>1, <2>2, <2>3, <3>2 DEF Shapes, Only
    <3> QED BY <3>3, <3>4, <3>5
  <2>7. Told(s, audit[s])'
    <3>1. PICK saved : saved = rec
      OBVIOUS
    <3>2. Told(s, saved)
      BY <2>4, <2>5, <3>1 DEF Told
    <3>3. Told(s, saved)'
      BY <1>1, <3>2, ToldStays
    <3> QED BY <2>6, <3>1, <3>3 DEF Told
  <2>8. StreamOK(s)'
    BY <1>1, <2>1, <2>2, <2>5, <2>6, <2>7 DEF StreamOK, Points, Endings
  <2> QED BY <1>1, <2>6, <2>8, Lifts
<1> QED BY <1>2, <1>3

-----------------------------------------------------------------------------
(***************************************************************************)
(* The theorems.                                                           *)
(***************************************************************************)
LEMMA StreamInit == Init => StreamInv
<1> SUFFICES ASSUME Init PROVE StreamInv
  OBVIOUS
<1>1. ASSUME NEW s \in Streams PROVE StreamOK(s)
  <2>1. /\ request[s] \in StreamRequests /\ pc[s] = "idle" /\ ended[s] = "none"
        /\ saves[s] = 0 /\ audit[s] = NoRecord /\ delivered[s] = << >>
    BY DEF Init
  <2> QED BY <2>1 DEF StreamOK, Points, Endings
<1>2. Shapes
  BY DEF Init, Shapes
<1> QED BY <1>1, <1>2 DEF StreamInv

LEMMA StreamStep == StreamInv /\ [Next]_vars => StreamInv'
<1> SUFFICES ASSUME StreamInv, [Next]_vars PROVE StreamInv'
  OBVIOUS
<1>1. ASSUME NEW s \in Streams, Advance(s) PROVE StreamInv'
  <2>1. CASE Open(s)
    BY <2>1, OpenPreserves
  <2>2. CASE EvaluateStream(s)
    BY <2>2, EvaluatePreserves
  <2>3. CASE PolicyUnresolved(s)
    BY <2>3, EndPreserves DEF PolicyUnresolved
  <2>4. ASSUME NEW category \in ProviderErrors,
               ConnectFails(s, category) \/ StreamFails(s, category)
        PROVE  StreamInv'
    BY <2>4, ConnectFailsPreserves, StreamFailsPreserves
  <2>5. CASE FirstChunk(s)
    BY <2>5, FirstChunkPreserves
  <2>6. CASE NextChunk(s)
    BY <2>6, NextChunkPreserves
  <2>7. CASE StreamEnds(s)
    BY <2>7, StreamEndsPreserves
  <2>8. CASE StreamRaises(s)
    BY <2>8, EndPreserves DEF StreamRaises
  <2>9. CASE Abandon(s)
    BY <2>9, EndPreserves DEF Abandon
  <2>10. CASE FinalizeStream(s) \/ FinalizeRaises(s)
    BY <2>10, FinalizePreserves
  <2> QED BY <1>1, <2>1, <2>2, <2>3, <2>4, <2>5, <2>6, <2>7, <2>8, <2>9, <2>10 DEF Advance
<1>2. ASSUME UNCHANGED vars PROVE StreamInv'
  <2>1. /\ request' = request /\ pc' = pc /\ frame' = frame /\ failures' = failures
        /\ delivered' = delivered /\ ended' = ended /\ audit' = audit /\ saves' = saves
    BY <1>2 DEF vars
  <2>2. ASSUME NEW s \in Streams PROVE StreamOK(s)'
    BY <2>1, Elsewhere DEF StreamInv
  <2>3. Shapes'
    BY <2>1 DEF StreamInv, Shapes
  <2> QED BY <2>2, <2>3 DEF StreamInv
<1> QED BY <1>1, <1>2 DEF Next

LEMMA StreamInvariant == Spec => []StreamInv
BY StreamInit, StreamStep, PTL DEF Spec

\* The type invariant of invoke_stream().
THEOREM StreamTypeOK == Spec => []TypeOK
<1>1. ASSUME StreamInv PROVE TypeOK
  <2>1. \A s \in Streams : StreamOK(s)
    BY <1>1 DEF StreamInv
  <2>2. ASSUME NEW s \in Streams
        PROVE  /\ request[s] \in StreamRequests /\ pc[s] \in Points
               /\ delivered[s] \in Seq(Models) /\ ended[s] \in Endings /\ saves[s] \in Nat
               /\ pc[s] \in {"connecting", "suspended"} =>
                     /\ frame[s].decision \in Decisions /\ frame[s].current \in Models
                     /\ frame[s].attempts \in Seq(Attempts)
                     /\ frame[s].extra \subseteq RoutingReasonCode
               /\ pc[s] = "finalize" => frame[s].result \in InferenceResults
               /\ audit[s] # NoRecord =>
                     audit[s] \in [decision : Decisions, attempts : Seq(Attempts)]
    BY <2>1 DEF StreamOK, Trying, Frames, Points
  <2>3. Shapes
    BY <1>1 DEF StreamInv
  <2> QED BY <2>2, <2>3 DEF Shapes, TypeOK, Points
<1> QED BY <1>1, StreamInvariant, PTL

\* invoke_stream() commits to the first model that yields a chunk.
THEOREM CommittedToOneModel == Spec => []OneModelPerStream
<1>1. ASSUME StreamInv PROVE OneModelPerStream
  <2> SUFFICES ASSUME NEW s \in Streams
               PROVE  LET atts == IF audit[s] # NoRecord THEN audit[s].attempts
                                  ELSE IF pc[s] \in {"connecting", "suspended"}
                                  THEN Append(frame[s].attempts,
                                              Attempt(frame[s].current, "succeeded"))
                                  ELSE << >>
                      IN  /\ \A i, j \in DOMAIN delivered[s] : delivered[s][i] = delivered[s][j]
                          /\ \A i \in DOMAIN atts : i < Len(atts) =>
                                /\ atts[i].status \in {"throttled", "transient_error", "timeout"}
                                /\ \A j \in DOMAIN delivered[s] :
                                      delivered[s][j] # atts[i].model_alias
    BY DEF OneModelPerStream
  <2>1. StreamOK(s) /\ \A i, j \in DOMAIN delivered[s] : delivered[s][i] = delivered[s][j]
    BY <1>1 DEF StreamInv, StreamOK
  <2>2. CASE audit[s] # NoRecord
    <3>1. Told(s, audit[s])
      BY <2>1, <2>2 DEF StreamOK, Points
    <3> QED BY <2>1, <2>2, <3>1 DEF Told, RetryableStatuses
  <2>3. CASE audit[s] = NoRecord /\ pc[s] \in {"connecting", "suspended"}
    <3> DEFINE atts == Append(frame[s].attempts, Attempt(frame[s].current, "succeeded"))
    <3>1. Trying(s, frame[s])
      BY <2>1, <2>3 DEF StreamOK
    <3>2. \A i \in DOMAIN atts : i < Len(atts) =>
             /\ atts[i].status \in RetryableStatuses
             /\ atts[i].model_alias # frame[s].current
      BY <2>1, <3>1, OneAttemptMore, PolicyLimits DEF InvocationAttemptStatus, Trying
    <3>3. \A j \in DOMAIN delivered[s] : delivered[s][j] = frame[s].current
      BY <2>1, <2>3 DEF StreamOK
    <3> HIDE DEF atts
    <3>4. \A i \in DOMAIN atts : i < Len(atts) =>
             /\ atts[i].status \in {"throttled", "transient_error", "timeout"}
             /\ \A j \in DOMAIN delivered[s] : delivered[s][j] # atts[i].model_alias
      BY <3>2, <3>3 DEF RetryableStatuses
    <3> QED BY <2>1, <2>3, <3>4 DEF atts
  <2>4. CASE audit[s] = NoRecord /\ pc[s] \notin {"connecting", "suspended"}
    BY <2>1, <2>4
  <2> QED BY <2>2, <2>3, <2>4
<1> QED BY <1>1, StreamInvariant, PTL

\* _finalize_stream saves a stream once, before its caller sees it end; a stream
\* that is dropped, or that an exception other than a ProviderError ends, is not saved.
THEOREM SavedOnce == Spec => []AuditedExactlyOnce
<1>1. ASSUME StreamInv PROVE AuditedExactlyOnce
  <2> SUFFICES ASSUME NEW s \in Streams
               PROVE  /\ ended[s] \in {"exhausted", "drained", "failed"} => saves[s] = 1
                      /\ ended[s] \in {"none", "rejected", "abandoned", "raised"} =>
                            saves[s] = 0
                      /\ saves[s] <= 1
    BY DEF AuditedExactlyOnce
  <2>1. StreamOK(s)
    BY <1>1 DEF StreamInv
  <2> QED BY <2>1 DEF StreamOK
<1> QED BY <1>1, StreamInvariant, PTL

\* The audited decision names the model whose stream was delivered whole.
THEOREM DelivererIsNamed == Spec => []DecisionNamesTheDeliverer
<1>1. ASSUME StreamInv PROVE DecisionNamesTheDeliverer
  <2> SUFFICES ASSUME NEW s \in Streams, audit[s] # NoRecord PROVE Told(s, audit[s])
    BY DEF DecisionNamesTheDeliverer, Told
  <2> QED BY <1>1 DEF StreamInv, StreamOK
<1> QED BY <1>1, StreamInvariant, PTL

\* The record of a stream accounts for its attempts, in number, in kind and in
\* reason codes, whatever chain the policy gave it.
THEOREM AttemptsAreAccounted == Spec => []AttemptsAccounted
<1>1. ASSUME StreamInv PROVE AttemptsAccounted
  <2> SUFFICES ASSUME NEW s \in Streams, audit[s] # NoRecord PROVE Told(s, audit[s])
    BY DEF AttemptsAccounted, Told
  <2> QED BY <1>1 DEF StreamInv, StreamOK
<1> QED BY <1>1, StreamInvariant, PTL

\* What a step of a stream does to the counters of the models.
THEOREM OutcomesCount == Spec => HealthFollowsOutcomes
<1> DEFINE Allowed ==
        \A m \in Models : failures'[m] # failures[m] =>
          \E s \in Streams :
              /\ pc[s] \in {"connecting", "suspended"} /\ frame[s].current = m
              /\ \/ failures'[m] = failures[m] + 1
                 \/ failures'[m] = 0 /\ frame'[s].how = "drained"
<1>1. ASSUME StreamInv, NEW s \in Streams, Advance(s) PROVE Allowed
  <2>1. Shapes
    BY <1>1 DEF StreamInv
  <2>2. ASSUME NEW status, pc[s] \in {"connecting", "suspended"},
               failures' = RecordOutcome(failures, frame[s].current, status),
               status = "succeeded" => frame'[s].how = "drained"
        PROVE  Allowed
    <3> SUFFICES ASSUME NEW m \in Models, failures'[m] # failures[m]
                 PROVE  /\ frame[s].current = m
                        /\ \/ failures'[m] = failures[m] + 1
                           \/ failures'[m] = 0 /\ frame'[s].how = "drained"
      BY <2>2
    <3> QED BY <2>1, <2>2 DEF RecordOutcome, Shapes
  <2>3. ASSUME NEW category \in ProviderErrors,
               ConnectFails(s, category) \/ StreamFails(s, category)
        PROVE  Allowed
    <3>1. StatusForCategory(category) # "succeeded"
      BY StreamAssumption, CategoryStatus
    <3> QED BY <2>2, <2>3, <3>1 DEF ConnectFails, StreamFails
  <2>4. CASE StreamEnds(s)
    <3>1. frame'[s].how = "drained"
      BY <2>1, <2>4, SettleShape DEF StreamEnds
    <3> QED BY <2>2, <2>4, <3>1 DEF StreamEnds
  <2>5. CASE failures' = failures
    BY <2>5
  <2> QED BY <1>1, <2>3, <2>4, <2>5
          DEF Advance, Open, EvaluateStream, PolicyUnresolved, FirstChunk, NextChunk,
              StreamRaises, Abandon, FinalizeStream, FinalizeRaises
<1>2. StreamInv /\ [Next]_vars => [Allowed]_vars
  BY <1>1 DEF Next
<1>3. Spec => [][Allowed]_vars
  BY <1>2, StreamInvariant, PTL DEF Spec
<1> QED BY <1>3 DEF HealthFollowsOutcomes

=============================================================================
