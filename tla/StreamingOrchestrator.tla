----------------------- MODULE StreamingOrchestrator -----------------------
(***************************************************************************)
(* InvocationOrchestrator.invoke_stream(): a generator that evaluates the  *)
(* route and connects to models only when its caller pulls, commits to the *)
(* first model that yields a chunk, and audits the stream when it has been *)
(* drained or has failed.  Several streams are open at once in one process *)
(* and share its model health; a caller may stop pulling at any chunk.     *)
(*                                                                         *)
(* The deployed provider is CompositeModelProvider, which streams; the     *)
(* rejection of a provider that does not is left out.  A stream's id       *)
(* doubles as its decision_id.                                             *)
(***************************************************************************)
EXTENDS FallbackChain, ModelHealth

CONSTANTS
    Streams,            \* the calls of invoke_stream() of a behaviour
    StreamRequests,     \* the requests they may be called with
    PolicyOf, NoPolicy, \* policy per application
    NoKey, NoDecision, NoRecord, NoFrame,
    ProviderErrors,     \* categories of ProviderError the providers raise
    MaxChunks           \* bound: the chunks of a stream

ASSUME StreamAssumption ==
    /\ \A q \in StreamRequests :
          /\ ValidRequest(q)
          /\ PolicyOf[q.application] # NoPolicy => ValidPolicy(PolicyOf[q.application])
    /\ ProviderErrors \subseteq ProviderErrorCategory
    /\ MaxChunks \in Nat \ {0}

VARIABLES
    request,        \* what each stream was called with
    pc,             \* where each generator is
    frame,          \* its local variables
    failures,       \* the process's consecutive failures of each model
    delivered,      \* the model of every chunk the caller was given
    ended,          \* what the caller saw at the end
    audit,          \* decision table
    saves           \* history: how often _persist saved a stream's record

vars == << request, pc, frame, failures, delivered, ended, audit, saves >>

Policy(s) == PolicyOf[request[s].application]
GoTo(s, point) == pc' = [pc EXCEPT ![s] = point]

\* The generator is exhausted, raises or is closed.
End(s, how) ==
    /\ GoTo(s, "done")
    /\ frame' = [frame EXCEPT ![s] = NoFrame]
    /\ ended' = [ended EXCEPT ![s] = how]

Init ==
    /\ request \in [Streams -> StreamRequests]
    /\ pc = [s \in Streams |-> "idle"]
    /\ frame = [s \in Streams |-> NoFrame]
    /\ failures = [m \in Models |-> 0]
    /\ delivered = [s \in Streams |-> << >>]
    /\ ended = [s \in Streams |-> "none"]
    /\ audit = [s \in Streams |-> NoRecord]
    /\ saves = [s \in Streams |-> 0]

\* invoke_stream(): an idempotency key is refused at once; nothing else happens
\* before the first pull.
Open(s) ==
    /\ pc[s] = "idle"
    /\ IF request[s].key # NoKey THEN End(s, "rejected")
       ELSE GoTo(s, "opened") /\ UNCHANGED << frame, ended >>
    /\ UNCHANGED << request, failures, delivered, audit, saves >>

-----------------------------------------------------------------------------
(* The first pull. *)

\* _finalize_stream is entered with the aggregated result; how is what the
\* caller sees once it is saved.
Settle(s, d, succeeded, codes, atts, how) ==
    /\ frame' = [frame EXCEPT ![s] =
          [ decision |-> d, current |-> NoModel, attempts |-> atts, extra |-> codes,
            result |-> InferenceResult(AggregateDecision(d, succeeded, codes), NoModel, atts),
            how |-> how ]]
    /\ GoTo(s, "finalize")

\* The next model is connected to.
Connect(s, d, alias, codes, atts) ==
    /\ frame' = [frame EXCEPT ![s] =
          [ decision |-> d, current |-> alias, attempts |-> atts, extra |-> codes,
            result |-> NoRecord, how |-> "none" ]]
    /\ GoTo(s, "connecting")

\* Route evaluation.  An empty chain is finalized like any other.
EvaluateStream(s) ==
    /\ pc[s] = "opened" /\ Policy(s) # NoPolicy
    /\ LET health == [m \in Models |-> GetHealth(failures, m)]
           d      == Evaluate(s, request[s], Policy(s), health)
           first  == NextCandidate(d, Policy(s), << >>)
       IN  IF first = NoModel THEN Settle(s, d, NoModel, {}, << >>, "exhausted")
           ELSE Connect(s, d, first, {}, << >>)
    /\ UNCHANGED << request, failures, delivered, ended, audit, saves >>

\* No policy is found, or its file cannot be loaded.
PolicyUnresolved(s) ==
    /\ pc[s] = "opened"
    /\ End(s, "raised")
    /\ UNCHANGED << request, failures, delivered, audit, saves >>

\* Seeded fault: the reason codes of earlier failures are forgotten.
ConnectFailsForgetful(s, category) ==
    /\ pc[s] = "connecting"
    /\ LET f      == frame[s]
           status == StatusForCategory(category)
           atts   == Append(f.attempts, Attempt(f.current, status))
           codes  == ReasonCodesForCategory(category)
           next   == IF category = "permanent" THEN NoModel
                     ELSE NextCandidate(f.decision, Policy(s), atts)
       IN  /\ failures' = RecordOutcome(failures, f.current, status)
           /\ IF next = NoModel THEN Settle(s, f.decision, NoModel, codes, atts, "exhausted")
              ELSE Connect(s, f.decision, next, codes, atts)
    /\ UNCHANGED << request, delivered, ended, audit, saves >>

\* A ProviderError before the first chunk: recorded, and the next model's turn
\* unless it was permanent.  If none is left the caller gets no chunk at all.
ConnectFails(s, category) ==
    /\ pc[s] = "connecting"
    /\ LET f      == frame[s]
           status == StatusForCategory(category)
           atts   == Append(f.attempts, Attempt(f.current, status))
           codes  == f.extra \cup ReasonCodesForCategory(category)
           next   == IF category = "permanent" THEN NoModel
                     ELSE NextCandidate(f.decision, Policy(s), atts)
       IN  /\ failures' = RecordOutcome(failures, f.current, status)
           /\ IF next = NoModel THEN Settle(s, f.decision, NoModel, codes, atts, "exhausted")
              ELSE Connect(s, f.decision, next, codes, atts)
    /\ UNCHANGED << request, delivered, ended, audit, saves >>

Yield(s) == delivered' = [delivered EXCEPT ![s] = Append(@, frame[s].current)]

\* Seeded fault: the first chunk already counts as the model's success.
FirstChunkHealthy(s) ==
    /\ pc[s] = "connecting"
    /\ Yield(s)
    /\ LET f == frame[s]
       IN  frame' = [frame EXCEPT ![s].extra =
                        IF f.current # f.decision.selected THEN @ \cup {"FALLBACK_SELECTED"} ELSE @]
    /\ failures' = RecordOutcome(failures, frame[s].current, "succeeded")
    /\ GoTo(s, "suspended")
    /\ UNCHANGED << request, ended, audit, saves >>

\* The first chunk reaches the caller: the model choice is final.
FirstChunk(s) ==
    /\ pc[s] = "connecting"
    /\ Yield(s)
    /\ LET f == frame[s]
       IN  frame' = [frame EXCEPT ![s].extra =
                        IF f.current # f.decision.selected THEN @ \cup {"FALLBACK_SELECTED"} ELSE @]
    /\ GoTo(s, "suspended")
    /\ UNCHANGED << request, failures, ended, audit, saves >>

-----------------------------------------------------------------------------
(* Later pulls. *)

NextChunk(s) ==
    /\ pc[s] = "suspended" /\ Len(delivered[s]) < MaxChunks
    /\ Yield(s)
    /\ UNCHANGED << request, pc, frame, failures, ended, audit, saves >>

\* Seeded fault: a broken stream is continued by the next model.
StreamFailsOver(s, category) ==
    /\ pc[s] = "suspended"
    /\ LET f      == frame[s]
           status == StatusForCategory(category)
           atts   == Append(f.attempts, Attempt(f.current, status))
           next   == NextCandidate(f.decision, Policy(s), atts)
       IN  /\ failures' = RecordOutcome(failures, f.current, status)
           /\ IF next = NoModel THEN Settle(s, f.decision, NoModel, f.extra, atts, "failed")
              ELSE Connect(s, f.decision, next, f.extra, atts)
    /\ UNCHANGED << request, delivered, ended, audit, saves >>

\* A ProviderError after the first chunk: recorded, audited, raised.  It adds no
\* reason code.
StreamFails(s, category) ==
    /\ pc[s] = "suspended"
    /\ LET f      == frame[s]
           status == StatusForCategory(category)
           atts   == Append(f.attempts, Attempt(f.current, status))
       IN  /\ failures' = RecordOutcome(failures, f.current, status)
           /\ Settle(s, f.decision, NoModel, f.extra, atts, "failed")
    /\ UNCHANGED << request, delivered, ended, audit, saves >>

\* The provider's stream is exhausted: this model has succeeded.
StreamEnds(s) ==
    /\ pc[s] = "suspended"
    /\ LET f    == frame[s]
           atts == Append(f.attempts, Attempt(f.current, "succeeded"))
       IN  /\ failures' = RecordOutcome(failures, f.current, "succeeded")
           /\ Settle(s, f.decision, f.current, f.extra, atts, "drained")
    /\ UNCHANGED << request, delivered, ended, audit, saves >>

\* Any exception but ProviderError leaves the generator unrecorded.
StreamRaises(s) ==
    /\ pc[s] \in {"connecting", "suspended"}
    /\ End(s, "raised")
    /\ UNCHANGED << request, failures, delivered, audit, saves >>

\* Seeded fault: closing the generator runs _finalize_stream.
AbandonAudited(s) ==
    /\ pc[s] = "suspended"
    /\ Settle(s, frame[s].decision, NoModel, frame[s].extra, frame[s].attempts, "abandoned")
    /\ UNCHANGED << request, failures, delivered, ended, audit, saves >>

\* The caller drops the generator at a chunk, or before the first pull.
Abandon(s) ==
    /\ pc[s] \in {"opened", "suspended"}
    /\ End(s, "abandoned")
    /\ UNCHANGED << request, failures, delivered, audit, saves >>

-----------------------------------------------------------------------------
(* _finalize_stream(): save, then metrics and event. *)

Save(s) ==
    /\ audit' = [audit EXCEPT ![s] = AuditRecord(frame[s].result)]
    /\ saves' = [saves EXCEPT ![s] = @ + 1]

FinalizeStream(s) ==
    /\ pc[s] = "finalize"
    /\ Save(s)
    /\ End(s, frame[s].how)
    /\ UNCHANGED << request, failures, delivered >>

\* The save raises, applied or not; its exception is what the caller sees.
FinalizeRaises(s) ==
    /\ pc[s] = "finalize"
    /\ Save(s) \/ UNCHANGED << audit, saves >>
    /\ End(s, "error")
    /\ UNCHANGED << request, failures, delivered >>

Advance(s) ==
    \/ Open(s)
    \/ EvaluateStream(s) \/ PolicyUnresolved(s)
    \/ \E category \in ProviderErrors : ConnectFails(s, category) \/ StreamFails(s, category)
    \/ FirstChunk(s) \/ NextChunk(s) \/ StreamEnds(s) \/ StreamRaises(s) \/ Abandon(s)
    \/ FinalizeStream(s) \/ FinalizeRaises(s)

Next == \E s \in Streams : Advance(s)

Spec == Init /\ [][Next]_vars

-----------------------------------------------------------------------------
Endings ==
    {"none", "rejected", "exhausted", "drained", "failed", "abandoned", "raised", "error"}
Decisions == RoutingDecisions(Streams)
Attempts == [model_alias : Models, status : InvocationAttemptStatus]
InferenceResults ==
    [decision : Decisions, response : {NoModel}, attempts : Seq(Attempts)]

\* The type invariant.
TypeOK ==
    /\ request \in [Streams -> StreamRequests]
    /\ pc \in [Streams -> {"idle", "opened", "connecting", "suspended", "finalize", "done"}]
    /\ failures \in [Models -> Nat]
    /\ delivered \in [Streams -> Seq(Models)]
    /\ ended \in [Streams -> Endings]
    /\ saves \in [Streams -> Nat]
    /\ \A s \in Streams :
          /\ pc[s] \in {"connecting", "suspended"} =>
                /\ frame[s].decision \in Decisions /\ frame[s].current \in Models
                /\ frame[s].attempts \in Seq(Attempts) /\ frame[s].extra \subseteq RoutingReasonCode
          /\ pc[s] = "finalize" => frame[s].result \in InferenceResults
          /\ audit[s] # NoRecord =>
                audit[s] \in [decision : Decisions, attempts : Seq(Attempts)]

\* ADR-032: "the moment a single ProviderResponseChunk has been yielded, the model
\* choice is final".  All chunks of a stream come from one model, which is the
\* last one tried; the models before it failed retryably and yielded nothing.
OneModelPerStream ==
    \A s \in Streams :
        LET atts == IF audit[s] # NoRecord THEN audit[s].attempts
                    ELSE IF pc[s] \in {"connecting", "suspended"}
                    THEN Append(frame[s].attempts, Attempt(frame[s].current, "succeeded"))
                    ELSE << >>
        IN  /\ \A i, j \in DOMAIN delivered[s] : delivered[s][i] = delivered[s][j]
            /\ \A i \in DOMAIN atts : i < Len(atts) =>
                  /\ atts[i].status \in {"throttled", "transient_error", "timeout"}
                  /\ \A j \in DOMAIN delivered[s] : delivered[s][j] # atts[i].model_alias

\* ADR-032: a stream is saved "exactly once", when it is drained "or when it
\* terminally fails", and an abandoned one never.  The code does so for a stream
\* that ends with a ProviderError; one that any other exception ends is lost to
\* the audit, whatever it delivered.  No stream is seen to end before it is saved.
AuditedExactlyOnce ==
    \A s \in Streams :
        /\ ended[s] \in {"exhausted", "drained", "failed"} => saves[s] = 1
        /\ ended[s] \in {"none", "rejected", "abandoned", "raised"} => saves[s] = 0
        /\ saves[s] <= 1

\* The audited decision names a model exactly if its stream was delivered whole,
\* and then the model that delivered it.  A fallback shows in a reason code from
\* its first chunk, in fallback_used only if it delivered the whole stream.
DecisionNamesTheDeliverer ==
    \A s \in Streams : audit[s] # NoRecord =>
        LET d    == audit[s].decision
            atts == audit[s].attempts
        IN  /\ (d.selected # NoModel) <=>
                  (atts # << >> /\ atts[Len(atts)].status = "succeeded")
            /\ d.selected # NoModel =>
                  delivered[s] # << >> /\ delivered[s][1] = d.selected
            /\ d.fallback_used <=>
                  ("FALLBACK_SELECTED" \in d.reason_codes /\ d.selected # NoModel)
            /\ "FALLBACK_SELECTED" \in d.reason_codes => delivered[s] # << >>

\* How the attempts failed that were over before the first chunk.
SilentFailures(s, atts) ==
    {atts[i].status : i \in {j \in DOMAIN atts : delivered[s] = << >> \/ j < Len(atts)}}

Accounted(s, d, atts) ==
    /\ Len(atts) <= Policy(s).maximum_attempts
    /\ \A i, j \in DOMAIN atts : atts[i].model_alias = atts[j].model_alias => i = j
    /\ Tried(atts) \subseteq EligibleAliases(d.candidates)
    /\ "MODEL_THROTTLED" \in d.reason_codes <=> "throttled" \in SilentFailures(s, atts)
    /\ "MODEL_UNAVAILABLE" \in d.reason_codes <=>
          SilentFailures(s, atts) \cap {"transient_error", "timeout"} # {}
    /\ "NO_ELIGIBLE_MODEL" \notin d.reason_codes

\* A stream's record accounts for every model it was asked of: each eligible one
\* once, at most maximum_attempts in all, and a reason code for exactly the failures
\* that happened before the first chunk.  One that breaks the stream leaves none,
\* and a stream that no model was eligible for does not say so: _aggregate_decision
\* strips NO_ELIGIBLE_MODEL also where nothing was asked.
AttemptsAccounted ==
    \A s \in Streams : audit[s] # NoRecord => Accounted(s, audit[s].decision, audit[s].attempts)

\* domain/strategy.py on a fallback model invoked in place of the selected one:
\* "never silently: fallback_used and FALLBACK_SELECTED are always set on the
\* resulting decision".
FallbackNeverSilent ==
    \A s \in Streams : audit[s] # NoRecord =>
        ("FALLBACK_SELECTED" \in audit[s].decision.reason_codes => audit[s].decision.fallback_used)

\* An outcome is applied to the health of the model it is about, however the
\* streams interleave: a counter moves by one, or is reset by a stream of that
\* model that was delivered to its end.
HealthFollowsOutcomes ==
    [][\A m \in Models : failures'[m] # failures[m] =>
          \E s \in Streams :
              /\ pc[s] \in {"connecting", "suspended"} /\ frame[s].current = m
              /\ \/ failures'[m] = failures[m] + 1
                 \/ failures'[m] = 0 /\ frame'[s].how = "drained"]_vars

=============================================================================
