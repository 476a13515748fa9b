------------------------ MODULE InvocationLoopProofs ------------------------
(***************************************************************************)
(* The fallback loop of InvocationOrchestrator and what becomes of its     *)
(* results, for any catalogue, policy, number of requests and number of    *)
(* environments: FallbackDiscipline, DecisionMatchesAttempts,              *)
(* CircuitBreaker, UnavailableUntilRestart, WorkShrinks, AuditedBeforeSeen *)
(* and ReplayIntegrity.                                                    *)
(*                                                                         *)
(* None of them is inductive.  A request in the loop carries what the      *)
(* audit record will say later: Chained relates its attempts, the codes it *)
(* has collected and the candidate it is about to call to the decision     *)
(* that route evaluation returned.  The circuit breaker rests on Unspent:  *)
(* the models the request may still call were available when health was    *)
(* read, and nobody has touched their counters since, because a request    *)
(* calls a model once (Chained) and is alone in its environment            *)
(* (OneServed).                                                            *)
(*                                                                         *)
(* AuditInv follows a result from the loop to the client.  A request holds *)
(* a result of its own (OwnResult), whose audit record is written before   *)
(* complete() puts it into the table; from then on the record never        *)
(* changes again, and every copy of the item, in the table, in a lagging   *)
(* replica or in the hands of a later caller, stays the audited result of  *)
(* a request with the same key and content that is over but for the end of *)
(* its complete() (Audited).                                               *)
(***************************************************************************)
EXTENDS InvocationOrchestratorProofs

\* A finished request's decision and attempts, in its result or audit record.
Truthful(r, rec) ==
    LET d        == rec.decision
        atts     == rec.attempts
        statuses == Statuses(rec.attempts)
    IN  /\ Disciplined(r, atts, d)
        /\ "succeeded" \in statuses <=> (atts # << >> /\ d.selected # NoModel)
        /\ "succeeded" \in statuses => d.selected = atts[Len(atts)].model_alias
        /\ d.fallback_used <=> "FALLBACK_SELECTED" \in d.reason_codes
        /\ "MODEL_THROTTLED" \in d.reason_codes <=> "throttled" \in statuses
        /\ "MODEL_UNAVAILABLE" \in d.reason_codes <=>
              statuses \cap {"transient_error", "timeout"} # {}
        /\ d.reason_codes = {} => statuses = {"non_retryable_error"}

\* Models tried so far: eligible, each once, all failed in a way that allows another.
Spent(atts, candidates) ==
    /\ \A i, j \in DOMAIN atts : atts[i].model_alias = atts[j].model_alias => i = j
    /\ Tried(atts) \subseteq EligibleAliases(candidates)
    /\ Statuses(atts) \subseteq RetryableStatuses

\* The codes collected so far say what the attempts' statuses say.
Collected(codes, atts) ==
    /\ codes \subseteq {"MODEL_THROTTLED", "MODEL_UNAVAILABLE"}
    /\ "MODEL_THROTTLED" \in codes <=> "throttled" \in Statuses(atts)
    /\ "MODEL_UNAVAILABLE" \in codes <=>
          Statuses(atts) \cap {"transient_error", "timeout"} # {}

\* The locals of a request that is about to call f.current.
Chained(r, f) ==
    /\ Len(f.attempts) < Policy(r).maximum_attempts
    /\ Spent(f.attempts, f.decision.candidates)
    /\ f.current \notin Tried(f.attempts)
    /\ Collected(f.extra, f.attempts)
    /\ f.decision.reason_codes \cap OutcomeCodes = {}
    /\ f.decision.selected # NoModel => "MODEL_ALLOWED" \in f.decision.reason_codes

LoopOK(r) ==
    /\ pc[r] \in {"put", "get", "evaluate"} =>
          frame[r].attempts = << >> /\ frame[r].extra = {}
    /\ pc[r] = "calling" => Chained(r, frame[r])
    /\ pc[r] \in {"persist", "publish", "complete"} => Truthful(r, frame[r].result)
    /\ audit[r] # NoRecord => Truthful(r, audit[r])

LoopInv == \A r \in Requests : LoopOK(r)

\* The models r may still call are available in its environment.
Unspent(r) ==
    \A m \in EligibleAliases(frame[r].decision.candidates) \ Tried(frame[r].attempts) :
        failures[frame[r].env][m] < UnavailableAfter

BreakerInv ==
    /\ \A e \in Envs, m \in Models : failures[e][m] <= UnavailableAfter
    /\ \A r \in Requests : pc[r] = "calling" => Unspent(r)

-----------------------------------------------------------------------------
(***************************************************************************)
(* Appending an attempt.                                                   *)
(***************************************************************************)
\* With one attempt more the models are still distinct and eligible, and only
\* the last attempt may be one that ends the loop.
LEMMA AppendDisciplined ==
    ASSUME NEW r, NEW d, NEW atts \in Seq(Attempts), NEW alias \in Models,
           NEW status \in InvocationAttemptStatus,
           Len(atts) < Policy(r).maximum_attempts, Policy(r).maximum_attempts \in Nat,
           Spent(atts, d.candidates), alias \in EligibleAliases(d.candidates),
           alias \notin Tried(atts)
    PROVE  Disciplined(r, Append(atts, Attempt(alias, status)), d)
<1> DEFINE longer == Append(atts, Attempt(alias, status))
<1>1. /\ Len(longer) = Len(atts) + 1 /\ longer # << >>
      /\ longer[Len(longer)].model_alias = alias
      /\ \A i \in DOMAIN longer : i < Len(longer) => i \in DOMAIN atts /\ longer[i] = atts[i]
      /\ Tried(longer) = Tried(atts) \cup {alias}
  BY AppendFacts
<1>2. /\ longer \in Seq(Attempts) /\ DOMAIN longer = 1 .. Len(longer) /\ Len(atts) \in Nat
  BY AttemptsType
<1> HIDE DEF longer
<1>3. Len(longer) <= Policy(r).maximum_attempts
  BY <1>1, <1>2
<1>4. ASSUME NEW i \in DOMAIN longer, NEW j \in DOMAIN longer,
             longer[i].model_alias = longer[j].model_alias
      PROVE  i = j
  <2>1. ASSUME NEW k \in DOMAIN longer, k < Len(longer)
        PROVE  longer[k].model_alias # alias
    BY <1>1, <2>1 DEF Tried
  <2>2. CASE i < Len(longer) /\ j < Len(longer)
    BY <1>1, <1>4, <2>2 DEF Spent
  <2>3. CASE i = Len(longer) \/ j = Len(longer)
    <3>1. longer[i].model_alias = alias /\ longer[j].model_alias = alias
      BY <1>1, <1>4, <2>3
    <3> QED BY <1>2, <2>1, <3>1
  <2> QED BY <1>2, <2>2, <2>3
<1>5. Tried(longer) \subseteq EligibleAliases(d.candidates)
  BY <1>1 DEF Spent
<1>6. \A i \in DOMAIN longer : i < Len(longer) => longer[i].status \in RetryableStatuses
  BY <1>1 DEF Spent, Statuses
<1> QED BY <1>3, <1>4, <1>5, <1>6 DEF Disciplined, longer

-----------------------------------------------------------------------------
(***************************************************************************)
(* One pass of the loop.                                                   *)
(***************************************************************************)
\* What AfterAttempt leaves in the request's locals.
LEMMA AttemptShape ==
    ASSUME TypeInv, NEW r \in Requests, pc[r] = "calling", NEW status, NEW codes,
           NEW succeeded, NEW next, AfterAttempt(r, status, codes, succeeded, next)
    PROVE  LET f    == frame[r]
               atts == Append(f.attempts, Attempt(f.current, status))
           IN  /\ next # NoModel =>
                     /\ pc'[r] = "calling"
                     /\ frame'[r].decision = f.decision /\ frame'[r].env = f.env
                     /\ frame'[r].attempts = atts /\ frame'[r].extra = codes
                     /\ frame'[r].current = next
               /\ next = NoModel =>
                     /\ pc'[r] = "persist"
                     /\ frame'[r].result = InferenceResult(
                            AggregateDecision(f.decision, succeeded, codes), succeeded, atts)
<1> DEFINE f    == frame[r]
           atts == Append(f.attempts, Attempt(f.current, status))
           res  == InferenceResult(AggregateDecision(f.decision, succeeded, codes),
                                   succeeded, atts)
<1>1. /\ f \in Frames
      /\ frame \in [Requests -> Frames \cup {NoFrame}] /\ pc \in [Requests -> Points]
  BY DEF TypeInv, SharedOK, LocalOK, InFlight, Invoking, InvokingPoints
<1>2. IF next # NoModel
      THEN /\ frame' = [frame EXCEPT ![r].attempts = atts, ![r].extra = codes,
                                     ![r].current = next]
           /\ UNCHANGED pc
      ELSE /\ frame' = [frame EXCEPT ![r].attempts = atts, ![r].extra = codes,
                                     ![r].result = res]
           /\ GoTo(r, "persist")
  BY DEF AfterAttempt
<1> HIDE DEF atts, res
<1>3. CASE next # NoModel
  <2>1. frame'[r] = [f EXCEPT !.attempts = atts, !.extra = codes, !.current = next]
    BY <1>1, <1>2, <1>3
  <2>2. pc'[r] = "calling"
    BY <1>2, <1>3
  <2> QED BY <1>1, <1>3, <2>1, <2>2 DEF Frames, atts
<1>4. CASE next = NoModel
  <2>1. frame'[r] = [f EXCEPT !.attempts = atts, !.extra = codes, !.result = res]
    BY <1>1, <1>2, <1>4
  <2>2. pc'[r] = "persist"
    BY <1>1, <1>2, <1>4 DEF GoTo
  <2> QED BY <1>1, <1>4, <2>1, <2>2 DEF Frames, res, atts
<1> QED BY <1>3, <1>4

\* The fields of an aggregated decision.
LEMMA AggregateFields ==
    ASSUME NEW d \in Decisions, NEW succeeded, NEW codes
    PROVE  LET D == AggregateDecision(d, succeeded, codes)
           IN  /\ D.selected = succeeded /\ D.candidates = d.candidates
               /\ D.decision_id = d.decision_id
               /\ D.fallback_used <=> succeeded # NoModel /\ succeeded # d.selected
               /\ D.reason_codes = (d.reason_codes \ {"NO_ELIGIBLE_MODEL"}) \cup codes
BY DEF AggregateDecision, Decisions, RoutingDecisions

\* What holds of the locals of a request in the loop.
LEMMA CallingFacts ==
    ASSUME TypeInv, LoopInv, NEW r \in Requests, pc[r] = "calling"
    PROVE  /\ frame[r].attempts \in Seq(Attempts) /\ frame[r].env \in Envs
           /\ frame[r].decision \in Decisions /\ frame[r].current \in Models
           /\ Callable(frame[r]) /\ Chained(r, frame[r])
           /\ Policy(r) # NoPolicy /\ ValidPolicy(Policy(r))
           /\ Policy(r).maximum_attempts \in Nat
<1>1. /\ frame[r] \in Frames /\ Callable(frame[r]) /\ Chained(r, frame[r])
      /\ Policy(r) # NoPolicy
  BY DEF TypeInv, LocalOK, InFlight, Invoking, InvokingPoints, LoopInv, LoopOK
<1>2. ValidPolicy(Policy(r))
  BY <1>1, RequestAssumption DEF Policy, Request
<1>3. /\ frame[r].attempts \in Seq(Attempts) /\ frame[r].env \in Envs
      /\ frame[r].decision \in Decisions /\ frame[r].current \in Models
  BY <1>1 DEF Frames, Callable, EligibleAliases
<1> QED BY <1>1, <1>2, <1>3 DEF ValidPolicy

\* The loop is over: what is aggregated tells the truth about the attempts.
LEMMA AggregateTruthful ==
    ASSUME TypeInv, LoopInv, NEW r \in Requests, pc[r] = "calling",
           NEW status \in InvocationAttemptStatus, NEW codes, NEW succeeded,
           \/ /\ status = "succeeded" /\ succeeded = frame[r].current
              /\ codes = frame[r].extra \cup (IF succeeded # frame[r].decision.selected
                                              THEN {"FALLBACK_SELECTED"} ELSE {})
           \/ /\ status # "succeeded" /\ succeeded = NoModel
              /\ Collected(codes, Append(frame[r].attempts, Attempt(frame[r].current, status)))
    PROVE  Truthful(r, InferenceResult(AggregateDecision(frame[r].decision, succeeded, codes),
                       succeeded, Append(frame[r].attempts, Attempt(frame[r].current, status))))
<1> DEFINE f    == frame[r]
           d    == f.decision
           atts == Append(f.attempts, Attempt(f.current, status))
           D    == AggregateDecision(d, succeeded, codes)
           res  == InferenceResult(D, succeeded, atts)
<1>1. /\ f.attempts \in Seq(Attempts) /\ d \in Decisions /\ f.current \in Models
      /\ Callable(f) /\ Chained(r, f) /\ Policy(r).maximum_attempts \in Nat
  BY CallingFacts
<1>2. res.decision = D /\ res.attempts = atts
  BY DEF InferenceResult
<1>3. /\ D.selected = succeeded /\ D.candidates = d.candidates
      /\ D.fallback_used <=> succeeded # NoModel /\ succeeded # d.selected
      /\ D.reason_codes = (d.reason_codes \ {"NO_ELIGIBLE_MODEL"}) \cup codes
  BY <1>1, AggregateFields
<1>4. /\ atts # << >> /\ atts[Len(atts)].model_alias = f.current
      /\ Statuses(atts) = Statuses(f.attempts) \cup {status}
  BY <1>1, AppendFacts
<1>5. Disciplined(r, atts, D)
  BY <1>1, <1>3, AppendDisciplined DEF Chained, Callable
<1>6. /\ f.current # NoModel
      /\ d.reason_codes \cap OutcomeCodes = {}
      /\ d.selected # NoModel => "MODEL_ALLOWED" \in d.reason_codes
      /\ Statuses(f.attempts) \subseteq RetryableStatuses
      /\ Collected(f.extra, f.attempts)
  BY <1>1, CatalogueAssumption DEF Chained, Spent
<1> HIDE DEF atts, D, d, res
<1>7. CASE status = "succeeded"
  <2>1. /\ succeeded = f.current
        /\ codes = f.extra \cup (IF succeeded # d.selected THEN {"FALLBACK_SELECTED"} ELSE {})
    BY <1>7 DEF d
  <2>2. "succeeded" \in Statuses(atts) /\ D.selected # NoModel
        /\ D.selected = atts[Len(atts)].model_alias
    BY <1>3, <1>4, <1>6, <1>7, <2>1
  <2>3. D.fallback_used <=> "FALLBACK_SELECTED" \in D.reason_codes
    BY <1>3, <1>6, <2>1 DEF OutcomeCodes, Collected
  <2>4. /\ "throttled" \in Statuses(atts) <=> "throttled" \in Statuses(f.attempts)
        /\ Statuses(atts) \cap {"transient_error", "timeout"}
              = Statuses(f.attempts) \cap {"transient_error", "timeout"}
    BY <1>4, <1>7
  <2>5. /\ "MODEL_THROTTLED" \in D.reason_codes <=> "MODEL_THROTTLED" \in f.extra
        /\ "MODEL_UNAVAILABLE" \in D.reason_codes <=> "MODEL_UNAVAILABLE" \in f.extra
    BY <1>3, <1>6, <2>1 DEF OutcomeCodes
  <2>6. D.reason_codes # {}
    BY <1>3, <1>6, <2>1
  <2> QED BY <1>2, <1>4, <1>5, <1>6, <2>2, <2>3, <2>4, <2>5, <2>6 DEF Truthful, Collected, res, D, atts, d
<1>8. CASE status # "succeeded"
  <2>1. succeeded = NoModel /\ Collected(codes, atts)
    BY <1>8 DEF atts
  <2>2. "succeeded" \notin Statuses(atts) /\ D.selected = NoModel
    BY <1>3, <1>4, <1>6, <1>8, <2>1 DEF RetryableStatuses
  <2>3. ~D.fallback_used /\ "FALLBACK_SELECTED" \notin D.reason_codes
    BY <1>3, <1>6, <2>1 DEF OutcomeCodes, Collected
  <2>4. /\ "MODEL_THROTTLED" \in D.reason_codes <=> "MODEL_THROTTLED" \in codes
        /\ "MODEL_UNAVAILABLE" \in D.reason_codes <=> "MODEL_UNAVAILABLE" \in codes
    BY <1>3, <1>6, <2>1 DEF OutcomeCodes
  <2>5. D.reason_codes = {} => Statuses(atts) = {"non_retryable_error"}
    BY <1>3, <1>4, <1>6, <1>8, <2>1 DEF Collected, RetryableStatuses, InvocationAttemptStatus
  <2> QED BY <1>2, <1>5, <2>1, <2>2, <2>3, <2>4, <2>5 DEF Truthful, Collected, res, D, atts, d
<1> QED BY <1>7, <1>8

\* A call that succeeded ends the loop.
LEMMA SuccessLoop ==
    ASSUME TypeInv, LoopInv, NEW r \in Requests, ProviderSucceeds(r)
    PROVE  LoopOK(r)'
<1> DEFINE f     == frame[r]
           codes == f.extra \cup (IF f.current # f.decision.selected
                                  THEN {"FALLBACK_SELECTED"} ELSE {})
<1>1. /\ pc[r] = "calling" /\ audit' = audit
      /\ AfterAttempt(r, "succeeded", codes, f.current, NoModel)
  BY DEF ProviderSucceeds
<1>2. "succeeded" \in InvocationAttemptStatus
  BY DEF InvocationAttemptStatus
<1>3. /\ pc'[r] = "persist"
      /\ frame'[r].result = InferenceResult(
            AggregateDecision(f.decision, f.current, codes), f.current,
            Append(f.attempts, Attempt(f.current, "succeeded")))
  BY <1>1, AttemptShape
<1>4. Truthful(r, frame'[r].result)
  BY <1>1, <1>2, <1>3, AggregateTruthful
<1>5. audit'[r] # NoRecord => Truthful(r, audit'[r])
  BY <1>1 DEF LoopInv, LoopOK
<1> QED BY <1>3, <1>4, <1>5 DEF LoopOK, Truthful, Disciplined, Policy, Request

\* The codes and the status of a failed attempt agree.
LEMMA FailureCodes ==
    ASSUME NEW category \in ProviderErrorCategory, NEW codes, NEW atts \in Seq(Attempts),
           NEW alias \in Models, Collected(codes, atts)
    PROVE  LET status == StatusForCategory(category)
           IN  /\ status \in InvocationAttemptStatus /\ status # "succeeded"
               /\ category # "permanent" => status \in RetryableStatuses
               /\ Collected(codes \cup ReasonCodesForCategory(category),
                            Append(atts, Attempt(alias, status)))
<1> DEFINE status == StatusForCategory(category)
           more   == ReasonCodesForCategory(category)
           longer == Append(atts, Attempt(alias, status))
<1>1. /\ category = "throttled" => status = "throttled" /\ more = {"MODEL_THROTTLED"}
      /\ category = "transient" => status = "transient_error" /\ more = {"MODEL_UNAVAILABLE"}
      /\ category = "timeout" => status = "timeout" /\ more = {"MODEL_UNAVAILABLE"}
      /\ category = "permanent" => status = "non_retryable_error" /\ more = {}
  BY DEF StatusForCategory, ReasonCodesForCategory
<1>2. category \in {"throttled", "transient", "timeout", "permanent"}
  BY DEF ProviderErrorCategory
<1> HIDE DEF status, more
<1>3. /\ status \in InvocationAttemptStatus /\ status # "succeeded"
      /\ category # "permanent" => status \in RetryableStatuses
  BY <1>1, <1>2 DEF InvocationAttemptStatus, RetryableStatuses
<1>4. Statuses(longer) = Statuses(atts) \cup {status}
  BY <1>3, AppendFacts
<1> HIDE DEF longer
<1>5. Collected(codes \cup more, longer)
  BY <1>1, <1>2, <1>4 DEF Collected
<1> QED BY <1>3, <1>5 DEF status, more, longer

\* A call that failed is followed by another candidate, or ends the loop.
LEMMA FailureLoop ==
    ASSUME TypeInv, LoopInv, NEW r \in Requests,
           NEW category \in ProviderErrors, ProviderFails(r, category)
    PROVE  LoopOK(r)'
<1> DEFINE f      == frame[r]
           status == StatusForCategory(category)
           codes  == f.extra \cup ReasonCodesForCategory(category)
           atts   == Append(f.attempts, Attempt(f.current, status))
           next   == IF category = "permanent" THEN NoModel
                     ELSE NextCandidate(f.decision, Policy(r), atts)
           res    == InferenceResult(AggregateDecision(f.decision, NoModel, codes), NoModel, atts)
<1>1. /\ pc[r] = "calling" /\ audit' = audit
      /\ AfterAttempt(r, status, codes, NoModel, next)
  BY DEF ProviderFails
<1>2. /\ f.attempts \in Seq(Attempts) /\ f.decision \in Decisions /\ f.current \in Models
      /\ Callable(f) /\ Chained(r, f) /\ ValidPolicy(Policy(r))
      /\ Policy(r).maximum_attempts \in Nat
  BY <1>1, CallingFacts
<1>3. /\ status \in InvocationAttemptStatus /\ status # "succeeded"
      /\ category # "permanent" => status \in RetryableStatuses
      /\ Collected(codes, atts)
  BY <1>2, FailureCodes, RequestAssumption DEF Chained
<1>4. /\ atts \in Seq(Attempts)
      /\ Statuses(atts) = Statuses(f.attempts) \cup {status}
  BY <1>2, <1>3, AttemptsType, AppendFacts
<1>5. Disciplined(r, atts, f.decision)
  BY <1>2, <1>3, AppendDisciplined DEF Chained, Callable
<1>6. /\ next # NoModel =>
            /\ pc'[r] = "calling" /\ frame'[r].decision = f.decision
            /\ frame'[r].attempts = atts /\ frame'[r].extra = codes /\ frame'[r].current = next
      /\ next = NoModel => pc'[r] = "persist" /\ frame'[r].result = res
  BY <1>1, AttemptShape
<1>7. Truthful(r, res)
  BY <1>1, <1>3, AggregateTruthful
<1>8. audit'[r] # NoRecord => Truthful(r, audit'[r])
  BY <1>1 DEF LoopInv, LoopOK
<1> HIDE DEF status, codes, atts, res
<1>9. CASE next # NoModel
  <2>1. category # "permanent" /\ next = NextCandidate(f.decision, Policy(r), atts)
    BY <1>9
  <2>2. next \notin Tried(atts) /\ Len(atts) < Policy(r).maximum_attempts
    BY <1>2, <1>4, <1>9, <2>1, NextCandidateFacts DEF Callable
  <2> HIDE DEF next
  <2>3. Spent(atts, f.decision.candidates)
    BY <1>2, <1>3, <1>4, <1>5, <2>1 DEF Spent, Disciplined, Chained
  <2>4. Chained(r, frame'[r])
    BY <1>2, <1>3, <1>6, <1>9, <2>2, <2>3 DEF Chained
  <2> QED BY <1>6, <1>8, <1>9, <2>4 DEF LoopOK, Chained, Truthful, Disciplined, Policy, Request
<1>10. CASE next = NoModel
  <2>1. pc'[r] = "persist" /\ Truthful(r, frame'[r].result)
    BY <1>6, <1>7, <1>10
  <2> QED BY <1>8, <2>1 DEF LoopOK, Truthful, Disciplined, Policy, Request
<1> QED BY <1>9, <1>10

\* What EvaluateRoute leaves: a decision with the first candidate to call, or, if
\* there is none, the result.
LEMMA EvaluateShape ==
    ASSUME TypeInv, NEW r \in Requests, EvaluateRoute(r)
    PROVE  \E health \in [Models -> ModelHealthStatus], d \in Decisions :
              /\ health = [m \in Models |-> GetHealth(failures[frame[r].env], m)]
              /\ d = Evaluate(r, Request(r), Policy(r), health)
              /\ \/ /\ NextCandidate(d, Policy(r), << >>) = NoModel /\ pc'[r] = "persist"
                    /\ frame'[r].result = InferenceResult(d, NoModel, << >>)
                 \/ /\ NextCandidate(d, Policy(r), << >>) # NoModel /\ pc'[r] = "calling"
                    /\ frame'[r] = [frame[r] EXCEPT !.decision = d,
                                       !.current = NextCandidate(d, Policy(r), << >>)]
<1> DEFINE health == [m \in Models |-> GetHealth(failures[frame[r].env], m)]
           d      == Evaluate(r, Request(r), Policy(r), health)
           first  == NextCandidate(d, Policy(r), << >>)
           empty  == InferenceResult(d, NoModel, << >>)
<1>1. /\ pc[r] = "evaluate" /\ Policy(r) # NoPolicy /\ InFlight(r)
  BY DEF EvaluateRoute, InFlight, Invoking, InvokingPoints
<1>2. /\ frame[r] \in Frames /\ frame[r].env \in Envs
      /\ frame \in [Requests -> Frames \cup {NoFrame}] /\ pc \in [Requests -> Points]
      /\ failures[frame[r].env] \in [Models -> Nat]
  BY <1>1, InFlightFacts DEF TypeInv, SharedOK
<1>3. health \in [Models -> ModelHealthStatus]
  BY <1>2, GetHealthType
<1>4. IF first = NoModel
      THEN frame' = [frame EXCEPT ![r].decision = d, ![r].result = empty] /\ GoTo(r, "persist")
      ELSE frame' = [frame EXCEPT ![r].decision = d, ![r].current = first] /\ GoTo(r, "calling")
  BY DEF EvaluateRoute
<1> HIDE DEF health
<1>5. d \in Decisions
  BY <1>1, <1>3, EvaluateInContext
<1> HIDE DEF d
<1> HIDE DEF first, empty
<1>6. CASE first = NoModel
  <2>1. frame'[r] = [frame[r] EXCEPT !.decision = d, !.result = empty] /\ pc'[r] = "persist"
    BY <1>2, <1>4, <1>6 DEF GoTo
  <2>2. frame'[r].result = empty
    BY <1>2, <2>1 DEF Frames
  <2> QED BY <1>3, <1>5, <1>6, <2>1, <2>2 DEF health, d, first, empty
<1>7. CASE first # NoModel
  <2>1. frame'[r] = [frame[r] EXCEPT !.decision = d, !.current = first] /\ pc'[r] = "calling"
    BY <1>2, <1>4, <1>7 DEF GoTo
  <2> QED BY <1>3, <1>5, <1>7, <2>1 DEF health, d, first
<1> QED BY <1>6, <1>7

LEMMA EvaluateLoop ==
    ASSUME TypeInv, LoopInv, NEW r \in Requests, EvaluateRoute(r)
    PROVE  LoopOK(r)'
<1>1. PICK health \in [Models -> ModelHealthStatus], d \in Decisions :
         /\ d = Evaluate(r, Request(r), Policy(r), health)
         /\ \/ /\ NextCandidate(d, Policy(r), << >>) = NoModel /\ pc'[r] = "persist"
               /\ frame'[r].result = InferenceResult(d, NoModel, << >>)
            \/ /\ NextCandidate(d, Policy(r), << >>) # NoModel /\ pc'[r] = "calling"
               /\ frame'[r] = [frame[r] EXCEPT !.decision = d,
                                  !.current = NextCandidate(d, Policy(r), << >>)]
  BY EvaluateShape
<1>2. /\ pc[r] = "evaluate" /\ Policy(r) # NoPolicy /\ audit' = audit
  BY DEF EvaluateRoute
<1>3. /\ frame[r] \in Frames /\ frame[r].attempts = << >> /\ frame[r].extra = {}
  BY <1>2 DEF TypeInv, LocalOK, InFlight, Invoking, InvokingPoints, LoopInv, LoopOK
<1>4. /\ d.selected # NoModel => d.selected \in EligibleAliases(d.candidates)
      /\ d.selected # NoModel => "MODEL_ALLOWED" \in d.reason_codes
      /\ d.reason_codes # {}
      /\ d.reason_codes \cap OutcomeCodes = {} /\ d.fallback_used = FALSE
  BY <1>1, <1>2, EvaluateInContext
<1>5. ValidPolicy(Policy(r)) /\ Policy(r).maximum_attempts \in Nat
  BY <1>2, RequestAssumption DEF Policy, Request, ValidPolicy
<1>6. /\ << >> \in Seq(Attempts) /\ Len(<< >>) = 0 /\ DOMAIN << >> = {}
      /\ Tried(<< >>) = {} /\ Statuses(<< >>) = {}
  BY DEF Tried, Statuses
<1>7. audit'[r] # NoRecord => Truthful(r, audit'[r])
  BY <1>2 DEF LoopInv, LoopOK
<1>8. CASE NextCandidate(d, Policy(r), << >>) = NoModel
  <2>1. pc'[r] = "persist" /\ frame'[r].result = InferenceResult(d, NoModel, << >>)
    BY <1>1, <1>8
  <2>2. d.selected = NoModel
    BY <1>8 DEF NextCandidate
  <2>3. Disciplined(r, << >>, d)
    BY <1>5, <1>6 DEF Disciplined
  <2>4. Truthful(r, frame'[r].result)
    BY <1>4, <1>6, <2>1, <2>2, <2>3 DEF Truthful, InferenceResult, OutcomeCodes
  <2> QED BY <1>7, <2>1, <2>4 DEF LoopOK, Truthful, Disciplined, Policy, Request
<1>9. CASE NextCandidate(d, Policy(r), << >>) # NoModel
  <2>1. /\ pc'[r] = "calling" /\ frame'[r].decision = d
        /\ frame'[r].current = NextCandidate(d, Policy(r), << >>)
        /\ frame'[r].attempts = << >> /\ frame'[r].extra = {}
    BY <1>1, <1>3, <1>9 DEF Frames
  <2>2. Len(<< >>) < Policy(r).maximum_attempts
    BY <1>4, <1>5, <1>6, <1>9, NextCandidateFacts
  <2>3. Chained(r, frame'[r])
    BY <1>4, <1>6, <2>1, <2>2 DEF Chained, Spent, Collected
  <2> QED BY <1>7, <2>1, <2>3 DEF LoopOK, Chained, Truthful, Disciplined, Policy, Request
<1> QED BY <1>8, <1>9

\* The steps of a request outside the loop.
LEMMA OutsideLoop ==
    ASSUME TypeInv, LoopInv, NEW r \in Requests,
           \/ PutAccepted(r) \/ PutAnswerLost(r) \/ PutRefused(r) \/ ReserveRaises(r)
           \/ GetVanished(r) \/ GetRejected(r) \/ GetReplayed(r)
           \/ PolicyUnresolved(r) \/ ProviderRaises(r)
           \/ Persist(r) \/ PersistRaises(r) \/ Publish(r)
           \/ Complete(r) \/ CompleteRaises(r) \/ CompleteAnswerLost(r)
           \/ Release(r) \/ ReleaseAnswerLost(r)
    PROVE  LoopOK(r)'
<1>1. /\ SharedOK /\ LocalOK(r) /\ LoopOK(r)
  BY DEF TypeInv, LoopInv
<1>2. ASSUME NEW how, NEW res, End(r, how, res) PROVE pc'[r] = "done"
  BY <1>1, <1>2 DEF End, GoTo, SharedOK
<1>3. ASSUME Raise(r) PROVE pc'[r] \in {"release", "done"}
  BY <1>1, <1>3 DEF Raise, End, GoTo, SharedOK
<1>4. CASE audit' = audit
  <2>1. audit'[r] # NoRecord => Truthful(r, audit'[r])
    BY <1>1, <1>4 DEF LoopOK
  <2>2. CASE pc'[r] \in {"release", "done"}
    BY <2>1, <2>2 DEF LoopOK, Truthful, Disciplined, Policy, Request
  <2>3. CASE PutAccepted(r) \/ PutAnswerLost(r) \/ PutRefused(r)
    <3>1. pc[r] = "put" /\ pc'[r] \in {"put", "get", "evaluate"} /\ frame' = frame
      BY <1>1, <2>3 DEF PutAccepted, PutAnswerLost, PutRefused, GoTo, SharedOK
    <3> QED BY <1>1, <2>1, <3>1 DEF LoopOK, Truthful, Disciplined, Policy, Request
  <2>4. CASE GetVanished(r)
    <3>1. /\ frame[r] \in Frames /\ frame[r].attempts = << >> /\ frame[r].extra = {}
      BY <1>1, <2>4 DEF GetVanished, LocalOK, InFlight, LoopOK
    <3>2. /\ pc'[r] \in {"put", "evaluate"}
          /\ frame'[r] = [frame[r] EXCEPT !.tries = @ + 1, !.stamp = Clock(r)]
      BY <1>1, <2>4 DEF GetVanished, GoTo, SharedOK
    <3>3. frame'[r].attempts = << >> /\ frame'[r].extra = {}
      BY <3>1, <3>2 DEF Frames
    <3> QED BY <2>1, <3>2, <3>3 DEF LoopOK, Truthful, Disciplined, Policy, Request
  <2>5. CASE Publish(r)
    <3>1. CASE HasKey(r)
      <4>1. /\ pc[r] = "publish" /\ pc'[r] = "complete"
            /\ frame'[r] = [frame[r] EXCEPT !.stamp = Clock(r)]
        BY <1>1, <2>5, <3>1 DEF Publish, GoTo, SharedOK
      <4>2. frame'[r].result = frame[r].result
        BY <1>1, <4>1 DEF LocalOK, InFlight, Invoking, InvokingPoints, Frames
      <4> QED BY <1>1, <2>1, <4>1, <4>2 DEF LoopOK, Truthful, Disciplined, Policy, Request
    <3>2. CASE ~HasKey(r)
      BY <1>2, <2>2, <2>5, <3>2 DEF Publish
    <3> QED BY <3>1, <3>2
  <2>6. CASE Persist(r)
    <3>1. pc[r] = "persist" /\ pc'[r] = "publish" /\ frame' = frame
      BY <1>1, <2>6 DEF Persist, GoTo, SharedOK
    <3> QED BY <1>1, <2>1, <3>1 DEF LoopOK, Truthful, Disciplined, Policy, Request
  <2>7. CASE PolicyUnresolved(r) \/ ProviderRaises(r) \/ PersistRaises(r)
    BY <1>3, <2>2, <2>7 DEF PolicyUnresolved, ProviderRaises, PersistRaises
  <2>8. CASE \/ ReserveRaises(r) \/ GetRejected(r) \/ GetReplayed(r)
             \/ Complete(r) \/ CompleteRaises(r) \/ Release(r)
    BY <1>2, <2>2, <2>8
       DEF ReserveRaises, GetRejected, GetReplayed, Complete, CompleteRaises, Release
  <2>9. CASE CompleteAnswerLost(r) \/ ReleaseAnswerLost(r)
    <3>1. /\ pc[r] \in {"complete", "release"} /\ pc'[r] = pc[r]
          /\ frame'[r] = [frame[r] EXCEPT !.resending = TRUE]
      BY <1>1, <2>9 DEF CompleteAnswerLost, ReleaseAnswerLost, Resend, SharedOK
    <3>2. frame'[r].result = frame[r].result
      BY <1>1, <3>1 DEF LocalOK, InFlight, Invoking, InvokingPoints, Frames
    <3> QED BY <1>1, <2>1, <3>1, <3>2 DEF LoopOK, Truthful, Disciplined, Policy, Request
  <2> QED BY <2>3, <2>4, <2>5, <2>6, <2>7, <2>8, <2>9
<1>5. CASE (Persist(r) \/ PersistRaises(r)) /\ WriteAudit(r)
  <2>1. pc[r] = "persist" /\ Truthful(r, frame[r].result)
    BY <1>1, <1>5 DEF Persist, PersistRaises, LoopOK
  <2>2. audit'[r] = AuditRecord(frame[r].result)
    BY <1>1, <1>5 DEF WriteAudit, SharedOK
  <2>3. Truthful(r, audit'[r])
    BY <2>1, <2>2 DEF Truthful, AuditRecord
  <2>4. CASE Persist(r)
    <3>1. pc'[r] = "publish" /\ frame' = frame
      BY <1>1, <2>4 DEF Persist, GoTo, SharedOK
    <3> QED BY <2>1, <2>3, <3>1 DEF LoopOK, Truthful, Disciplined, Policy, Request
  <2>5. CASE PersistRaises(r)
    <3>1. pc'[r] \in {"release", "done"}
      BY <1>3, <2>5 DEF PersistRaises
    <3> QED BY <2>3, <3>1 DEF LoopOK, Truthful, Disciplined, Policy, Request
  <2> QED BY <1>5, <2>4, <2>5
<1> QED BY <1>4, <1>5
    DEF PutAccepted, PutAnswerLost, PutRefused, ReserveRaises, GetVanished, GetRejected,
        GetReplayed, PolicyUnresolved, ProviderRaises, Persist, PersistRaises, Publish,
        Complete, CompleteRaises, Release, CompleteAnswerLost, ReleaseAnswerLost, Resend

LEMMA LoopStep == TypeInv /\ LoopInv /\ [Next]_vars => LoopInv'
<1> SUFFICES ASSUME TypeInv, LoopInv, [Next]_vars PROVE LoopInv'
  OBVIOUS
<1>1. ASSUME NEW q \in Requests, pc'[q] = pc[q], frame'[q] = frame[q], audit'[q] = audit[q]
      PROVE  LoopOK(q)'
  <2>1. LoopOK(q)
    BY DEF LoopInv
  <2>2. /\ pc'[q] = "calling" => Chained(q, frame'[q])
        /\ pc'[q] \in {"persist", "publish", "complete"} => Truthful(q, frame'[q].result)
        /\ audit'[q] # NoRecord => Truthful(q, audit'[q])
    BY <1>1, <2>1 DEF LoopOK
  <2> QED BY <1>1, <2>1, <2>2 DEF LoopOK, Chained, Truthful, Disciplined, Policy, Request
<1>2. ASSUME NEW q \in Requests, pc'[q] = "done", audit'[q] = audit[q] PROVE LoopOK(q)'
  <2>1. audit'[q] # NoRecord => Truthful(q, audit'[q])
    BY <1>2 DEF LoopInv, LoopOK
  <2> QED BY <1>2, <2>1 DEF LoopOK, Truthful, Disciplined, Policy, Request
<1>3. ASSUME NEW r \in Requests, Advance(r) PROVE LoopInv'
  <2>1. LoopOK(r)'
    BY <1>3, EvaluateLoop, SuccessLoop, FailureLoop, OutsideLoop DEF Advance
  <2>2. \A q \in Requests \ {r} : LoopOK(q)'
    BY <1>1, <1>3, AdvanceConcerns DEF Concerns
  <2> QED BY <2>1, <2>2 DEF LoopInv
<1>4. ASSUME NEW r \in Requests, NEW e \in Envs, Start(r, e) PROVE LoopInv'
  <2>1. /\ pc'[r] \in {"put", "evaluate"} /\ audit' = audit /\ frame'[r] = NewFrame(e)
        /\ \A q \in Requests \ {r} : pc'[q] = pc[q] /\ frame'[q] = frame[q]
    BY <1>4 DEF Start, GoTo, TypeInv, SharedOK
  <2>2. LoopOK(r)'
    <3>1. audit'[r] # NoRecord => Truthful(r, audit'[r])
      BY <2>1 DEF LoopInv, LoopOK
    <3>2. frame'[r].attempts = << >> /\ frame'[r].extra = {}
      BY <2>1 DEF NewFrame
    <3> QED BY <2>1, <3>1, <3>2 DEF LoopOK, Truthful, Disciplined, Policy, Request
  <2>3. \A q \in Requests \ {r} : LoopOK(q)'
    BY <1>1, <2>1
  <2> QED BY <2>2, <2>3 DEF LoopInv
<1>5. ASSUME NEW e \in Envs, Kill(e) PROVE LoopInv'
  <2>1. \A q \in Requests :
          /\ audit'[q] = audit[q]
          /\ pc'[q] = "done" \/ (pc'[q] = pc[q] /\ frame'[q] = frame[q])
    BY <1>5 DEF Kill
  <2> QED BY <1>1, <1>2, <2>1 DEF LoopInv
<1>6. CASE UNCHANGED << pc, frame, audit >>
  BY <1>1, <1>6 DEF LoopInv
<1> QED BY <1>3, <1>4, <1>5, <1>6 DEF Next, TtlSweep, Replicate, Tick, vars

LEMMA LoopInvHolds == Spec => []LoopInv
<1>1. Init => LoopInv
  BY DEF Init, LoopInv, LoopOK
<1> QED BY <1>1, LoopStep, TypeInvHolds, PTL DEF Spec

\* _build_candidate_chain and the loop over it: in progress or audited, the
\* attempts of a request are distinct eligible models, no more than the policy
\* allows, each but the last a failure that permits another, whatever the fallback
\* list repeats and whatever the providers answer.
THEOREM AttemptsDisciplined == Spec => []FallbackDiscipline
<1>1. TypeInv /\ LoopInv => FallbackDiscipline
  <2> SUFFICES ASSUME TypeInv, LoopInv, NEW r \in Requests
               PROVE  /\ pc[r] = "calling" =>
                           Disciplined(r, Append(frame[r].attempts,
                                                 Attempt(frame[r].current, "succeeded")),
                                       frame[r].decision)
                      /\ audit[r] # NoRecord =>
                           Disciplined(r, audit[r].attempts, audit[r].decision)
    BY DEF FallbackDiscipline
  <2>1. ASSUME pc[r] = "calling"
        PROVE  Disciplined(r, Append(frame[r].attempts, Attempt(frame[r].current, "succeeded")),
                           frame[r].decision)
    <3>1. "succeeded" \in InvocationAttemptStatus
      BY DEF InvocationAttemptStatus
    <3> QED BY <2>1, <3>1, CallingFacts, AppendDisciplined DEF Chained, Callable
  <2>2. audit[r] # NoRecord => Disciplined(r, audit[r].attempts, audit[r].decision)
    BY DEF LoopInv, LoopOK, Truthful
  <2> QED BY <2>1, <2>2
<1> QED BY <1>1, TypeInvHolds, LoopInvHolds, PTL

\* _aggregate_decision: every audited decision agrees with the attempts recorded
\* beside it, in the model it names, the fallback flag and the reason codes.
THEOREM DecisionsTruthful == Spec => []DecisionMatchesAttempts
<1>1. LoopInv => DecisionMatchesAttempts
  <2> SUFFICES ASSUME LoopInv, NEW r \in Requests, audit[r] # NoRecord
               PROVE  Truthful(r, audit[r])
    BY DEF DecisionMatchesAttempts, Truthful, Statuses
  <2> QED BY DEF LoopInv, LoopOK
<1> QED BY <1>1, LoopInvHolds, PTL

-----------------------------------------------------------------------------
(***************************************************************************)
(* The circuit breaker.                                                    *)
(***************************************************************************)
\* record_outcome for one model moves that model's counter only, by at most one.
LEMMA RecordOutcomeCounts ==
    ASSUME NEW counters \in [Models -> Nat], NEW model \in Models, NEW status,
           counters[model] < UnavailableAfter
    PROVE  LET after == RecordOutcome(counters, model, status)
           IN  /\ \A m \in Models \ {model} : after[m] = counters[m]
               /\ after[model] <= UnavailableAfter
BY ThresholdAssumption DEF RecordOutcome

\* A request in the loop calls an available model.
LEMMA CallsAvailable ==
    ASSUME TypeInv, LoopInv, BreakerInv, NEW r \in Requests, pc[r] = "calling"
    PROVE  /\ frame[r].env \in Envs /\ frame[r].current \in Models
           /\ failures[frame[r].env][frame[r].current] < UnavailableAfter
<1>1. /\ frame[r].env \in Envs /\ frame[r].current \in Models
      /\ Callable(frame[r]) /\ Chained(r, frame[r])
  BY CallingFacts
<1>2. Unspent(r)
  BY DEF BreakerInv
<1> QED BY <1>1, <1>2 DEF Unspent, Callable, Chained

\* An attempt keeps every counter within the threshold, and those that the
\* requests in flight still depend on below it.
LEMMA AttemptBreaker ==
    ASSUME TypeInv, LoopInv, OneServed, BreakerInv, NEW r \in Requests, pc[r] = "calling",
           NEW status \in InvocationAttemptStatus, NEW codes, NEW succeeded, NEW next,
           AfterAttempt(r, status, codes, succeeded, next), Concerns(r)
    PROVE  BreakerInv'
<1> DEFINE f == frame[r]
           atts == Append(f.attempts, Attempt(f.current, status))
           after == RecordOutcome(failures[f.env], f.current, status)
<1>1. /\ f.env \in Envs /\ f.current \in Models
      /\ failures[f.env][f.current] < UnavailableAfter
      /\ failures \in [Envs -> [Models -> Nat]]
  BY CallsAvailable DEF TypeInv, SharedOK
<1>2. failures' = [failures EXCEPT ![f.env] = after]
  BY DEF AfterAttempt
<1>3. /\ \A m \in Models \ {f.current} : after[m] = failures[f.env][m]
      /\ after[f.current] <= UnavailableAfter
  BY <1>1, RecordOutcomeCounts
<1> HIDE DEF after
<1>4. /\ failures'[f.env] = after
      /\ \A e \in Envs \ {f.env} : failures'[e] = failures[e]
  BY <1>1, <1>2
<1>5. ASSUME NEW e \in Envs, NEW m \in Models PROVE failures'[e][m] <= UnavailableAfter
  <2>1. failures[e][m] <= UnavailableAfter
    BY DEF BreakerInv
  <2>2. CASE e = f.env /\ m # f.current
    BY <1>3, <1>4, <2>1, <2>2
  <2>3. CASE e = f.env /\ m = f.current
    BY <1>3, <1>4, <2>3
  <2>4. CASE e # f.env
    BY <1>4, <2>1, <2>4
  <2> QED BY <2>2, <2>3, <2>4
<1>6. ASSUME NEW q \in Requests, pc'[q] = "calling" PROVE Unspent(q)'
  <2>1. CASE q = r
    <3>1. /\ frame'[r].decision = f.decision /\ frame'[r].env = f.env
          /\ frame'[r].attempts = atts
      BY <1>6, <2>1, AttemptShape
    <3>2. Tried(atts) = Tried(f.attempts) \cup {f.current}
      BY CallingFacts, AppendFacts
    <3>3. ASSUME NEW m \in EligibleAliases(f.decision.candidates) \ Tried(atts)
          PROVE  failures'[f.env][m] < UnavailableAfter
      <4>1. /\ m \in Models /\ m # f.current
            /\ m \in EligibleAliases(f.decision.candidates) \ Tried(f.attempts)
        BY <3>2, <3>3 DEF EligibleAliases
      <4>2. failures[f.env][m] < UnavailableAfter
        BY <4>1 DEF BreakerInv, Unspent
      <4> QED BY <1>3, <1>4, <4>1, <4>2
    <3> QED BY <2>1, <3>1, <3>3 DEF Unspent, EligibleAliases, Tried
  <2>2. CASE q # r
    <3>1. pc[q] = "calling" /\ frame'[q] = frame[q] /\ frame[q].env \in Envs
      BY <1>6, <2>2, CallingFacts DEF Concerns
    <3>2. frame[q].env # f.env
      BY <2>2, <3>1 DEF OneServed, InFlight, Invoking, InvokingPoints
    <3>3. failures'[frame[q].env] = failures[frame[q].env]
      BY <1>4, <3>1, <3>2
    <3>4. Unspent(q)
      BY <3>1 DEF BreakerInv
    <3> QED BY <3>1, <3>3, <3>4 DEF Unspent, EligibleAliases, Tried
  <2> QED BY <2>1, <2>2
<1> QED BY <1>5, <1>6 DEF BreakerInv

\* Route evaluation leaves out the models that are unavailable when it reads health.
LEMMA EvaluateBreaker ==
    ASSUME TypeInv, BreakerInv, NEW r \in Requests, EvaluateRoute(r), pc'[r] = "calling"
    PROVE  Unspent(r)'
<1>1. /\ pc[r] = "evaluate" /\ Policy(r) # NoPolicy /\ InFlight(r) /\ failures' = failures
  BY DEF EvaluateRoute, InFlight, Invoking, InvokingPoints
<1>2. /\ frame[r] \in Frames /\ frame[r].env \in Envs
      /\ failures[frame[r].env] \in [Models -> Nat]
  BY <1>1, InFlightFacts DEF TypeInv, SharedOK
<1>3. PICK health \in [Models -> ModelHealthStatus], d \in Decisions :
         /\ health = [m \in Models |-> GetHealth(failures[frame[r].env], m)]
         /\ d = Evaluate(r, Request(r), Policy(r), health)
         /\ frame'[r] = [frame[r] EXCEPT !.decision = d,
                            !.current = NextCandidate(d, Policy(r), << >>)]
  BY EvaluateShape
<1>4. frame'[r].decision = d /\ frame'[r].env = frame[r].env
  BY <1>2, <1>3 DEF Frames
<1>5. \A m \in EligibleAliases(d.candidates) : health[m] # "unavailable"
  <2>1. health \in [Models -> ModelHealthStatus] /\ d = Evaluate(r, Request(r), Policy(r), health)
    BY <1>3
  <2>2. \A m \in EligibleAliases(Evaluate(r, Request(r), Policy(r), health).candidates) :
           health[m] # "unavailable"
    BY <1>1, <2>1, EvaluateInContext, Zenon
  <2> QED BY <2>1, <2>2, Zenon
<1>6. ASSUME NEW m \in EligibleAliases(d.candidates)
      PROVE  failures[frame[r].env][m] < UnavailableAfter
  <2>1. m \in Models /\ health[m] # "unavailable"
    BY <1>5 DEF EligibleAliases
  <2>2. failures[frame[r].env][m] \in Nat
        /\ GetHealth(failures[frame[r].env], m) # "unavailable"
    BY <1>2, <1>3, <2>1
  <2> QED BY <2>2, ThresholdAssumption DEF GetHealth
<1> QED BY <1>1, <1>4, <1>6 DEF Unspent, EligibleAliases, Tried

\* Steps that leave the counters alone bring nobody else into the loop.
LEMMA OutsideBreaker ==
    ASSUME BreakerInv, failures' = failures,
           \A q \in Requests : pc'[q] = "calling" =>
               Unspent(q)' \/ (pc[q] = "calling" /\ frame'[q] = frame[q])
    PROVE  BreakerInv'
<1>1. ASSUME NEW q \in Requests, pc'[q] = "calling" PROVE Unspent(q)'
  <2>1. CASE pc[q] = "calling" /\ frame'[q] = frame[q]
    <3>1. Unspent(q)
      BY <2>1 DEF BreakerInv
    <3> QED BY <2>1, <3>1 DEF Unspent, EligibleAliases, Tried
  <2> QED BY <1>1, <2>1
<1> QED BY <1>1 DEF BreakerInv

\* Where the counters of an environment move: in an attempt, or with its end.
LEMMA CountersMove ==
    ASSUME TypeInv, [Next]_vars
    PROVE  \/ failures' = failures
           \/ \E e \in Envs : Kill(e)
           \/ \E r \in Requests, status \in InvocationAttemptStatus : \E codes, succeeded, next :
                 /\ pc[r] = "calling" /\ Concerns(r)
                 /\ AfterAttempt(r, status, codes, succeeded, next)
<1>1. ASSUME NEW r \in Requests, Advance(r), failures' # failures
      PROVE  \E status \in InvocationAttemptStatus : \E codes, succeeded, next :
                 /\ pc[r] = "calling" /\ AfterAttempt(r, status, codes, succeeded, next)
  <2>1. ProviderSucceeds(r) \/ \E category \in ProviderErrors : ProviderFails(r, category)
    BY <1>1 DEF Advance, PutAccepted, PutAnswerLost, PutRefused, ReserveRaises, GetVanished,
         GetRejected, GetReplayed, EvaluateRoute, PolicyUnresolved, ProviderRaises, Persist,
         PersistRaises, Publish, Complete, CompleteRaises, Release, CompleteAnswerLost,
         ReleaseAnswerLost, Resend
  <2>2. CASE ProviderSucceeds(r)
    BY <2>2 DEF ProviderSucceeds, InvocationAttemptStatus
  <2>3. ASSUME NEW category \in ProviderErrors, ProviderFails(r, category)
        PROVE  \E status \in InvocationAttemptStatus : \E codes, succeeded, next :
                 /\ pc[r] = "calling" /\ AfterAttempt(r, status, codes, succeeded, next)
    <3>1. StatusForCategory(category) \in InvocationAttemptStatus
      BY RequestAssumption DEF StatusForCategory, InvocationAttemptStatus, ProviderErrorCategory
    <3> QED BY <2>3, <3>1 DEF ProviderFails
  <2> QED BY <2>1, <2>2, <2>3
<1>2. CASE \E r \in Requests : Advance(r)
  BY <1>1, <1>2, AdvanceConcerns
<1> QED BY <1>2 DEF Next, Start, TtlSweep, Replicate, Tick, vars

LEMMA BreakerStep ==
    TypeInv /\ LoopInv /\ OneServed /\ BreakerInv /\ [Next]_vars => BreakerInv'
<1> SUFFICES ASSUME TypeInv, LoopInv, OneServed, BreakerInv, [Next]_vars PROVE BreakerInv'
  OBVIOUS
<1>1. CASE failures' = failures
  <2>1. ASSUME NEW q \in Requests, pc'[q] = "calling"
        PROVE  Unspent(q)' \/ (pc[q] = "calling" /\ frame'[q] = frame[q])
    <3>1. ASSUME NEW r \in Requests, Advance(r)
          PROVE  Unspent(q)' \/ (pc[q] = "calling" /\ frame'[q] = frame[q])
      <4>1. CASE q # r
        BY <2>1, <3>1, <4>1, AdvanceConcerns DEF Concerns
      <4>2. CASE q = r /\ EvaluateRoute(r)
        BY <2>1, <4>2, EvaluateBreaker
      <4>3. CASE q = r /\ ProviderSucceeds(r)
        <5>1. pc'[r] = "persist"
          BY <4>3, AttemptShape DEF ProviderSucceeds
        <5> QED BY <2>1, <4>3, <5>1
      <4>4. ASSUME q = r, NEW category \in ProviderErrors, ProviderFails(r, category)
            PROVE  Unspent(r)'
        <5>1. PICK status \in InvocationAttemptStatus : \E codes, succeeded, next :
                 pc[r] = "calling" /\ AfterAttempt(r, status, codes, succeeded, next)
          <6>1. StatusForCategory(category) \in InvocationAttemptStatus
            BY RequestAssumption
               DEF StatusForCategory, InvocationAttemptStatus, ProviderErrorCategory
          <6> QED BY <4>4, <6>1 DEF ProviderFails
        <5>2. BreakerInv'
          BY <3>1, <5>1, AttemptBreaker, AdvanceConcerns
        <5> QED BY <2>1, <4>4, <5>2 DEF BreakerInv
      <4>5. CASE q = r /\ pc'[r] # "calling"
        BY <2>1, <4>5
      <4>6. \/ EvaluateRoute(r) \/ ProviderSucceeds(r)
            \/ \E category \in ProviderErrors : ProviderFails(r, category)
            \/ pc'[r] # "calling"
        BY <3>1 DEF Advance, PutAccepted, PutAnswerLost, PutRefused, ReserveRaises,
             GetVanished, GetRejected, GetReplayed, PolicyUnresolved, ProviderRaises,
             Persist, PersistRaises, Publish, Complete, CompleteRaises, Release,
             CompleteAnswerLost, ReleaseAnswerLost, Resend, End, Raise, GoTo, TypeInv, SharedOK
      <4> QED BY <4>1, <4>2, <4>3, <4>4, <4>5, <4>6
    <3>2. ASSUME NEW r \in Requests, NEW e \in Envs, Start(r, e)
          PROVE  pc[q] = "calling" /\ frame'[q] = frame[q]
      BY <2>1, <3>2 DEF Start, GoTo, TypeInv, SharedOK
    <3>3. ASSUME NEW e \in Envs, Kill(e) PROVE pc[q] = "calling" /\ frame'[q] = frame[q]
      BY <2>1, <3>3 DEF Kill
    <3>4. CASE UNCHANGED << pc, frame >>
      BY <2>1, <3>4
    <3> QED BY <3>1, <3>2, <3>3, <3>4 DEF Next, TtlSweep, Replicate, Tick, vars
  <2> QED BY <1>1, <2>1, OutsideBreaker
<1>2. ASSUME NEW e \in Envs, Kill(e) PROVE BreakerInv'
  <2>1. /\ failures' = [failures EXCEPT ![e] = [m \in Models |-> 0]]
        /\ \A q \in Requests : pc'[q] = "calling" =>
              /\ pc[q] = "calling" /\ frame'[q] = frame[q] /\ ~Serving(e, q)
    BY <1>2 DEF Kill
  <2>2. failures \in [Envs -> [Models -> Nat]] /\ UnavailableAfter \in Nat
    BY ThresholdAssumption DEF TypeInv, SharedOK
  <2>3. \A x \in Envs, m \in Models : failures'[x][m] <= UnavailableAfter
    BY <2>1, <2>2 DEF BreakerInv
  <2>4. ASSUME NEW q \in Requests, pc'[q] = "calling" PROVE Unspent(q)'
    <3>1. pc[q] = "calling" /\ frame'[q] = frame[q] /\ frame[q].env # e
      BY <2>1, <2>4 DEF Serving, InFlight, Invoking, InvokingPoints
    <3>2. frame[q].env \in Envs /\ Unspent(q)
      BY <3>1, CallingFacts DEF BreakerInv
    <3>3. failures'[frame[q].env] = failures[frame[q].env]
      BY <2>1, <2>2, <3>1, <3>2
    <3> QED BY <3>1, <3>2, <3>3 DEF Unspent, EligibleAliases, Tried
  <2> QED BY <2>3, <2>4 DEF BreakerInv
<1>3. ASSUME NEW r \in Requests, NEW status \in InvocationAttemptStatus, NEW codes,
             NEW succeeded, NEW next, pc[r] = "calling", Concerns(r),
             AfterAttempt(r, status, codes, succeeded, next)
      PROVE  BreakerInv'
  BY <1>3, AttemptBreaker
<1> QED BY <1>1, <1>2, <1>3, CountersMove

LEMMA BreakerInvHolds == Spec => []BreakerInv
<1>1. Init => BreakerInv
  BY ThresholdAssumption DEF Init, BreakerInv
<1> QED BY <1>1, BreakerStep, TypeInvHolds, LoopInvHolds, OneServedHolds, PTL DEF Spec

\* InMemoryModelHealthRepository with the loop that reads and feeds it: in any
\* number of environments, a model is never called while its own environment
\* holds it for unavailable, although health is read once, before the first call.
THEOREM BreakerHolds == Spec => []CircuitBreaker
<1>1. TypeInv /\ LoopInv /\ BreakerInv => CircuitBreaker
  BY CallsAvailable DEF CircuitBreaker, BreakerInv
<1> QED BY <1>1, TypeInvHolds, LoopInvHolds, BreakerInvHolds, PTL

\* A model that became unavailable in an environment is never called there again,
\* so its counter never moves again until the environment is replaced.
THEOREM NoHalfOpen == Spec => UnavailableUntilRestart
<1> DEFINE Stays == \A e \in Envs, m \in Models :
              failures[e][m] >= UnavailableAfter =>
                  \/ failures'[e][m] = failures[e][m]
                  \/ /\ failures'[e] = [model \in Models |-> 0]
                     /\ \A r \in Requests : ~Serving(e, r)'
<1>1. TypeInv /\ LoopInv /\ BreakerInv /\ [Next]_vars => Stays
  <2> SUFFICES ASSUME TypeInv, LoopInv, BreakerInv, [Next]_vars,
                      NEW e \in Envs, NEW m \in Models, failures[e][m] >= UnavailableAfter
               PROVE  \/ failures'[e][m] = failures[e][m]
                      \/ /\ failures'[e] = [model \in Models |-> 0]
                         /\ \A r \in Requests : ~Serving(e, r)'
    OBVIOUS
  <2>1. /\ failures \in [Envs -> [Models -> Nat]] /\ UnavailableAfter \in Nat
    BY ThresholdAssumption DEF TypeInv, SharedOK
  <2>2. ASSUME NEW x \in Envs, Kill(x)
        PROVE  \/ failures'[e][m] = failures[e][m]
               \/ /\ failures'[e] = [model \in Models |-> 0]
                  /\ \A r \in Requests : ~Serving(e, r)'
    <3>1. CASE x = e
      <4>1. failures'[e] = [model \in Models |-> 0]
        BY <2>1, <2>2, <3>1 DEF Kill
      <4>2. ASSUME NEW r \in Requests PROVE ~Serving(e, r)'
        <5>1. pc'[r] = "done" \/ (~Serving(e, r) /\ pc'[r] = pc[r] /\ frame'[r] = frame[r])
          BY <2>2, <3>1 DEF Kill
        <5> QED BY <5>1 DEF Serving, InFlight, Invoking, InvokingPoints
      <4> QED BY <4>1, <4>2
    <3>2. CASE x # e
      BY <2>1, <2>2, <3>2 DEF Kill
    <3> QED BY <3>1, <3>2
  <2>3. ASSUME NEW r \in Requests, NEW status, NEW codes, NEW succeeded, NEW next,
               pc[r] = "calling", AfterAttempt(r, status, codes, succeeded, next)
        PROVE  failures'[e][m] = failures[e][m]
    <3>1. /\ frame[r].env \in Envs /\ frame[r].current \in Models
          /\ failures[frame[r].env][frame[r].current] < UnavailableAfter
      BY <2>3, CallsAvailable
    <3>2. failures' = [failures EXCEPT ![frame[r].env] =
                          RecordOutcome(failures[frame[r].env], frame[r].current, status)]
      BY <2>3 DEF AfterAttempt
    <3>3. CASE e = frame[r].env
      <4>1. m # frame[r].current
        BY <2>1, <3>1, <3>3
      <4>2. RecordOutcome(failures[e], frame[r].current, status)[m] = failures[e][m]
        BY <2>1, <3>1, <3>3, <4>1, RecordOutcomeCounts
      <4> QED BY <2>1, <3>2, <3>3, <4>2
    <3>4. CASE e # frame[r].env
      BY <2>1, <3>1, <3>2, <3>4
    <3> QED BY <3>3, <3>4
  <2> QED BY <2>2, <2>3, CountersMove
<1>2. [](TypeInv /\ LoopInv /\ BreakerInv) /\ [][Next]_vars => [][Stays]_vars
  <2> HIDE DEF Stays
  <2> QED BY <1>1, PTL
<1> QED BY <1>2, TypeInvHolds, LoopInvHolds, BreakerInvHolds, PTL
    DEF Spec, UnavailableUntilRestart

-----------------------------------------------------------------------------
(***************************************************************************)
(* The two loops end.                                                      *)
(***************************************************************************)
\* reserve() has a round left while it is in one.
RoundsInv ==
    \A r \in Requests : pc[r] \in {"put", "get"} => frame[r].tries < MaxReserveAttempts

LEMMA RoundsHold == Spec => []RoundsInv
<1>1. Init => RoundsInv
  BY DEF Init, RoundsInv
<1>2. TypeInv /\ RoundsInv /\ [Next]_vars => RoundsInv'
  <2> SUFFICES ASSUME TypeInv, RoundsInv, [Next]_vars, NEW q \in Requests,
                      pc'[q] \in {"put", "get"}
               PROVE  frame'[q].tries < MaxReserveAttempts
    BY DEF RoundsInv
  <2>1. CASE pc'[q] = pc[q] /\ frame'[q] = frame[q]
    BY <2>1 DEF RoundsInv
  <2>2. ASSUME Advance(q) PROVE frame'[q].tries < MaxReserveAttempts
    <3>1. pc \in [Requests -> Points] /\ frame \in [Requests -> Frames \cup {NoFrame}]
      BY DEF TypeInv, SharedOK
    <3>2. CASE PutAccepted(q) \/ PutAnswerLost(q) \/ PutRefused(q)
      BY <3>1, <3>2 DEF PutAccepted, PutAnswerLost, PutRefused, GoTo, RoundsInv
    <3>3. CASE GetVanished(q)
      <4>1. /\ frame[q] \in Frames
            /\ frame'[q] = [frame[q] EXCEPT !.tries = @ + 1, !.stamp = Clock(q)]
            /\ pc'[q] = "put" => frame[q].tries + 1 < MaxReserveAttempts
            /\ pc'[q] \in {"put", "evaluate"}
        BY <3>1, <3>3 DEF GetVanished, GoTo, TypeInv, LocalOK, InFlight
      <4>2. frame'[q].tries = frame[q].tries + 1
        BY <4>1 DEF Frames
      <4> QED BY <4>1, <4>2
    <3>4. ASSUME NEW how, NEW res, End(q, how, res) PROVE FALSE
      BY <3>1, <3>4 DEF End, GoTo
    <3>5. ASSUME Raise(q) PROVE FALSE
      BY <3>1, <3>4, <3>5 DEF Raise, GoTo
    <3>6. CASE ProviderSucceeds(q) \/ \E category \in ProviderErrors : ProviderFails(q, category)
      <4>1. ASSUME NEW status, NEW codes, NEW succeeded, NEW next, pc[q] = "calling",
                   AfterAttempt(q, status, codes, succeeded, next)
            PROVE  pc'[q] \in {"calling", "persist"}
        BY <4>1, AttemptShape
      <4> QED BY <3>6, <4>1 DEF ProviderSucceeds, ProviderFails
    <3>7. CASE EvaluateRoute(q)
      BY <3>7, EvaluateShape
    <3>8. CASE Persist(q) \/ Publish(q)
      BY <3>1, <3>4, <3>8 DEF Persist, Publish, GoTo
    <3>9. CASE CompleteAnswerLost(q) \/ ReleaseAnswerLost(q)
      BY <3>9 DEF CompleteAnswerLost, ReleaseAnswerLost, Resend
    <3> QED BY <2>2, <3>2, <3>3, <3>4, <3>5, <3>6, <3>7, <3>8, <3>9
            DEF Advance, ReserveRaises, GetRejected, GetReplayed, PolicyUnresolved,
                ProviderRaises, PersistRaises, Complete, CompleteRaises, Release
  <2>3. ASSUME NEW r \in Requests, Advance(r) PROVE frame'[q].tries < MaxReserveAttempts
    BY <2>1, <2>2, <2>3, AdvanceConcerns DEF Concerns
  <2>4. ASSUME NEW r \in Requests, NEW e \in Envs, Start(r, e)
        PROVE  frame'[q].tries < MaxReserveAttempts
    <3>1. /\ q = r => frame'[q].tries = 0
          /\ q # r => pc'[q] = pc[q] /\ frame'[q] = frame[q]
      BY <2>4 DEF Start, GoTo, NewFrame, TypeInv, SharedOK
    <3> QED BY <2>1, <3>1 DEF MaxReserveAttempts
  <2>5. ASSUME NEW e \in Envs, Kill(e) PROVE frame'[q].tries < MaxReserveAttempts
    BY <2>1, <2>5 DEF Kill
  <2>6. CASE UNCHANGED << pc, frame >>
    BY <2>1, <2>6
  <2> QED BY <2>3, <2>4, <2>5, <2>6 DEF Next, TtlSweep, Replicate, Tick, vars
<1> QED BY <1>1, <1>2, TypeInvHolds, PTL DEF Spec

\* What is left at each point, and after the step.
LEMMA LeftNow ==
    ASSUME NEW r \in Requests
    PROVE  /\ pc[r] = "put" =>
                 StepsLeft(r) = CallsAllowed(r) + 5 + 2 * (MaxReserveAttempts - frame[r].tries)
           /\ pc[r] = "get" =>
                 StepsLeft(r) = CallsAllowed(r) + 4 + 2 * (MaxReserveAttempts - frame[r].tries)
           /\ pc[r] = "evaluate" => StepsLeft(r) = CallsAllowed(r) + 5
           /\ pc[r] = "calling" => StepsLeft(r) = CallsAllowed(r) + 4 - Len(frame[r].attempts)
           /\ pc[r] = "persist" => StepsLeft(r) = 4
           /\ pc[r] = "publish" => StepsLeft(r) = 3
           /\ pc[r] \in {"complete", "release"} =>
                 StepsLeft(r) = IF frame[r].resending THEN 1 ELSE 2
           /\ pc[r] = "done" => StepsLeft(r) = 0
BY DEF StepsLeft

LEMMA LeftNext ==
    ASSUME NEW r \in Requests
    PROVE  /\ pc'[r] = "put" =>
                 StepsLeft(r)' = CallsAllowed(r) + 5 + 2 * (MaxReserveAttempts - frame'[r].tries)
           /\ pc'[r] = "get" =>
                 StepsLeft(r)' = CallsAllowed(r) + 4 + 2 * (MaxReserveAttempts - frame'[r].tries)
           /\ pc'[r] = "evaluate" => StepsLeft(r)' = CallsAllowed(r) + 5
           /\ pc'[r] = "calling" => StepsLeft(r)' = CallsAllowed(r) + 4 - Len(frame'[r].attempts)
           /\ pc'[r] = "persist" => StepsLeft(r)' = 4
           /\ pc'[r] = "publish" => StepsLeft(r)' = 3
           /\ pc'[r] \in {"complete", "release"} =>
                 StepsLeft(r)' = IF frame'[r].resending THEN 1 ELSE 2
           /\ pc'[r] = "done" => StepsLeft(r)' = 0
<1>1. CallsAllowed(r)' = CallsAllowed(r) /\ MaxReserveAttempts' = MaxReserveAttempts
  BY DEF CallsAllowed, Policy, Request, MaxReserveAttempts
<1> QED BY <1>1 DEF StepsLeft

\* The calls a policy allows.
LEMMA CallsAllowedType ==
    ASSUME NEW r \in Requests
    PROVE  /\ CallsAllowed(r) \in Nat
           /\ Policy(r) # NoPolicy => CallsAllowed(r) = Policy(r).maximum_attempts
<1>1. Policy(r) # NoPolicy => Policy(r).maximum_attempts \in Nat
  BY RequestAssumption DEF Policy, Request, ValidPolicy
<1> QED BY <1>1 DEF CallsAllowed

\* A request in flight has a step left, and three before its last table call.
LEMMA InFlightLeft ==
    ASSUME TypeInv, LoopInv, RoundsInv, NEW r \in Requests, InFlight(r)
    PROVE  /\ frame[r].tries \in Nat /\ frame[r].attempts \in Seq(Attempts)
           /\ Len(frame[r].attempts) \in Nat
           /\ pc[r] \in {"put", "get"} => frame[r].tries < MaxReserveAttempts
           /\ pc[r] = "calling" => Len(frame[r].attempts) < CallsAllowed(r)
           /\ StepsLeft(r) \in Nat /\ StepsLeft(r) > 0
           /\ pc[r] # "release" /\ pc[r] # "complete" => StepsLeft(r) > 2
<1>1. frame[r] \in Frames
  BY InFlightFacts
<1>2. /\ frame[r].tries \in Nat /\ frame[r].attempts \in Seq(Attempts)
      /\ Len(frame[r].attempts) \in Nat
      /\ pc[r] \in {"put", "get"} => frame[r].tries < MaxReserveAttempts
  BY <1>1 DEF Frames, RoundsInv
<1>3. MaxReserveAttempts \in Nat /\ CallsAllowed(r) \in Nat
  BY CallsAllowedType DEF MaxReserveAttempts
<1>4. pc[r] = "calling" => Len(frame[r].attempts) < CallsAllowed(r)
  BY CallingFacts, CallsAllowedType DEF Chained
<1>5. /\ StepsLeft(r) \in Nat /\ StepsLeft(r) > 0
      /\ pc[r] # "release" /\ pc[r] # "complete" => StepsLeft(r) > 2
  <2>1. CASE pc[r] = "put"
    <3>1. StepsLeft(r) = CallsAllowed(r) + 5 + 2 * (MaxReserveAttempts - frame[r].tries)
      BY <2>1, LeftNow
    <3> QED BY <1>2, <1>3, <2>1, <3>1
  <2>2. CASE pc[r] = "get"
    <3>1. StepsLeft(r) = CallsAllowed(r) + 4 + 2 * (MaxReserveAttempts - frame[r].tries)
      BY <2>2, LeftNow
    <3> QED BY <1>2, <1>3, <2>2, <3>1
  <2>3. CASE pc[r] = "calling"
    <3>1. StepsLeft(r) = CallsAllowed(r) + 4 - Len(frame[r].attempts)
      BY <2>3, LeftNow
    <3> QED BY <1>2, <1>3, <1>4, <2>3, <3>1
  <2>4. CASE pc[r] \in {"evaluate", "persist", "publish", "complete", "release"}
    BY <1>3, <2>4, LeftNow
  <2> QED BY <2>1, <2>2, <2>3, <2>4 DEF InFlight, Invoking, InvokingPoints
<1> QED BY <1>2, <1>4, <1>5

\* A step of the code serving r that moves it brings it closer to its end.
LEMMA AdvanceShrinks ==
    ASSUME TypeInv, LoopInv, RoundsInv, NEW r \in Requests, Advance(r), Moves(r)
    PROVE  0 <= StepsLeft(r)' /\ StepsLeft(r)' < StepsLeft(r)
<1>1. /\ pc \in [Requests -> Points] /\ frame \in [Requests -> Frames \cup {NoFrame}]
      /\ InFlight(r) /\ frame[r] \in Frames
  BY AdvanceConcerns, InFlightFacts DEF Concerns, TypeInv, SharedOK
<1>2. /\ frame[r].tries \in Nat /\ frame[r].attempts \in Seq(Attempts)
      /\ Len(frame[r].attempts) \in Nat
      /\ pc[r] \in {"put", "get"} => frame[r].tries < MaxReserveAttempts
  BY <1>1, InFlightLeft
<1>3. MaxReserveAttempts \in Nat /\ CallsAllowed(r) \in Nat
  BY CallsAllowedType DEF MaxReserveAttempts
<1>4. pc[r] = "calling" => Len(frame[r].attempts) < CallsAllowed(r)
  BY <1>1, InFlightLeft
<1>5. /\ StepsLeft(r) \in Nat /\ StepsLeft(r) > 0
      /\ pc[r] # "release" /\ pc[r] # "complete" => StepsLeft(r) > 2
  BY <1>1, InFlightLeft
<1>6. CASE pc'[r] = "done"
  BY <1>5, <1>6, LeftNext
<1>7. ASSUME NEW how, NEW res, End(r, how, res) PROVE pc'[r] = "done"
  BY <1>1, <1>7 DEF End, GoTo
<1>8. ASSUME pc[r] # "release", pc[r] # "complete", Raise(r)
      PROVE  0 <= StepsLeft(r)' /\ StepsLeft(r)' < StepsLeft(r)
  <2>1. pc'[r] = "done" \/ pc'[r] = "release"
    BY <1>1, <1>7, <1>8 DEF Raise, GoTo
  <2> QED BY <1>5, <1>6, <1>8, <2>1, LeftNext
<1>9. CASE PutAccepted(r) \/ PutRefused(r)
  <2>1. pc[r] = "put" /\ pc'[r] \in {"evaluate", "get"} /\ frame' = frame
    BY <1>1, <1>9 DEF PutAccepted, PutRefused, GoTo
  <2> QED BY <1>2, <1>3, <2>1, LeftNow, LeftNext
<1>10. CASE PutAnswerLost(r)
  BY <1>10 DEF PutAnswerLost, Moves
<1>11. CASE GetVanished(r)
  <2>1. /\ pc[r] = "get" /\ pc'[r] \in {"put", "evaluate"}
        /\ frame'[r] = [frame[r] EXCEPT !.tries = @ + 1, !.stamp = Clock(r)]
    BY <1>1, <1>11 DEF GetVanished, GoTo
  <2>2. /\ frame'[r].tries = frame[r].tries + 1
        /\ pc'[r] = "put" => frame[r].tries + 1 < MaxReserveAttempts
    BY <1>1, <1>11, <2>1 DEF GetVanished, GoTo, Frames
  <2>3. StepsLeft(r) = CallsAllowed(r) + 4 + 2 * (MaxReserveAttempts - frame[r].tries)
    BY <2>1, LeftNow
  <2>4. CASE pc'[r] = "put"
    <3>1. StepsLeft(r)' = CallsAllowed(r) + 5 + 2 * (MaxReserveAttempts - frame'[r].tries)
      BY <2>4, LeftNext
    <3>2. frame'[r].tries = frame[r].tries + 1 /\ frame[r].tries + 1 < MaxReserveAttempts
      BY <2>2, <2>4
    <3>3. frame[r].tries \in Nat
      BY <1>2
    <3> QED BY <1>3, <2>3, <3>1, <3>2, <3>3
  <2>5. CASE pc'[r] = "evaluate"
    <3>1. StepsLeft(r)' = CallsAllowed(r) + 5
      BY <2>5, LeftNext
    <3> QED BY <1>2, <1>3, <2>1, <2>3, <3>1
  <2> QED BY <2>1, <2>4, <2>5
<1>12. CASE EvaluateRoute(r)
  <2>1. pc[r] = "evaluate" /\ pc'[r] \in {"persist", "calling"}
    BY <1>12, EvaluateShape DEF EvaluateRoute
  <2>2. pc'[r] = "calling" => Len(frame'[r].attempts) = 0
    <3>1. frame[r].attempts = << >>
      BY <2>1 DEF LoopInv, LoopOK
    <3>2. PICK d \in Decisions :
            pc'[r] = "calling" =>
                frame'[r] = [frame[r] EXCEPT !.decision = d,
                                !.current = NextCandidate(d, Policy(r), << >>)]
      BY <1>12, EvaluateShape
    <3>3. pc'[r] = "calling" => frame'[r].attempts = frame[r].attempts
      BY <1>1, <3>2 DEF Frames
    <3> QED BY <3>1, <3>3
  <2> QED BY <1>3, <2>1, <2>2, LeftNow, LeftNext
<1>13. CASE ProviderSucceeds(r) \/ \E category \in ProviderErrors : ProviderFails(r, category)
  <2>1. PICK status, codes, succeeded, next :
           pc[r] = "calling" /\ AfterAttempt(r, status, codes, succeeded, next)
    BY <1>13 DEF ProviderSucceeds, ProviderFails
  <2> DEFINE atts == Append(frame[r].attempts, Attempt(frame[r].current, status))
  <2>2. \/ pc'[r] = "calling" /\ frame'[r].attempts = atts
        \/ pc'[r] = "persist"
    BY <2>1, AttemptShape
  <2>3. Len(atts) = Len(frame[r].attempts) + 1
    BY <1>2
  <2> HIDE DEF atts
  <2> QED BY <1>2, <1>3, <1>4, <2>1, <2>2, <2>3, LeftNow, LeftNext
<1>14. CASE Persist(r) \/ Publish(r)
  <2>1. \/ pc[r] = "persist" /\ pc'[r] = "publish"
        \/ pc[r] = "publish" /\ (pc'[r] = "complete" \/ pc'[r] = "done")
    BY <1>1, <1>7, <1>14 DEF Persist, Publish, GoTo
  <2> QED BY <2>1, LeftNow, LeftNext
<1>15. CASE PolicyUnresolved(r) \/ ProviderRaises(r) \/ PersistRaises(r)
  BY <1>8, <1>15 DEF PolicyUnresolved, ProviderRaises, PersistRaises
<1>16. CASE ReserveRaises(r) \/ GetRejected(r) \/ GetReplayed(r)
            \/ Complete(r) \/ CompleteRaises(r) \/ Release(r)
  BY <1>6, <1>7, <1>16
     DEF ReserveRaises, GetRejected, GetReplayed, Complete, CompleteRaises, Release
<1>17. CASE CompleteAnswerLost(r) \/ ReleaseAnswerLost(r)
  <2>1. /\ pc[r] \in {"complete", "release"} /\ pc'[r] = pc[r]
        /\ frame'[r] = [frame[r] EXCEPT !.resending = TRUE]
    BY <1>1, <1>17 DEF CompleteAnswerLost, ReleaseAnswerLost, Resend
  <2>2. frame'[r].resending = TRUE
    BY <1>1, <2>1 DEF Frames
  <2>3. ASSUME frame[r].resending PROVE frame'[r] = frame[r]
    <3>1. frame[r].resending = TRUE
      BY <1>1, <2>3 DEF Frames
    <3>2. frame[r] = [frame[r] EXCEPT !.resending = frame[r].resending]
      BY <1>1 DEF Frames
    <3> QED BY <2>1, <3>1, <3>2
  <2>4. ~frame[r].resending
    BY <2>1, <2>3 DEF Moves
  <2>5. StepsLeft(r) = 2
    BY <2>1, <2>4, LeftNow
  <2>6. pc'[r] \in {"complete", "release"}
    BY <2>1
  <2>7. StepsLeft(r)' = 1
    BY <2>2, <2>6, LeftNext
  <2> QED BY <2>5, <2>7
<1> QED BY <1>9, <1>10, <1>11, <1>12, <1>13, <1>14, <1>15, <1>16, <1>17 DEF Advance

\* invoke() as a whole, for any policy: of the steps a request can still take there
\* are fewer after every one it takes, whatever the tables and the providers answer
\* and whenever its environment is killed.  The reserve loop and the fallback loop
\* are bounded, and a request that keeps moving ends.
THEOREM BothLoopsEnd == Spec => WorkShrinks
<1> DEFINE Shrinks == \A r \in Requests : InFlight(r) /\ Moves(r) =>
                         0 <= StepsLeft(r)' /\ StepsLeft(r)' < StepsLeft(r)
<1>1. TypeInv /\ LoopInv /\ RoundsInv /\ [Next]_vars => Shrinks
  <2> SUFFICES ASSUME TypeInv, LoopInv, RoundsInv, [Next]_vars,
                      NEW q \in Requests, InFlight(q), Moves(q)
               PROVE  0 <= StepsLeft(q)' /\ StepsLeft(q)' < StepsLeft(q)
    OBVIOUS
  <2>1. ASSUME NEW r \in Requests, Advance(r)
        PROVE  0 <= StepsLeft(q)' /\ StepsLeft(q)' < StepsLeft(q)
    <3>1. q = r
      BY <2>1, AdvanceConcerns DEF Concerns, Moves
    <3> QED BY <2>1, <3>1, AdvanceShrinks
  <2>2. ASSUME NEW e \in Envs, Kill(e)
        PROVE  0 <= StepsLeft(q)' /\ StepsLeft(q)' < StepsLeft(q)
    <3>1. pc'[q] = "done"
      BY <2>2 DEF Kill, Moves
    <3>2. StepsLeft(q) > 0
      BY InFlightLeft
    <3> QED BY <3>1, <3>2, LeftNext
  <2>3. ASSUME NEW r \in Requests, NEW e \in Envs, Start(r, e) PROVE FALSE
    <3>1. q # r
      BY <2>3 DEF Start, InFlight, Invoking, InvokingPoints
    <3> QED BY <2>3, <3>1 DEF Start, GoTo, Moves, TypeInv, SharedOK
  <2>4. CASE UNCHANGED << pc, frame >>
    BY <2>4 DEF Moves
  <2> QED BY <2>1, <2>2, <2>3, <2>4 DEF Next, TtlSweep, Replicate, Tick, vars
<1>2. [](TypeInv /\ LoopInv /\ RoundsInv) /\ [][Next]_vars => [][Shrinks]_vars
  <2> HIDE DEF Shrinks
  <2> QED BY <1>1, PTL
<1> QED BY <1>2, TypeInvHolds, LoopInvHolds, RoundsHold, PTL DEF Spec, WorkShrinks

-----------------------------------------------------------------------------
(***************************************************************************)
(* Repeats of complete() and release().                                    *)
(***************************************************************************)
\* Only complete() and release() are sent again without a condition.
ResendInv ==
    \A r \in Requests : InFlight(r) /\ frame[r].resending => pc[r] \in {"complete", "release"}

\* What complete() or release() of r writes.
Written(r) ==
    IF pc[r] = "complete"
    THEN Completion(Request(r).hash, frame[r].result, frame[r].stamp,
                    Policy(r).allow_response_caching, Policy(r).retention_seconds)
    ELSE Released

\* A step after which complete() or release() is to be sent again.
LEMMA ResendSteps ==
    ASSUME TypeInv, ResendInv, NEW q \in Requests, Advance(q), InFlight(q)', frame'[q].resending
    PROVE  CompleteAnswerLost(q) \/ ReleaseAnswerLost(q)
<1>1. /\ pc \in [Requests -> Points] /\ frame \in [Requests -> Frames \cup {NoFrame}]
      /\ InFlight(q) /\ frame[q] \in Frames /\ pc'[q] # "done"
  BY AdvanceConcerns, InFlightFacts
     DEF Concerns, TypeInv, SharedOK, InFlight, Invoking, InvokingPoints
<1>2. ASSUME frame'[q].resending = frame[q].resending, pc[q] \notin {"complete", "release"}
      PROVE  FALSE
  BY <1>1, <1>2 DEF ResendInv
<1>3. ASSUME NEW how, NEW res, End(q, how, res) PROVE FALSE
  BY <1>1, <1>3 DEF End, GoTo
<1>4. ASSUME Raise(q), pc[q] \notin {"complete", "release"} PROVE FALSE
  BY <1>2, <1>3, <1>4 DEF Raise
<1>5. CASE PutAccepted(q) \/ PutAnswerLost(q) \/ PutRefused(q) \/ Persist(q)
  BY <1>2, <1>5 DEF PutAccepted, PutAnswerLost, PutRefused, Persist
<1>6. CASE GetVanished(q)
  <2>1. frame'[q] = [frame[q] EXCEPT !.tries = @ + 1, !.stamp = Clock(q)] /\ pc[q] = "get"
    BY <1>1, <1>6 DEF GetVanished
  <2> QED BY <1>1, <1>2, <2>1 DEF Frames
<1>7. CASE EvaluateRoute(q)
  <2>1. PICK d, m, res :
           \/ frame' = [frame EXCEPT ![q].decision = d, ![q].result = res]
           \/ frame' = [frame EXCEPT ![q].decision = d, ![q].current = m]
    BY <1>7, Zenon DEF EvaluateRoute
  <2>2. CASE frame' = [frame EXCEPT ![q].decision = d, ![q].result = res]
    BY <1>1, <1>2, <1>7, <2>2 DEF EvaluateRoute, Frames
  <2>3. CASE frame' = [frame EXCEPT ![q].decision = d, ![q].current = m]
    BY <1>1, <1>2, <1>7, <2>3 DEF EvaluateRoute, Frames
  <2> QED BY <2>1, <2>2, <2>3
<1>8. CASE ProviderSucceeds(q) \/ \E category \in ProviderErrors : ProviderFails(q, category)
  <2>1. PICK status, codes, succeeded, next :
           pc[q] = "calling" /\ AfterAttempt(q, status, codes, succeeded, next)
    BY <1>8 DEF ProviderSucceeds, ProviderFails
  <2>2. PICK atts, m, res :
           \/ frame' = [frame EXCEPT ![q].attempts = atts, ![q].extra = codes, ![q].current = m]
           \/ frame' = [frame EXCEPT ![q].attempts = atts, ![q].extra = codes, ![q].result = res]
    BY <2>1, Zenon DEF AfterAttempt
  <2>3. frame'[q].resending = frame[q].resending
    <3>1. CASE frame' = [frame EXCEPT ![q].attempts = atts, ![q].extra = codes,
                                      ![q].current = m]
      BY <1>1, <3>1 DEF Frames
    <3>2. CASE frame' = [frame EXCEPT ![q].attempts = atts, ![q].extra = codes,
                                      ![q].result = res]
      BY <1>1, <3>2 DEF Frames
    <3> QED BY <2>2, <3>1, <3>2
  <2> QED BY <1>2, <2>1, <2>3
<1>9. CASE Publish(q)
  <2>1. pc[q] = "publish" /\ frame'[q] = [frame[q] EXCEPT !.stamp = Clock(q)]
    BY <1>1, <1>3, <1>9 DEF Publish
  <2> QED BY <1>1, <1>2, <2>1 DEF Frames
<1> QED BY <1>3, <1>4, <1>5, <1>6, <1>7, <1>8, <1>9
        DEF Advance, ReserveRaises, GetRejected, GetReplayed, PolicyUnresolved,
            ProviderRaises, PersistRaises, Complete, CompleteRaises, Release

LEMMA ResendHolds == Spec => []ResendInv
<1>1. Init => ResendInv
  BY DEF Init, ResendInv, InFlight, Invoking, InvokingPoints
<1>2. TypeInv /\ ResendInv /\ [Next]_vars => ResendInv'
  <2> SUFFICES ASSUME TypeInv, ResendInv, [Next]_vars, NEW q \in Requests,
                      InFlight(q)', frame'[q].resending,
                      pc'[q] \notin {"complete", "release"}
               PROVE  FALSE
    BY DEF ResendInv
  <2>1. CASE pc'[q] = pc[q] /\ frame'[q] = frame[q]
    BY <2>1 DEF ResendInv, InFlight, Invoking
  <2>2. ASSUME Advance(q) PROVE FALSE
    BY <2>2, ResendSteps DEF CompleteAnswerLost, ReleaseAnswerLost, Resend
  <2>3. ASSUME NEW r \in Requests, Advance(r) PROVE FALSE
    BY <2>1, <2>2, <2>3, AdvanceConcerns DEF Concerns
  <2>4. ASSUME NEW r \in Requests, NEW e \in Envs, Start(r, e) PROVE FALSE
    <3>1. /\ q = r => frame'[q].resending = FALSE
          /\ q # r => pc'[q] = pc[q] /\ frame'[q] = frame[q]
      BY <2>4 DEF Start, GoTo, NewFrame, TypeInv, SharedOK
    <3> QED BY <2>1, <3>1
  <2>5. ASSUME NEW e \in Envs, Kill(e) PROVE FALSE
    BY <2>1, <2>5 DEF Kill, InFlight, Invoking, InvokingPoints
  <2>6. CASE UNCHANGED << pc, frame >>
    BY <2>1, <2>6
  <2> QED BY <2>3, <2>4, <2>5, <2>6 DEF Next, TtlSweep, Replicate, Tick, vars
<1> QED BY <1>1, <1>2, TypeInvHolds, PTL DEF Spec

\* The same write again: what is to be written does not change.
LEMMA ResendWrites ==
    ASSUME TypeInv, NEW r \in Requests, CompleteAnswerLost(r) \/ ReleaseAnswerLost(r)
    PROVE  /\ WriteItem(r, Written(r)) /\ pc' = pc /\ Written(r)' = Written(r)
           /\ frame'[r].result = frame[r].result /\ frame'[r].stamp = frame[r].stamp
<1>1. InFlight(r) /\ frame \in [Requests -> Frames \cup {NoFrame}] /\ frame[r] \in Frames
  BY InFlightFacts DEF CompleteAnswerLost, ReleaseAnswerLost, TypeInv, SharedOK, InFlight,
                       Invoking, InvokingPoints
<1>2. frame'[r] = [frame[r] EXCEPT !.resending = TRUE] /\ pc' = pc
  BY <1>1 DEF CompleteAnswerLost, ReleaseAnswerLost, Resend
<1>3. frame'[r].result = frame[r].result /\ frame'[r].stamp = frame[r].stamp
  BY <1>1, <1>2 DEF Frames
<1>4. Written(r)' = Written(r)
  BY <1>2, <1>3 DEF Written, Request, Policy
<1>5. WriteItem(r, Written(r))
  BY DEF CompleteAnswerLost, ReleaseAnswerLost, WriteCompletion, Written
<1> QED BY <1>2, <1>3, <1>4, <1>5

\* The calls of complete() and release(), and what they leave of the table.
LEMMA WriteFacts ==
    ASSUME TypeInv, NEW r \in Requests,
           \/ Complete(r) \/ CompleteRaises(r) \/ CompleteAnswerLost(r)
           \/ Release(r) \/ ReleaseAnswerLost(r)
    PROVE  /\ pc[r] \in {"complete", "release"} /\ HasKey(r) /\ ItemKey(r) \in ItemKeys
           /\ UNCHANGED << table, unguarding >> \/ WriteItem(r, Written(r))
<1>1. pc[r] \in {"complete", "release"} /\ HasKey(r)
  BY DEF Complete, CompleteRaises, CompleteAnswerLost, Release, ReleaseAnswerLost, TypeInv,
         LocalOK
<1>2. ItemKey(r) \in ItemKeys
  BY <1>1, KeyedItemKey
<1>3. CASE pc[r] = "complete"
  <2>1. Written(r) = Completion(Request(r).hash, frame[r].result, frame[r].stamp,
                         Policy(r).allow_response_caching, Policy(r).retention_seconds)
    BY <1>3 DEF Written
  <2> QED BY <1>1, <1>2, <1>3, <2>1
         DEF Complete, CompleteRaises, CompleteAnswerLost, Release, ReleaseAnswerLost,
             WriteCompletion
<1>4. CASE pc[r] = "release"
  BY <1>1, <1>2, <1>4
     DEF Complete, CompleteRaises, CompleteAnswerLost, Release, ReleaseAnswerLost, Written
<1> QED BY <1>1, <1>3, <1>4

-----------------------------------------------------------------------------
(***************************************************************************)
(* Results.                                                                *)
(***************************************************************************)
\* Somebody has sent this content under this key.
Asked(k, hash) ==
    \E q \in Requests : pc[q] # "idle" /\ ItemKey(q) = k /\ Request(q).hash = hash

\* A request whose complete() is written, or that is over.
Over(r) == pc[r] = "done" \/ (pc[r] = "complete" /\ frame[r].resending)

\* res is the audited result of a request with this key and content that is over
\* and whose application caches responses.
Audited(res, k, hash) ==
    \E origin \in Requests :
        /\ res \in InferenceResults /\ res.decision.decision_id = origin
        /\ Over(origin) /\ audit[origin] = AuditRecord(res)
        /\ ItemKey(origin) = k /\ Request(origin).hash = hash
        /\ Policy(origin).allow_response_caching

\* What an item of the table, or of a copy of it, stands for.
Sound(k, item) ==
    item # NoItem =>
        /\ Asked(k, item.hash)
        /\ item.status = "completed" => Audited(item.result, k, item.hash)

\* The result a request works on is its own; past _persist it is audited.
OwnResult(r) ==
    /\ pc[r] = "calling" => frame[r].decision.decision_id = r
    /\ pc[r] \in {"persist", "publish", "complete"} => frame[r].result.decision.decision_id = r
    /\ pc[r] \in {"publish", "complete"} => audit[r] = AuditRecord(frame[r].result)

\* What a request took away.
Reported(r) ==
    /\ outcome[r] = "none" <=> pc[r] # "done"
    /\ outcome[r] = "ok" =>
          returned[r].decision.decision_id = r /\ audit[r] = AuditRecord(returned[r])
    /\ outcome[r] = "replayed" =>
          /\ Audited(returned[r], ItemKey(r), Request(r).hash)
          /\ returned[r].decision.decision_id # r

AuditInv ==
    /\ \A k \in ItemKeys : Sound(k, table[k]) /\ Sound(k, replica[k])
    /\ \A r \in Requests : OwnResult(r) /\ Reported(r)
    /\ \A r \in events : audit[r] # NoRecord

-----------------------------------------------------------------------------
(***************************************************************************)
(* The past is not rewritten.                                              *)
(***************************************************************************)
\* A request that was sent stays sent, and one that is over keeps its answer and,
\* from complete() on, its audit record.
Kept(q) ==
    /\ pc[q] # "idle" => pc'[q] # "idle"
    /\ pc[q] = "done" =>
          /\ pc'[q] = "done" /\ outcome'[q] = outcome[q] /\ returned'[q] = returned[q]
          /\ audit'[q] = audit[q]
    /\ Over(q) => Over(q)' /\ audit'[q] = audit[q]

\* Where a step of the code serving r can lead.
LEMMA AdvancePoints ==
    ASSUME TypeInv, NEW r \in Requests, Advance(r)
    PROVE  /\ pc'[r] # "idle"
           /\ pc[r] = "complete" => Over(r)' /\ audit' = audit
<1>1. pc \in [Requests -> Points] /\ TypeInv
  BY DEF TypeInv, SharedOK
<1>2. ASSUME NEW how, NEW res, End(r, how, res) PROVE pc'[r] = "done"
  BY <1>1, <1>2 DEF End, GoTo
<1>3. ASSUME Raise(r) PROVE pc'[r] \in {"release", "done"}
  BY <1>1, <1>2, <1>3 DEF Raise, GoTo
<1>4. ASSUME NEW status, NEW codes, NEW succeeded, NEW next, pc[r] = "calling",
             AfterAttempt(r, status, codes, succeeded, next)
      PROVE  pc'[r] \in {"calling", "persist"}
  BY <1>1, <1>4, AttemptShape
<1>5. CASE PutAccepted(r) \/ PutAnswerLost(r) \/ PutRefused(r) \/ GetVanished(r)
  BY <1>1, <1>5 DEF PutAccepted, PutAnswerLost, PutRefused, GetVanished, GoTo
<1>6. CASE ReserveRaises(r) \/ GetRejected(r) \/ GetReplayed(r)
           \/ Complete(r) \/ CompleteRaises(r) \/ Release(r)
  BY <1>2, <1>6
     DEF ReserveRaises, GetRejected, GetReplayed, Complete, CompleteRaises, Release, Over
<1>7. CASE EvaluateRoute(r)
  BY <1>7, EvaluateShape DEF EvaluateRoute
<1>8. CASE PolicyUnresolved(r) \/ ProviderRaises(r) \/ PersistRaises(r)
  BY <1>3, <1>8 DEF PolicyUnresolved, ProviderRaises, PersistRaises
<1>9. CASE ProviderSucceeds(r) \/ \E category \in ProviderErrors : ProviderFails(r, category)
  BY <1>4, <1>9 DEF ProviderSucceeds, ProviderFails
<1>10. CASE Persist(r)
  BY <1>1, <1>10 DEF Persist, GoTo
<1>11. CASE Publish(r)
  BY <1>1, <1>2, <1>11 DEF Publish, GoTo
<1>12. CASE CompleteAnswerLost(r) \/ ReleaseAnswerLost(r)
  <2>1. pc' = pc /\ audit' = audit /\ (pc[r] \in {"complete", "release"})
    BY <1>12 DEF CompleteAnswerLost, ReleaseAnswerLost, Resend
  <2>2. frame'[r] = [frame[r] EXCEPT !.resending = TRUE] /\ frame[r] \in Frames
    BY <1>1, <1>12, <2>1, InFlightFacts
       DEF CompleteAnswerLost, ReleaseAnswerLost, Resend, TypeInv, SharedOK, InFlight, Invoking,
           InvokingPoints
  <2>3. frame'[r].resending = TRUE
    BY <2>2 DEF Frames
  <2> QED BY <2>1, <2>3 DEF Over
<1> QED BY <1>5, <1>6, <1>7, <1>8, <1>9, <1>10, <1>11, <1>12 DEF Advance

LEMMA NothingRewritten ==
    ASSUME TypeInv, [Next]_vars, NEW q \in Requests
    PROVE  Kept(q)
<1>1. ASSUME NEW r \in Requests, Advance(r) PROVE Kept(q)
  <2>1. CASE q = r
    BY <1>1, <2>1, AdvancePoints, AdvanceConcerns
       DEF Kept, Over, Concerns, InFlight, Invoking, InvokingPoints
  <2>2. CASE q # r
    BY <1>1, <2>2, AdvanceConcerns DEF Kept, Over, Concerns
  <2> QED BY <2>1, <2>2
<1>2. ASSUME NEW r \in Requests, NEW e \in Envs, Start(r, e) PROVE Kept(q)
  BY <1>2 DEF Start, GoTo, Kept, Over, TypeInv, SharedOK
<1>3. ASSUME NEW e \in Envs, Kill(e) PROVE Kept(q)
  BY <1>3 DEF Kill, Kept, Over, Serving, InFlight, Invoking, InvokingPoints
<1>4. CASE UNCHANGED << pc, frame, outcome, returned, audit >>
  BY <1>4 DEF Kept, Over
<1> QED BY <1>1, <1>2, <1>3, <1>4 DEF Next, TtlSweep, Replicate, Tick, vars

\* What was audited stays audited, and so items keep what they stand for.
LEMMA SoundStays ==
    ASSUME TypeInv, [Next]_vars
    PROVE  /\ \A k, hash : Asked(k, hash) => Asked(k, hash)'
           /\ \A res, k, hash : Audited(res, k, hash) => Audited(res, k, hash)'
           /\ \A k, item : Sound(k, item) => Sound(k, item)'
<1>1. \A q \in Requests : Kept(q)
  BY NothingRewritten
<1>2. ASSUME NEW k, NEW hash, Asked(k, hash) PROVE Asked(k, hash)'
  BY <1>1, <1>2 DEF Asked, Kept, ItemKey, Request
<1>3. ASSUME NEW res, NEW k, NEW hash, Audited(res, k, hash) PROVE Audited(res, k, hash)'
  BY <1>1, <1>3 DEF Audited, Kept, ItemKey, Request, Policy
<1>4. ASSUME NEW k, NEW item, Sound(k, item) PROVE Sound(k, item)'
  BY <1>2, <1>3, <1>4 DEF Sound
<1> QED BY <1>2, <1>3, <1>4

-----------------------------------------------------------------------------
(***************************************************************************)
(* The items.                                                              *)
(***************************************************************************)
\* What complete() puts into the table is the audited result of the request that
\* calls it, whether it answers, raises or has to be sent again.
LEMMA CompletionSound ==
    ASSUME TypeInv, AuditInv, NEW r \in Requests,
           Complete(r) \/ CompleteRaises(r) \/ CompleteAnswerLost(r), NEW item,
           item = Completion(Request(r).hash, frame[r].result, frame[r].stamp,
                     Policy(r).allow_response_caching, Policy(r).retention_seconds)
    PROVE  Sound(ItemKey(r), item)'
<1>1. /\ pc[r] = "complete" /\ Over(r)' /\ pc'[r] # "idle" /\ audit' = audit
  BY AdvancePoints DEF Complete, CompleteRaises, CompleteAnswerLost, Advance
<1>2. /\ frame[r].result.decision.decision_id = r
      /\ audit[r] = AuditRecord(frame[r].result)
      /\ frame[r].result \in InferenceResults
  BY <1>1 DEF AuditInv, OwnResult, TypeInv, LocalOK
<1>3. item # NoItem => /\ item.hash = Request(r).hash /\ item.result = frame[r].result
                       /\ Policy(r).allow_response_caching
  BY DEF Completion
<1>4. ASSUME item # NoItem PROVE Asked(ItemKey(r), item.hash)'
  BY <1>1, <1>3, <1>4 DEF Asked, ItemKey, Request
<1>5. ASSUME item # NoItem PROVE Audited(item.result, ItemKey(r), item.hash)'
  BY <1>1, <1>2, <1>3, <1>5 DEF Audited, ItemKey, Request, Policy
<1> QED BY <1>4, <1>5 DEF Sound

\* What a reservation stands for: its caller asked.
LEMMA ReservationSound ==
    ASSUME TypeInv, NEW r \in Requests, PutAccepted(r) \/ PutAnswerLost(r), NEW item,
           item = Reservation(Request(r).hash, frame[r].stamp)
    PROVE  Sound(ItemKey(r), item)'
<1>1. pc'[r] # "idle"
  BY AdvancePoints DEF Advance
<1>2. item.hash = Request(r).hash /\ item.status = "in_progress"
  BY DEF Reservation
<1>3. Asked(ItemKey(r), item.hash)'
  BY <1>1, <1>2 DEF Asked, ItemKey, Request
<1> QED BY <1>2, <1>3 DEF Sound

LEMMA StoreSound ==
    ASSUME TypeInv, AuditInv, [Next]_vars, NEW k \in ItemKeys
    PROVE  Sound(k, table[k])' /\ Sound(k, replica[k])'
<1>1. /\ table \in [ItemKeys -> Items \cup {NoItem}]
      /\ replica \in [ItemKeys -> Items \cup {NoItem}]
  BY DEF TypeInv, SharedOK
<1>2. /\ \A item : item = table[k] \/ item = replica[k] \/ item = NoItem => Sound(k, item)'
  BY SoundStays DEF AuditInv, Sound
<1>3. ASSUME NEW r \in Requests, NEW item,
             table' = [table EXCEPT ![ItemKey(r)] = item], Sound(ItemKey(r), item)',
             NEW new, new = table'[k]
      PROVE  Sound(k, new)'
  <2>1. CASE k = ItemKey(r)
    BY <1>1, <1>3, <2>1
  <2>2. CASE k # ItemKey(r)
    BY <1>1, <1>2, <1>3, <2>2
  <2> QED BY <2>1, <2>2
<1>4. ASSUME NEW new, new = table'[k] PROVE Sound(k, new)'
  <2>1. CASE table' = table
    BY <1>2, <1>4, <2>1
  <2>2. ASSUME NEW r \in Requests, PutAccepted(r) \/ PutAnswerLost(r) PROVE Sound(k, new)'
    BY <1>3, <1>4, <2>2, ReservationSound DEF PutAccepted, PutAnswerLost, WriteReservation
  <2>3. ASSUME NEW r \in Requests, Complete(r) \/ CompleteRaises(r) \/ CompleteAnswerLost(r)
        PROVE  Sound(k, new)'
    BY <1>3, <1>4, <2>1, <2>3, CompletionSound
       DEF Complete, CompleteRaises, CompleteAnswerLost, WriteCompletion, WriteItem
  <2>4. ASSUME NEW r \in Requests, Release(r) \/ ReleaseAnswerLost(r) PROVE Sound(k, new)'
    <3>1. new = table[k] \/ new = NoItem
      BY <1>1, <1>4, <2>4 DEF Release, ReleaseAnswerLost, WriteItem, Released
    <3> QED BY <1>2, <3>1
  <2>5. ASSUME NEW k2 \in ItemKeys, TtlSweep(k2) PROVE Sound(k, new)'
    <3>1. new = table[k] \/ new = NoItem
      BY <1>1, <1>4, <2>5 DEF TtlSweep
    <3> QED BY <1>2, <3>1
  <2>6. ASSUME NEW r \in Requests, Advance(r) PROVE Sound(k, new)'
    BY <2>1, <2>2, <2>3, <2>4, <2>6
       DEF Advance, PutRefused, ReserveRaises, GetVanished, GetRejected, GetReplayed,
           EvaluateRoute, PolicyUnresolved, ProviderSucceeds, ProviderRaises, ProviderFails,
           Persist, PersistRaises, Publish
  <2> QED BY <2>1, <2>5, <2>6 DEF Next, Start, Kill, Replicate, Tick, vars
<1>5. ASSUME NEW new, new = replica'[k] PROVE Sound(k, new)'
  <2>1. new = replica[k] \/ new = table[k]
    BY <1>1, <1>5 DEF Next, Advance, PutAccepted, PutAnswerLost, PutRefused, ReserveRaises,
           GetVanished, GetRejected, GetReplayed, EvaluateRoute, PolicyUnresolved,
           ProviderSucceeds, ProviderRaises, ProviderFails, Persist, PersistRaises, Publish,
           Complete, CompleteRaises, Release, CompleteAnswerLost, ReleaseAnswerLost, Resend,
           Start, Kill, TtlSweep, Replicate, Tick, vars
  <2> QED BY <1>2, <2>1
<1> QED BY <1>4, <1>5 DEF Sound, Asked, Audited, Over

-----------------------------------------------------------------------------
(***************************************************************************)
(* The requests.                                                           *)
(***************************************************************************)
\* A request that does not move keeps what is known of it.
LEMMA StillAnswered ==
    ASSUME TypeInv, AuditInv, [Next]_vars, NEW q \in Requests,
           pc'[q] = pc[q], frame'[q] = frame[q], outcome'[q] = outcome[q],
           returned'[q] = returned[q], audit'[q] = audit[q]
    PROVE  OwnResult(q)' /\ Reported(q)'
<1>1. OwnResult(q) /\ Reported(q)
  BY DEF AuditInv
<1>2. ASSUME outcome[q] = "replayed", NEW res, res = returned'[q]
      PROVE  /\ Audited(res, ItemKey(q), Request(q).hash)'
             /\ res.decision.decision_id # q
  BY <1>1, <1>2, SoundStays DEF Reported
<1>3. Reported(q)'
  BY <1>1, <1>2 DEF Reported, Audited, Over, ItemKey, Request
<1> QED BY <1>1, <1>3 DEF OwnResult

\* A request that moves without ending has taken nothing away yet.
LEMMA StillWorking ==
    ASSUME AuditInv, NEW r \in Requests, InFlight(r), pc'[r] # "done", outcome'[r] = outcome[r]
    PROVE  Reported(r)'
<1>1. outcome[r] = "none"
  BY DEF AuditInv, Reported, InFlight, Invoking, InvokingPoints
<1> QED BY <1>1 DEF Reported

\* A request that ends without a result takes nothing away.
LEMMA EndsEmpty ==
    ASSUME TypeInv, NEW r \in Requests, NEW how \in {"error", "conflict", "in_progress"},
           NEW res, End(r, how, res)
    PROVE  OwnResult(r)' /\ Reported(r)'
<1>1. pc'[r] = "done" /\ outcome'[r] = how
  BY DEF End, GoTo, TypeInv, SharedOK
<1> QED BY <1>1 DEF OwnResult, Reported

\* A request that ends with its own, audited result.
LEMMA EndsOwn ==
    ASSUME TypeInv, AuditInv, NEW r \in Requests, pc[r] \in {"publish", "complete"},
           audit' = audit, End(r, "ok", frame[r].result)
    PROVE  OwnResult(r)' /\ Reported(r)'
<1>1. pc'[r] = "done" /\ outcome'[r] = "ok" /\ returned'[r] = frame[r].result
  BY DEF End, GoTo, TypeInv, SharedOK
<1>2. frame[r].result.decision.decision_id = r /\ audit[r] = AuditRecord(frame[r].result)
  BY DEF AuditInv, OwnResult
<1> QED BY <1>1, <1>2 DEF OwnResult, Reported

\* An exception on the way: the request ends empty, or goes on to release().
LEMMA RaisesEmpty ==
    ASSUME TypeInv, AuditInv, NEW r \in Requests, Invoking(r), Raise(r)
    PROVE  OwnResult(r)' /\ Reported(r)'
<1>1. CASE HasKey(r)
  <2>1. pc'[r] = "release" /\ outcome' = outcome /\ InFlight(r)
    BY <1>1 DEF Raise, GoTo, TypeInv, SharedOK, InFlight
  <2> QED BY <2>1, StillWorking DEF OwnResult
<1>2. CASE ~HasKey(r)
  BY <1>2, EndsEmpty DEF Raise
<1> QED BY <1>1, <1>2

\* What get_item returns is the item or a copy of it.
LEMMA ReadableSound ==
    ASSUME TypeInv, AuditInv, NEW r \in Requests, pc[r] = "get", NEW item \in ReadableItems(r)
    PROVE  ItemKey(r) \in ItemKeys /\ Sound(ItemKey(r), item)
<1>1. HasKey(r) /\ ItemKey(r) \in ItemKeys
  BY KeyedItemKey DEF TypeInv, LocalOK
<1> QED BY <1>1 DEF ReadableItems, AuditInv

\* A replayed result is the audited one of another request.
LEMMA ReplayAnswered ==
    ASSUME TypeInv, AuditInv, [Next]_vars, NEW r \in Requests, GetReplayed(r)
    PROVE  OwnResult(r)' /\ Reported(r)'
<1>1. PICK item \in ReadableItems(r) :
         /\ ReadOutcome(item, Request(r).hash) = "completed"
         /\ End(r, "replayed", item.result)
  BY DEF GetReplayed
<1>2. pc[r] = "get" /\ Sound(ItemKey(r), item)
  BY ReadableSound DEF GetReplayed
<1>3. item # NoItem /\ item.hash = Request(r).hash /\ item.status = "completed"
  BY <1>1 DEF ReadOutcome
<1>4. Audited(item.result, ItemKey(r), Request(r).hash)
  BY <1>2, <1>3 DEF Sound
<1>5. item.result.decision.decision_id # r
  BY <1>2, <1>4 DEF Audited, Over
<1>6. /\ pc'[r] = "done" /\ outcome'[r] = "replayed" /\ returned'[r] = item.result
  BY <1>1 DEF End, GoTo, TypeInv, SharedOK
<1>7. ASSUME NEW res, res = item.result PROVE Audited(res, ItemKey(r), Request(r).hash)'
  BY <1>4, <1>7, SoundStays
<1>8. Reported(r)'
  BY <1>5, <1>6, <1>7 DEF Reported, Audited, Over, ItemKey, Request
<1> QED BY <1>6, <1>8 DEF OwnResult

\* One pass of the loop keeps the decision's id.
LEMMA AttemptOwn ==
    ASSUME TypeInv, AuditInv, NEW r \in Requests, pc[r] = "calling", NEW status, NEW codes,
           NEW succeeded, NEW next, AfterAttempt(r, status, codes, succeeded, next)
    PROVE  OwnResult(r)' /\ pc'[r] # "done"
<1> DEFINE f == frame[r]
           D == AggregateDecision(f.decision, succeeded, codes)
           atts == Append(f.attempts, Attempt(f.current, status))
<1>1. f.decision \in Decisions /\ f.decision.decision_id = r
  BY DEF TypeInv, LocalOK, Callable, AuditInv, OwnResult
<1>2. D.decision_id = r
  BY <1>1, AggregateFields
<1>3. InferenceResult(D, succeeded, atts).decision = D
  BY DEF InferenceResult
<1>4. CASE next # NoModel
  BY <1>1, <1>4, AttemptShape DEF OwnResult
<1>5. CASE next = NoModel
  <2>1. pc'[r] = "persist" /\ frame'[r].result = InferenceResult(D, succeeded, atts)
    BY <1>5, AttemptShape
  <2> QED BY <1>2, <1>3, <2>1 DEF OwnResult
<1> QED BY <1>4, <1>5

\* Route evaluation makes a decision of the request's own.
LEMMA EvaluateOwn ==
    ASSUME TypeInv, AuditInv, NEW r \in Requests, EvaluateRoute(r)
    PROVE  OwnResult(r)' /\ pc'[r] # "done"
<1>1. PICK health \in [Models -> ModelHealthStatus], d \in Decisions :
         /\ d = Evaluate(r, Request(r), Policy(r), health)
         /\ \/ /\ pc'[r] = "persist" /\ frame'[r].result = InferenceResult(d, NoModel, << >>)
            \/ /\ pc'[r] = "calling"
               /\ frame'[r] = [frame[r] EXCEPT !.decision = d,
                                  !.current = NextCandidate(d, Policy(r), << >>)]
  BY EvaluateShape
<1>2. Policy(r) # NoPolicy /\ frame[r] \in Frames
  BY DEF EvaluateRoute, TypeInv, LocalOK, InFlight, Invoking, InvokingPoints
<1>3. d.decision_id = r
  BY <1>1, <1>2, EvaluateInContext
<1>4. CASE pc'[r] = "persist"
  BY <1>1, <1>3, <1>4 DEF InferenceResult, OwnResult
<1>5. CASE pc'[r] = "calling"
  <2>1. frame'[r].decision = d
    BY <1>1, <1>2, <1>5 DEF Frames
  <2> QED BY <1>3, <1>5, <2>1 DEF OwnResult
<1> QED BY <1>1, <1>4, <1>5

\* Every step of the code serving r.
LEMMA AdvanceAnswered ==
    ASSUME TypeInv, AuditInv, [Next]_vars, NEW r \in Requests, Advance(r)
    PROVE  OwnResult(r)' /\ Reported(r)'
<1>1. InFlight(r) /\ SharedOK
  BY AdvanceConcerns DEF Concerns, TypeInv
<1>2. CASE PutAccepted(r) \/ PutAnswerLost(r) \/ PutRefused(r) \/ GetVanished(r)
  <2>1. pc'[r] \in {"put", "get", "evaluate"} /\ outcome' = outcome
    BY <1>1, <1>2 DEF PutAccepted, PutAnswerLost, PutRefused, GetVanished, GoTo, SharedOK
  <2> QED BY <1>1, <2>1, StillWorking DEF OwnResult
<1>3. CASE ReserveRaises(r) \/ GetRejected(r) \/ CompleteRaises(r) \/ Release(r)
  BY <1>3, EndsEmpty DEF ReserveRaises, GetRejected, CompleteRaises, Release
<1>4. CASE GetReplayed(r)
  BY <1>4, ReplayAnswered
<1>5. CASE EvaluateRoute(r)
  <2>1. outcome' = outcome
    BY <1>5 DEF EvaluateRoute
  <2> QED BY <1>1, <1>5, <2>1, EvaluateOwn, StillWorking
<1>6. CASE PolicyUnresolved(r) \/ ProviderRaises(r) \/ PersistRaises(r)
  BY <1>6, RaisesEmpty
     DEF PolicyUnresolved, ProviderRaises, PersistRaises, Invoking, InvokingPoints
<1>7. CASE ProviderSucceeds(r) \/ \E category \in ProviderErrors : ProviderFails(r, category)
  <2>1. outcome' = outcome
    BY <1>7 DEF ProviderSucceeds, ProviderFails
  <2>2. OwnResult(r)' /\ pc'[r] # "done"
    BY <1>7, AttemptOwn DEF ProviderSucceeds, ProviderFails
  <2> QED BY <1>1, <2>1, <2>2, StillWorking
<1>8. CASE Persist(r)
  <2>1. /\ pc[r] = "persist" /\ pc'[r] = "publish" /\ UNCHANGED << frame, outcome >>
        /\ audit'[r] = AuditRecord(frame[r].result)
    BY <1>1, <1>8 DEF Persist, WriteAudit, GoTo, SharedOK
  <2>2. frame[r].result.decision.decision_id = r
    BY <2>1 DEF AuditInv, OwnResult
  <2> QED BY <1>1, <2>1, <2>2, StillWorking DEF OwnResult
<1>9. CASE Publish(r)
  <2>1. pc[r] = "publish" /\ audit' = audit
    BY <1>9 DEF Publish
  <2>2. CASE HasKey(r)
    <3>1. /\ pc'[r] = "complete" /\ outcome' = outcome
          /\ frame'[r] = [frame[r] EXCEPT !.stamp = Clock(r)]
      BY <1>1, <1>9, <2>2 DEF Publish, GoTo, SharedOK
    <3>2. OwnResult(r)
      BY DEF AuditInv
    <3>3. frame'[r].result = frame[r].result
      BY <1>1, <3>1, InFlightFacts DEF Frames
    <3> QED BY <1>1, <2>1, <3>1, <3>2, <3>3, StillWorking DEF OwnResult
  <2>3. CASE ~HasKey(r)
    BY <1>9, <2>1, <2>3, EndsOwn DEF Publish
  <2> QED BY <2>2, <2>3
<1>10. CASE Complete(r)
  BY <1>10, EndsOwn DEF Complete
<1>11. CASE CompleteAnswerLost(r) \/ ReleaseAnswerLost(r)
  <2>1. /\ pc[r] \in {"complete", "release"} /\ pc'[r] = pc[r]
        /\ outcome' = outcome /\ audit' = audit
        /\ frame'[r] = [frame[r] EXCEPT !.resending = TRUE]
    BY <1>1, <1>11 DEF CompleteAnswerLost, ReleaseAnswerLost, Resend, SharedOK
  <2>2. OwnResult(r) /\ frame'[r].result = frame[r].result
    BY <1>1, <2>1, InFlightFacts DEF AuditInv, Frames
  <2> QED BY <1>1, <2>1, <2>2, StillWorking DEF OwnResult
<1> QED BY <1>2, <1>3, <1>4, <1>5, <1>6, <1>7, <1>8, <1>9, <1>10, <1>11 DEF Advance

\* An audit record is a record, and is not taken back.
LEMMA RecordsStay ==
    ASSUME TypeInv, [Next]_vars, NEW q \in Requests, audit[q] # NoRecord
    PROVE  audit'[q] # NoRecord
<1>1. ASSUME NEW r \in Requests, pc[r] = "persist", WriteAudit(r) PROVE audit'[q] # NoRecord
  <2>1. frame[r].result \in InferenceResults /\ audit \in [Requests -> AuditRecords \cup {NoRecord}]
    BY <1>1 DEF TypeInv, LocalOK, SharedOK
  <2>2. AuditRecord(frame[r].result) \in AuditRecords
    BY <2>1 DEF AuditRecord, AuditRecords, InferenceResults
  <2> QED BY <1>1, <2>1, <2>2, NoneAssumption DEF WriteAudit
<1>2. CASE audit' = audit
  BY <1>2
<1> QED BY <1>1, <1>2 DEF Next, Advance, PutAccepted, PutAnswerLost, PutRefused,
         ReserveRaises, GetVanished, GetRejected, GetReplayed, EvaluateRoute, PolicyUnresolved,
         ProviderSucceeds, ProviderRaises, ProviderFails, Persist, PersistRaises, Publish,
         Complete, CompleteRaises, Release, CompleteAnswerLost, ReleaseAnswerLost, Resend,
         Start, Kill, TtlSweep, Replicate, Tick, vars

\* _publish_decision_event comes after _persist.
LEMMA EventsAudited ==
    ASSUME TypeInv, AuditInv, [Next]_vars, NEW q \in events'
    PROVE  audit'[q] # NoRecord
<1>1. CASE q \in events
  BY <1>1, RecordsStay DEF AuditInv, TypeInv, SharedOK
<1>2. CASE q \notin events
  <2>1. PICK r \in Requests : Publish(r)
    BY <1>2 DEF Next, Advance, PutAccepted, PutAnswerLost, PutRefused,
         ReserveRaises, GetVanished, GetRejected, GetReplayed, EvaluateRoute, PolicyUnresolved,
         ProviderSucceeds, ProviderRaises, ProviderFails, Persist, PersistRaises,
         Complete, CompleteRaises, Release, CompleteAnswerLost, ReleaseAnswerLost, Resend,
         Start, Kill, TtlSweep, Replicate, Tick, vars
  <2>2. /\ q = r /\ audit' = audit /\ pc[r] = "publish"
    BY <1>2, <2>1 DEF Publish
  <2>3. audit[r] = AuditRecord(frame[r].result) /\ frame[r].result \in InferenceResults
    BY <2>2 DEF AuditInv, OwnResult, TypeInv, LocalOK
  <2>4. AuditRecord(frame[r].result) \in AuditRecords
    BY <2>3 DEF AuditRecord, AuditRecords, InferenceResults
  <2> QED BY <2>2, <2>3, <2>4, NoneAssumption
<1> QED BY <1>1, <1>2

LEMMA AuditStep == TypeInv /\ AuditInv /\ [Next]_vars => AuditInv'
<1> SUFFICES ASSUME TypeInv, AuditInv, [Next]_vars PROVE AuditInv'
  OBVIOUS
<1>1. ASSUME NEW q \in Requests PROVE OwnResult(q)' /\ Reported(q)'
  <2>1. ASSUME NEW r \in Requests, Advance(r) PROVE OwnResult(q)' /\ Reported(q)'
    <3>1. CASE q = r
      BY <2>1, <3>1, AdvanceAnswered
    <3>2. CASE q # r
      BY <2>1, <3>2, AdvanceConcerns, StillAnswered DEF Concerns
    <3> QED BY <3>1, <3>2
  <2>2. ASSUME NEW r \in Requests, NEW e \in Envs, Start(r, e)
        PROVE  OwnResult(q)' /\ Reported(q)'
    <3>1. /\ UNCHANGED << outcome, returned, audit >> /\ pc[r] = "idle"
          /\ pc'[r] \in {"put", "evaluate"}
          /\ q # r => pc'[q] = pc[q] /\ frame'[q] = frame[q]
      BY <2>2 DEF Start, GoTo, TypeInv, SharedOK
    <3>2. CASE q = r
      <4>1. outcome[r] = "none"
        BY <3>1 DEF AuditInv, Reported
      <4> QED BY <3>1, <3>2, <4>1 DEF OwnResult, Reported
    <3>3. CASE q # r
      BY <3>1, <3>3, StillAnswered
    <3> QED BY <3>2, <3>3
  <2>3. ASSUME NEW e \in Envs, Kill(e) PROVE OwnResult(q)' /\ Reported(q)'
    <3>1. CASE Serving(e, q)
      <4>1. pc'[q] = "done" /\ outcome'[q] = "killed"
        BY <2>3, <3>1 DEF Kill
      <4> QED BY <4>1 DEF OwnResult, Reported
    <3>2. CASE ~Serving(e, q)
      BY <2>3, <3>2, StillAnswered DEF Kill
    <3> QED BY <3>1, <3>2
  <2>4. CASE UNCHANGED << pc, frame, outcome, returned, audit >>
    BY <2>4, StillAnswered
  <2> QED BY <2>1, <2>2, <2>3, <2>4 DEF Next, TtlSweep, Replicate, Tick, vars
<1>2. \A k \in ItemKeys : Sound(k, table[k])' /\ Sound(k, replica[k])'
  BY StoreSound
<1>3. \A q \in events' : audit'[q] # NoRecord
  BY EventsAudited
<1> QED BY <1>1, <1>2, <1>3 DEF AuditInv

LEMMA AuditInvHolds == Spec => []AuditInv
<1>1. Init => AuditInv
  BY DEF Init, AuditInv, Sound, OwnResult, Reported
<1> QED BY <1>1, AuditStep, TypeInvHolds, PTL DEF Spec

\* _persist before every return and every publish, in every interleaving: no client
\* and no event ever shows a decision that the decision table does not hold, and
\* holds as it is shown, however the table calls fail.
THEOREM NothingUnaudited == Spec => []AuditedBeforeSeen
<1>1. AuditInv => AuditedBeforeSeen
  <2> SUFFICES ASSUME AuditInv, NEW r \in Requests, outcome[r] \in {"ok", "replayed"}
               PROVE  audit[returned[r].decision.decision_id] = AuditRecord(returned[r])
    BY DEF AuditedBeforeSeen, AuditInv
  <2>1. Reported(r)
    BY DEF AuditInv
  <2> QED BY <2>1 DEF Reported, Audited
<1> QED BY <1>1, AuditInvHolds, PTL

\* _invoke_with_idempotency: what reserve() answers COMPLETED with, from the table or
\* a stale copy of it, is the audited result of another, finished request of the same
\* application with the same key and content, never a foreign or a forbidden one.
THEOREM ReplaysAreGenuine == Spec => []ReplayIntegrity
<1>1. AuditInv => ReplayIntegrity
  <2> SUFFICES ASSUME AuditInv, NEW r \in Requests, outcome[r] = "replayed"
               PROVE  LET origin == returned[r].decision.decision_id
                      IN  /\ origin # r
                          /\ ItemKey(origin) = ItemKey(r)
                          /\ Request(origin).hash = Request(r).hash
                          /\ Policy(r).allow_response_caching
                          /\ audit[origin] = AuditRecord(returned[r])
    BY DEF ReplayIntegrity
  <2>1. /\ Audited(returned[r], ItemKey(r), Request(r).hash)
        /\ returned[r].decision.decision_id # r
    BY DEF AuditInv, Reported
  <2> QED BY <2>1 DEF Audited, ItemKey, Policy
<1> QED BY <1>1, AuditInvHolds, PTL

=============================================================================
