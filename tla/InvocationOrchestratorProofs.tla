-------------------- MODULE InvocationOrchestratorProofs --------------------
(***************************************************************************)
(* Type correctness of InvocationOrchestrator, OneInvocationPerKey and     *)
(* LocksAreShort, by inductive invariants.                                 *)
(*                                                                         *)
(* The argument for OneInvocationPerKey is that of a lease.  A request     *)
(* that was answered NEW by an accepted put leaves an item that expires    *)
(* no earlier than its own start plus StaleReservationSeconds by its own   *)
(* clock (Leased); Lambda ends the request before that (Timely and         *)
(* TimeoutAssumption), so while it runs no other clock finds the item      *)
(* expired, no conditional put is accepted and no sweep removes it.  Only  *)
(* complete() and release() replace the item unconditionally.  Their first *)
(* write is the holder's own, unless reserve() gave up on the key (Alone); *)
(* a repeat of it finds nothing, or what it wrote itself, or it takes the  *)
(* guard off the key.                                                      *)
(***************************************************************************)
EXTENDS InvocationOrchestrator, RouteEvaluationLemmas

\* The shape of the shared state.
SharedOK ==
    /\ now \in Nat
    /\ table \in [ItemKeys -> Items \cup {NoItem}]
    /\ replica \in [ItemKeys -> Items \cup {NoItem}]
    /\ pc \in [Requests -> Points]
    /\ frame \in [Requests -> Frames \cup {NoFrame}]
    /\ failures \in [Envs -> [Models -> Nat]]
    /\ outcome \in [Requests -> Outcomes]
    /\ returned \in [Requests -> InferenceResults \cup {NoResult}]
    /\ audit \in [Requests -> AuditRecords \cup {NoRecord}]
    /\ events \subseteq Requests
    /\ unguarding \subseteq Requests

\* Locals in the fallback loop: what was selected and what is called is eligible.
Callable(f) ==
    /\ f.decision \in Decisions
    /\ f.current \in EligibleAliases(f.decision.candidates)
    /\ f.decision.selected # NoModel =>
          f.decision.selected \in EligibleAliases(f.decision.candidates)

\* What a request's locals hold where it is.
LocalOK(r) ==
    /\ InFlight(r) => frame[r] \in Frames
    /\ pc[r] = "calling" => Callable(frame[r])
    /\ pc[r] \in {"persist", "publish", "complete"} => frame[r].result \in InferenceResults
    /\ pc[r] \in {"calling", "persist", "publish", "complete"} => Policy(r) # NoPolicy
    /\ pc[r] \in {"put", "get", "complete", "release"} => HasKey(r)

\* No request outlives the Lambda timeout, nor reads a clock from outside its life.
Timely(r) ==
    InFlight(r) =>
        /\ now <= frame[r].startedAt + LambdaTimeout
        /\ frame[r].startedAt + Skew[frame[r].env] <= frame[r].stamp
        /\ frame[r].stamp <= now + Skew[frame[r].env]

\* reserve() did not give up on the key and no repeated write hit it.
Guarded(k) == \A r \in unguarding : ItemKey(r) # k

\* A keyed request inside the guarded section has an item that outlasts it.
Leased(r) ==
    HasKey(r) /\ Holding(r) /\ Guarded(ItemKey(r)) =>
        /\ table[ItemKey(r)] # NoItem
        /\ frame[r].startedAt + Skew[frame[r].env] + StaleReservationSeconds
              <= table[ItemKey(r)].expiresAt

\* As long as it is guarded, a key has one request inside.
Alone(r, q) ==
    /\ Holding(r) /\ Holding(q) /\ HasKey(r) /\ ItemKey(q) = ItemKey(r)
    /\ Guarded(ItemKey(r))
    => q = r

TypeInv == SharedOK /\ \A r \in Requests : LocalOK(r)

LeaseInv ==
    /\ \A r \in Requests : Timely(r) /\ Leased(r)
    /\ \A r, q \in Requests : Alone(r, q)
-----------------------------------------------------------------------------
(***************************************************************************)
(* The operators, in the context of a request.                             *)
(***************************************************************************)
\* The counters stay natural numbers.
LEMMA RecordOutcomeType ==
    ASSUME NEW counters \in [Models -> Nat], NEW model \in Models, NEW status
    PROVE  RecordOutcome(counters, model, status) \in [Models -> Nat]
BY DEF RecordOutcome

\* Health as route evaluation reads it.
LEMMA GetHealthType ==
    ASSUME NEW counters \in [Models -> Nat]
    PROVE  [m \in Models |-> GetHealth(counters, m)] \in [Models -> ModelHealthStatus]
BY DEF GetHealth, ModelHealthStatus

\* What route evaluation gives the request that asks for it.
LEMMA EvaluateInContext ==
    ASSUME NEW r \in Requests, Policy(r) # NoPolicy,
           NEW health \in [Models -> ModelHealthStatus]
    PROVE  LET d == Evaluate(r, Request(r), Policy(r), health)
           IN  /\ d \in Decisions
               /\ d.selected # NoModel =>
                     /\ d.selected \in EligibleAliases(d.candidates)
                     /\ "MODEL_ALLOWED" \in d.reason_codes
               /\ d.decision_id = r /\ d.reason_codes # {}
               /\ d.reason_codes \cap OutcomeCodes = {} /\ d.fallback_used = FALSE
               /\ \A m \in EligibleAliases(d.candidates) : health[m] # "unavailable"
<1>1. ValidPolicy(Policy(r)) /\ ValidRequest(Request(r))
  BY RequestAssumption DEF Policy, Request
<1>2. DecisionFacts(Evaluate(r, Request(r), Policy(r), health), r, Request(r), Policy(r), health)
  BY <1>1, EvaluateFacts
<1> DEFINE d == Evaluate(r, Request(r), Policy(r), health)
<1> HIDE DEF d
<1>3. \A m \in EligibleAliases(d.candidates) : health[m] # "unavailable"
  BY <1>2 DEF d, DecisionFacts, EligibleAliases, CandidateFacts
<1> QED BY <1>2, <1>3 DEF d, DecisionFacts, RoutingDecisions, Decisions

\* The keys of keyed requests are keys of the table.
LEMMA KeyedItemKey ==
    ASSUME NEW r \in Requests
    PROVE  HasKey(r) <=> ItemKey(r) \in ItemKeys
BY RequestAssumption DEF HasKey, ItemKey, ItemKeys, Request

\* Items are written with the types of the table.
LEMMA ItemTypes ==
    ASSUME NEW r \in Requests, NEW clock \in Int
    PROVE  /\ Reservation(Request(r).hash, clock) \in Items
           /\ \A res \in InferenceResults : Policy(r) # NoPolicy =>
                 Completion(Request(r).hash, res, clock, Policy(r).allow_response_caching,
                            Policy(r).retention_seconds) \in Items \cup {NoItem}
<1>1. Request(r).hash \in Hashes
  BY DEF Request, Hashes
<1>2. clock + StaleReservationSeconds \in Int
  BY StaleAssumption
<1>3. Policy(r) # NoPolicy => clock + Policy(r).retention_seconds \in Int
  <2>1. Policy(r) # NoPolicy => Policy(r).retention_seconds \in Nat
    BY RequestAssumption DEF Policy, Request, ValidPolicy
  <2> QED BY <2>1
<1> QED BY <1>1, <1>2, <1>3 DEF Reservation, Completion, Items

-----------------------------------------------------------------------------
(***************************************************************************)
(* Types.                                                                  *)
(***************************************************************************)
\* r moves, from a legal local state to a legal local state; nobody else does.
LocalStep(r) ==
    /\ pc' \in [Requests -> Points]
    /\ frame' \in [Requests -> Frames \cup {NoFrame}]
    /\ outcome' \in [Requests -> Outcomes]
    /\ returned' \in [Requests -> InferenceResults \cup {NoResult}]
    /\ LocalOK(r)'
    /\ \A q \in Requests \ {r} : pc'[q] = pc[q] /\ frame'[q] = frame[q]

\* The shared state that a step of the code leaves in shape.
StoresOK ==
    /\ now \in Nat
    /\ table \in [ItemKeys -> Items \cup {NoItem}]
    /\ replica \in [ItemKeys -> Items \cup {NoItem}]
    /\ failures \in [Envs -> [Models -> Nat]]
    /\ audit \in [Requests -> AuditRecords \cup {NoRecord}]
    /\ events \subseteq Requests
    /\ unguarding \subseteq Requests

\* A step of one request keeps the type invariant if it keeps its own part.
LEMMA OneMoves ==
    ASSUME TypeInv, NEW r \in Requests, LocalStep(r), StoresOK'
    PROVE  TypeInv'
<1>1. SharedOK'
  BY DEF SharedOK, StoresOK, LocalStep
<1>2. ASSUME NEW q \in Requests PROVE LocalOK(q)'
  <2>1. CASE q = r
    BY <2>1 DEF LocalStep
  <2>2. CASE q # r
    <3>1. LocalOK(q) /\ pc'[q] = pc[q] /\ frame'[q] = frame[q]
      BY <2>2 DEF TypeInv, LocalStep
    <3> QED BY <3>1 DEF LocalOK, InFlight, Invoking
  <2> QED BY <2>1, <2>2
<1> QED BY <1>1, <1>2 DEF TypeInv

\* A request that ends.
LEMMA EndStep ==
    ASSUME SharedOK, NEW r \in Requests, NEW how \in Outcomes,
           NEW res \in InferenceResults \cup {NoResult}, End(r, how, res)
    PROVE  LocalStep(r)
<1>1. pc' = [pc EXCEPT ![r] = "done"] /\ pc'[r] = "done" /\ pc' \in [Requests -> Points]
  BY DEF SharedOK, End, GoTo, Points
<1>2. LocalOK(r)'
  BY <1>1 DEF LocalOK, InFlight, Invoking, InvokingPoints
<1> QED BY <1>1, <1>2 DEF SharedOK, End, LocalStep

\* A request that goes on to another point with other locals.
LEMMA GoStep ==
    ASSUME SharedOK, NEW r \in Requests, NEW point \in Points, GoTo(r, point),
           NEW locals \in Frames, frame' = [frame EXCEPT ![r] = locals],
           UNCHANGED << outcome, returned >>,
           point = "calling" => Callable(locals),
           point \in {"persist", "publish", "complete"} => locals.result \in InferenceResults,
           point \in {"calling", "persist", "publish", "complete"} => Policy(r) # NoPolicy,
           point \in {"put", "get", "complete", "release"} => HasKey(r)
    PROVE  LocalStep(r)
<1>1. pc' = [pc EXCEPT ![r] = point] /\ pc'[r] = point /\ pc' \in [Requests -> Points]
  BY DEF SharedOK, GoTo
<1>2. frame'[r] = locals /\ frame' \in [Requests -> Frames \cup {NoFrame}]
  BY DEF SharedOK
<1>3. LocalOK(r)'
  BY <1>1, <1>2 DEF LocalOK, Policy, HasKey, Request
<1> QED BY <1>1, <1>2, <1>3 DEF SharedOK, LocalStep

\* A request that goes on to another point with the same locals.
LEMMA StayStep ==
    ASSUME TypeInv, NEW r \in Requests, InFlight(r), NEW point \in Points, GoTo(r, point),
           UNCHANGED << frame, outcome, returned >>,
           point # "calling",
           point \in {"persist", "publish", "complete"} => frame[r].result \in InferenceResults,
           point \in {"persist", "publish", "complete"} => Policy(r) # NoPolicy,
           point \in {"put", "get", "complete", "release"} => HasKey(r)
    PROVE  LocalStep(r)
<1>1. frame[r] \in Frames /\ frame' = [frame EXCEPT ![r] = frame[r]]
  BY DEF TypeInv, SharedOK, LocalOK
<1> QED BY <1>1, GoStep DEF TypeInv

\* An exception inside the guarded section.
LEMMA RaiseStep ==
    ASSUME TypeInv, NEW r \in Requests, Invoking(r), Raise(r)
    PROVE  LocalStep(r)
<1>1. CASE HasKey(r)
  BY <1>1, StayStep DEF Raise, InFlight, Points, InvokingPoints
<1>2. CASE ~HasKey(r)
  BY <1>2, EndStep DEF Raise, TypeInv, Outcomes
<1> QED BY <1>1, <1>2

\* Facts of the state that the actions start from.
LEMMA InFlightFacts ==
    ASSUME TypeInv, NEW r \in Requests, InFlight(r)
    PROVE  /\ frame[r] \in Frames
           /\ frame[r].env \in Envs /\ frame[r].stamp \in Int
           /\ Clock(r) \in Int
           /\ HasKey(r) => table[ItemKey(r)] \in Items \cup {NoItem}
           /\ HasKey(r) => replica[ItemKey(r)] \in Items \cup {NoItem}
<1>1. frame[r] \in Frames /\ now \in Nat
  BY DEF TypeInv, LocalOK, SharedOK
<1>2. frame[r].env \in Envs /\ frame[r].stamp \in Int
  BY <1>1 DEF Frames
<1>3. Clock(r) \in Int
  BY <1>1, <1>2, TimeoutAssumption DEF Clock
<1> QED BY <1>1, <1>2, <1>3, KeyedItemKey DEF TypeInv, SharedOK

\* reserve() keeps the types.
LEMMA ReserveTypes ==
    ASSUME TypeInv, NEW r \in Requests,
           \/ PutAccepted(r) \/ PutAnswerLost(r) \/ PutRefused(r) \/ ReserveRaises(r)
           \/ GetVanished(r) \/ GetRejected(r) \/ GetReplayed(r)
    PROVE  TypeInv'
<1>1. /\ pc[r] \in {"put", "get"} /\ InFlight(r) /\ HasKey(r) /\ SharedOK
  BY DEF TypeInv, LocalOK, InFlight, PutAccepted, PutAnswerLost, PutRefused, ReserveRaises,
         GetVanished, GetRejected, GetReplayed
<1>2. /\ frame[r] \in Frames /\ frame[r].stamp \in Int /\ Clock(r) \in Int
      /\ table[ItemKey(r)] \in Items \cup {NoItem}
      /\ replica[ItemKey(r)] \in Items \cup {NoItem}
  BY <1>1, InFlightFacts
<1>3. WriteReservation(r) => table' \in [ItemKeys -> Items \cup {NoItem}]
  BY <1>1, <1>2, ItemTypes DEF WriteReservation, SharedOK
<1>4. CASE PutAccepted(r)
  <2>1. LocalStep(r)
    BY <1>1, <1>4, StayStep DEF PutAccepted, Points, InvokingPoints
  <2>2. StoresOK'
    BY <1>1, <1>3, <1>4 DEF PutAccepted, SharedOK, StoresOK
  <2> QED BY <2>1, <2>2, OneMoves
<1>5. CASE PutAnswerLost(r)
  <2>1. GoTo(r, "put")
    BY <1>1, <1>5 DEF PutAnswerLost, GoTo, SharedOK
  <2>2. LocalStep(r)
    BY <1>1, <1>5, <2>1, StayStep DEF PutAnswerLost, Points
  <2>3. StoresOK'
    BY <1>1, <1>3, <1>5 DEF PutAnswerLost, SharedOK, StoresOK
  <2> QED BY <2>2, <2>3, OneMoves
<1>6. CASE PutRefused(r)
  <2>1. LocalStep(r)
    BY <1>1, <1>6, StayStep DEF PutRefused, Points
  <2>2. StoresOK'
    BY <1>1, <1>6 DEF PutRefused, SharedOK, StoresOK
  <2> QED BY <2>1, <2>2, OneMoves
<1>7. CASE ReserveRaises(r)
  <2>1. LocalStep(r)
    BY <1>1, <1>7, EndStep DEF ReserveRaises, Outcomes
  <2>2. StoresOK'
    BY <1>1, <1>7 DEF ReserveRaises, SharedOK, StoresOK
  <2> QED BY <2>1, <2>2, OneMoves
<1>8. CASE GetVanished(r)
  <2> DEFINE locals == [frame[r] EXCEPT !.tries = @ + 1, !.stamp = Clock(r)]
  <2>1. locals \in Frames
    <3>1. frame[r].tries + 1 \in Nat
      BY <1>2 DEF Frames
    <3>2. [frame[r] EXCEPT !.tries = frame[r].tries + 1] \in Frames
      BY <1>2, <3>1 DEF Frames
    <3> QED BY <1>2, <3>2 DEF Frames
  <2>2. frame' = [frame EXCEPT ![r] = locals]
    BY <1>1, <1>2, <1>8 DEF GetVanished, Frames, SharedOK
  <2>3. PICK point \in {"put", "evaluate"} : GoTo(r, point)
    BY <1>8 DEF GetVanished
  <2> HIDE DEF locals
  <2>4. LocalStep(r)
    BY <1>1, <1>8, <2>1, <2>2, <2>3, GoStep DEF GetVanished, Points, InvokingPoints
  <2>5. StoresOK'
    BY <1>1, <1>8 DEF GetVanished, SharedOK, StoresOK
  <2> QED BY <2>4, <2>5, OneMoves
<1>9. CASE GetRejected(r)
  <2>1. PICK how \in {"conflict", "in_progress"} : End(r, how, NoResult)
    BY <1>9 DEF GetRejected
  <2>2. LocalStep(r)
    BY <1>1, <2>1, EndStep DEF Outcomes
  <2>3. StoresOK'
    BY <1>1, <1>9 DEF GetRejected, SharedOK, StoresOK
  <2> QED BY <2>2, <2>3, OneMoves
<1>10. CASE GetReplayed(r)
  <2>1. PICK item \in ReadableItems(r) :
           /\ ReadOutcome(item, Request(r).hash) = "completed"
           /\ End(r, "replayed", item.result)
    BY <1>10 DEF GetReplayed
  <2>2. item \in Items
    BY <1>2, <2>1 DEF ReadableItems, ReadOutcome
  <2>3. item.result \in InferenceResults \cup {NoResult}
    BY <2>2 DEF Items
  <2>4. LocalStep(r)
    BY <1>1, <2>1, <2>3, EndStep DEF Outcomes
  <2>5. StoresOK'
    BY <1>1, <1>10 DEF GetReplayed, SharedOK, StoresOK
  <2> QED BY <2>4, <2>5, OneMoves
<1> QED BY <1>4, <1>5, <1>6, <1>7, <1>8, <1>9, <1>10

\* Appending an attempt.
LEMMA AttemptsType ==
    ASSUME NEW atts \in Seq(Attempts), NEW alias \in Models,
           NEW status \in InvocationAttemptStatus
    PROVE  Append(atts, Attempt(alias, status)) \in Seq(Attempts)
<1>1. Attempt(alias, status) \in Attempts
  BY DEF Attempt, Attempts
<1> QED BY <1>1

\* One pass of the fallback loop keeps the types.
LEMMA AttemptTypes ==
    ASSUME TypeInv, NEW r \in Requests, pc[r] = "calling",
           NEW status \in InvocationAttemptStatus, NEW codes \in SUBSET RoutingReasonCode,
           NEW succeeded \in EligibleAliases(frame[r].decision.candidates) \cup {NoModel},
           NEW next \in EligibleAliases(frame[r].decision.candidates) \cup {NoModel},
           AfterAttempt(r, status, codes, succeeded, next),
           UNCHANGED << now, table, replica, outcome, returned, audit, events, unguarding >>
    PROVE  TypeInv'
<1> DEFINE f     == frame[r]
           atts  == Append(f.attempts, Attempt(f.current, status))
           onward == [f EXCEPT !.attempts = atts, !.extra = codes, !.current = next]
           result == InferenceResult(AggregateDecision(f.decision, succeeded, codes),
                                     succeeded, atts)
           finished == [f EXCEPT !.attempts = atts, !.extra = codes, !.result = result]
<1>1. /\ SharedOK /\ InFlight(r) /\ Policy(r) # NoPolicy
      /\ f \in Frames /\ Callable(f)
      /\ f.decision \in Decisions /\ f.current \in EligibleAliases(f.decision.candidates)
  BY DEF TypeInv, LocalOK, InFlight, Invoking, InvokingPoints, Callable
<1>2. EligibleAliases(f.decision.candidates) \subseteq Models
  BY DEF EligibleAliases
<1>3. f.attempts \in Seq(Attempts) /\ f.env \in Envs
  BY <1>1 DEF Frames
<1>4. atts \in Seq(Attempts)
  BY <1>1, <1>2, <1>3, AttemptsType
<1>5. AggregateDecision(f.decision, succeeded, codes) \in Decisions
  BY <1>1, AggregateDecisionType DEF Decisions
<1> HIDE DEF atts
<1>6. result \in InferenceResults
  BY <1>2, <1>4, <1>5 DEF InferenceResult, InferenceResults
<1> HIDE DEF result
<1>7. failures' \in [Envs -> [Models -> Nat]]
  <2>1. failures' = [failures EXCEPT ![f.env] = RecordOutcome(failures[f.env], f.current, status)]
    BY DEF AfterAttempt
  <2>2. failures[f.env] \in [Models -> Nat] /\ f.current \in Models
    BY <1>1, <1>2, <1>3 DEF SharedOK
  <2>3. RecordOutcome(failures[f.env], f.current, status) \in [Models -> Nat]
    BY <2>2, RecordOutcomeType
  <2> QED BY <1>1, <2>1, <2>3 DEF SharedOK
<1>8. StoresOK'
  BY <1>1, <1>7 DEF SharedOK, StoresOK
<1>9. CASE next # NoModel
  <2>1. onward \in Frames
    <3>1. [f EXCEPT !.attempts = atts] \in Frames
      BY <1>1, <1>4 DEF Frames
    <3>2. [f EXCEPT !.attempts = atts, !.extra = codes] \in Frames
      BY <1>1, <3>1 DEF Frames
    <3> QED BY <1>1, <1>2, <3>2 DEF Frames
  <2>2. /\ onward.decision = f.decision /\ onward.current = next
    BY <1>1 DEF Frames
  <2>3. frame' = [frame EXCEPT ![r] = onward]
    BY <1>1, <1>9 DEF AfterAttempt, atts, SharedOK, Frames
  <2>4. GoTo(r, "calling")
    BY <1>1, <1>9 DEF AfterAttempt, GoTo, SharedOK
  <2> HIDE DEF onward
  <2>5. Callable(onward)
    BY <1>1, <1>9, <2>2 DEF Callable
  <2>6. LocalStep(r)
    BY <1>1, <2>1, <2>3, <2>4, <2>5, GoStep DEF Points, InvokingPoints
  <2> QED BY <1>8, <2>6, OneMoves
<1>10. CASE next = NoModel
  <2>1. finished \in Frames
    <3>1. [f EXCEPT !.attempts = atts] \in Frames
      BY <1>1, <1>4 DEF Frames
    <3>2. [f EXCEPT !.attempts = atts, !.extra = codes] \in Frames
      BY <1>1, <3>1 DEF Frames
    <3> QED BY <1>1, <1>6, <3>2 DEF Frames
  <2>2. finished.result = result
    BY <1>1 DEF Frames
  <2>3. frame' = [frame EXCEPT ![r] = finished]
    BY <1>1, <1>10 DEF AfterAttempt, atts, result, SharedOK, Frames
  <2>4. GoTo(r, "persist")
    BY <1>10 DEF AfterAttempt
  <2> HIDE DEF finished
  <2>5. finished.result \in InferenceResults /\ "persist" \in Points
        /\ UNCHANGED << outcome, returned >>
    BY <1>6, <2>2 DEF Points, InvokingPoints
  <2>6. LocalStep(r)
    BY <1>1, <2>1, <2>3, <2>4, <2>5, GoStep
  <2> QED BY <1>8, <2>6, OneMoves
<1> QED BY <1>9, <1>10

\* _invoke_uncached() keeps the types.
LEMMA InvokeTypes ==
    ASSUME TypeInv, NEW r \in Requests,
           \/ EvaluateRoute(r) \/ PolicyUnresolved(r)
           \/ ProviderSucceeds(r) \/ ProviderRaises(r)
           \/ \E category \in ProviderErrors : ProviderFails(r, category)
    PROVE  TypeInv'
<1>1. SharedOK /\ LocalOK(r)
  BY DEF TypeInv
<1>2. CASE EvaluateRoute(r)
  <2> DEFINE health == [m \in Models |-> GetHealth(failures[frame[r].env], m)]
             d      == Evaluate(r, Request(r), Policy(r), health)
             first  == NextCandidate(d, Policy(r), << >>)
             empty  == InferenceResult(d, NoModel, << >>)
             without == [frame[r] EXCEPT !.decision = d, !.result = empty]
             with    == [frame[r] EXCEPT !.decision = d, !.current = first]
  <2>1. pc[r] = "evaluate" /\ Policy(r) # NoPolicy /\ InFlight(r)
    BY <1>2 DEF EvaluateRoute, InFlight, Invoking, InvokingPoints
  <2>2. frame[r] \in Frames /\ frame[r].env \in Envs
    BY <2>1, InFlightFacts
  <2>3. failures[frame[r].env] \in [Models -> Nat]
    BY <1>1, <2>2 DEF SharedOK
  <2>4. health \in [Models -> ModelHealthStatus]
    BY <2>3, GetHealthType
  <2>5. IF first = NoModel
        THEN frame' = [frame EXCEPT ![r].decision = d, ![r].result = empty] /\ GoTo(r, "persist")
        ELSE frame' = [frame EXCEPT ![r].decision = d, ![r].current = first]
             /\ GoTo(r, "calling")
    BY <1>2 DEF EvaluateRoute
  <2> HIDE DEF health
  <2>6. d \in Decisions /\ (d.selected # NoModel => d.selected \in EligibleAliases(d.candidates))
    BY <2>1, <2>4, EvaluateInContext
  <2>7. ValidPolicy(Policy(r))
    BY <2>1, RequestAssumption DEF Policy, Request
  <2> HIDE DEF d
  <2>8. first \in EligibleAliases(d.candidates) \cup {NoModel}
    <3>1. << >> \in Seq(Attempts)
      OBVIOUS
    <3> QED BY <2>6, <2>7, <3>1, NextCandidateFacts
  <2> HIDE DEF first
  <2>9. EligibleAliases(d.candidates) \subseteq Models
    BY DEF EligibleAliases
  <2>10. empty \in InferenceResults
    BY <2>6 DEF InferenceResult, InferenceResults
  <2>11. [frame[r] EXCEPT !.decision = d] \in Frames
    BY <2>2, <2>6 DEF Frames
  <2> HIDE DEF empty
  <2>12. StoresOK'
    BY <1>1, <1>2 DEF EvaluateRoute, SharedOK, StoresOK
  <2>13. CASE first = NoModel
    <3>1. without \in Frames /\ without.result = empty
      BY <2>2, <2>10, <2>11 DEF Frames
    <3>2. frame' = [frame EXCEPT ![r] = without]
      BY <1>1, <2>2, <2>5, <2>13 DEF SharedOK, Frames
    <3>3. /\ without.result \in InferenceResults /\ "persist" \in Points
          /\ GoTo(r, "persist") /\ UNCHANGED << outcome, returned >>
      BY <1>2, <2>5, <2>10, <2>13, <3>1 DEF Points, InvokingPoints, EvaluateRoute
    <3> HIDE DEF without
    <3>4. LocalStep(r)
      BY <1>1, <2>1, <3>1, <3>2, <3>3, GoStep
    <3> QED BY <2>12, <3>4, OneMoves
  <2>14. CASE first # NoModel
    <3>1. with \in Frames /\ with.decision = d /\ with.current = first
      BY <2>2, <2>8, <2>9, <2>11, <2>14 DEF Frames
    <3>2. frame' = [frame EXCEPT ![r] = with]
      BY <1>1, <2>2, <2>5, <2>14 DEF SharedOK, Frames
    <3>3. /\ Callable(with) /\ "calling" \in Points
          /\ GoTo(r, "calling") /\ UNCHANGED << outcome, returned >>
      BY <1>2, <2>5, <2>6, <2>8, <2>14, <3>1
         DEF Points, InvokingPoints, EvaluateRoute, Callable
    <3> HIDE DEF with
    <3>4. LocalStep(r)
      BY <1>1, <2>1, <3>1, <3>2, <3>3, GoStep
    <3> QED BY <2>12, <3>4, OneMoves
  <2> QED BY <2>13, <2>14
<1>3. CASE PolicyUnresolved(r)
  <2>1. LocalStep(r)
    BY <1>3, RaiseStep DEF PolicyUnresolved, Invoking, InvokingPoints
  <2>2. StoresOK'
    BY <1>1, <1>3 DEF PolicyUnresolved, SharedOK, StoresOK
  <2> QED BY <2>1, <2>2, OneMoves
<1>4. CASE ProviderSucceeds(r)
  <2> DEFINE f     == frame[r]
             codes == f.extra \cup (IF f.current # f.decision.selected
                                    THEN {"FALLBACK_SELECTED"} ELSE {})
  <2>1. /\ pc[r] = "calling" /\ AfterAttempt(r, "succeeded", codes, f.current, NoModel)
        /\ UNCHANGED << now, table, replica, outcome, returned, audit, events, unguarding >>
    BY <1>4 DEF ProviderSucceeds
  <2>2. f \in Frames /\ f.current \in EligibleAliases(f.decision.candidates)
    BY <1>1, <2>1 DEF LocalOK, InFlight, Invoking, InvokingPoints, Callable
  <2>3. codes \in SUBSET RoutingReasonCode
    BY <2>2 DEF Frames, RoutingReasonCode
  <2> HIDE DEF codes
  <2> QED BY <2>1, <2>2, <2>3, AttemptTypes DEF InvocationAttemptStatus
<1>5. ASSUME NEW category \in ProviderErrors, ProviderFails(r, category)
      PROVE  TypeInv'
  <2> DEFINE f      == frame[r]
             status == StatusForCategory(category)
             codes  == f.extra \cup ReasonCodesForCategory(category)
             next   == IF category = "permanent" THEN NoModel
                       ELSE NextCandidate(f.decision, Policy(r),
                                          Append(f.attempts, Attempt(f.current, status)))
  <2>1. /\ pc[r] = "calling" /\ AfterAttempt(r, status, codes, NoModel, next)
        /\ UNCHANGED << now, table, replica, outcome, returned, audit, events, unguarding >>
    BY <1>5 DEF ProviderFails
  <2>2. /\ f \in Frames /\ Callable(f) /\ ValidPolicy(Policy(r))
    BY <1>1, <2>1, RequestAssumption
       DEF LocalOK, InFlight, Invoking, InvokingPoints, Policy, Request
  <2>3. category \in ProviderErrorCategory
    BY RequestAssumption
  <2>4. /\ status \in InvocationAttemptStatus
        /\ ReasonCodesForCategory(category) \subseteq RoutingReasonCode
    BY <2>3 DEF ProviderErrorCategory, StatusForCategory, ReasonCodesForCategory,
                InvocationAttemptStatus, RoutingReasonCode
  <2>5. codes \in SUBSET RoutingReasonCode
    BY <2>2, <2>4 DEF Frames
  <2>6. next \in EligibleAliases(f.decision.candidates) \cup {NoModel}
    <3>1. Append(f.attempts, Attempt(f.current, status)) \in Seq(Attempts)
      BY <2>2, <2>4, AttemptsType DEF Frames, Callable, EligibleAliases
    <3> QED BY <2>2, <3>1, NextCandidateFacts DEF Callable
  <2> HIDE DEF codes, next, status
  <2> QED BY <2>1, <2>4, <2>5, <2>6, AttemptTypes
<1>6. CASE ProviderRaises(r)
  <2>1. LocalStep(r)
    BY <1>6, RaiseStep DEF ProviderRaises, Invoking, InvokingPoints
  <2>2. StoresOK'
    BY <1>1, <1>6 DEF ProviderRaises, SharedOK, StoresOK
  <2> QED BY <2>1, <2>2, OneMoves
<1> QED BY <1>2, <1>3, <1>4, <1>5, <1>6

\* _persist(), publishing, complete() and release() keep the types.
LEMMA FinishTypes ==
    ASSUME TypeInv, NEW r \in Requests,
           \/ Persist(r) \/ PersistRaises(r) \/ Publish(r)
           \/ Complete(r) \/ CompleteRaises(r) \/ CompleteAnswerLost(r)
           \/ Release(r) \/ ReleaseAnswerLost(r)
    PROVE  TypeInv'
<1>1. SharedOK /\ LocalOK(r)
  BY DEF TypeInv
<1>2. /\ pc[r] \in {"persist", "publish", "complete", "release"}
      /\ Invoking(r) /\ InFlight(r)
  BY DEF Persist, PersistRaises, Publish, Complete, CompleteRaises, Release,
         CompleteAnswerLost, ReleaseAnswerLost, InFlight, Invoking, InvokingPoints
<1>3. pc[r] # "release" => frame[r].result \in InferenceResults /\ Policy(r) # NoPolicy
  BY <1>1, <1>2 DEF LocalOK
<1>4. pc[r] = "persist" /\ WriteAudit(r) => audit' \in [Requests -> AuditRecords \cup {NoRecord}]
  BY <1>1, <1>3 DEF WriteAudit, AuditRecord, AuditRecords, InferenceResults, SharedOK
<1>5. ASSUME NEW item \in Items \cup {NoItem}, WriteItem(r, item)
      PROVE  table' \in [ItemKeys -> Items \cup {NoItem}] /\ unguarding' \subseteq Requests
  BY <1>1, <1>5 DEF WriteItem, SharedOK
<1>12. pc[r] = "complete" /\ WriteCompletion(r) =>
        table' \in [ItemKeys -> Items \cup {NoItem}] /\ unguarding' \subseteq Requests
  <2>1. pc[r] = "complete" =>
          Completion(Request(r).hash, frame[r].result, frame[r].stamp,
                     Policy(r).allow_response_caching, Policy(r).retention_seconds)
            \in Items \cup {NoItem}
    BY <1>2, <1>3, InFlightFacts, ItemTypes
  <2> QED BY <1>5, <2>1 DEF WriteCompletion
<1>13. WriteItem(r, Released) =>
        table' \in [ItemKeys -> Items \cup {NoItem}] /\ unguarding' \subseteq Requests
  BY <1>5 DEF Released
<1>14. frame[r] \in Frames /\ Clock(r) \in Int /\ frame \in [Requests -> Frames \cup {NoFrame}]
  BY <1>1, <1>2, InFlightFacts DEF SharedOK
<1>6. CASE Persist(r)
  <2>1. LocalStep(r)
    BY <1>2, <1>3, <1>6, StayStep DEF Persist, Points, InvokingPoints
  <2>2. StoresOK'
    BY <1>1, <1>4, <1>6 DEF Persist, SharedOK, StoresOK
  <2> QED BY <2>1, <2>2, OneMoves
<1>7. CASE PersistRaises(r)
  <2>1. LocalStep(r)
    BY <1>2, <1>7, RaiseStep DEF PersistRaises
  <2>2. audit' \in [Requests -> AuditRecords \cup {NoRecord}]
    BY <1>1, <1>4, <1>7 DEF PersistRaises, SharedOK
  <2>3. StoresOK'
    BY <1>1, <1>7, <2>2 DEF PersistRaises, SharedOK, StoresOK
  <2> QED BY <2>1, <2>3, OneMoves
<1>8. CASE Publish(r)
  <2>1. StoresOK'
    BY <1>1, <1>8 DEF Publish, SharedOK, StoresOK
  <2>2. CASE HasKey(r)
    <3> DEFINE locals == [frame[r] EXCEPT !.stamp = Clock(r)]
    <3>1. locals \in Frames /\ locals.result = frame[r].result
      BY <1>14 DEF Frames
    <3>3. frame' = [frame EXCEPT ![r] = locals]
      BY <1>8, <1>14, <2>2 DEF Publish
    <3> HIDE DEF locals
    <3>4. GoTo(r, "complete") /\ UNCHANGED << outcome, returned >> /\ pc[r] = "publish"
      BY <1>8, <2>2 DEF Publish
    <3>5. "complete" \in Points /\ locals.result \in InferenceResults /\ Policy(r) # NoPolicy
      BY <1>3, <3>1, <3>4 DEF Points, InvokingPoints
    <3>2. LocalStep(r)
      BY <1>1, <2>2, <3>1, <3>3, <3>4, <3>5, GoStep
    <3> QED BY <2>1, <3>2, OneMoves
  <2>3. CASE ~HasKey(r)
    <3>1. LocalStep(r)
      BY <1>1, <1>2, <1>3, <1>8, <2>3, EndStep DEF Publish, Outcomes
    <3> QED BY <2>1, <3>1, OneMoves
  <2> QED BY <2>2, <2>3
<1>9. CASE Complete(r)
  <2>1. LocalStep(r)
    BY <1>1, <1>3, <1>9, EndStep DEF Complete, Outcomes
  <2>2. StoresOK'
    BY <1>1, <1>12, <1>9 DEF Complete, SharedOK, StoresOK
  <2> QED BY <2>1, <2>2, OneMoves
<1>10. CASE CompleteRaises(r)
  <2>1. LocalStep(r)
    BY <1>1, <1>10, EndStep DEF CompleteRaises, Outcomes
  <2>2. table' \in [ItemKeys -> Items \cup {NoItem}] /\ unguarding' \subseteq Requests
    BY <1>1, <1>12, <1>10 DEF CompleteRaises, SharedOK
  <2>3. StoresOK'
    BY <1>1, <1>10, <2>2 DEF CompleteRaises, SharedOK, StoresOK
  <2> QED BY <2>1, <2>3, OneMoves
<1>11. CASE Release(r)
  <2>1. LocalStep(r)
    BY <1>1, <1>11, EndStep DEF Release, Outcomes
  <2>2. table' \in [ItemKeys -> Items \cup {NoItem}] /\ unguarding' \subseteq Requests
    BY <1>1, <1>13, <1>11 DEF Release, SharedOK
  <2>3. StoresOK'
    BY <1>1, <1>11, <2>2 DEF Release, SharedOK, StoresOK
  <2> QED BY <2>1, <2>3, OneMoves
<1>15. CASE CompleteAnswerLost(r) \/ ReleaseAnswerLost(r)
  <2> DEFINE locals == [frame[r] EXCEPT !.resending = TRUE]
  <2>1. /\ locals \in Frames /\ locals.result = frame[r].result
        /\ frame' = [frame EXCEPT ![r] = locals]
    BY <1>14, <1>15 DEF CompleteAnswerLost, ReleaseAnswerLost, Resend, Frames
  <2>2. GoTo(r, pc[r]) /\ pc[r] \in {"complete", "release"} /\ UNCHANGED << outcome, returned >>
    BY <1>1, <1>15 DEF CompleteAnswerLost, ReleaseAnswerLost, Resend, GoTo, SharedOK
  <2> HIDE DEF locals
  <2>3. LocalStep(r)
    BY <1>1, <1>2, <1>3, <2>1, <2>2, GoStep DEF LocalOK, Points, InvokingPoints
  <2>4. table' \in [ItemKeys -> Items \cup {NoItem}] /\ unguarding' \subseteq Requests
    BY <1>12, <1>13, <1>15 DEF CompleteAnswerLost, ReleaseAnswerLost
  <2>5. StoresOK'
    BY <1>1, <1>15, <2>4 DEF CompleteAnswerLost, ReleaseAnswerLost, Resend, SharedOK, StoresOK
  <2> QED BY <2>3, <2>5, OneMoves
<1> QED BY <1>6, <1>7, <1>8, <1>9, <1>10, <1>11, <1>15

\* Starting a request, and what the platform does, keep the types.
LEMMA PlatformTypes ==
    ASSUME TypeInv,
           \/ \E r \in Requests, e \in Envs : Start(r, e)
           \/ \E e \in Envs : Kill(e)
           \/ \E k \in ItemKeys : TtlSweep(k) \/ Replicate(k)
           \/ Tick
    PROVE  TypeInv'
<1>1. SharedOK /\ \A r \in Requests : LocalOK(r)
  BY DEF TypeInv
<1>2. ASSUME NEW r \in Requests, NEW e \in Envs, Start(r, e) PROVE TypeInv'
  <2>1. NewFrame(e) \in Frames
    <3>1. now \in Nat /\ now + Skew[e] \in Int
      BY <1>1, TimeoutAssumption DEF SharedOK
    <3> QED BY <3>1 DEF NewFrame, Frames
  <2>2. PICK point \in {"put", "evaluate"} :
           GoTo(r, point) /\ (point = "put" => HasKey(r))
    BY <1>2 DEF Start
  <2>3. LocalStep(r)
    BY <1>1, <1>2, <2>1, <2>2, GoStep DEF Start, Points, InvokingPoints
  <2>4. StoresOK'
    BY <1>1, <1>2 DEF Start, SharedOK, StoresOK
  <2> QED BY <2>3, <2>4, OneMoves
<1>3. ASSUME NEW e \in Envs, Kill(e) PROVE TypeInv'
  <2>1. SharedOK'
    BY <1>1, <1>3 DEF Kill, SharedOK, Points, Outcomes
  <2>2. ASSUME NEW q \in Requests PROVE LocalOK(q)'
    <3>1. CASE Serving(e, q)
      <4>1. pc'[q] = "done"
        BY <1>3, <3>1 DEF Kill
      <4> QED BY <4>1 DEF LocalOK, InFlight, Invoking, InvokingPoints
    <3>2. CASE ~Serving(e, q)
      <4>1. pc'[q] = pc[q] /\ frame'[q] = frame[q] /\ LocalOK(q)
        BY <1>1, <1>3, <3>2 DEF Kill
      <4> QED BY <4>1 DEF LocalOK, InFlight, Invoking
    <3> QED BY <3>1, <3>2
  <2> QED BY <2>1, <2>2 DEF TypeInv
<1>4. ASSUME NEW k \in ItemKeys, TtlSweep(k) \/ Replicate(k) PROVE TypeInv'
  <2>1. SharedOK'
    BY <1>1, <1>4 DEF TtlSweep, Replicate, SharedOK
  <2>2. \A q \in Requests : LocalOK(q)'
    BY <1>1, <1>4 DEF TtlSweep, Replicate, LocalOK, InFlight, Invoking
  <2> QED BY <2>1, <2>2 DEF TypeInv
<1>5. CASE Tick
  <2>1. SharedOK'
    BY <1>1, <1>5 DEF Tick, SharedOK
  <2>2. \A q \in Requests : LocalOK(q)'
    BY <1>1, <1>5 DEF Tick, LocalOK, InFlight, Invoking
  <2> QED BY <2>1, <2>2 DEF TypeInv
<1> QED BY <1>2, <1>3, <1>4, <1>5

LEMMA TypeInit == Init => TypeInv
<1> SUFFICES ASSUME Init PROVE TypeInv
  OBVIOUS
<1>1. SharedOK
  BY DEF Init, SharedOK, Points, Outcomes
<1>2. \A r \in Requests : LocalOK(r)
  BY DEF Init, LocalOK, InFlight, Invoking, InvokingPoints
<1> QED BY <1>1, <1>2 DEF TypeInv

LEMMA TypeStep == TypeInv /\ [Next]_vars => TypeInv'
<1> SUFFICES ASSUME TypeInv, [Next]_vars PROVE TypeInv'
  OBVIOUS
<1>1. ASSUME NEW r \in Requests, Advance(r) PROVE TypeInv'
  BY <1>1, ReserveTypes, InvokeTypes, FinishTypes DEF Advance
<1>2. CASE UNCHANGED vars
  <2>1. SharedOK'
    BY <1>2 DEF vars, TypeInv, SharedOK
  <2>2. \A q \in Requests : LocalOK(q)'
    BY <1>2 DEF vars, TypeInv, LocalOK, InFlight, Invoking
  <2> QED BY <2>1, <2>2 DEF TypeInv
<1> QED BY <1>1, <1>2, PlatformTypes DEF Next

\* The inductive type invariant, for the proofs below.
LEMMA TypeInvHolds == Spec => []TypeInv
BY TypeInit, TypeStep, PTL DEF Spec

\* Type correctness of the orchestrator, for any number of requests, environments,
\* keys and models: among others that no audit record holds a response, that every
\* request past the loop has a result, and that what is called is in the catalogue.
THEOREM TypeCorrect == Spec => []TypeOK
<1>1. TypeInv => TypeOK
  <2> SUFFICES ASSUME TypeInv PROVE TypeOK
    OBVIOUS
  <2>1. ASSUME NEW r \in Requests
        PROVE  /\ InFlight(r) => frame[r] \in Frames
               /\ pc[r] = "calling" => frame[r].decision \in Decisions /\ frame[r].current \in Models
               /\ pc[r] \in {"persist", "publish", "complete"} => frame[r].result \in InferenceResults
    <3>1. LocalOK(r)
      BY DEF TypeInv
    <3> QED BY <3>1 DEF LocalOK, Callable, EligibleAliases
  <2> QED BY <2>1 DEF TypeInv, SharedOK, TypeOK
<1> QED BY <1>1, TypeInvHolds, PTL

-----------------------------------------------------------------------------
(***************************************************************************)
(* The lease.                                                              *)
(***************************************************************************)
\* While a lease holder runs, no request and no sweep finds its item expired.
LEMMA NotExpired ==
    ASSUME TypeInv, LeaseInv, NEW r \in Requests, HasKey(r), Holding(r), Guarded(ItemKey(r))
    PROVE  /\ table[ItemKey(r)] \in Items
           /\ ~(table[ItemKey(r)].expiresAt < now)
           /\ \A q \in Requests : InFlight(q) =>
                 ~PutCondition(table[ItemKey(r)], frame[q].stamp)
<1> DEFINE item == table[ItemKey(r)]
<1>1. InFlight(r)
  BY DEF InFlight, Holding
<1>2. /\ item # NoItem
      /\ frame[r].startedAt + Skew[frame[r].env] + StaleReservationSeconds <= item.expiresAt
      /\ now <= frame[r].startedAt + LambdaTimeout
  BY <1>1 DEF LeaseInv, Leased, Timely
<1>3. item \in Items /\ frame[r] \in Frames
  BY <1>1, <1>2, InFlightFacts
<1>4. /\ item.expiresAt \in Int /\ frame[r].startedAt \in Nat /\ frame[r].env \in Envs
      /\ now \in Nat
  BY <1>3 DEF Items, Frames, TypeInv, SharedOK
<1>5. /\ LambdaTimeout \in Nat /\ StaleReservationSeconds \in Nat
      /\ Skew[frame[r].env] \in Int
      /\ LambdaTimeout - Skew[frame[r].env] <= StaleReservationSeconds
  BY <1>4, TimeoutAssumption, StaleAssumption
<1>6. ~(item.expiresAt < now)
  BY <1>2, <1>4, <1>5
<1>7. ASSUME NEW q \in Requests, InFlight(q)
      PROVE  ~PutCondition(item, frame[q].stamp)
  <2>1. frame[q] \in Frames /\ frame[q].env \in Envs /\ frame[q].stamp \in Int
    BY <1>7, InFlightFacts
  <2>2. frame[q].stamp <= now + Skew[frame[q].env]
    BY <1>7 DEF LeaseInv, Timely
  <2>3. /\ Skew[frame[q].env] \in Int
        /\ LambdaTimeout + Skew[frame[q].env] - Skew[frame[r].env] <= StaleReservationSeconds
    BY <1>4, <2>1, TimeoutAssumption
  <2>4. ~(item.expiresAt < frame[q].stamp)
    BY <1>2, <1>4, <1>5, <2>1, <2>2, <2>3
  <2> QED BY <1>2, <2>4 DEF PutCondition
<1> QED BY <1>3, <1>6, <1>7

\* q neither starts nor reads any clock but its own; q does not enter the guarded
\* section.
KeepsTimes(q) ==
    InFlight(q)' =>
        /\ InFlight(q)
        /\ frame'[q].env = frame[q].env
        /\ frame'[q].startedAt = frame[q].startedAt
        /\ frame'[q].stamp \in {frame[q].stamp, Clock(q)}

NoEntry(q) == (Invoking(q)' => Invoking(q)) /\ (Holding(q)' => Holding(q))

\* No key is entered, and the items of those inside a guarded one are left alone.
Undisturbed ==
    /\ now' = now /\ unguarding \subseteq unguarding'
    /\ \A q \in Requests : KeepsTimes(q) /\ NoEntry(q)
    /\ \A q \in Requests : HasKey(q) /\ Holding(q)' /\ Guarded(ItemKey(q))' =>
          table'[ItemKey(q)] = table[ItemKey(q)]

LEMMA UndisturbedLease ==
    ASSUME TypeInv, LeaseInv, Undisturbed
    PROVE  LeaseInv'
<1>1. \A k : Guarded(k)' => Guarded(k)
  BY DEF Undisturbed, Guarded, ItemKey, Request
<1>2. ASSUME NEW q \in Requests PROVE Timely(q)'
  <2> SUFFICES ASSUME InFlight(q)'
               PROVE  /\ now' <= frame'[q].startedAt + LambdaTimeout
                      /\ frame'[q].startedAt + Skew[frame'[q].env] <= frame'[q].stamp
                      /\ frame'[q].stamp <= now' + Skew[frame'[q].env]
    BY DEF Timely
  <2>1. /\ InFlight(q) /\ now' = now /\ frame'[q].env = frame[q].env
        /\ frame'[q].startedAt = frame[q].startedAt
        /\ frame'[q].stamp \in {frame[q].stamp, now + Skew[frame[q].env]}
    BY DEF Undisturbed, KeepsTimes, Clock
  <2>2. /\ now <= frame[q].startedAt + LambdaTimeout
        /\ frame[q].startedAt + Skew[frame[q].env] <= frame[q].stamp
        /\ frame[q].stamp <= now + Skew[frame[q].env]
    BY <2>1 DEF LeaseInv, Timely
  <2>3. /\ frame[q].env \in Envs /\ frame[q].stamp \in Int /\ frame[q].startedAt \in Nat
        /\ now \in Nat
    BY <2>1, InFlightFacts DEF Frames, TypeInv, SharedOK
  <2>4. Skew[frame[q].env] \in Int
    BY <2>3, TimeoutAssumption
  <2> QED BY <2>1, <2>2, <2>3, <2>4
<1>3. ASSUME NEW q \in Requests PROVE Leased(q)'
  <2> SUFFICES ASSUME HasKey(q), Holding(q)', Guarded(ItemKey(q))'
               PROVE  /\ table'[ItemKey(q)] # NoItem
                      /\ frame'[q].startedAt + Skew[frame'[q].env] + StaleReservationSeconds
                            <= table'[ItemKey(q)].expiresAt
    BY DEF Leased, HasKey, ItemKey, Request
  <2>1. /\ Holding(q) /\ InFlight(q)' /\ Guarded(ItemKey(q))
        /\ table'[ItemKey(q)] = table[ItemKey(q)]
    BY <1>1 DEF Undisturbed, NoEntry, InFlight, Holding, ItemKey, Request
  <2>2. frame'[q].env = frame[q].env /\ frame'[q].startedAt = frame[q].startedAt
    BY <2>1 DEF Undisturbed, KeepsTimes
  <2> QED BY <2>1, <2>2 DEF LeaseInv, Leased
<1>4. ASSUME NEW r \in Requests, NEW q \in Requests PROVE Alone(r, q)'
  BY <1>1 DEF LeaseInv, Undisturbed, NoEntry, Alone, HasKey, ItemKey, Request
<1> QED BY <1>2, <1>3, <1>4 DEF LeaseInv

\* r alone moves, keeps its times and does not enter.
Calm(r) ==
    /\ \A q \in Requests \ {r} : pc'[q] = pc[q] /\ frame'[q] = frame[q]
    /\ KeepsTimes(r) /\ NoEntry(r)

LEMMA CalmStep ==
    ASSUME NEW r \in Requests, Calm(r)
    PROVE  \A q \in Requests : KeepsTimes(q) /\ NoEntry(q)
<1> TAKE q \in Requests
<1>1. CASE q = r
  BY <1>1 DEF Calm
<1>2. CASE q # r
  BY <1>2 DEF Calm, KeepsTimes, NoEntry, InFlight, Invoking, Holding
<1> QED BY <1>1, <1>2

\* A request that ends is calm.
LEMMA EndCalm ==
    ASSUME TypeInv, NEW r \in Requests, NEW how, NEW res, End(r, how, res)
    PROVE  Calm(r) /\ ~Invoking(r)'
<1>1. pc' = [pc EXCEPT ![r] = "done"] /\ pc'[r] = "done"
  BY DEF TypeInv, SharedOK, End, GoTo
<1>2. \A q \in Requests \ {r} : pc'[q] = pc[q] /\ frame'[q] = frame[q]
  BY <1>1 DEF TypeInv, SharedOK, End
<1> QED BY <1>1, <1>2 DEF Calm, KeepsTimes, NoEntry, InFlight, Invoking, InvokingPoints, Holding

\* So is one that goes on, having been inside already or not going there, with
\* its environment and start as they were and a stamp of its own clock.
LEMMA GoCalm ==
    ASSUME TypeInv, NEW r \in Requests, InFlight(r), NEW point, GoTo(r, point),
           point \in InvokingPoints => Invoking(r),
           \A q \in Requests \ {r} : frame'[q] = frame[q],
           frame'[r].env = frame[r].env, frame'[r].startedAt = frame[r].startedAt,
           frame'[r].stamp \in {frame[r].stamp, Clock(r)},
           frame[r].resending => frame'[r].resending
    PROVE  Calm(r)
<1>1. /\ pc'[r] = point
      /\ \A q \in Requests \ {r} : pc'[q] = pc[q]
  BY DEF TypeInv, SharedOK, GoTo
<1>2. KeepsTimes(r)
  BY DEF KeepsTimes
<1>3. NoEntry(r)
  BY <1>1 DEF NoEntry, Invoking, Holding
<1> QED BY <1>1, <1>2, <1>3 DEF Calm

\* An exception inside the guarded section.
LEMMA RaiseCalm ==
    ASSUME TypeInv, NEW r \in Requests, Invoking(r), Raise(r)
    PROVE  Calm(r)
<1>1. CASE HasKey(r)
  BY <1>1, GoCalm DEF Raise, InFlight
<1>2. CASE ~HasKey(r)
  BY <1>2, EndCalm DEF Raise
<1> QED BY <1>1, <1>2

\* One pass of the fallback loop.
LEMMA AttemptCalm ==
    ASSUME TypeInv, NEW r \in Requests, pc[r] = "calling", NEW status, NEW codes,
           NEW succeeded, NEW next, AfterAttempt(r, status, codes, succeeded, next)
    PROVE  Calm(r)
<1>1. /\ frame[r] \in Frames /\ Invoking(r) /\ InFlight(r)
      /\ frame \in [Requests -> Frames \cup {NoFrame}] /\ pc \in [Requests -> Points]
  BY DEF TypeInv, SharedOK, LocalOK, InFlight, Invoking, InvokingPoints
<1>2. /\ \A q \in Requests \ {r} : frame'[q] = frame[q]
      /\ frame'[r].env = frame[r].env /\ frame'[r].startedAt = frame[r].startedAt
      /\ frame'[r].stamp = frame[r].stamp /\ frame'[r].resending = frame[r].resending
  BY <1>1 DEF AfterAttempt, Frames
<1>3. PICK point \in {"calling", "persist"} : GoTo(r, point)
  BY <1>1 DEF AfterAttempt, GoTo
<1> QED BY <1>1, <1>2, <1>3, GoCalm

\* The steps that neither write the table nor enter.
LEMMA QuietCalm ==
    ASSUME TypeInv, NEW r \in Requests,
           \/ PutRefused(r) \/ ReserveRaises(r) \/ GetRejected(r) \/ GetReplayed(r)
           \/ EvaluateRoute(r) \/ PolicyUnresolved(r)
           \/ ProviderSucceeds(r) \/ ProviderRaises(r)
           \/ \E category \in ProviderErrors : ProviderFails(r, category)
           \/ Persist(r) \/ PersistRaises(r) \/ Publish(r)
    PROVE  Calm(r)
<1>1. CASE PutRefused(r)
  BY <1>1, GoCalm DEF PutRefused, InFlight, InvokingPoints
<1>2. CASE ReserveRaises(r)
  BY <1>2, EndCalm DEF ReserveRaises
<1>3. CASE GetRejected(r)
  BY <1>3, EndCalm DEF GetRejected
<1>4. CASE GetReplayed(r)
  BY <1>4, EndCalm DEF GetReplayed
<1>5. CASE EvaluateRoute(r)
  <2>1. /\ frame[r] \in Frames /\ Invoking(r) /\ InFlight(r)
        /\ frame \in [Requests -> Frames \cup {NoFrame}]
    BY <1>5 DEF EvaluateRoute, TypeInv, SharedOK, LocalOK, InFlight, Invoking, InvokingPoints
  <2>2. \E d, x, res :
          \/ frame' = [frame EXCEPT ![r].decision = d, ![r].result = res]
             /\ GoTo(r, "persist")
          \/ frame' = [frame EXCEPT ![r].decision = d, ![r].current = x]
             /\ GoTo(r, "calling")
    BY <1>5 DEF EvaluateRoute
  <2>3. /\ \A q \in Requests \ {r} : frame'[q] = frame[q]
        /\ frame'[r].env = frame[r].env /\ frame'[r].startedAt = frame[r].startedAt
        /\ frame'[r].stamp = frame[r].stamp /\ frame'[r].resending = frame[r].resending
    BY <2>1, <2>2 DEF Frames
  <2> QED BY <2>1, <2>2, <2>3, GoCalm
<1>6. CASE PolicyUnresolved(r)
  BY <1>6, RaiseCalm DEF PolicyUnresolved, Invoking, InvokingPoints
<1>7. CASE ProviderSucceeds(r)
  BY <1>7, AttemptCalm DEF ProviderSucceeds
<1>8. CASE ProviderRaises(r)
  BY <1>8, RaiseCalm DEF ProviderRaises, Invoking, InvokingPoints
<1>9. ASSUME NEW category \in ProviderErrors, ProviderFails(r, category) PROVE Calm(r)
  BY <1>9, AttemptCalm DEF ProviderFails
<1>10. CASE Persist(r)
  BY <1>10, GoCalm DEF Persist, InFlight, Invoking, InvokingPoints
<1>11. CASE PersistRaises(r)
  BY <1>11, RaiseCalm DEF PersistRaises, Invoking, InvokingPoints
<1>12. CASE Publish(r)
  <2>1. CASE HasKey(r)
    <3>1. /\ frame[r] \in Frames /\ Invoking(r) /\ InFlight(r)
          /\ frame \in [Requests -> Frames \cup {NoFrame}]
      BY <1>12 DEF Publish, TypeInv, SharedOK, LocalOK, InFlight, Invoking, InvokingPoints
    <3>2. /\ \A q \in Requests \ {r} : frame'[q] = frame[q]
          /\ frame'[r].env = frame[r].env /\ frame'[r].startedAt = frame[r].startedAt
          /\ frame'[r].stamp = Clock(r) /\ frame'[r].resending = frame[r].resending
          /\ GoTo(r, "complete")
      BY <1>12, <2>1, <3>1 DEF Publish, Frames
    <3> QED BY <3>1, <3>2, GoCalm
  <2>2. CASE ~HasKey(r)
    BY <1>12, <2>2, EndCalm DEF Publish
  <2> QED BY <2>1, <2>2
<1> QED BY <1>1, <1>2, <1>3, <1>4, <1>5, <1>6, <1>7, <1>8, <1>9, <1>10, <1>11, <1>12

LEMMA QuietSteps ==
    ASSUME TypeInv, LeaseInv, NEW r \in Requests,
           \/ PutRefused(r) \/ ReserveRaises(r) \/ GetRejected(r) \/ GetReplayed(r)
           \/ EvaluateRoute(r) \/ PolicyUnresolved(r)
           \/ ProviderSucceeds(r) \/ ProviderRaises(r)
           \/ \E category \in ProviderErrors : ProviderFails(r, category)
           \/ Persist(r) \/ PersistRaises(r) \/ Publish(r)
    PROVE  LeaseInv'
<1>1. UNCHANGED << now, unguarding, table >>
  BY DEF PutRefused, ReserveRaises, GetRejected, GetReplayed, EvaluateRoute, PolicyUnresolved,
         ProviderSucceeds, ProviderRaises, ProviderFails, Persist, PersistRaises, Publish
<1>2. Undisturbed
  BY <1>1, QuietCalm, CalmStep DEF Undisturbed
<1> QED BY <1>2, UndisturbedLease

\* An accepted put (acknowledged or not) finds nobody inside.
LEMMA PutFindsNobody ==
    ASSUME TypeInv, LeaseInv, NEW r \in Requests, pc[r] = "put",
           PutCondition(table[ItemKey(r)], frame[r].stamp),
           NEW q \in Requests, HasKey(q), Holding(q), Guarded(ItemKey(q))
    PROVE  ItemKey(q) # ItemKey(r)
<1>1. InFlight(r)
  BY DEF InFlight
<1>2. ~PutCondition(table[ItemKey(q)], frame[r].stamp)
  BY <1>1, NotExpired
<1> QED BY <1>2

LEMMA PutAcceptedLease ==
    ASSUME TypeInv, LeaseInv, NEW r \in Requests, PutAccepted(r)
    PROVE  LeaseInv'
<1>1. /\ pc[r] = "put" /\ InFlight(r) /\ ~Invoking(r) /\ HasKey(r)
      /\ PutCondition(table[ItemKey(r)], frame[r].stamp)
      /\ SharedOK /\ ItemKey(r) \in ItemKeys
  BY KeyedItemKey DEF PutAccepted, InFlight, Invoking, InvokingPoints, TypeInv, LocalOK
<1>2. /\ pc'[r] = "evaluate" /\ frame' = frame /\ now' = now /\ unguarding' = unguarding
      /\ \A q \in Requests \ {r} : pc'[q] = pc[q]
  BY <1>1 DEF PutAccepted, GoTo, SharedOK
<1>3. table' = [table EXCEPT ![ItemKey(r)] = Reservation(Request(r).hash, frame[r].stamp)]
  BY DEF PutAccepted, WriteReservation
<1>4. table'[ItemKey(r)] = Reservation(Request(r).hash, frame[r].stamp)
  BY <1>1, <1>3 DEF SharedOK
<1>5. \A k : Guarded(k)' <=> Guarded(k)
  BY <1>2 DEF Guarded, ItemKey, Request
<1>6. \A q \in Requests : Holding(q)' => Holding(q) \/ q = r
  BY <1>2 DEF Holding, Invoking
<1>7. \A q \in Requests : InFlight(q)' <=> InFlight(q)
  BY <1>1, <1>2 DEF InFlight, Invoking, InvokingPoints
<1>8. \A q \in Requests : Timely(q)'
  BY <1>2, <1>7 DEF LeaseInv, Timely
<1>9. ASSUME NEW q \in Requests PROVE Leased(q)'
  <2> SUFFICES ASSUME HasKey(q), Holding(q)', Guarded(ItemKey(q))
               PROVE  /\ table'[ItemKey(q)] # NoItem
                      /\ frame[q].startedAt + Skew[frame[q].env] + StaleReservationSeconds
                            <= table'[ItemKey(q)].expiresAt
    BY <1>2, <1>5 DEF Leased, HasKey, ItemKey, Request
  <2>1. CASE q = r
    <3>1. frame[r] \in Frames /\ frame[r].env \in Envs /\ frame[r].stamp \in Int
          /\ frame[r].startedAt \in Nat
      BY <1>1, InFlightFacts DEF Frames
    <3>2. Skew[frame[r].env] \in Int /\ StaleReservationSeconds \in Nat
      BY <3>1, TimeoutAssumption, StaleAssumption
    <3>3. frame[r].startedAt + Skew[frame[r].env] <= frame[r].stamp
      BY <1>1 DEF LeaseInv, Timely
    <3>4. table'[ItemKey(r)].expiresAt = frame[r].stamp + StaleReservationSeconds
      BY <1>4 DEF Reservation
    <3>5. table'[ItemKey(r)] # NoItem
      BY <1>4, <3>1, ItemTypes, NoneAssumption
    <3> QED BY <2>1, <3>1, <3>2, <3>3, <3>4, <3>5
  <2>2. CASE q # r
    <3>1. Holding(q)
      BY <1>6, <2>2
    <3>2. ItemKey(q) # ItemKey(r)
      BY <1>1, <3>1, PutFindsNobody
    <3>3. table'[ItemKey(q)] = table[ItemKey(q)]
      BY <1>1, <1>3, <3>2, KeyedItemKey DEF SharedOK
    <3> QED BY <3>1, <3>3 DEF LeaseInv, Leased
  <2> QED BY <2>1, <2>2
<1>10. ASSUME NEW a \in Requests, NEW b \in Requests PROVE Alone(a, b)'
  <2> SUFFICES ASSUME Holding(a)', Holding(b)', HasKey(a), ItemKey(b) = ItemKey(a),
                      Guarded(ItemKey(a))
               PROVE  b = a
    BY <1>5 DEF Alone, HasKey, ItemKey, Request
  <2>1. HasKey(b) /\ Guarded(ItemKey(b))
    BY KeyedItemKey
  <2>2. CASE Holding(a) /\ Holding(b)
    BY <2>2 DEF LeaseInv, Alone
  <2>3. CASE a = r /\ Holding(b)
    BY <1>1, <2>1, <2>3, PutFindsNobody
  <2>4. CASE b = r /\ Holding(a)
    BY <1>1, <2>4, PutFindsNobody
  <2> QED BY <1>6, <2>2, <2>3, <2>4
<1> QED BY <1>8, <1>9, <1>10 DEF LeaseInv

LEMMA PutAnswerLostLease ==
    ASSUME TypeInv, LeaseInv, NEW r \in Requests, PutAnswerLost(r)
    PROVE  LeaseInv'
<1>1. /\ pc[r] = "put" /\ PutCondition(table[ItemKey(r)], frame[r].stamp)
      /\ UNCHANGED << now, unguarding, pc, frame >>
      /\ table' = [table EXCEPT ![ItemKey(r)] = Reservation(Request(r).hash, frame[r].stamp)]
  BY DEF PutAnswerLost, WriteReservation
<1>2. \A q \in Requests : KeepsTimes(q) /\ NoEntry(q) /\ (Holding(q)' <=> Holding(q))
  BY <1>1 DEF KeepsTimes, NoEntry, InFlight, Invoking, Holding
<1>3. ASSUME NEW q \in Requests, HasKey(q), Holding(q)', Guarded(ItemKey(q))'
      PROVE  table'[ItemKey(q)] = table[ItemKey(q)]
  <2>1. Guarded(ItemKey(q))
    BY <1>1, <1>3 DEF Guarded, ItemKey, Request
  <2>2. ItemKey(q) # ItemKey(r) /\ ItemKey(q) \in ItemKeys
    BY <1>1, <1>2, <1>3, <2>1, PutFindsNobody, KeyedItemKey
  <2> QED BY <1>1, <2>2 DEF TypeInv, SharedOK
<1>4. Undisturbed
  BY <1>1, <1>2, <1>3 DEF Undisturbed
<1> QED BY <1>4, UndisturbedLease

\* complete() or release() writes under the key of r.
Replaces(r) ==
    /\ pc[r] \in {"complete", "release"}
    /\ \/ UNCHANGED << table, unguarding >>
       \/ \E item : WriteItem(r, item)

LEMMA ReplaceFacts ==
    ASSUME TypeInv, NEW r \in Requests,
           \/ Complete(r) \/ CompleteRaises(r) \/ CompleteAnswerLost(r)
           \/ Release(r) \/ ReleaseAnswerLost(r)
    PROVE  /\ Replaces(r) /\ Invoking(r) /\ HasKey(r) /\ now' = now /\ Calm(r) /\ ~Holding(r)'
           /\ unguarding \subseteq unguarding'
<1>1. Replaces(r) /\ Invoking(r) /\ HasKey(r) /\ now' = now
  BY DEF Complete, CompleteRaises, CompleteAnswerLost, Release, ReleaseAnswerLost, Resend,
         WriteCompletion, Replaces, Invoking, InvokingPoints, TypeInv, LocalOK
<1>2. unguarding \subseteq unguarding'
  BY <1>1 DEF Replaces, WriteItem
<1>3. CASE Complete(r) \/ CompleteRaises(r) \/ Release(r)
  <2>1. \E how, res : End(r, how, res)
    BY <1>3 DEF Complete, CompleteRaises, Release
  <2>2. Calm(r) /\ ~Invoking(r)'
    BY <2>1, EndCalm
  <2> QED BY <1>1, <1>2, <2>2 DEF Holding
<1>4. CASE CompleteAnswerLost(r) \/ ReleaseAnswerLost(r)
  <2>1. InFlight(r) /\ frame[r] \in Frames /\ frame \in [Requests -> Frames \cup {NoFrame}]
    BY <1>1, InFlightFacts DEF InFlight, TypeInv, SharedOK
  <2>2. Resend(r)
    BY <1>4 DEF CompleteAnswerLost, ReleaseAnswerLost
  <2>3. /\ \A q \in Requests \ {r} : frame'[q] = frame[q]
        /\ frame'[r].env = frame[r].env /\ frame'[r].startedAt = frame[r].startedAt
        /\ frame'[r].stamp = frame[r].stamp /\ frame'[r].resending = TRUE
    BY <2>1, <2>2 DEF Resend, Frames
  <2>4. GoTo(r, pc[r])
    BY <2>2 DEF Resend, GoTo, TypeInv, SharedOK
  <2>5. Calm(r)
    BY <1>1, <2>1, <2>3, <2>4, GoCalm
  <2> QED BY <1>1, <1>2, <2>3, <2>5 DEF Holding
<1> QED BY <1>3, <1>4

\* complete() and release() replace the item of the request that calls them, which
\* is alone inside; a repeat finds its own write or nothing; otherwise the key
\* is not guarded.
LEMMA ReplaceLease ==
    ASSUME TypeInv, LeaseInv, NEW r \in Requests,
           \/ Complete(r) \/ CompleteRaises(r) \/ CompleteAnswerLost(r)
           \/ Release(r) \/ ReleaseAnswerLost(r)
    PROVE  LeaseInv'
<1>1. /\ Replaces(r) /\ Invoking(r) /\ HasKey(r) /\ now' = now /\ Calm(r) /\ ~Holding(r)'
      /\ unguarding \subseteq unguarding'
  BY ReplaceFacts
<1>2. \A q \in Requests : KeepsTimes(q) /\ NoEntry(q)
  BY <1>1, CalmStep
<1>3. ASSUME NEW q \in Requests, HasKey(q), Holding(q)', Guarded(ItemKey(q))'
      PROVE  table'[ItemKey(q)] = table[ItemKey(q)]
  <2>1. q # r /\ Holding(q) /\ Guarded(ItemKey(q)) /\ ItemKey(q) \in ItemKeys
    BY <1>1, <1>2, <1>3, KeyedItemKey DEF NoEntry, Guarded, ItemKey, Request
  <2>2. CASE UNCHANGED table
    BY <2>2
  <2>3. ASSUME NEW item, WriteItem(r, item)
        PROVE  table'[ItemKey(q)] = table[ItemKey(q)]
    <3>1. table' = [table EXCEPT ![ItemKey(r)] = item]
      BY <2>3 DEF WriteItem
    <3>2. CASE ItemKey(q) # ItemKey(r)
      BY <2>1, <3>1, <3>2 DEF TypeInv, SharedOK
    <3>3. CASE ItemKey(q) = ItemKey(r)
      <4>1. frame[r].resending
        BY <1>1, <1>3, <2>1, <3>3 DEF LeaseInv, Alone, Holding
      <4>2. r \notin unguarding'
        BY <1>3, <3>3 DEF Guarded, ItemKey, Request
      <4>3. table[ItemKey(r)] \in {NoItem, item}
        BY <2>3, <4>1, <4>2 DEF WriteItem
      <4>4. table[ItemKey(q)] # NoItem
        BY <1>3, <2>1 DEF LeaseInv, Leased
      <4> QED BY <2>1, <3>1, <3>3, <4>3, <4>4 DEF TypeInv, SharedOK
    <3> QED BY <3>2, <3>3
  <2> QED BY <1>1, <2>2, <2>3 DEF Replaces
<1>4. Undisturbed
  BY <1>1, <1>2, <1>3 DEF Undisturbed
<1> QED BY <1>4, UndisturbedLease

\* A round of reserve() that found nothing: another round with a later reading of
\* the clock, or the key loses its guard.
LEMMA GetVanishedLease ==
    ASSUME TypeInv, LeaseInv, NEW r \in Requests, GetVanished(r)
    PROVE  LeaseInv'
<1>1. /\ pc[r] = "get" /\ InFlight(r) /\ ~Invoking(r) /\ SharedOK
  BY DEF GetVanished, InFlight, Invoking, InvokingPoints, TypeInv
<1>2. /\ frame[r] \in Frames /\ frame[r].env \in Envs /\ Clock(r) \in Int
  BY <1>1, InFlightFacts
<1>3. /\ frame'[r].env = frame[r].env /\ frame'[r].startedAt = frame[r].startedAt
      /\ frame'[r].stamp = Clock(r)
      /\ \A q \in Requests \ {r} : pc'[q] = pc[q] /\ frame'[q] = frame[q]
      /\ UNCHANGED << now, table >>
  BY <1>1, <1>2 DEF GetVanished, SharedOK, Frames, GoTo
<1>4. unguarding \subseteq unguarding' /\ (Invoking(r)' => r \in unguarding')
  BY <1>1 DEF GetVanished, SharedOK, GoTo, Invoking, InvokingPoints
<1>5. \A k : Guarded(k)' => Guarded(k)
  BY <1>4 DEF Guarded, ItemKey, Request
<1>6. Invoking(r)' => ~Guarded(ItemKey(r))'
  BY <1>4 DEF Guarded, ItemKey, Request
<1>7. ASSUME NEW q \in Requests PROVE Timely(q)'
  <2>1. CASE q = r
    <3>1. /\ frame[r].startedAt \in Nat /\ Skew[frame[r].env] \in Int /\ now \in Nat
          /\ frame[r].stamp \in Int
      BY <1>1, <1>2, TimeoutAssumption DEF Frames, SharedOK
    <3>2. /\ now <= frame[r].startedAt + LambdaTimeout
          /\ frame[r].startedAt + Skew[frame[r].env] <= frame[r].stamp
          /\ frame[r].stamp <= now + Skew[frame[r].env]
      BY <1>1 DEF LeaseInv, Timely
    <3>3. frame'[r].stamp = now + Skew[frame[r].env]
      BY <1>3 DEF Clock
    <3> QED BY <1>3, <2>1, <3>1, <3>2, <3>3 DEF Timely
  <2>2. CASE q # r
    BY <1>3, <2>2 DEF LeaseInv, Timely, InFlight, Invoking
  <2> QED BY <2>1, <2>2
<1>8. ASSUME NEW q \in Requests PROVE Leased(q)'
  <2>1. CASE q = r
    BY <1>6, <2>1 DEF Leased, Holding, ItemKey, Request
  <2>2. CASE q # r
    BY <1>3, <1>5, <2>2 DEF LeaseInv, Leased, Holding, Invoking, HasKey, ItemKey, Request
  <2> QED BY <2>1, <2>2
<1>9. ASSUME NEW a \in Requests, NEW b \in Requests PROVE Alone(a, b)'
  <2>1. CASE a = r \/ b = r
    BY <1>6, <2>1 DEF Alone, Holding, ItemKey, Request
  <2>2. CASE a # r /\ b # r
    BY <1>3, <1>5, <2>2 DEF LeaseInv, Alone, Holding, Invoking, HasKey, ItemKey, Request
  <2> QED BY <2>1, <2>2
<1> QED BY <1>7, <1>8, <1>9 DEF LeaseInv

\* A request starts.
LEMMA StartLease ==
    ASSUME TypeInv, LeaseInv, NEW r \in Requests, NEW e \in Envs, Start(r, e)
    PROVE  LeaseInv'
<1>1. /\ SharedOK /\ pc[r] = "idle" /\ ~Invoking(r)
      /\ UNCHANGED << now, table, unguarding >>
      /\ frame'[r] = NewFrame(e)
      /\ pc'[r] = IF HasKey(r) THEN "put" ELSE "evaluate"
      /\ \A q \in Requests \ {r} : pc'[q] = pc[q] /\ frame'[q] = frame[q]
  BY DEF Start, TypeInv, SharedOK, GoTo, Invoking, InvokingPoints
<1>2. Invoking(r)' => ~HasKey(r)
  BY <1>1 DEF Invoking, InvokingPoints
<1>3. \A k : Guarded(k)' <=> Guarded(k)
  BY <1>1 DEF Guarded, ItemKey, Request
<1>4. ASSUME NEW q \in Requests PROVE Timely(q)'
  <2>1. CASE q = r
    <3>1. now \in Nat /\ Skew[e] \in Int /\ LambdaTimeout \in Nat
      BY <1>1, TimeoutAssumption DEF SharedOK
    <3>2. frame'[r].startedAt = now /\ frame'[r].stamp = now + Skew[e] /\ frame'[r].env = e
      BY <1>1 DEF NewFrame
    <3> QED BY <1>1, <2>1, <3>1, <3>2 DEF Timely
  <2>2. CASE q # r
    BY <1>1, <2>2 DEF LeaseInv, Timely, InFlight, Invoking
  <2> QED BY <2>1, <2>2
<1>5. ASSUME NEW q \in Requests PROVE Leased(q)'
  <2>1. CASE q = r
    BY <1>2, <2>1 DEF Leased, Holding, HasKey, Request
  <2>2. CASE q # r
    BY <1>1, <1>3, <2>2 DEF LeaseInv, Leased, Holding, Invoking, HasKey, ItemKey, Request
  <2> QED BY <2>1, <2>2
<1>6. ASSUME NEW a \in Requests, NEW b \in Requests PROVE Alone(a, b)'
  <2>1. CASE a = r \/ b = r
    <3> SUFFICES ASSUME Invoking(a)', Invoking(b)', HasKey(a), ItemKey(b) = ItemKey(a)
                 PROVE  FALSE
      BY DEF Alone, Holding, HasKey, ItemKey, Request
    <3>1. HasKey(a) /\ HasKey(b)
      BY KeyedItemKey
    <3> QED BY <1>2, <2>1, <3>1
  <2>2. CASE a # r /\ b # r
    BY <1>1, <1>3, <2>2 DEF LeaseInv, Alone, Holding, Invoking, HasKey, ItemKey, Request
  <2> QED BY <2>1, <2>2
<1> QED BY <1>4, <1>5, <1>6 DEF LeaseInv

\* What the platform does.
LEMMA PlatformLease ==
    ASSUME TypeInv, LeaseInv,
           \/ \E e \in Envs : Kill(e)
           \/ \E k \in ItemKeys : TtlSweep(k) \/ Replicate(k)
           \/ Tick
    PROVE  LeaseInv'
<1>1. ASSUME NEW e \in Envs, Kill(e) PROVE LeaseInv'
  <2>1. UNCHANGED << now, table, unguarding >>
    BY <1>1 DEF Kill
  <2>2. ASSUME NEW q \in Requests PROVE KeepsTimes(q) /\ NoEntry(q)
    <3>1. CASE Serving(e, q)
      <4>1. pc'[q] = "done"
        BY <1>1, <3>1 DEF Kill
      <4> QED BY <4>1 DEF KeepsTimes, NoEntry, InFlight, Invoking, InvokingPoints, Holding
    <3>2. CASE ~Serving(e, q)
      <4>1. pc'[q] = pc[q] /\ frame'[q] = frame[q]
        BY <1>1, <3>2 DEF Kill
      <4> QED BY <4>1 DEF KeepsTimes, NoEntry, InFlight, Invoking, Holding
    <3> QED BY <3>1, <3>2
  <2>3. Undisturbed
    BY <2>1, <2>2 DEF Undisturbed
  <2> QED BY <2>3, UndisturbedLease
<1>2. ASSUME NEW k \in ItemKeys, TtlSweep(k) PROVE LeaseInv'
  <2>1. /\ UNCHANGED << now, unguarding, pc, frame >>
        /\ table[k].expiresAt < now /\ table' = [table EXCEPT ![k] = NoItem]
    BY <1>2 DEF TtlSweep
  <2>2. \A q \in Requests : KeepsTimes(q) /\ NoEntry(q) /\ (Holding(q)' <=> Holding(q))
    BY <2>1 DEF KeepsTimes, NoEntry, InFlight, Invoking, Holding
  <2>3. ASSUME NEW q \in Requests, HasKey(q), Holding(q)', Guarded(ItemKey(q))'
        PROVE  table'[ItemKey(q)] = table[ItemKey(q)]
    <3>0. Guarded(ItemKey(q))
      BY <2>1, <2>3 DEF Guarded, ItemKey, Request
    <3>1. ~(table[ItemKey(q)].expiresAt < now) /\ ItemKey(q) \in ItemKeys
      BY <2>2, <2>3, <3>0, NotExpired, KeyedItemKey
    <3>2. ItemKey(q) # k
      BY <2>1, <3>1
    <3> QED BY <2>1, <3>1, <3>2 DEF TypeInv, SharedOK
  <2>4. Undisturbed
    BY <2>1, <2>2, <2>3 DEF Undisturbed
  <2> QED BY <2>4, UndisturbedLease
<1>3. ASSUME NEW k \in ItemKeys, Replicate(k) PROVE LeaseInv'
  <2>1. UNCHANGED << now, table, unguarding, pc, frame >>
    BY <1>3 DEF Replicate
  <2>2. Undisturbed
    BY <2>1 DEF Undisturbed, KeepsTimes, NoEntry, InFlight, Invoking, Holding
  <2> QED BY <2>2, UndisturbedLease
<1>4. CASE Tick
  <2>1. UNCHANGED << table, unguarding, pc, frame >> /\ now' = now + 1 /\ now \in Nat
    BY <1>4 DEF Tick, TypeInv, SharedOK
  <2>2. \A k : Guarded(k)' <=> Guarded(k)
    BY <2>1 DEF Guarded, ItemKey, Request
  <2>3. ASSUME NEW q \in Requests PROVE Timely(q)'
    <3> SUFFICES ASSUME InFlight(q)
                 PROVE  /\ now + 1 <= frame[q].startedAt + LambdaTimeout
                        /\ frame[q].startedAt + Skew[frame[q].env] <= frame[q].stamp
                        /\ frame[q].stamp <= now + 1 + Skew[frame[q].env]
      BY <2>1 DEF Timely, InFlight, Invoking
    <3>1. /\ frame[q] \in Frames /\ frame[q].env \in Envs /\ frame[q].stamp \in Int
          /\ frame[q].startedAt \in Nat
      BY InFlightFacts DEF Frames
    <3>2. Skew[frame[q].env] \in Int /\ LambdaTimeout \in Nat
      BY <3>1, TimeoutAssumption
    <3>3. now < frame[q].startedAt + LambdaTimeout
      BY <1>4 DEF Tick
    <3>4. /\ frame[q].startedAt + Skew[frame[q].env] <= frame[q].stamp
          /\ frame[q].stamp <= now + Skew[frame[q].env]
      BY DEF LeaseInv, Timely
    <3> QED BY <2>1, <3>1, <3>2, <3>3, <3>4
  <2>4. ASSUME NEW q \in Requests PROVE Leased(q)'
    BY <2>1, <2>2 DEF LeaseInv, Leased, Holding, Invoking, HasKey, ItemKey, Request
  <2>5. ASSUME NEW a \in Requests, NEW b \in Requests PROVE Alone(a, b)'
    BY <2>1, <2>2 DEF LeaseInv, Alone, Holding, Invoking, HasKey, ItemKey, Request
  <2> QED BY <2>3, <2>4, <2>5 DEF LeaseInv
<1> QED BY <1>1, <1>2, <1>3, <1>4

LEMMA LeaseInit == Init => LeaseInv
BY DEF Init, LeaseInv, Timely, Leased, Alone, InFlight, Holding, Invoking, InvokingPoints

LEMMA LeaseStep == TypeInv /\ LeaseInv /\ [Next]_vars => LeaseInv'
<1> SUFFICES ASSUME TypeInv, LeaseInv, [Next]_vars PROVE LeaseInv'
  OBVIOUS
<1>1. ASSUME NEW r \in Requests, Advance(r) PROVE LeaseInv'
  BY <1>1, QuietSteps, PutAcceptedLease, PutAnswerLostLease, GetVanishedLease, ReplaceLease
     DEF Advance
<1>2. CASE UNCHANGED vars
  <2>1. Undisturbed
    BY <1>2 DEF vars, Undisturbed, KeepsTimes, NoEntry, InFlight, Invoking, Holding
  <2> QED BY <2>1, UndisturbedLease
<1> QED BY <1>1, <1>2, StartLease, PlatformLease DEF Next

LEMMA LeaseInvHolds == Spec => []LeaseInv
BY TypeInvHolds, LeaseInit, LeaseStep, PTL DEF Spec

\* _invoke_with_idempotency over the DynamoDB store: two requests with one key are
\* between NEW and their completion or release together only if reserve() gave up on
\* the key or a repeated complete() or release() hit another request's item, for any
\* number of requests, environments and keys, any clock skew within the assumption,
\* and any kills, lost answers, repeated writes, failed calls, sweeps and stale reads.
THEOREM ExclusiveInvocation == Spec => []OneInvocationPerKey
<1>1. LeaseInv => OneInvocationPerKey
  <2> SUFFICES ASSUME LeaseInv, NEW k \in ItemKeys, Overlapping(k)
               PROVE  \E r \in unguarding : ItemKey(r) = k
    BY DEF OneInvocationPerKey
  <2>1. PICK r1 \in Requests, r2 \in Requests :
           /\ r1 # r2 /\ Holding(r1) /\ Holding(r2) /\ ItemKey(r1) = k /\ ItemKey(r2) = k
    BY DEF Overlapping
  <2>2. HasKey(r1)
    BY <2>1, KeyedItemKey
  <2> QED BY <2>1, <2>2 DEF LeaseInv, Alone, Guarded
<1> QED BY <1>1, LeaseInvHolds, PTL

-----------------------------------------------------------------------------
(***************************************************************************)
(* How long a lock lasts.                                                  *)
(***************************************************************************)
\* An item, of the table or of a copy of it, that is not honoured for long.
Short(item) ==
    item # NoItem /\ item.status = "in_progress" =>
        \E e \in Envs : item.expiresAt <= now + Skew[e] + StaleReservationSeconds

\* Time only runs down what is left of a lock.
LEMMA ShortStays ==
    ASSUME TypeInv, [Next]_vars, NEW item \in Items \cup {NoItem}, Short(item)
    PROVE  Short(item)'
<1>1. now \in Nat /\ (now' = now \/ now' = now + 1)
  BY DEF Next, Advance, PutAccepted, PutAnswerLost, PutRefused, ReserveRaises,
         GetVanished, GetRejected, GetReplayed, EvaluateRoute, PolicyUnresolved,
         ProviderSucceeds, ProviderRaises, ProviderFails, Persist, PersistRaises, Publish,
         Complete, CompleteRaises, Release, CompleteAnswerLost, ReleaseAnswerLost, Resend,
         Start, Kill, TtlSweep, Replicate, Tick, vars, TypeInv, SharedOK
<1>2. SUFFICES ASSUME item # NoItem, item.status = "in_progress"
               PROVE  \E e \in Envs : item.expiresAt <= now' + Skew[e] + StaleReservationSeconds
  BY DEF Short
<1>3. PICK e \in Envs : item.expiresAt <= now + Skew[e] + StaleReservationSeconds
  BY <1>2 DEF Short
<1>4. Skew[e] \in Int /\ StaleReservationSeconds \in Nat
  BY TimeoutAssumption, StaleAssumption
<1>5. item.expiresAt \in Int
  BY <1>2 DEF Items
<1>6. item.expiresAt <= now' + Skew[e] + StaleReservationSeconds
  BY <1>1, <1>3, <1>4, <1>5
<1> QED BY <1>6

\* A put carries the clock of its request's environment as it was read, not later.
LEMMA ReservationShort ==
    ASSUME TypeInv, LeaseInv, NEW r \in Requests, pc[r] = "put"
    PROVE  /\ Reservation(Request(r).hash, frame[r].stamp) \in Items
           /\ Short(Reservation(Request(r).hash, frame[r].stamp))
<1>1. InFlight(r)
  BY DEF InFlight
<1>2. frame[r].env \in Envs /\ frame[r].stamp \in Int /\ now \in Nat
  BY <1>1, InFlightFacts DEF TypeInv, SharedOK
<1>3. frame[r].stamp <= now + Skew[frame[r].env]
  BY <1>1 DEF LeaseInv, Timely
<1>4. Skew[frame[r].env] \in Int /\ StaleReservationSeconds \in Nat
  BY <1>2, TimeoutAssumption, StaleAssumption
<1>5. frame[r].stamp + StaleReservationSeconds
         <= now + Skew[frame[r].env] + StaleReservationSeconds
  BY <1>2, <1>3, <1>4
<1>6. Short(Reservation(Request(r).hash, frame[r].stamp))
  BY <1>2, <1>5 DEF Short, Reservation
<1> QED BY <1>2, <1>6, ItemTypes

\* What a step leaves under a key was short, or is no lock.
LEMMA ShortWritten ==
    ASSUME TypeInv, LeaseInv, [Next]_vars, NEW k \in ItemKeys, Short(table[k]), Short(replica[k]),
           NEW item \in {table'[k], replica'[k]}
    PROVE  item \in Items \cup {NoItem} /\ Short(item)
<1>1. /\ table \in [ItemKeys -> Items \cup {NoItem}]
      /\ replica \in [ItemKeys -> Items \cup {NoItem}]
  BY DEF TypeInv, SharedOK
<1>2. TypeInv'
  BY TypeStep
<1>3. item \in Items \cup {NoItem}
  BY <1>2 DEF TypeInv, SharedOK
<1>4. Short(NoItem)
  BY DEF Short
<1>5. CASE item = table[k] \/ item = replica[k] \/ item = NoItem
  BY <1>3, <1>4, <1>5
<1>6. ASSUME NEW r \in Requests, PutAccepted(r) \/ PutAnswerLost(r) PROVE Short(item)
  <2>1. /\ pc[r] = "put" /\ replica' = replica
        /\ table' = [table EXCEPT ![ItemKey(r)] = Reservation(Request(r).hash, frame[r].stamp)]
    BY <1>6 DEF PutAccepted, PutAnswerLost, WriteReservation
  <2>2. \/ item = table[k] \/ item = replica[k]
        \/ item = Reservation(Request(r).hash, frame[r].stamp)
    BY <1>1, <2>1
  <2> QED BY <1>5, <2>1, <2>2, ReservationShort
<1>7. ASSUME NEW r \in Requests,
             \/ Complete(r) \/ CompleteRaises(r) \/ CompleteAnswerLost(r)
             \/ Release(r) \/ ReleaseAnswerLost(r)
      PROVE  Short(item)
  <2> DEFINE done == Completion(Request(r).hash, frame[r].result, frame[r].stamp,
                         Policy(r).allow_response_caching, Policy(r).retention_seconds)
  <2>1. /\ replica' = replica
        /\ \/ table' = table
           \/ \E new \in {done, NoItem} : table' = [table EXCEPT ![ItemKey(r)] = new]
    BY <1>7 DEF Complete, CompleteRaises, CompleteAnswerLost, Release, ReleaseAnswerLost,
                Resend, WriteCompletion, WriteItem, Released
  <2>2. done = NoItem \/ done.status = "completed"
    BY DEF Completion
  <2> HIDE DEF done
  <2>3. item = table[k] \/ item = replica[k] \/ item = done \/ item = NoItem
    BY <1>1, <2>1
  <2> QED BY <1>5, <2>2, <2>3 DEF Short
<1>8. CASE \E j \in ItemKeys : TtlSweep(j) \/ Replicate(j)
  BY <1>1, <1>5, <1>8 DEF TtlSweep, Replicate
<1>9. CASE UNCHANGED << table, replica >>
  BY <1>5, <1>9
<1>10. ASSUME NEW r \in Requests, Advance(r) PROVE Short(item)
  BY <1>6, <1>7, <1>8, <1>9, <1>10
     DEF Advance, PutRefused, ReserveRaises, GetVanished, GetRejected, GetReplayed,
         EvaluateRoute, PolicyUnresolved, ProviderSucceeds, ProviderRaises, ProviderFails,
         Persist, PersistRaises, Publish
<1> QED BY <1>3, <1>8, <1>9, <1>10 DEF Next, Start, Kill, Tick, vars

\* reserve(): no lock, in the table or in a lagging copy of it, outlives
\* StaleReservationSeconds on the clock that stamped it, for any number of requests,
\* repeated puts, kills and replication delays.  With time passing this is what
\* frees a key whose holder is gone.
THEOREM LocksExpire == Spec => []LocksAreShort
<1> DEFINE AllShort == \A k \in ItemKeys : Short(table[k]) /\ Short(replica[k])
<1>1. Init => AllShort
  BY DEF Init, Short
<1>2. TypeInv /\ LeaseInv /\ AllShort /\ [Next]_vars => AllShort'
  <2> SUFFICES ASSUME TypeInv, LeaseInv, AllShort, [Next]_vars, NEW k \in ItemKeys
               PROVE  Short(table[k])' /\ Short(replica[k])'
    OBVIOUS
  <2>1. ASSUME NEW item, item = table'[k] \/ item = replica'[k] PROVE Short(item)'
    <3>1. item \in Items \cup {NoItem} /\ Short(item)
      BY <2>1, ShortWritten
    <3> QED BY <3>1, ShortStays
  <2> QED BY <2>1 DEF Short
<1>3. AllShort => LocksAreShort
  BY DEF Short, LocksAreShort
<1> HIDE DEF AllShort
<1> QED BY <1>1, <1>2, <1>3, TypeInvHolds, LeaseInvHolds, PTL DEF Spec

-----------------------------------------------------------------------------
(***************************************************************************)
(* Whom a step concerns.                                                   *)
(***************************************************************************)
\* A step of the code serving r touches nobody else's locals, answer or audit
\* record, and stays in its environment.
Concerns(r) ==
    /\ InFlight(r)
    /\ InFlight(r)' => frame'[r].env = frame[r].env
    /\ \A q \in Requests \ {r} :
          /\ pc'[q] = pc[q] /\ frame'[q] = frame[q]
          /\ outcome'[q] = outcome[q] /\ returned'[q] = returned[q] /\ audit'[q] = audit[q]

LEMMA AdvanceConcerns ==
    ASSUME TypeInv, NEW r \in Requests, Advance(r)
    PROVE  Concerns(r)
<1>1. SharedOK /\ LocalOK(r)
  BY DEF TypeInv
<1>2. InFlight(r)
  BY DEF Advance, PutAccepted, PutAnswerLost, PutRefused, ReserveRaises, GetVanished,
         GetRejected, GetReplayed, EvaluateRoute, PolicyUnresolved, ProviderSucceeds,
         ProviderRaises, ProviderFails, Persist, PersistRaises, Publish, Complete,
         CompleteRaises, Release, CompleteAnswerLost, ReleaseAnswerLost, InFlight, Invoking,
         InvokingPoints
<1>3. \A q \in Requests \ {r} :
        outcome'[q] = outcome[q] /\ returned'[q] = returned[q] /\ audit'[q] = audit[q]
  BY <1>1 DEF Advance, PutAccepted, PutAnswerLost, PutRefused, ReserveRaises, GetVanished,
         GetRejected, GetReplayed, EvaluateRoute, PolicyUnresolved, ProviderSucceeds,
         ProviderRaises, ProviderFails, Persist, PersistRaises, Publish, Complete,
         CompleteRaises, Release, CompleteAnswerLost, ReleaseAnswerLost, Resend, End, Raise,
         WriteAudit, SharedOK
<1>4. /\ InFlight(r)' => frame'[r].env = frame[r].env
      /\ \A q \in Requests \ {r} : pc'[q] = pc[q] /\ frame'[q] = frame[q]
  <2>1. CASE PutAccepted(r) \/ PutAnswerLost(r)
    BY <1>1, <2>1 DEF PutAccepted, PutAnswerLost, GoTo, SharedOK
  <2>2. CASE GetVanished(r)
    <3>1. frame[r] \in Frames
      BY <1>1, <1>2 DEF LocalOK
    <3> QED BY <1>1, <2>2, <3>1 DEF GetVanished, GoTo, SharedOK, Frames
  <2>3. CASE \/ Complete(r) \/ CompleteRaises(r) \/ CompleteAnswerLost(r)
             \/ Release(r) \/ ReleaseAnswerLost(r)
    BY <2>3, ReplaceFacts DEF Calm, KeepsTimes
  <2>4. CASE Calm(r)
    BY <2>4 DEF Calm, KeepsTimes
  <2> QED BY <2>1, <2>2, <2>3, <2>4, QuietCalm DEF Advance
<1> QED BY <1>2, <1>3, <1>4 DEF Concerns

\* Lambda: an environment serves one request at a time.
OneServed ==
    \A r, q \in Requests :
        InFlight(r) /\ InFlight(q) /\ frame[r].env = frame[q].env => q = r

LEMMA OneServedHolds == Spec => []OneServed
<1>1. Init => OneServed
  BY DEF Init, OneServed, InFlight, Invoking, InvokingPoints
<1>2. TypeInv /\ OneServed /\ [Next]_vars => OneServed'
  <2> SUFFICES ASSUME TypeInv, OneServed, [Next]_vars PROVE OneServed'
    OBVIOUS
  <2>1. ASSUME NEW r \in Requests, Advance(r) PROVE OneServed'
    <3>1. Concerns(r)
      BY <2>1, AdvanceConcerns
    <3>2. \A q \in Requests : InFlight(q)' => InFlight(q) /\ frame'[q].env = frame[q].env
      BY <3>1 DEF Concerns, InFlight, Invoking
    <3> QED BY <3>2 DEF OneServed
  <2>2. ASSUME NEW r \in Requests, NEW e \in Envs, Start(r, e) PROVE OneServed'
    <3>1. /\ \A q \in Requests : ~(InFlight(q) /\ frame[q].env = e)
          /\ frame'[r].env = e
          /\ \A q \in Requests \ {r} : pc'[q] = pc[q] /\ frame'[q] = frame[q]
      BY <2>2 DEF Start, Serving, NewFrame, GoTo, TypeInv, SharedOK
    <3>2. \A q \in Requests \ {r} : InFlight(q)' <=> InFlight(q)
      BY <3>1 DEF InFlight, Invoking
    <3> QED BY <3>1, <3>2 DEF OneServed
  <2>3. ASSUME NEW e \in Envs, Kill(e) PROVE OneServed'
    <3>1. \A q \in Requests :
            \/ pc'[q] = "done"
            \/ pc'[q] = pc[q] /\ frame'[q] = frame[q]
      BY <2>3 DEF Kill
    <3>2. \A q \in Requests : InFlight(q)' => InFlight(q) /\ frame'[q] = frame[q]
      BY <3>1 DEF InFlight, Invoking, InvokingPoints
    <3> QED BY <3>2 DEF OneServed
  <2>4. CASE UNCHANGED << pc, frame >>
    BY <2>4 DEF OneServed, InFlight, Invoking
  <2> QED BY <2>1, <2>2, <2>3, <2>4 DEF Next, TtlSweep, Replicate, Tick, vars
<1> QED BY <1>1, <1>2, TypeInvHolds, PTL DEF Spec

=============================================================================
