----------------------- MODULE InvocationOrchestrator -----------------------
(***************************************************************************)
(* InvocationOrchestrator.invoke() as deployed: Lambda execution           *)
(* environments that share the DynamoDB idempotency and decision tables.   *)
(* Every call to a table or a model provider is a step of its own, so the  *)
(* calls of concurrent requests interleave, fail, lose their answer, or    *)
(* are cut off by the Lambda timeout anywhere in between.                  *)
(*                                                                         *)
(* A request is one call of invoke(); a client's retry is another request  *)
(* with the same key.  Its id doubles as the (unique) decision_id.         *)
(***************************************************************************)
EXTENDS FallbackChain, ModelHealth, DynamoIdempotencyStore

CONSTANTS
    Requests,           \* the calls of invoke() of a behaviour
    RequestOf,          \* [Requests -> request record]
    Envs,               \* Lambda execution environments
    Skew,               \* [Envs -> Int]: an environment's clock minus real time
    Applications, Keys, NoKey,
    PolicyOf,           \* [Applications -> policy, or NoPolicy]
    NoPolicy, NoDecision, NoRecord, NoFrame,
    LostEvents,         \* requests whose decision event the bus rejects
    ProviderErrors,     \* categories of ProviderError the providers raise
    LambdaTimeout,      \* infrastructure/config.py lambda_timeout_seconds
    LastStart,          \* bound: no request starts after this instant
    MaxTime             \* bound: the clock stops here

ASSUME RequestAssumption ==
    /\ \A r \in Requests :
          /\ ValidRequest(RequestOf[r])
          /\ RequestOf[r].application \in Applications
          /\ RequestOf[r].key \in Keys \cup {NoKey}
    /\ NoKey \notin Keys
    /\ \A a \in Applications : PolicyOf[a] # NoPolicy => ValidPolicy(PolicyOf[a])
    /\ ProviderErrors \subseteq ProviderErrorCategory

\* The deployment keeps a request's life, clock skew included, within the time
\* a reservation is honoured (30 s against 300 s in the repository).
ASSUME TimeoutAssumption ==
    /\ LambdaTimeout \in Nat /\ MaxTime \in Nat /\ LastStart \in Nat
    /\ Skew \in [Envs -> Int]
    /\ \A a \in Envs :
          /\ LambdaTimeout - Skew[a] <= StaleReservationSeconds
          /\ \A b \in Envs : LambdaTimeout + Skew[b] - Skew[a] <= StaleReservationSeconds

VARIABLES
    now,            \* real time in seconds
    table,          \* idempotency table: (application, key) -> item
    replica,        \* a lagging copy that an eventually consistent get may read
    pc,             \* where each request is
    frame,          \* the local variables of the call serving a request
    failures,       \* per environment: consecutive failures of each model
    outcome,        \* how the request ended
    returned,       \* the InferenceResult invoke() returned
    audit,          \* decision table: decision_id -> audit record
    events,         \* decision ids whose event reached the bus
    unguarding      \* history: requests that left their key without a guard: reserve()
                    \* gave up and said NEW, or a repeated write hit another's item

vars == << now, table, replica, pc, frame, failures, outcome, returned, audit, events,
           unguarding >>

-----------------------------------------------------------------------------
Request(r) == RequestOf[r]
Policy(r)  == PolicyOf[Request(r).application]
HasKey(r)  == Request(r).key # NoKey
ItemKeys   == Applications \X Keys
ItemKey(r) == << Request(r).application, Request(r).key >>
Clock(r)   == now + Skew[frame[r].env]

\* The locals of a request that starts now in environment e.
NewFrame(e) ==
    [ env |-> e, startedAt |-> now,
      tries |-> 0,                  \* rounds of _try_reserve done
      stamp |-> now + Skew[e],      \* the clock as _try_reserve or complete() read it
      decision |-> NoDecision,      \* what route evaluation returned
      current |-> NoModel,          \* the candidate being called
      attempts |-> << >>, extra |-> {}, result |-> NoResult,
      resending |-> FALSE ]         \* complete() or release() is written, its answer lost

\* From the answer NEW (or the start, for a request without a key) to the last
\* table call.
InvokingPoints == {"evaluate", "calling", "persist", "publish", "complete", "release"}
Invoking(r) == pc[r] \in InvokingPoints
\* Inside the section that a reservation guards: complete() or release() ends it.
Holding(r) == Invoking(r) /\ ~frame[r].resending
InFlight(r) == Invoking(r) \/ pc[r] \in {"put", "get"}
Serving(e, r) == InFlight(r) /\ frame[r].env = e

GoTo(r, point) == pc' = [pc EXCEPT ![r] = point]

\* The request ends: invoke() returns res, or raises (res is then NoResult).
End(r, how, res) ==
    /\ GoTo(r, "done")
    /\ frame' = [frame EXCEPT ![r] = NoFrame]
    /\ outcome' = [outcome EXCEPT ![r] = how]
    /\ returned' = [returned EXCEPT ![r] = res]

\* Seeded fault: the except clause is missing.
RaiseUnreleased(r) == End(r, "error", NoResult)

\* An exception inside _invoke_uncached: a keyed request still has to release.
Raise(r) ==
    IF HasKey(r) THEN GoTo(r, "release") /\ UNCHANGED << frame, outcome, returned >>
    ELSE End(r, "error", NoResult)

-----------------------------------------------------------------------------
Init ==
    /\ now = 0
    /\ table = [k \in ItemKeys |-> NoItem]
    /\ replica = [k \in ItemKeys |-> NoItem]
    /\ pc = [r \in Requests |-> "idle"]
    /\ frame = [r \in Requests |-> NoFrame]
    /\ failures = [e \in Envs |-> [m \in Models |-> 0]]
    /\ outcome = [r \in Requests |-> "none"]
    /\ returned = [r \in Requests |-> NoResult]
    /\ audit = [r \in Requests |-> NoRecord]
    /\ events = {}
    /\ unguarding = {}

\* An environment serves one request at a time.  A request without a key goes
\* straight to _invoke_uncached.
Start(r, e) ==
    /\ pc[r] = "idle"
    /\ \A other \in Requests : ~Serving(e, other)
    /\ now <= LastStart
    /\ frame' = [frame EXCEPT ![r] = NewFrame(e)]
    /\ GoTo(r, IF HasKey(r) THEN "put" ELSE "evaluate")
    /\ UNCHANGED << now, table, replica, failures, outcome, returned, audit, events, unguarding >>

-----------------------------------------------------------------------------
(* store.reserve() *)

\* _try_reserve reads the clock once; the put, and the SDK's repeats of it, carry
\* that reading however late they arrive.
WriteReservation(r) ==
    table' = [table EXCEPT ![ItemKey(r)] = Reservation(Request(r).hash, frame[r].stamp)]

\* The conditional put is accepted and acknowledged: NEW.
PutAccepted(r) ==
    /\ pc[r] = "put"
    /\ PutCondition(table[ItemKey(r)], frame[r].stamp)
    /\ WriteReservation(r)
    /\ GoTo(r, "evaluate")
    /\ UNCHANGED << now, replica, frame, failures, outcome, returned, audit, events, unguarding >>

\* The put is applied but its answer is lost: the AWS SDK sends it again.
PutAnswerLost(r) ==
    /\ pc[r] = "put"
    /\ PutCondition(table[ItemKey(r)], frame[r].stamp)
    /\ WriteReservation(r)
    /\ UNCHANGED << now, replica, pc, frame, failures, outcome, returned, audit, events,
                    unguarding >>

\* ConditionalCheckFailedException: look at the item that is there.
PutRefused(r) ==
    /\ pc[r] = "put"
    /\ ~PutCondition(table[ItemKey(r)], frame[r].stamp)
    /\ GoTo(r, "get")
    /\ UNCHANGED << now, table, replica, frame, failures, outcome, returned, audit, events,
                    unguarding >>

\* Any other client error of the put or the get propagates; reserve() is called
\* outside the try block, so nothing is released.
ReserveRaises(r) ==
    /\ pc[r] \in {"put", "get"}
    /\ End(r, "error", NoResult)
    /\ UNCHANGED << now, table, replica, failures, audit, events, unguarding >>

\* get_item is eventually consistent: it returns the item or an older version.
ReadableItems(r) == {table[ItemKey(r)], replica[ItemKey(r)]}

\* Seeded fault: another round every time.
GetVanishedForever(r) ==
    /\ pc[r] = "get"
    /\ \E item \in ReadableItems(r) : ReadOutcome(item, Request(r).hash) = "vanished"
    /\ GoTo(r, "put")
    /\ UNCHANGED << now, table, replica, frame, failures, outcome, returned, audit, events,
                    unguarding >>

\* No item: another round, or, after the last one, NEW without any record.
GetVanished(r) ==
    /\ pc[r] = "get"
    /\ \E item \in ReadableItems(r) : ReadOutcome(item, Request(r).hash) = "vanished"
    /\ frame' = [frame EXCEPT ![r].tries = @ + 1, ![r].stamp = Clock(r)]
    /\ IF frame[r].tries + 1 < MaxReserveAttempts
       THEN GoTo(r, "put") /\ UNCHANGED unguarding
       ELSE GoTo(r, "evaluate") /\ unguarding' = unguarding \cup {r}
    /\ UNCHANGED << now, table, replica, failures, outcome, returned, audit, events >>

\* CONFLICT and IN_PROGRESS raise.
GetRejected(r) ==
    /\ pc[r] = "get"
    /\ \E item \in ReadableItems(r) :
          LET read == ReadOutcome(item, Request(r).hash)
          IN  read \in {"conflict", "in_progress"} /\ End(r, read, NoResult)
    /\ UNCHANGED << now, table, replica, failures, audit, events, unguarding >>

\* COMPLETED: the cached result is returned as it is.
GetReplayed(r) ==
    /\ pc[r] = "get"
    /\ \E item \in ReadableItems(r) :
          /\ ReadOutcome(item, Request(r).hash) = "completed"
          /\ End(r, "replayed", item.result)
    /\ UNCHANGED << now, table, replica, failures, audit, events, unguarding >>

-----------------------------------------------------------------------------
(* _invoke_uncached() *)

\* Route evaluation.  With no candidate at all the decision is the result as it
\* stands; otherwise the first candidate is called.
EvaluateRoute(r) ==
    /\ pc[r] = "evaluate" /\ Policy(r) # NoPolicy
    /\ LET health == [m \in Models |-> GetHealth(failures[frame[r].env], m)]
           d      == Evaluate(r, Request(r), Policy(r), health)
           first  == NextCandidate(d, Policy(r), << >>)
       IN  IF first = NoModel
           THEN /\ frame' = [frame EXCEPT ![r].decision = d,
                                          ![r].result = InferenceResult(d, NoModel, << >>)]
                /\ GoTo(r, "persist")
           ELSE /\ frame' = [frame EXCEPT ![r].decision = d, ![r].current = first]
                /\ GoTo(r, "calling")
    /\ UNCHANGED << now, table, replica, failures, outcome, returned, audit, events, unguarding >>

\* evaluate() raises: no policy is found (RoutingPolicyNotFoundError), or the
\* file that holds it cannot be loaded (ConfigurationError), now or ever.
PolicyUnresolved(r) ==
    /\ pc[r] = "evaluate"
    /\ Raise(r)
    /\ UNCHANGED << now, table, replica, failures, audit, events, unguarding >>

\* One pass of the loop: the attempt is recorded, in the attempt list and in the
\* environment's health; then the next candidate is called, or the loop is over
\* and what happened is aggregated into the result.
AfterAttempt(r, status, codes, succeeded, next) ==
    LET f    == frame[r]
        atts == Append(f.attempts, Attempt(f.current, status))
    IN  /\ failures' = [failures EXCEPT ![f.env] = RecordOutcome(@, f.current, status)]
        /\ IF next # NoModel
           THEN /\ frame' = [frame EXCEPT ![r].attempts = atts, ![r].extra = codes,
                                          ![r].current = next]
                /\ UNCHANGED pc
           ELSE /\ frame' = [frame EXCEPT ![r].attempts = atts, ![r].extra = codes,
                        ![r].result = InferenceResult(
                            AggregateDecision(f.decision, succeeded, codes), succeeded, atts)]
                /\ GoTo(r, "persist")

ProviderSucceeds(r) ==
    /\ pc[r] = "calling"
    /\ LET f     == frame[r]
           codes == f.extra \cup (IF f.current # f.decision.selected
                                  THEN {"FALLBACK_SELECTED"} ELSE {})
       IN  AfterAttempt(r, "succeeded", codes, f.current, NoModel)
    /\ UNCHANGED << now, table, replica, outcome, returned, audit, events, unguarding >>

\* A ProviderError: a permanent one ends the loop, any other moves on to the
\* next candidate if there is one.
ProviderFails(r, category) ==
    /\ pc[r] = "calling"
    /\ LET f      == frame[r]
           status == StatusForCategory(category)
           codes  == f.extra \cup ReasonCodesForCategory(category)
           next   == IF category = "permanent" THEN NoModel
                     ELSE NextCandidate(f.decision, Policy(r),
                                        Append(f.attempts, Attempt(f.current, status)))
       IN  AfterAttempt(r, status, codes, NoModel, next)
    /\ UNCHANGED << now, table, replica, outcome, returned, audit, events, unguarding >>

\* Any other exception out of the provider call.
ProviderRaises(r) ==
    /\ pc[r] = "calling"
    /\ Raise(r)
    /\ UNCHANGED << now, table, replica, failures, audit, events, unguarding >>

WriteAudit(r) == audit' = [audit EXCEPT ![r] = AuditRecord(frame[r].result)]

\* _persist(): the decision table's put_item.
Persist(r) ==
    /\ pc[r] = "persist"
    /\ WriteAudit(r)
    /\ GoTo(r, "publish")
    /\ UNCHANGED << now, table, replica, frame, failures, outcome, returned, events, unguarding >>

\* Seeded fault: a failed save is swallowed as a failed event is.
PersistSwallowed(r) ==
    /\ pc[r] = "persist"
    /\ GoTo(r, "publish")
    /\ UNCHANGED << now, table, replica, frame, failures, outcome, returned, audit, events,
                    unguarding >>

\* The put raises, before or after it was applied.
PersistRaises(r) ==
    /\ pc[r] = "persist"
    /\ WriteAudit(r) \/ UNCHANGED audit
    /\ Raise(r)
    /\ UNCHANGED << now, table, replica, failures, events, unguarding >>

\* _publish_metrics() writes a log line; _publish_decision_event() may lose the
\* event, and swallows the error if it does.
Publish(r) ==
    /\ pc[r] = "publish"
    /\ events' = events \cup ({r} \ LostEvents)
    /\ IF HasKey(r)
       THEN /\ GoTo(r, "complete")
            /\ frame' = [frame EXCEPT ![r].stamp = Clock(r)]
            /\ UNCHANGED << outcome, returned >>
       ELSE End(r, "ok", frame[r].result)
    /\ UNCHANGED << now, table, replica, failures, audit, unguarding >>

-----------------------------------------------------------------------------
(* store.complete() and store.release() *)

\* Neither write has a condition: a repeat of it may hit an item that another
\* request has put there since.
WriteItem(r, item) ==
    /\ table' = [table EXCEPT ![ItemKey(r)] = item]
    /\ unguarding' = IF frame[r].resending /\ table[ItemKey(r)] \notin {NoItem, item}
                     THEN unguarding \cup {r} ELSE unguarding

\* complete() reads the clock once, as _try_reserve does.
WriteCompletion(r) ==
    WriteItem(r, Completion(Request(r).hash, frame[r].result, frame[r].stamp,
                            Policy(r).allow_response_caching, Policy(r).retention_seconds))

Complete(r) ==
    /\ pc[r] = "complete"
    /\ WriteCompletion(r)
    /\ End(r, "ok", frame[r].result)
    /\ UNCHANGED << now, replica, failures, audit, events >>

\* complete() is outside the try block: if it raises, nothing is released.
CompleteRaises(r) ==
    /\ pc[r] = "complete"
    /\ WriteCompletion(r) \/ UNCHANGED << table, unguarding >>
    /\ End(r, "error", NoResult)
    /\ UNCHANGED << now, replica, failures, audit, events >>

\* release() in the except clause; the request fails whether or not it works.
Release(r) ==
    /\ pc[r] = "release"
    /\ WriteItem(r, Released) \/ UNCHANGED << table, unguarding >>
    /\ End(r, "error", NoResult)
    /\ UNCHANGED << now, replica, failures, audit, events >>

\* The write is applied but its answer is lost: the AWS SDK sends it again.
Resend(r) ==
    /\ frame' = [frame EXCEPT ![r].resending = TRUE]
    /\ UNCHANGED << now, replica, pc, failures, outcome, returned, audit, events >>

CompleteAnswerLost(r) == pc[r] = "complete" /\ WriteCompletion(r) /\ Resend(r)
ReleaseAnswerLost(r) == pc[r] = "release" /\ WriteItem(r, Released) /\ Resend(r)

-----------------------------------------------------------------------------
(* The platform. *)

\* Lambda ends an environment: the timeout of the request it serves, a crash, or
\* an idle recycle.  The next environment in its place starts with no health.
Kill(e) ==
    /\ pc' = [r \in Requests |-> IF Serving(e, r) THEN "done" ELSE pc[r]]
    /\ frame' = [r \in Requests |-> IF Serving(e, r) THEN NoFrame ELSE frame[r]]
    /\ outcome' = [r \in Requests |-> IF Serving(e, r) THEN "killed" ELSE outcome[r]]
    /\ failures' = [failures EXCEPT ![e] = [m \in Models |-> 0]]
    /\ UNCHANGED << now, table, replica, returned, audit, events, unguarding >>

\* Time passes, but no request outlives the Lambda timeout.
Tick ==
    /\ now < MaxTime
    /\ \A r \in Requests : InFlight(r) => now < frame[r].startedAt + LambdaTimeout
    /\ now' = now + 1
    /\ UNCHANGED << table, replica, pc, frame, failures, outcome, returned, audit, events,
                    unguarding >>

\* The table's TTL deletes an expired item, some time after it expired.
TtlSweep(k) ==
    /\ table[k] # NoItem /\ table[k].expiresAt < now
    /\ table' = [table EXCEPT ![k] = NoItem]
    /\ UNCHANGED << now, replica, pc, frame, failures, outcome, returned, audit, events,
                    unguarding >>

\* The lagging copy catches up.
Replicate(k) ==
    /\ replica[k] # table[k]
    /\ replica' = [replica EXCEPT ![k] = table[k]]
    /\ UNCHANGED << now, table, pc, frame, failures, outcome, returned, audit, events,
                    unguarding >>

-----------------------------------------------------------------------------
\* One step of the code serving r.
Advance(r) ==
    \/ PutAccepted(r) \/ PutAnswerLost(r) \/ PutRefused(r) \/ ReserveRaises(r)
    \/ GetVanished(r) \/ GetRejected(r) \/ GetReplayed(r)
    \/ EvaluateRoute(r) \/ PolicyUnresolved(r)
    \/ ProviderSucceeds(r) \/ ProviderRaises(r)
    \/ \E category \in ProviderErrors : ProviderFails(r, category)
    \/ Persist(r) \/ PersistRaises(r) \/ Publish(r)
    \/ Complete(r) \/ CompleteRaises(r) \/ CompleteAnswerLost(r)
    \/ Release(r) \/ ReleaseAnswerLost(r)

Next ==
    \/ \E r \in Requests : Advance(r)
    \/ \E r \in Requests, e \in Envs : Start(r, e)
    \/ \E e \in Envs : Kill(e)
    \/ \E k \in ItemKeys : TtlSweep(k) \/ Replicate(k)
    \/ Tick

Spec == Init /\ [][Next]_vars

\* A step of the code serving r, or the end of its environment.
Moves(r) == pc'[r] # pc[r] \/ frame'[r] # frame[r]

\* Lambda runs the code it has been given and every remote call answers or
\* raises, after a bounded number of repeats (the SDK's timeouts and its own
\* attempts): a request that stays in flight keeps moving.  (This is weak fairness
\* of the moves of Advance(r), one of which is possible exactly while r is in
\* flight, written out.)  Time passes.  Nothing obliges a request to be sent, an
\* environment to die, the TTL to sweep or a replica to catch up.
FairSpec ==
    /\ Spec
    /\ \A r \in Requests : []<>~InFlight(r) \/ []<><<Moves(r)>>_vars
    /\ WF_vars(Tick)

-----------------------------------------------------------------------------
(***************************************************************************)
(* Types.                                                                  *)
(***************************************************************************)
Hashes == {RequestOf[r].hash : r \in Requests}
Points == {"idle", "put", "get", "done"} \cup InvokingPoints
Outcomes == {"none", "ok", "replayed", "conflict", "in_progress", "error", "killed"}
Decisions == RoutingDecisions(Requests)
Attempts == [model_alias : Models, status : InvocationAttemptStatus]
InferenceResults ==
    [decision : Decisions, response : Models \cup {NoModel}, attempts : Seq(Attempts)]
AuditRecords == [decision : Decisions, attempts : Seq(Attempts)]
Items ==
    [ hash : Hashes, status : {"in_progress", "completed"},
      result : InferenceResults \cup {NoResult}, expiresAt : Int ]

Frames ==
    [ env : Envs, startedAt : Nat, tries : Nat, stamp : Int,
      decision : Decisions \cup {NoDecision}, current : Models \cup {NoModel},
      attempts : Seq(Attempts), extra : SUBSET RoutingReasonCode,
      result : InferenceResults \cup {NoResult}, resending : BOOLEAN ]

\* None is not a value.
ASSUME NoneAssumption ==
    NoItem \notin Items /\ NoRecord \notin AuditRecords /\ NoResult \notin InferenceResults

\* The type invariant.
TypeOK ==
    /\ now \in Nat
    /\ table \in [ItemKeys -> Items \cup {NoItem}]
    /\ replica \in [ItemKeys -> Items \cup {NoItem}]
    /\ pc \in [Requests -> Points]
    /\ frame \in [Requests -> Frames \cup {NoFrame}]
    /\ failures \in [Envs -> [Models -> Nat]]
    /\ outcome \in [Requests -> Outcomes]
    /\ returned \in [Requests -> InferenceResults \cup {NoResult}]
    /\ audit \in [Requests -> AuditRecords \cup {NoRecord}]
    /\ events \subseteq Requests
    /\ unguarding \subseteq Requests
    /\ \A r \in Requests :
          /\ InFlight(r) => frame[r] \in Frames
          /\ pc[r] = "calling" => frame[r].decision \in Decisions /\ frame[r].current \in Models
          /\ pc[r] \in {"persist", "publish", "complete"} => frame[r].result \in InferenceResults

-----------------------------------------------------------------------------
(***************************************************************************)
(* Safety.                                                                 *)
(***************************************************************************)
Overlapping(k) ==
    \E r1, r2 \in Requests :
        /\ r1 # r2
        /\ Holding(r1) /\ Holding(r2)
        /\ ItemKey(r1) = k /\ ItemKey(r2) = k

\* domain/idempotency.py: "two simultaneous identical requests must never both
\* invoke a model".  Read literally, of every pair of requests with one key.
NeverBothInvoke == \A k \in ItemKeys : ~Overlapping(k)

\* What reserve() really gives: two requests with one key are only ever between
\* NEW and their completion or release together if reserve() gave up on that key
\* and answered NEW without a record, or if the SDK repeated a complete() or
\* release() of an earlier request and hit an item that was not its own.  Kills,
\* lost answers of reserve(), failed completes, expired items and skewed clocks
\* alone never lead there.
OneInvocationPerKey ==
    \A k \in ItemKeys :
        Overlapping(k) => \E r \in unguarding : ItemKey(r) = k

\* _invoke_with_idempotency: a replayed result is the audited result of an
\* earlier request of the same application with the same key and content, and
\* of an application whose policy allows caching responses.
ReplayIntegrity ==
    \A r \in Requests : outcome[r] = "replayed" =>
        LET origin == returned[r].decision.decision_id
        IN  /\ origin # r
            /\ ItemKey(origin) = ItemKey(r)
            /\ Request(origin).hash = Request(r).hash
            /\ Policy(r).allow_response_caching
            /\ audit[origin] = AuditRecord(returned[r])

\* No clock, nor the time by which the table's TTL goes, has passed the end of a
\* retention that may have begun at the start.
WithinRetention(r) ==
    \A d, e \in Envs :
        /\ now <= Skew[e] + Policy(r).retention_seconds
        /\ now + Skew[d] <= Skew[e] + Policy(r).retention_seconds

\* r and s ended with a result under one key that is cached, retained and guarded.
MustAgree(r, s) ==
    /\ outcome[r] \in {"ok", "replayed"} /\ outcome[s] \in {"ok", "replayed"}
    /\ HasKey(r) /\ HasKey(s) /\ ItemKey(r) = ItemKey(s)
    /\ Policy(r).allow_response_caching
    /\ WithinRetention(r)
    /\ \A q \in unguarding : ItemKey(q) # ItemKey(r)

\* Until the retention ends, every request under a key that ends with a result ends
\* with the same one, whichever environment served it and whether it invoked or
\* replayed, where responses are cached, reserve() never gave up on the key and
\* no repeated complete() or release() hit another request's item under it.
RetriesAgree == \A r, s \in Requests : MustAgree(r, s) => returned[r] = returned[s]

\* Nothing reaches a client or the event bus that the audit table does not
\* hold: _persist comes before every return and every publish.
AuditedBeforeSeen ==
    /\ \A r \in Requests : outcome[r] \in {"ok", "replayed"} =>
          audit[returned[r].decision.decision_id] = AuditRecord(returned[r])
    /\ \A r \in events : audit[r] # NoRecord

RetryableStatuses == {"throttled", "transient_error", "timeout"}

\* The attempts of one request, in progress or audited: distinct models that
\* were eligible, at most maximum_attempts of them, and every attempt before
\* the last failed in a way that allows another.
Disciplined(r, atts, d) ==
    /\ Len(atts) <= Policy(r).maximum_attempts
    /\ \A i, j \in DOMAIN atts : atts[i].model_alias = atts[j].model_alias => i = j
    /\ Tried(atts) \subseteq EligibleAliases(d.candidates)
    /\ \A i \in DOMAIN atts : i < Len(atts) => atts[i].status \in RetryableStatuses

FallbackDiscipline ==
    \A r \in Requests :
        /\ pc[r] = "calling" =>
              Disciplined(r, Append(frame[r].attempts, Attempt(frame[r].current, "succeeded")),
                          frame[r].decision)
        /\ audit[r] # NoRecord => Disciplined(r, audit[r].attempts, audit[r].decision)

\* The aggregated decision tells the truth about the attempts it summarises.  It
\* is left without a code only if every model it called rejected the request.
DecisionMatchesAttempts ==
    \A r \in Requests : audit[r] # NoRecord =>
        LET d    == audit[r].decision
            atts == audit[r].attempts
            statuses == {atts[i].status : i \in DOMAIN atts}
        IN  /\ "succeeded" \in statuses <=> (atts # << >> /\ d.selected # NoModel)
            /\ "succeeded" \in statuses => d.selected = atts[Len(atts)].model_alias
            /\ d.fallback_used <=> "FALLBACK_SELECTED" \in d.reason_codes
            /\ "MODEL_THROTTLED" \in d.reason_codes <=> "throttled" \in statuses
            /\ "MODEL_UNAVAILABLE" \in d.reason_codes <=>
                  statuses \cap {"transient_error", "timeout"} # {}
            /\ d.reason_codes = {} => statuses = {"non_retryable_error"}

\* However its request ends, a lock is out of date StaleReservationSeconds after now
\* on the clock of some environment: it is stamped when it is tried for, and no
\* repeat of the put or lagging copy of the item prolongs it.
LocksAreShort ==
    \A k \in ItemKeys : \A item \in {table[k], replica[k]} \ {NoItem} :
        item.status = "in_progress" =>
            \E e \in Envs : item.expiresAt <= now + Skew[e] + StaleReservationSeconds

\* docs/requirements.md FR-2.4: "Every routing decision carries one or more
\* stable, machine-readable reason codes".
EveryDecisionExplained ==
    \A r \in Requests : audit[r] # NoRecord => audit[r].decision.reason_codes # {}

\* An environment never calls a model it holds for unavailable, and its counter
\* never runs past the threshold: a request calls a model at most once, so the
\* health read by route evaluation still holds when the model's turn comes.
CircuitBreaker ==
    /\ \A e \in Envs, m \in Models : failures[e][m] <= UnavailableAfter
    /\ \A r \in Requests :
          pc[r] = "calling" => failures[frame[r].env][frame[r].current] < UnavailableAfter

-----------------------------------------------------------------------------
(***************************************************************************)
(* What a step may never do.                                               *)
(***************************************************************************)
\* Once unavailable, a model stays so until its environment is replaced: there
\* is no half-open probe, and a model that is not called cannot succeed.
UnavailableUntilRestart ==
    [][\A e \in Envs, m \in Models :
          failures[e][m] >= UnavailableAfter =>
              \/ failures'[e][m] = failures[e][m]
              \/ /\ failures'[e] = [model \in Models |-> 0]
                 /\ \A r \in Requests : ~Serving(e, r)']_vars

\* How many models the policy of r lets the fallback loop call.
CallsAllowed(r) == IF Policy(r) = NoPolicy THEN 0 ELSE Policy(r).maximum_attempts

\* At most so many steps of the code serving r are left.
StepsLeft(r) ==
    LET rounds == MaxReserveAttempts - frame[r].tries
    IN  CASE pc[r] = "put"       -> CallsAllowed(r) + 5 + 2 * rounds
          [] pc[r] = "get"       -> CallsAllowed(r) + 4 + 2 * rounds
          [] pc[r] = "evaluate"  -> CallsAllowed(r) + 5
          [] pc[r] = "calling"   -> CallsAllowed(r) + 4 - Len(frame[r].attempts)
          [] pc[r] = "persist"   -> 4
          [] pc[r] = "publish"   -> 3
          [] pc[r] = "complete" \/ pc[r] = "release" -> IF frame[r].resending THEN 1 ELSE 2
          [] OTHER               -> 0

\* Every request that moves comes closer to its end, whatever the tables, the
\* providers and the other requests do: reserve() makes MaxReserveAttempts rounds
\* and the fallback loop maximum_attempts calls, and no step goes back.
WorkShrinks ==
    [][\A r \in Requests : InFlight(r) /\ Moves(r) =>
          0 <= StepsLeft(r)' /\ StepsLeft(r)' < StepsLeft(r)]_vars

-----------------------------------------------------------------------------
(***************************************************************************)
(* Liveness, under FairSpec.                                               *)
(***************************************************************************)
\* Every request that starts ends: the reserve loop and the fallback loop are
\* both bounded.
EveryRequestEnds ==
    \A r \in Requests : InFlight(r) ~> pc[r] = "done"

Locked(k) ==
    table[k] # NoItem /\ table[k].status = "in_progress" /\ table[k].expiresAt >= now

\* No crash, lost answer or failed complete blocks a key for good: an
\* in-progress item is completed, released, or expires.
KeyIsFreed == \A k \in ItemKeys : Locked(k) ~> ~Locked(k)

=============================================================================
