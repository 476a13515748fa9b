-------------------------- MODULE ApiHandlerProofs --------------------------
(***************************************************************************)
(* What clients may conclude from their answers: the safety properties of  *)
(* ApiHandler, for any number of calls, environments, applications and     *)
(* policy files.                                                           *)
(*                                                                         *)
(* A step of the function is a step of the orchestrator or leaves it       *)
(* alone, so the invariants of the orchestrator hold here too.  To them    *)
(* come RecordInv (an audit record is written once, by a request that goes *)
(* on to answer for it) and RetentionInv (a cached result stays, and stays *)
(* the only one, while it is retained).  Of the function itself,           *)
(* RepositoryInv and CallInv follow the policy an inference was evaluated  *)
(* under, the exception it carries to release() and the default policy     *)
(* that failed to load; AnswerInv says what is known of every answer.      *)
(***************************************************************************)
EXTENDS ApiHandler, InvocationLoopProofs

(***************************************************************************)
(* Of the orchestrator.                                                    *)
(***************************************************************************)
\* _persist comes once, before the request is answered with its own result.
RecordOK(r) ==
    /\ pc[r] \in {"idle", "put", "get", "evaluate", "calling", "persist"} => audit[r] = NoRecord
    /\ pc[r] \in {"publish", "complete"} \/ outcome[r] = "ok" => audit[r] # NoRecord
    /\ outcome[r] \in {"conflict", "in_progress", "replayed"} => audit[r] = NoRecord
    /\ audit[r] # NoRecord => audit[r].decision.decision_id = r /\ Policy(r) # NoPolicy

RecordInv == \A r \in Requests : RecordOK(r)

IsCompleted(item) == item # NoItem /\ item.status = "completed"

\* Results under the key of r are cached, and none can have expired yet.
Retained(r) ==
    /\ HasKey(r) /\ Policy(r) # NoPolicy /\ Policy(r).allow_response_caching
    /\ WithinRetention(r) /\ Guarded(ItemKey(r))

\* The result of r is written, and complete() may write it again.
Resent(r) == pc[r] = "complete" /\ frame[r].resending

\* The first result to be completed is the one everybody gets.
RetentionOK(r) ==
    LET item == table[ItemKey(r)]
        copy == replica[ItemKey(r)]
    IN  Retained(r) =>
            /\ IsCompleted(item) =>
                  \E e \in Envs : Skew[e] + Policy(r).retention_seconds <= item.expiresAt
            /\ IsCompleted(item) => ~Holding(r)
            /\ Resent(r) => IsCompleted(item) /\ item = Written(r)
            /\ IsCompleted(copy) => item = copy
            /\ outcome[r] \in {"ok", "replayed"} => IsCompleted(item) /\ item.result = returned[r]

RetentionInv == \A r \in Requests : RetentionOK(r)

-----------------------------------------------------------------------------
(***************************************************************************)
(* Of the function.                                                        *)
(***************************************************************************)
\* A repository holds what the files say.
Faithful(repository) ==
    /\ \A a \in Applications : repository.cache[a] # NotLoaded =>
          repository.cache[a] = ApplicationFile[a] /\ ApplicationFile[a] \notin {NoFile, BadFile}
    /\ repository.default_policy # NotLoaded =>
          /\ repository.default_policy = DefaultFile /\ DefaultFile \notin {NoFile, BadFile}
          /\ repository.default_policy_loaded

\* The policy of a is in memory.
Settled(repository, a) ==
    \/ repository.cache[a] # NotLoaded
    \/ ApplicationFile[a] = NoFile /\ repository.default_policy # NotLoaded

\* The default was given up on: its flag is set, and it is not there.
Spoiled(repository) ==
    /\ repository.default_policy_loaded /\ repository.default_policy = NotLoaded
    /\ DefaultFile # NoFile

\* Somebody was told 500 for the default policy.
Confessed ==
    \E d \in Calls :
        /\ Answered(d, {500})
        /\ response[d].endpoint \in {"evaluate", "inference"}
        /\ response[d].application \in Applications
        /\ ApplicationFile[response[d].application] = NoFile

\* Somebody served by e is about to be.
Confessing(e) ==
    \E r \in Requests :
        /\ Serving(e, r) /\ pc[r] = "release" /\ raised[r] = "ConfigurationError"
        /\ ApplicationFile[Request(r).application] = NoFile

\* An application may be told that it has no policy.
Deniable(a) == ApplicationFile[a] = NoFile /\ (DefaultFile = NoFile \/ Confessed)

RepositoryInv ==
    \A e \in Envs : services[e] # NoServices =>
        /\ Faithful(services[e])
        /\ Spoiled(services[e]) => Confessed \/ Confessing(e)

\* What is known of an inference.
CallOK(r) ==
    /\ InFlight(r) => response[r] = NoResponse /\ services[frame[r].env] # NoServices
    /\ pc[r] \in {"calling", "persist", "publish", "complete"} =>
          Settled(services[frame[r].env], Request(r).application)
    /\ pc[r] = "release" => raised[r] \in Exceptions
    /\ pc[r] = "release" /\ raised[r] = "RoutingPolicyNotFoundError" =>
          audit[r] = NoRecord /\ Deniable(Request(r).application)
    /\ outcome[r] \in {"ok", "replayed"} => response[r] = InferenceResponse(r, returned[r])

CallInv == \A r \in Requests : CallOK(r)

\* What is known of an answer.
Proper(what) == what \in Responses /\ (what.shows = NoId <=> what.route = NoId)

Story(what) ==
    what.status = 200 /\ what.shows \in Requests =>
        /\ what.application = Request(what.shows).application
        /\ audit[what.shows] # NoRecord
        /\ what.route = SerializeRoute(audit[what.shows].decision)

Denial(what) ==
    what.status = 403 /\ what.endpoint \in {"evaluate", "inference"} => Deniable(what.application)

Free(c, what) ==
    c \in Requests /\ what.status \in 400..499 /\ audit[c] # NoRecord => audit[c].attempts = << >>

AnswerOK(c, what) == Proper(what) /\ Story(what) /\ Denial(what) /\ Free(c, what)

AnswerInv == \A c \in Calls : response[c] # NoResponse => AnswerOK(c, response[c])

ServicesOK ==
    /\ services \in [Envs -> Repositories \cup {NoServices}]
    /\ raised \in [Requests -> Exceptions \cup {"none"}]
    /\ response \in [Calls -> Responses \cup {NoResponse}]

-----------------------------------------------------------------------------
(***************************************************************************)
(* Audit records.                                                          *)
(***************************************************************************)
\* Only _persist writes an audit record, for its own request.
LEMMA AuditWrites ==
    ASSUME TypeInv, NEW r \in Requests, Advance(r), audit'[r] # audit[r]
    PROVE  /\ pc[r] = "persist" /\ audit'[r] = AuditRecord(frame[r].result)
           /\ Persist(r) \/ PersistRaises(r)
<1>1. audit' # audit
  OBVIOUS
<1>2. Persist(r) \/ PersistRaises(r)
  BY <1>1 DEF Advance, PutAccepted, PutAnswerLost, PutRefused, ReserveRaises, GetVanished,
         GetRejected, GetReplayed, EvaluateRoute, PolicyUnresolved, ProviderSucceeds,
         ProviderRaises, ProviderFails, Publish, Complete, CompleteRaises, CompleteAnswerLost,
         Release, ReleaseAnswerLost, Resend
<1> QED BY <1>2 DEF Persist, PersistRaises, WriteAudit, TypeInv, SharedOK

\* Where a step of the code serving r leads, and with which outcome.
LEMMA AdvanceLeads ==
    ASSUME TypeInv, NEW r \in Requests, Advance(r)
    PROVE  /\ pc'[r] \in {"put", "get", "evaluate", "calling", "persist"} =>
                 pc[r] \in {"put", "get", "evaluate", "calling"}
           /\ pc'[r] = "publish" => Persist(r)
           /\ pc'[r] = "complete" => pc[r] \in {"publish", "complete"}
           /\ pc'[r] # "done" => outcome'[r] = outcome[r]
           /\ pc'[r] = "done" =>
                 \/ outcome'[r] \in {"conflict", "in_progress", "replayed"} /\ pc[r] = "get"
                 \/ outcome'[r] = "ok" /\ pc[r] \in {"publish", "complete"}
                 \/ outcome'[r] = "error"
<1>1. /\ pc \in [Requests -> Points] /\ outcome \in [Requests -> Outcomes]
      /\ returned \in [Requests -> InferenceResults \cup {NoResult}]
  BY DEF TypeInv, SharedOK
<1>2. ASSUME NEW how, NEW res, End(r, how, res) PROVE pc'[r] = "done" /\ outcome'[r] = how
  BY <1>1, <1>2 DEF End, GoTo
<1>3. ASSUME Raise(r)
      PROVE  \/ pc'[r] = "release" /\ outcome'[r] = outcome[r]
             \/ pc'[r] = "done" /\ outcome'[r] = "error"
  BY <1>1, <1>2, <1>3 DEF Raise, GoTo
<1>4. ASSUME NEW status, NEW codes, NEW succeeded, NEW next, pc[r] = "calling",
             AfterAttempt(r, status, codes, succeeded, next)
      PROVE  pc'[r] \in {"calling", "persist"}
  BY <1>4, AttemptShape
<1>5. CASE PutAccepted(r) \/ PutAnswerLost(r) \/ PutRefused(r) \/ GetVanished(r)
  BY <1>1, <1>5 DEF PutAccepted, PutAnswerLost, PutRefused, GetVanished, GoTo
<1>6. CASE ReserveRaises(r) \/ GetRejected(r) \/ GetReplayed(r)
           \/ Complete(r) \/ CompleteRaises(r) \/ Release(r)
  BY <1>2, <1>6 DEF ReserveRaises, GetRejected, GetReplayed, Complete, CompleteRaises, Release
<1>7. CASE EvaluateRoute(r)
  <2>1. pc'[r] \in {"calling", "persist"}
    BY <1>7, EvaluateShape
  <2> QED BY <1>7, <2>1 DEF EvaluateRoute
<1>8. CASE PolicyUnresolved(r) \/ ProviderRaises(r) \/ PersistRaises(r)
  BY <1>3, <1>8 DEF PolicyUnresolved, ProviderRaises, PersistRaises
<1>9. CASE ProviderSucceeds(r) \/ \E category \in ProviderErrors : ProviderFails(r, category)
  <2>1. pc'[r] \in {"calling", "persist"} /\ pc[r] = "calling" /\ outcome' = outcome
    BY <1>4, <1>9 DEF ProviderSucceeds, ProviderFails
  <2> QED BY <2>1
<1>10. CASE Persist(r)
  BY <1>1, <1>10 DEF Persist, GoTo
<1>11. CASE Publish(r)
  BY <1>1, <1>2, <1>11 DEF Publish, GoTo
<1>12. CASE CompleteAnswerLost(r) \/ ReleaseAnswerLost(r)
  BY <1>12 DEF CompleteAnswerLost, ReleaseAnswerLost, Resend
<1> QED BY <1>5, <1>6, <1>7, <1>8, <1>9, <1>10, <1>11, <1>12 DEF Advance

LEMMA RecordStep == TypeInv /\ AuditInv /\ RecordInv /\ [Next]_vars => RecordInv'
<1> SUFFICES ASSUME TypeInv, AuditInv, RecordInv, [Next]_vars, NEW q \in Requests
             PROVE  RecordOK(q)'
  BY DEF RecordInv
<1>1. RecordOK(q) /\ OwnResult(q) /\ Reported(q) /\ LocalOK(q) /\ pc[q] \in Points
  BY DEF RecordInv, AuditInv, TypeInv, SharedOK
<1>2. ASSUME pc'[q] = pc[q], outcome'[q] = outcome[q], audit'[q] = audit[q] PROVE RecordOK(q)'
  BY <1>1, <1>2 DEF RecordOK, Policy, Request
<1>3. ASSUME NEW r \in Requests, Advance(r) PROVE RecordOK(q)'
  <2>1. CASE q # r
    BY <1>2, <1>3, <2>1, AdvanceConcerns DEF Concerns
  <2>2. CASE q = r
    <3>1. outcome[q] = "none" /\ pc[q] # "done"
      BY <1>1, <1>3, <2>2, AdvanceConcerns
         DEF Concerns, InFlight, Invoking, InvokingPoints, Reported
    <3>2. CASE audit'[q] # audit[q]
      <4>1. /\ pc[q] = "persist" /\ audit'[q] = AuditRecord(frame[q].result)
            /\ Persist(q) \/ PersistRaises(q)
        BY <1>3, <2>2, <3>2, AuditWrites
      <4>2. /\ audit'[q].decision.decision_id = q /\ Policy(q) # NoPolicy
            /\ audit'[q] # NoRecord
        <5>1. frame[q].result \in InferenceResults
          BY <1>1, <4>1 DEF LocalOK
        <5>2. AuditRecord(frame[q].result) \in AuditRecords
          BY <5>1 DEF InferenceResults, AuditRecord, AuditRecords
        <5> QED BY <1>1, <4>1, <5>1, <5>2, NoneAssumption DEF OwnResult, AuditRecord, LocalOK
      <4>3. /\ pc'[q] \notin {"idle", "put", "get", "evaluate", "calling", "persist"}
            /\ outcome'[q] \notin {"conflict", "in_progress", "replayed"}
        BY <1>3, <2>2, <3>1, <4>1, AdvanceLeads, AdvancePoints
      <4> QED BY <4>2, <4>3 DEF RecordOK, Policy, Request
    <3>3. CASE audit'[q] = audit[q]
      <4>1. CASE pc'[q] \in {"idle", "put", "get", "evaluate", "calling", "persist"}
        <5>1. audit[q] = NoRecord /\ outcome'[q] = "none"
          BY <1>1, <1>3, <2>2, <3>1, <4>1, AdvanceLeads, AdvancePoints DEF RecordOK
        <5> QED BY <3>3, <4>1, <5>1 DEF RecordOK
      <4>2. CASE pc'[q] = "publish"
        <5>1. Persist(q)
          BY <1>3, <2>2, <4>2, AdvanceLeads
        <5>2. audit[q] = NoRecord /\ audit'[q] = AuditRecord(frame[q].result)
          BY <1>1, <5>1 DEF Persist, WriteAudit, RecordOK, TypeInv, SharedOK
        <5>3. frame[q].result \in InferenceResults
          BY <1>1, <5>1 DEF LocalOK, Persist
        <5>4. AuditRecord(frame[q].result) \in AuditRecords
          BY <5>3 DEF InferenceResults, AuditRecord, AuditRecords
        <5> QED BY <3>3, <5>2, <5>4, NoneAssumption
      <4>3. CASE pc'[q] = "complete"
        <5>1. audit[q] # NoRecord /\ outcome'[q] = "none"
          BY <1>1, <1>3, <2>2, <3>1, <4>3, AdvanceLeads DEF RecordOK
        <5> QED BY <1>1, <3>3, <4>3, <5>1 DEF RecordOK, Policy, Request
      <4>4. CASE pc'[q] = "release"
        <5>1. outcome'[q] = "none"
          BY <1>3, <2>2, <3>1, <4>4, AdvanceLeads
        <5> QED BY <1>1, <3>3, <4>4, <5>1 DEF RecordOK, Policy, Request
      <4>5. CASE pc'[q] = "done"
        <5>1. \/ outcome'[q] \in {"conflict", "in_progress", "replayed"} /\ pc[q] = "get"
              \/ outcome'[q] = "ok" /\ pc[q] \in {"publish", "complete"}
              \/ outcome'[q] = "error"
          BY <1>3, <2>2, <4>5, AdvanceLeads
        <5> QED BY <1>1, <3>3, <4>5, <5>1 DEF RecordOK, Policy, Request
      <4>6. pc'[q] \in Points
        BY TypeStep DEF TypeInv, SharedOK
      <4> QED BY <4>1, <4>2, <4>3, <4>4, <4>5, <4>6 DEF Points, InvokingPoints
    <3> QED BY <3>2, <3>3
  <2> QED BY <2>1, <2>2
<1>4. ASSUME NEW r \in Requests, NEW e \in Envs, Start(r, e) PROVE RecordOK(q)'
  <2>1. /\ UNCHANGED << outcome, audit >> /\ pc[r] = "idle" /\ pc'[r] \in {"put", "evaluate"}
        /\ q # r => pc'[q] = pc[q]
    BY <1>4 DEF Start, GoTo, TypeInv, SharedOK
  <2> QED BY <1>1, <1>2, <2>1 DEF RecordOK, Reported
<1>5. ASSUME NEW e \in Envs, Kill(e) PROVE RecordOK(q)'
  <2>1. \/ pc'[q] = pc[q] /\ outcome'[q] = outcome[q] /\ audit'[q] = audit[q]
        \/ pc'[q] = "done" /\ outcome'[q] = "killed" /\ audit'[q] = audit[q]
    BY <1>5 DEF Kill
  <2> QED BY <1>1, <1>2, <2>1 DEF RecordOK, Policy, Request
<1>6. CASE UNCHANGED << pc, outcome, audit >>
  BY <1>2, <1>6
<1> QED BY <1>3, <1>4, <1>5, <1>6 DEF Next, TtlSweep, Replicate, Tick, vars

LEMMA RecordInvHolds == Spec => []RecordInv
<1>1. Init => RecordInv
  BY DEF Init, RecordInv, RecordOK
<1> QED BY <1>1, RecordStep, TypeInvHolds, AuditInvHolds, PTL DEF Spec

-----------------------------------------------------------------------------
(***************************************************************************)
(* Retention.                                                              *)
(***************************************************************************)
\* What was beyond its retention stays so, and a key given up on is given up on.
LEMMA RetainedBefore ==
    ASSUME TypeInv, TypeInv', [Next]_vars, NEW r \in Requests, Retained(r)'
    PROVE  Retained(r) /\ ItemKey(r)' = ItemKey(r) /\ Policy(r).retention_seconds \in Int
<1>1. now \in Nat /\ now' \in Nat /\ Skew \in [Envs -> Int]
  BY TimeoutAssumption DEF TypeInv, SharedOK
<1>2. now <= now' /\ unguarding \subseteq unguarding'
  <2>1. CASE Tick
    BY <1>1, <2>1 DEF Tick
  <2>2. CASE UNCHANGED vars
    BY <1>1, <2>2 DEF vars
  <2>3. ASSUME now' = now, unguarding \subseteq unguarding' PROVE now <= now'
    BY <1>1, <2>3
  <2> QED BY <2>1, <2>2, <2>3
             DEF Next, Advance, PutAccepted, PutAnswerLost, PutRefused, ReserveRaises,
                 GetVanished, GetRejected, GetReplayed, EvaluateRoute, PolicyUnresolved,
                 ProviderSucceeds, ProviderRaises, ProviderFails, Persist, PersistRaises,
                 Publish, Complete, CompleteRaises, CompleteAnswerLost, Release,
                 ReleaseAnswerLost, Resend, WriteCompletion, WriteItem, Start, Kill, TtlSweep,
                 Replicate
<1>3. HasKey(r) /\ Policy(r) # NoPolicy /\ Policy(r).allow_response_caching
  BY DEF Retained, HasKey, Policy, Request
<1>4. Policy(r).retention_seconds \in Int
  <2>1. Policy(r).retention_seconds \in Nat
    BY <1>3, RequestAssumption DEF Policy, Request, ValidPolicy
  <2> QED BY <2>1
<1>5. WithinRetention(r)
  BY <1>1, <1>2, <1>4 DEF Retained, WithinRetention, Policy, Request
<1>6. Guarded(ItemKey(r))
  BY <1>2 DEF Retained, Guarded, ItemKey, Request
<1> QED BY <1>3, <1>4, <1>5, <1>6 DEF Retained, ItemKey, Request

\* A retained result is expired by no clock, and neither overwritten nor swept.
LEMMA RetainedResult ==
    ASSUME TypeInv, LeaseInv, RetentionInv, NEW r \in Requests, Retained(r),
           IsCompleted(table[ItemKey(r)]), Policy(r).retention_seconds \in Int
    PROVE  /\ ~(table[ItemKey(r)].expiresAt < now)
           /\ \A q \in Requests : InFlight(q) => ~PutCondition(table[ItemKey(r)], frame[q].stamp)
<1> DEFINE item == table[ItemKey(r)]
           ends == Policy(r).retention_seconds
<1>1. PICK e \in Envs : Skew[e] + ends <= item.expiresAt
  BY DEF RetentionInv, RetentionOK
<1>2. /\ now \in Nat /\ Skew \in [Envs -> Int] /\ ends \in Int
      /\ item \in Items \cup {NoItem} /\ item # NoItem
  BY TimeoutAssumption, KeyedItemKey DEF TypeInv, SharedOK, Retained, IsCompleted
<1>3. item.expiresAt \in Int
  BY <1>2 DEF Items
<1>4. WithinRetention(r)
  BY DEF Retained
<1> HIDE DEF item, ends
<1>5. ~(item.expiresAt < now)
  BY <1>1, <1>2, <1>3, <1>4 DEF WithinRetention, ends
<1>6. ASSUME NEW q \in Requests, InFlight(q) PROVE ~PutCondition(item, frame[q].stamp)
  <2>1. frame[q].env \in Envs /\ frame[q].stamp \in Int
    BY <1>6, InFlightFacts
  <2>2. frame[q].stamp <= now + Skew[frame[q].env]
    BY <1>6 DEF LeaseInv, Timely
  <2>3. now + Skew[frame[q].env] <= Skew[e] + ends
    BY <1>4, <2>1 DEF WithinRetention, ends
  <2> QED BY <1>1, <1>2, <1>3, <2>1, <2>2, <2>3 DEF PutCondition
<1> QED BY <1>5, <1>6 DEF item

\* While a request is at work on a guarded key, no result is stored under it.
LEMMA NoResultYet ==
    ASSUME RetentionInv, NEW r \in Requests, Retained(r), NEW q \in Requests, Holding(q),
           ItemKey(q) = ItemKey(r), TypeInv
    PROVE  Retained(q) /\ ~IsCompleted(table[ItemKey(r)])
<1>1. HasKey(q) /\ Policy(q) = Policy(r)
  BY KeyedItemKey DEF Retained, ItemKey, Policy
<1>2. Retained(q)
  BY <1>1 DEF Retained, WithinRetention
<1> QED BY <1>2 DEF RetentionInv, RetentionOK

\* Nothing is stored, copied or handed out: nothing to say.
LEMMA NothingStored ==
    ASSUME TypeInv, RetentionInv, NEW r \in Requests, Retained(r),
           ~IsCompleted(table[ItemKey(r)])
    PROVE  /\ ~IsCompleted(replica[ItemKey(r)]) /\ outcome[r] \notin {"ok", "replayed"}
           /\ ~Resent(r)
BY DEF RetentionInv, RetentionOK

\* A step that leaves the item alone, lets nobody in and hands out what is stored.
LEMMA ItemStays ==
    ASSUME RetentionInv, NEW r \in Requests, Retained(r), ItemKey(r)' = ItemKey(r),
           table'[ItemKey(r)] = table[ItemKey(r)],
           replica'[ItemKey(r)] \in {replica[ItemKey(r)], table[ItemKey(r)]},
           Holding(r)' => Holding(r), Resent(r)' => Resent(r) /\ Written(r)' = Written(r),
           outcome'[r] \in {"ok", "replayed"} =>
               \/ outcome[r] = outcome'[r] /\ returned'[r] = returned[r]
               \/ IsCompleted(table[ItemKey(r)]) /\ returned'[r] = table[ItemKey(r)].result
    PROVE  RetentionOK(r)'
<1>1. RetentionOK(r) /\ Policy(r)' = Policy(r)
  BY DEF RetentionInv, Policy, Request
<1> QED BY <1>1 DEF RetentionOK, IsCompleted

\* A step after which nothing is stored under the key, as before it.
LEMMA StillNothing ==
    ASSUME TypeInv, RetentionInv, NEW r \in Requests, Retained(r), ItemKey(r)' = ItemKey(r),
           ~IsCompleted(table[ItemKey(r)]), ~IsCompleted(table'[ItemKey(r)]),
           replica' = replica, outcome'[r] \in {outcome[r], "error"}, Resent(r)' => Resent(r)
    PROVE  RetentionOK(r)'
<1>1. /\ ~IsCompleted(replica[ItemKey(r)]) /\ outcome[r] \notin {"ok", "replayed"}
      /\ ~Resent(r)
  BY NothingStored
<1> QED BY <1>1 DEF RetentionOK, IsCompleted

\* An accepted put under the key of r.
LEMMA PutRetention ==
    ASSUME TypeInv, LeaseInv, RetentionInv, NEW r \in Requests, Retained(r),
           ItemKey(r)' = ItemKey(r), Policy(r).retention_seconds \in Int,
           NEW q \in Requests, PutAccepted(q) \/ PutAnswerLost(q), ItemKey(q) = ItemKey(r),
           Resent(r)' => Resent(r)
    PROVE  RetentionOK(r)'
<1>1. InFlight(q) /\ PutCondition(table[ItemKey(r)], frame[q].stamp)
  BY DEF PutAccepted, PutAnswerLost, InFlight
<1>2. ~IsCompleted(table[ItemKey(r)])
  BY <1>1, RetainedResult
<1>3. ItemKey(r) \in ItemKeys
  BY KeyedItemKey DEF Retained
<1>4. table'[ItemKey(r)] = Reservation(Request(q).hash, frame[q].stamp)
  BY <1>3 DEF PutAccepted, PutAnswerLost, WriteReservation, TypeInv, SharedOK
<1>5. ~IsCompleted(table'[ItemKey(r)])
  BY <1>4 DEF IsCompleted, Reservation
<1>6. replica' = replica /\ outcome' = outcome
  BY DEF PutAccepted, PutAnswerLost
<1> QED BY <1>2, <1>5, <1>6, StillNothing

\* complete() under the key of r: the first and only result.
LEMMA CompleteRetention ==
    ASSUME TypeInv, LeaseInv, RetentionInv, NEW r \in Requests, Retained(r),
           ItemKey(r)' = ItemKey(r), Policy(r).retention_seconds \in Int,
           NEW q \in Requests, Complete(q) \/ CompleteRaises(q) \/ CompleteAnswerLost(q),
           ~frame[q].resending, WriteItem(q, Written(q)), ItemKey(q) = ItemKey(r)
    PROVE  RetentionOK(r)'
<1> DEFINE item == Written(q)
<1>1. Holding(q) /\ Invoking(q) /\ pc[q] = "complete" /\ replica' = replica
  BY DEF Complete, CompleteRaises, CompleteAnswerLost, Resend, Holding, Invoking, InvokingPoints
<1>2. Retained(q) /\ ~IsCompleted(table[ItemKey(r)])
  BY <1>1, NoResultYet
<1>3. /\ ~IsCompleted(replica[ItemKey(r)]) /\ outcome[r] \notin {"ok", "replayed"}
      /\ ~Resent(r)
  BY <1>2, NothingStored
<1>4. ItemKey(r) \in ItemKeys /\ Policy(q) = Policy(r) /\ HasKey(r)
  BY KeyedItemKey DEF Retained, ItemKey, Policy
<1>5. table'[ItemKey(r)] = item
  BY <1>4 DEF WriteItem, TypeInv, SharedOK
<1>6. /\ item.status = "completed" /\ item.result = frame[q].result
      /\ item.expiresAt = frame[q].stamp + Policy(r).retention_seconds
  BY <1>1, <1>2, <1>4 DEF Retained, Completion, Written
<1>7. item # NoItem
  <2>1. /\ frame[q].result \in InferenceResults /\ Policy(q) # NoPolicy
        /\ frame[q].stamp \in Int
    BY <1>1, <1>2, InFlightFacts DEF TypeInv, LocalOK, InFlight, Retained
  <2>2. item \in Items
    <3>1. Policy(q).retention_seconds \in Int /\ Request(q).hash \in Hashes
      BY <1>4 DEF Hashes, Request
    <3> QED BY <1>1, <1>2, <2>1, <3>1 DEF Completion, Items, Retained, Written
  <2> QED BY <2>2, NoneAssumption
<1> HIDE DEF item
<1>8. /\ frame[q].env \in Envs
      /\ Skew[frame[q].env] + Policy(r).retention_seconds <= item.expiresAt
  <2>1. /\ frame[q].env \in Envs /\ frame[q].stamp \in Int /\ frame[q].startedAt \in Nat
        /\ InFlight(q)
    BY <1>1, InFlightFacts DEF InFlight, Frames
  <2>2. Skew[frame[q].env] \in Int
    BY <2>1, TimeoutAssumption
  <2>3. frame[q].startedAt + Skew[frame[q].env] <= frame[q].stamp
    BY <2>1 DEF LeaseInv, Timely
  <2> QED BY <1>6, <2>1, <2>2, <2>3
<1>9. /\ \A p \in Requests \ {q} :
            pc'[p] = pc[p] /\ frame'[p] = frame[p] /\ outcome'[p] = outcome[p]
      /\ pc'[q] = "done" \/ CompleteAnswerLost(q)
  BY AdvanceConcerns
     DEF Advance, Concerns, Complete, CompleteRaises, End, GoTo, TypeInv, SharedOK
<1>10. /\ CompleteAnswerLost(q) => /\ Written(q)' = item /\ outcome'[q] = outcome[q]
                                   /\ frame'[q].resending
  <2>1. CASE CompleteAnswerLost(q)
    BY <1>1, <2>1, ResendWrites, InFlightFacts
       DEF item, CompleteAnswerLost, Resend, TypeInv, SharedOK, InFlight, Frames
  <2> QED BY <2>1
<1>11. ~Holding(r)' /\ (Resent(r)' => item = Written(r)')
  <2>1. CASE r = q
    BY <1>9, <1>10, <2>1 DEF Holding, Invoking, InvokingPoints, Resent
  <2>2. CASE r # q
    <3>1. ~Holding(r)
      BY <1>1, <1>4, <2>2 DEF LeaseInv, Alone, Retained
    <3> QED BY <1>3, <1>9, <2>2, <3>1 DEF Holding, Invoking, Resent
  <2> QED BY <2>1, <2>2
<1>12. outcome'[r] \in {"ok", "replayed"} => item.result = returned'[r]
  <2>1. CASE r # q
    BY <1>3, <1>9, <2>1
  <2>2. CASE r = q
    <3>1. CASE CompleteAnswerLost(q)
      BY <1>3, <1>10, <2>2, <3>1
    <3>2. CASE Complete(q) \/ CompleteRaises(q)
      BY <1>6, <2>2, <3>2 DEF Complete, CompleteRaises, End, TypeInv, SharedOK
    <3> QED BY <3>1, <3>2
  <2> QED BY <2>1, <2>2
<1>13. Policy(r)' = Policy(r) /\ Skew' = Skew
  BY DEF Policy, Request
<1> QED BY <1>1, <1>3, <1>5, <1>6, <1>7, <1>8, <1>11, <1>12, <1>13 DEF RetentionOK, IsCompleted

\* release() under the key of r, and a sweep of its item.
LEMMA ReleaseRetention ==
    ASSUME TypeInv, RetentionInv, NEW r \in Requests, Retained(r),
           ItemKey(r)' = ItemKey(r), NEW q \in Requests, Release(q) \/ ReleaseAnswerLost(q),
           ~frame[q].resending, WriteItem(q, Written(q)), ItemKey(q) = ItemKey(r),
           Resent(r)' => Resent(r)
    PROVE  RetentionOK(r)'
<1>1. Holding(q) /\ pc[q] = "release" /\ replica' = replica
  BY DEF Release, ReleaseAnswerLost, Resend, Holding, Invoking, InvokingPoints
<1>2. ~IsCompleted(table[ItemKey(r)])
  BY <1>1, NoResultYet
<1>3. ItemKey(r) \in ItemKeys
  BY KeyedItemKey DEF Retained
<1>4. ~IsCompleted(table'[ItemKey(r)])
  BY <1>1, <1>3 DEF WriteItem, Written, Released, IsCompleted, TypeInv, SharedOK
<1>5. outcome'[r] \in {outcome[r], "error"}
  BY DEF Release, ReleaseAnswerLost, Resend, End, TypeInv, SharedOK
<1> QED BY <1>1, <1>2, <1>4, <1>5, StillNothing

\* A repeat of complete() or release() under a key that stays guarded finds what
\* it wrote, and changes nothing.
LEMMA RepeatKeeps ==
    ASSUME TypeInv, RetentionInv, NEW r \in Requests, Retained(r), Retained(r)',
           ItemKey(r)' = ItemKey(r), NEW q \in Requests, frame[q].resending,
           pc[q] \in {"complete", "release"}, WriteItem(q, Written(q)), ItemKey(q) = ItemKey(r)
    PROVE  table'[ItemKey(r)] = table[ItemKey(r)]
<1>1. ItemKey(r) \in ItemKeys
  BY KeyedItemKey DEF Retained
<1>2. table'[ItemKey(r)] = Written(q)
  BY <1>1 DEF WriteItem, TypeInv, SharedOK
<1>3. q \notin unguarding'
  BY DEF Retained, Guarded, ItemKey, Request
<1>4. table[ItemKey(r)] \in {NoItem, Written(q)}
  BY <1>3 DEF WriteItem
<1>5. CASE pc[q] = "release"
  BY <1>2, <1>4, <1>5 DEF Written, Released
<1>6. CASE pc[q] = "complete"
  <2>1. HasKey(q) /\ Policy(q) = Policy(r)
    BY <1>1, KeyedItemKey DEF Retained, ItemKey, Policy
  <2>2. Retained(q) /\ Resent(q)
    BY <1>6, <2>1 DEF Retained, WithinRetention, Resent
  <2> QED BY <1>2, <2>2 DEF RetentionInv, RetentionOK
<1> QED BY <1>5, <1>6

LEMMA SweepRetention ==
    ASSUME TypeInv, LeaseInv, RetentionInv, NEW r \in Requests, Retained(r),
           ItemKey(r)' = ItemKey(r), Policy(r).retention_seconds \in Int, TtlSweep(ItemKey(r))
    PROVE  RetentionOK(r)'
<1>1. ~IsCompleted(table[ItemKey(r)])
  BY RetainedResult DEF TtlSweep
<1>2. ItemKey(r) \in ItemKeys
  BY KeyedItemKey DEF Retained
<1>3. ~IsCompleted(table'[ItemKey(r)]) /\ UNCHANGED << replica, outcome, pc, frame >>
  BY <1>2 DEF TtlSweep, IsCompleted, TypeInv, SharedOK
<1> QED BY <1>1, <1>3, StillNothing DEF Resent

\* Every step of the code serving q, on the key of r or another.
LEMMA AdvanceRetention ==
    ASSUME TypeInv, LeaseInv, ResendInv, RetentionInv, NEW r \in Requests, Retained(r),
           Retained(r)', ItemKey(r)' = ItemKey(r), Policy(r).retention_seconds \in Int,
           NEW q \in Requests, Advance(q)
    PROVE  RetentionOK(r)'
<1> DEFINE k == ItemKey(r)
<1>1. /\ k \in ItemKeys /\ HasKey(r) /\ pc \in [Requests -> Points]
      /\ table \in [ItemKeys -> Items \cup {NoItem}]
      /\ outcome \in [Requests -> Outcomes]
      /\ returned \in [Requests -> InferenceResults \cup {NoResult}]
  BY KeyedItemKey DEF Retained, TypeInv, SharedOK
<1>2. /\ InFlight(q)
      /\ \A p \in Requests \ {q} :
            /\ pc'[p] = pc[p] /\ frame'[p] = frame[p]
            /\ outcome'[p] = outcome[p] /\ returned'[p] = returned[p]
  BY AdvanceConcerns DEF Concerns
<1>3. replica' = replica
  BY DEF Advance, PutAccepted, PutAnswerLost, PutRefused, ReserveRaises, GetVanished,
         GetRejected, GetReplayed, EvaluateRoute, PolicyUnresolved, ProviderSucceeds,
         ProviderRaises, ProviderFails, Persist, PersistRaises, Publish, Complete,
         CompleteRaises, CompleteAnswerLost, Release, ReleaseAnswerLost, Resend
<1>4. /\ r = q /\ Resent(r)' => CompleteAnswerLost(q) /\ Written(r)' = Written(r)
      /\ r # q /\ Resent(r)' => Resent(r) /\ Written(r)' = Written(r)
      /\ r # q /\ Holding(r)' => Holding(r)
  <2>1. ASSUME r = q, Resent(r)' PROVE CompleteAnswerLost(q) /\ Written(r)' = Written(r)
    <3>1. CompleteAnswerLost(q) \/ ReleaseAnswerLost(q)
      BY <2>1, ResendSteps DEF Resent, InFlight, Invoking, InvokingPoints
    <3>2. pc' = pc /\ Written(r)' = Written(r)
      BY <2>1, <3>1, ResendWrites
    <3> QED BY <2>1, <3>1, <3>2 DEF Resent, ReleaseAnswerLost
  <2>2. ASSUME r # q
        PROVE  /\ Resent(r)' => Resent(r) /\ Written(r)' = Written(r)
               /\ Holding(r)' => Holding(r)
    BY <1>2, <2>2 DEF Resent, Written, Holding, Invoking, Request, Policy
  <2> QED BY <2>1, <2>2
<1>5. ASSUME table'[k] = table[k], r = q /\ Holding(r)' => Holding(r),
             r = q /\ CompleteAnswerLost(q) => Resent(r),
             outcome'[r] \in {"ok", "replayed"} /\ r = q =>
                 \/ outcome[r] = outcome'[r] /\ returned'[r] = returned[r]
                 \/ IsCompleted(table[k]) /\ returned'[r] = table[k].result
      PROVE  RetentionOK(r)'
  BY <1>2, <1>3, <1>4, <1>5, ItemStays
<1> HIDE DEF k
<1>6. CASE PutAccepted(q) \/ PutAnswerLost(q)
  <2>1. CASE ItemKey(q) = k
    <3>1. ~CompleteAnswerLost(q)
      BY <1>6 DEF PutAccepted, PutAnswerLost, CompleteAnswerLost
    <3> QED BY <1>4, <1>6, <2>1, <3>1, PutRetention DEF k
  <2>2. CASE ItemKey(q) # k
    <3>1. table'[k] = table[k] /\ q # r
      BY <1>1, <1>6, <2>2 DEF PutAccepted, PutAnswerLost, WriteReservation, k
    <3> QED BY <1>5, <3>1
  <2> QED BY <2>1, <2>2
<1>7. CASE GetVanished(q)
  <2>1. table' = table /\ outcome' = outcome /\ returned' = returned /\ ~CompleteAnswerLost(q)
    BY <1>7 DEF GetVanished, CompleteAnswerLost
  <2>2. r = q /\ Holding(r)' => Holding(r)
    <3>1. CASE q = r /\ pc'[r] # "put"
      <4>1. r \in unguarding'
        BY <1>1, <1>7, <3>1 DEF GetVanished, GoTo
      <4> QED BY <4>1 DEF Retained, Guarded
    <3>2. CASE pc'[r] = "put"
      BY <3>2 DEF Holding, Invoking, InvokingPoints
    <3> QED BY <3>1, <3>2
  <2> QED BY <1>5, <2>1, <2>2
<1>8. CASE GetReplayed(q)
  <2>1. table' = table /\ pc'[q] = "done" /\ ~CompleteAnswerLost(q)
    BY <1>1, <1>8 DEF GetReplayed, End, GoTo, CompleteAnswerLost
  <2>2. r = q /\ Holding(r)' => Holding(r)
    BY <2>1 DEF Holding, Invoking, InvokingPoints
  <2>3. ASSUME q = r PROVE IsCompleted(table[k]) /\ returned'[r] = table[k].result
    <3>1. PICK item \in {table[k], replica[k]} :
             ReadOutcome(item, Request(r).hash) = "completed" /\ End(r, "replayed", item.result)
      BY <1>8, <2>3 DEF GetReplayed, ReadableItems, k
    <3>2. IsCompleted(item)
      BY <3>1 DEF ReadOutcome, IsCompleted
    <3>3. item = table[k]
      BY <3>1, <3>2 DEF RetentionInv, RetentionOK, k
    <3> QED BY <1>1, <3>1, <3>2, <3>3 DEF End
  <2> QED BY <1>5, <2>1, <2>2, <2>3
<1>9. CASE \/ Complete(q) \/ CompleteRaises(q) \/ CompleteAnswerLost(q)
           \/ Release(q) \/ ReleaseAnswerLost(q)
  <2>1. /\ pc[q] \in {"complete", "release"}
        /\ UNCHANGED << table, unguarding >> \/ WriteItem(q, Written(q))
    BY <1>9, WriteFacts
  <2>2. r = q /\ Holding(r)' => Holding(r)
    <3>1. CASE pc'[q] = "done"
      BY <3>1 DEF Holding, Invoking, InvokingPoints
    <3>2. CASE CompleteAnswerLost(q) \/ ReleaseAnswerLost(q)
      <4>1. frame'[q].resending
        BY <1>2, <3>2, InFlightFacts
           DEF CompleteAnswerLost, ReleaseAnswerLost, Resend, Frames, TypeInv, SharedOK
      <4> QED BY <4>1 DEF Holding
    <3> QED BY <1>1, <1>9, <3>1, <3>2 DEF Complete, CompleteRaises, Release, End, GoTo
  <2>3. CASE WriteItem(q, Written(q)) /\ ItemKey(q) = k /\ ~frame[q].resending
    <3>1. CASE Complete(q) \/ CompleteRaises(q) \/ CompleteAnswerLost(q)
      BY <2>3, <3>1, CompleteRetention DEF k
    <3>2. CASE Release(q) \/ ReleaseAnswerLost(q)
      <4>1. ~CompleteAnswerLost(q)
        BY <3>2 DEF Release, ReleaseAnswerLost, CompleteAnswerLost
      <4> QED BY <1>4, <2>3, <3>2, <4>1, ReleaseRetention DEF k
    <3> QED BY <1>9, <3>1, <3>2
  <2>4. CASE WriteItem(q, Written(q)) /\ ItemKey(q) = k /\ frame[q].resending
    <3>1. table'[k] = table[k]
      BY <2>1, <2>4, RepeatKeeps DEF k
    <3>2. r = q /\ pc[q] = "complete" => /\ IsCompleted(table[k])
                                         /\ table[k].result = frame[r].result
      BY <1>1, <2>4 DEF RetentionInv, RetentionOK, Resent, Written, Completion, Retained, k
    <3>3. r = q /\ CompleteAnswerLost(q) => Resent(r)
      BY <2>4 DEF CompleteAnswerLost, Resent
    <3>4. outcome'[r] \in {"ok", "replayed"} /\ r = q =>
             \/ outcome[r] = outcome'[r] /\ returned'[r] = returned[r]
             \/ IsCompleted(table[k]) /\ returned'[r] = table[k].result
      BY <1>1, <1>9, <3>2 DEF Complete, CompleteRaises, CompleteAnswerLost, Release,
                              ReleaseAnswerLost, Resend, End
    <3> QED BY <1>5, <2>2, <3>1, <3>3, <3>4
  <2>5. CASE ItemKey(q) # k
    <3>1. q # r /\ table'[k] = table[k]
      BY <1>1, <2>1, <2>5 DEF WriteItem, k
    <3> QED BY <1>5, <3>1
  <2>6. CASE ~WriteItem(q, Written(q))
    <3>1. table' = table /\ (CompleteRaises(q) \/ Release(q))
      BY <1>9, <2>1, <2>6, ResendWrites DEF Complete, WriteCompletion, Written
    <3>2. ~CompleteAnswerLost(q) /\ (r = q => outcome'[r] = "error")
      BY <1>1, <2>6, <3>1, ResendWrites DEF CompleteRaises, Release, End
    <3> QED BY <1>5, <2>2, <3>1, <3>2
  <2> QED BY <2>3, <2>4, <2>5, <2>6
<1>10. CASE \/ PutRefused(q) \/ ReserveRaises(q) \/ GetRejected(q)
            \/ EvaluateRoute(q) \/ PolicyUnresolved(q)
            \/ ProviderSucceeds(q) \/ ProviderRaises(q)
            \/ \E category \in ProviderErrors : ProviderFails(q, category)
            \/ Persist(q) \/ PersistRaises(q) \/ Publish(q)
  <2>1. Calm(q)
    BY <1>10, QuietCalm
  <2>2. table' = table /\ ~CompleteAnswerLost(q)
    BY <1>10 DEF PutRefused, ReserveRaises, GetRejected, EvaluateRoute, PolicyUnresolved,
                 ProviderSucceeds, ProviderRaises, ProviderFails, Persist, PersistRaises, Publish,
                 CompleteAnswerLost
  <2>3. r = q /\ Holding(r)' => Holding(r)
    BY <2>1 DEF Calm, NoEntry
  <2>4. q = r => outcome'[r] \in {outcome[r], "error", "conflict", "in_progress"}
    BY <1>1, <1>10 DEF PutRefused, ReserveRaises, GetRejected, EvaluateRoute, PolicyUnresolved,
                 ProviderSucceeds, ProviderRaises, ProviderFails, Persist, PersistRaises, Publish,
                 End, Raise
  <2>5. q = r => returned'[r] = returned[r] \/ outcome'[r] \in {"error", "conflict", "in_progress"}
    BY <1>1, <1>10 DEF PutRefused, ReserveRaises, GetRejected, EvaluateRoute, PolicyUnresolved,
                 ProviderSucceeds, ProviderRaises, ProviderFails, Persist, PersistRaises, Publish,
                 End, Raise
  <2> QED BY <1>5, <2>2, <2>3, <2>4, <2>5
<1> QED BY <1>6, <1>7, <1>8, <1>9, <1>10 DEF Advance

LEMMA RetentionStep ==
    TypeInv /\ TypeInv' /\ LeaseInv /\ ResendInv /\ RetentionInv /\ [Next]_vars => RetentionInv'
<1> SUFFICES ASSUME TypeInv, TypeInv', LeaseInv, ResendInv, RetentionInv, [Next]_vars,
                    NEW r \in Requests, Retained(r)'
             PROVE  RetentionOK(r)'
  BY DEF RetentionInv, RetentionOK
<1>1. Retained(r) /\ ItemKey(r)' = ItemKey(r) /\ Policy(r).retention_seconds \in Int
  BY RetainedBefore
<1>2. ItemKey(r) \in ItemKeys
  BY <1>1, KeyedItemKey DEF Retained
<1>3. ASSUME NEW q \in Requests, Advance(q) PROVE RetentionOK(r)'
  BY <1>1, <1>3, AdvanceRetention
<1>4. ASSUME pc'[r] = pc[r], frame'[r] = frame[r]
      PROVE  /\ Holding(r)' => Holding(r)
             /\ Resent(r)' => Resent(r) /\ Written(r)' = Written(r)
  BY <1>4 DEF Holding, Invoking, Resent, Written, Request, Policy
<1>5. ASSUME NEW q \in Requests, NEW e \in Envs, Start(q, e) PROVE RetentionOK(r)'
  <2>1. /\ UNCHANGED << table, replica, outcome, returned >>
        /\ (pc'[r] = pc[r] /\ frame'[r] = frame[r]) \/ pc'[r] = "put"
    BY <1>1, <1>5 DEF Start, GoTo, Retained, TypeInv, SharedOK
  <2>2. /\ Holding(r)' => Holding(r)
        /\ Resent(r)' => Resent(r) /\ Written(r)' = Written(r)
    BY <1>4, <2>1 DEF Holding, Invoking, InvokingPoints, Resent
  <2> QED BY <1>1, <2>1, <2>2, ItemStays
<1>6. ASSUME NEW e \in Envs, Kill(e) PROVE RetentionOK(r)'
  <2>1. /\ UNCHANGED << table, replica, returned >>
        /\ outcome'[r] \in {outcome[r], "killed"}
        /\ (pc'[r] = pc[r] /\ frame'[r] = frame[r]) \/ pc'[r] = "done"
    BY <1>6 DEF Kill
  <2>2. /\ Holding(r)' => Holding(r)
        /\ Resent(r)' => Resent(r) /\ Written(r)' = Written(r)
    BY <1>4, <2>1 DEF Holding, Invoking, InvokingPoints, Resent
  <2> QED BY <1>1, <2>1, <2>2, ItemStays
<1>7. ASSUME NEW k \in ItemKeys, TtlSweep(k) PROVE RetentionOK(r)'
  <2>1. CASE k = ItemKey(r)
    BY <1>1, <1>7, <2>1, SweepRetention
  <2>2. CASE k # ItemKey(r)
    <3>1. /\ table'[ItemKey(r)] = table[ItemKey(r)]
          /\ UNCHANGED << pc, frame, replica, outcome, returned >>
      BY <1>2, <1>7, <2>2 DEF TtlSweep, TypeInv, SharedOK
    <3> QED BY <1>1, <1>4, <3>1, ItemStays
  <2> QED BY <2>1, <2>2
<1>8. ASSUME NEW k \in ItemKeys, Replicate(k) PROVE RetentionOK(r)'
  <2>1. /\ replica'[ItemKey(r)] \in {replica[ItemKey(r)], table[ItemKey(r)]}
        /\ UNCHANGED << pc, frame, table, outcome, returned >>
    BY <1>2, <1>8 DEF Replicate, TypeInv, SharedOK
  <2> QED BY <1>1, <1>4, <2>1, ItemStays
<1>9. CASE UNCHANGED << pc, frame, table, replica, outcome, returned >>
  BY <1>1, <1>4, <1>9, ItemStays
<1> QED BY <1>3, <1>5, <1>6, <1>7, <1>8, <1>9 DEF Next, Tick, vars

LEMMA RetentionInvHolds == Spec => []RetentionInv
<1>1. Init => RetentionInv
  <2> SUFFICES ASSUME Init, NEW r \in Requests, Retained(r) PROVE RetentionOK(r)
    BY DEF RetentionInv, RetentionOK
  <2>1. ItemKey(r) \in ItemKeys
    BY KeyedItemKey DEF Retained
  <2> QED BY <2>1 DEF Init, RetentionOK, IsCompleted, Resent
<1> QED BY <1>1, RetentionStep, TypeInvHolds, LeaseInvHolds, ResendHolds, PTL DEF Spec

\* An inference that ended with a result has a policy.
LEMMA ResultHasPolicy ==
    ASSUME TypeInv, AuditInv, RecordInv, NEW r \in Requests, outcome[r] \in {"ok", "replayed"}
    PROVE  Policy(r) # NoPolicy
<1>1. CASE outcome[r] = "ok"
  BY <1>1 DEF RecordInv, RecordOK
<1>2. CASE outcome[r] = "replayed"
  <2>1. PICK d \in Requests :
          /\ returned[r] \in InferenceResults
          /\ audit[d] = AuditRecord(returned[r]) /\ ItemKey(d) = ItemKey(r)
    BY <1>2 DEF AuditInv, Reported, Audited
  <2>2. AuditRecord(returned[r]) \in AuditRecords
    BY <2>1 DEF AuditRecord, AuditRecords, InferenceResults
  <2>3. Policy(d) # NoPolicy
    BY <2>1, <2>2, NoneAssumption DEF RecordInv, RecordOK
  <2>4. Policy(d) = Policy(r)
    BY <2>1 DEF ItemKey, Policy
  <2> QED BY <2>3, <2>4
<1> QED BY <1>1, <1>2

\* What requests under one key that must agree end with is the result in the table.
LEMMA RetainedAlike ==
    ASSUME TypeInv, AuditInv, RecordInv, RetentionInv, NEW r \in Requests, NEW s \in Requests,
           MustAgree(r, s)
    PROVE  returned[r] = returned[s]
<1>1. Request(s).application = Request(r).application /\ Policy(s) = Policy(r)
  BY DEF MustAgree, ItemKey, Policy
<1>2. Policy(r) # NoPolicy /\ Guarded(ItemKey(r)) /\ Guarded(ItemKey(s))
  BY ResultHasPolicy DEF MustAgree, Guarded
<1>3. WithinRetention(s)
  BY <1>1 DEF MustAgree, WithinRetention
<1>4. Retained(r) /\ Retained(s)
  BY <1>1, <1>2, <1>3 DEF MustAgree, Retained
<1> QED BY <1>4 DEF MustAgree, RetentionInv, RetentionOK

\* Until the retention ends, all requests under a key that is cached and guarded
\* get one result, however many there are and whichever environment serves them:
\* the first result to be completed stays in the table, and a repeat of the
\* complete() that wrote it finds it there.
THEOREM RetriesGetOneResult == Spec => []RetriesAgree
<1>1. TypeInv /\ AuditInv /\ RecordInv /\ RetentionInv => RetriesAgree
  <2> SUFFICES ASSUME TypeInv, AuditInv, RecordInv, RetentionInv,
                      NEW r \in Requests, NEW s \in Requests, MustAgree(r, s)
               PROVE  returned[r] = returned[s]
    BY DEF RetriesAgree
  <2> QED BY RetainedAlike
<1> QED BY <1>1, TypeInvHolds, AuditInvHolds, RecordInvHolds, RetentionInvHolds, PTL

-----------------------------------------------------------------------------
(***************************************************************************)
(* The function runs the orchestrator.                                     *)
(***************************************************************************)
\* A step of the code serving the inference r.
InferenceStep(r) ==
    \/ Proceed(r) \/ Answer(r)
    \/ EvaluateInference(r) \/ CompleteInference(r) \/ ReleaseInference(r)

LEMMA InferenceAdvances ==
    ASSUME NEW r \in Requests, InferenceStep(r)
    PROVE  Advance(r)
<1>1. CASE Proceed(r) \/ Answer(r)
  BY <1>1 DEF Proceed, Answer, Advance
<1>2. CASE EvaluateInference(r)
  BY <1>2 DEF EvaluateInference, Advance
<1>3. CASE CompleteInference(r) \/ ReleaseInference(r)
  BY <1>3 DEF CompleteInference, ReleaseInference, Advance
<1> QED BY <1>1, <1>2, <1>3 DEF InferenceStep

\* A call that is answered at once, or that finds no services.
SideStep(c, e) ==
    \/ /\ c \in Others
       /\ \E event \in EventsOf[c] :
              \/ HandleStatic(c, e, event) \/ HandleEvaluate(c, e, event)
              \/ HandleGetDecision(c, e, event)
    \/ InitializationFails(c, e)

LEMMA SideSteps ==
    ASSUME NEW c \in Calls, NEW e \in Envs, SideStep(c, e)
    PROVE  UNCHANGED << vars, raised >> /\ response[c] = NoResponse /\ Available(e)
BY DEF SideStep, HandleStatic, HandleEvaluate, HandleGetDecision, InitializationFails, Dispatched

LEMMA ApiCases ==
    ASSUME [ApiNext]_apiVars
    PROVE  \/ \E c \in Calls, e \in Envs : SideStep(c, e)
           \/ \E r \in Requests, e \in Envs : StartInference(r, e)
           \/ \E r \in Requests : InferenceStep(r)
           \/ \E e \in Envs : EndEnvironment(e)
           \/ Elapse
           \/ UNCHANGED apiVars
BY DEF ApiNext, SideStep, InferenceStep, Calls

LEMMA StepRefines == [ApiNext]_apiVars => [Next]_vars
<1> SUFFICES ASSUME [ApiNext]_apiVars PROVE [Next]_vars
  OBVIOUS
<1>1. ASSUME NEW c \in Calls, NEW e \in Envs, SideStep(c, e) PROVE [Next]_vars
  BY <1>1, SideSteps
<1>2. ASSUME NEW r \in Requests, NEW e \in Envs, StartInference(r, e) PROVE [Next]_vars
  BY <1>2 DEF StartInference, Next
<1>3. ASSUME NEW r \in Requests, InferenceStep(r) PROVE [Next]_vars
  BY <1>3, InferenceAdvances DEF Next
<1>4. ASSUME NEW e \in Envs, EndEnvironment(e) PROVE [Next]_vars
  BY <1>4 DEF EndEnvironment, Next
<1>5. CASE Elapse
  BY <1>5 DEF Elapse, Next
<1>6. CASE UNCHANGED apiVars
  BY <1>6 DEF apiVars
<1> QED BY <1>1, <1>2, <1>3, <1>4, <1>5, <1>6, ApiCases

\* Whatever a client sends, the orchestrator behaves as InvocationOrchestrator says,
\* and what is proved of it there holds behind the handler.
THEOREM FunctionRunsOrchestrator == ApiSpec => Spec
<1>1. ApiInit => Init
  BY DEF ApiInit
<1> QED BY <1>1, StepRefines, PTL DEF ApiSpec, Spec

\* What the orchestrator's invariants say together.
CoreInv ==
    /\ TypeInv /\ LeaseInv /\ OneServed /\ AuditInv /\ RecordInv /\ RetentionInv

LEMMA CoreInvHolds == ApiSpec => []CoreInv
<1>1. TypeInv /\ LeaseInv /\ OneServed /\ AuditInv /\ RecordInv /\ RetentionInv => CoreInv
  BY DEF CoreInv
<1> QED BY <1>1, FunctionRunsOrchestrator, TypeInvHolds, LeaseInvHolds, OneServedHolds,
           AuditInvHolds, RecordInvHolds, RetentionInvHolds, PTL

-----------------------------------------------------------------------------
(***************************************************************************)
(* The policy repository.                                                  *)
(***************************************************************************)
LEMMA FreshFaithful ==
    /\ FreshRepository \in Repositories /\ Faithful(FreshRepository)
    /\ ~Spoiled(FreshRepository)
BY FilesAssumption DEF FreshRepository, Repositories, Faithful, Spoiled

\* What an application's files say, as the assumption puts it.
LEMMA FileFacts ==
    ASSUME NEW a \in Applications
    PROVE  /\ ApplicationFile[a] \notin {NoFile, BadFile} =>
                 PolicyOf[a] = ApplicationFile[a] /\ PolicyOf[a] # NoPolicy
           /\ ApplicationFile[a] = NoFile /\ DefaultFile \notin {NoFile, BadFile} =>
                 PolicyOf[a] = DefaultFile /\ PolicyOf[a] # NoPolicy
           /\ DefaultFile # NotLoaded /\ ApplicationFile[a] # NotLoaded
BY FilesAssumption

\* resolve() of a repository that holds what the files say.
LEMMA ResolveFacts ==
    ASSUME NEW rep \in Repositories, Faithful(rep), NEW a \in Applications,
           NEW readable \in BOOLEAN, NEW res, res = Resolve(rep, a, readable)
    PROVE  /\ res.repository \in Repositories /\ Faithful(res.repository)
           /\ res.raises \in {"none", "ConfigurationError", "RoutingPolicyNotFoundError"}
           /\ res.raises = "none" =>
                 /\ res.policy = PolicyOf[a] /\ PolicyOf[a] # NoPolicy
                 /\ Settled(res.repository, a)
           /\ res.raises = "RoutingPolicyNotFoundError" =>
                 ApplicationFile[a] = NoFile /\ (DefaultFile = NoFile \/ Spoiled(rep))
           /\ Spoiled(res.repository) =>
                 \/ Spoiled(rep)
                 \/ res.raises = "ConfigurationError" /\ ApplicationFile[a] = NoFile
<1>1. /\ rep.cache \in [Applications -> {PolicyOf[b] : b \in Applications} \cup {NotLoaded}]
      /\ rep.default_policy \in {DefaultFile, NotLoaded} /\ rep.default_policy_loaded \in BOOLEAN
  BY DEF Repositories
<1>2. CASE rep.cache[a] # NotLoaded
  <2>1. res = Found(rep.cache[a], rep)
    BY <1>2 DEF Resolve
  <2> QED BY <1>2, <2>1, FileFacts DEF Found, Faithful, Settled
<1>3. CASE rep.cache[a] = NotLoaded /\ ApplicationFile[a] # NoFile
  <2>1. CASE ~Loads(ApplicationFile[a], readable)
    <3>1. res = Raises("ConfigurationError", rep)
      BY <1>3, <2>1 DEF Resolve
    <3> QED BY <3>1 DEF Raises
  <2>2. CASE Loads(ApplicationFile[a], readable)
    <3> DEFINE new == [rep EXCEPT !.cache[a] = ApplicationFile[a]]
    <3>1. res = Found(ApplicationFile[a], new)
      BY <1>3, <2>2 DEF Resolve
    <3>2. /\ ApplicationFile[a] \notin {NoFile, BadFile} /\ ApplicationFile[a] # NotLoaded
          /\ PolicyOf[a] = ApplicationFile[a] /\ PolicyOf[a] # NoPolicy
      BY <1>3, <2>2, FileFacts DEF Loads
    <3>3. /\ new \in Repositories /\ new.default_policy = rep.default_policy
          /\ new.default_policy_loaded = rep.default_policy_loaded
          /\ new.cache = [rep.cache EXCEPT ![a] = ApplicationFile[a]]
      BY <1>1, <3>2 DEF Repositories
    <3> HIDE DEF new
    <3>4. /\ new.cache[a] = ApplicationFile[a]
          /\ \A b \in Applications \ {a} : new.cache[b] = rep.cache[b]
      BY <1>1, <3>3
    <3>5. Faithful(new)
      BY <3>2, <3>3, <3>4 DEF Faithful
    <3>6. Settled(new, a) /\ (Spoiled(new) => Spoiled(rep))
      BY <3>2, <3>3, <3>4 DEF Settled, Spoiled
    <3> QED BY <3>1, <3>2, <3>3, <3>5, <3>6 DEF Found
  <2> QED BY <2>1, <2>2
<1>4. CASE rep.cache[a] = NotLoaded /\ ApplicationFile[a] = NoFile
  <2> DEFINE marked  == [rep EXCEPT !.default_policy_loaded = TRUE]
             default == LoadDefaultPolicy(rep, readable)
  <2>1. res = IF default.raises = "none" /\ default.policy = NotLoaded
              THEN Raises("RoutingPolicyNotFoundError", default.repository) ELSE default
    BY <1>4 DEF Resolve
  <2>2. /\ marked \in Repositories /\ marked.cache = rep.cache
        /\ marked.default_policy = rep.default_policy /\ marked.default_policy_loaded
    BY <1>1 DEF Repositories
  <2>3. CASE rep.default_policy_loaded \/ DefaultFile = NoFile
    <3>1. default = Found(rep.default_policy, marked)
      BY <2>3 DEF LoadDefaultPolicy
    <3>2. Faithful(marked) /\ (Spoiled(marked) => Spoiled(rep))
      BY <2>2, <2>3 DEF Faithful, Spoiled
    <3> HIDE DEF marked, default
    <3>3. CASE rep.default_policy = NotLoaded
      <4>1. res = Raises("RoutingPolicyNotFoundError", marked)
        BY <2>1, <3>1, <3>3 DEF Found
      <4> QED BY <1>4, <2>2, <2>3, <3>2, <3>3, <4>1 DEF Raises, Spoiled
    <3>4. CASE rep.default_policy # NotLoaded
      <4>1. res = Found(rep.default_policy, marked)
        BY <2>1, <3>1, <3>4 DEF Found
      <4> QED BY <1>4, <2>2, <3>2, <3>4, <4>1, FileFacts DEF Found, Faithful, Settled
    <3> QED BY <3>3, <3>4
  <2>4. CASE ~(rep.default_policy_loaded \/ DefaultFile = NoFile) /\ ~Loads(DefaultFile, readable)
    <3>1. default = Raises("ConfigurationError", marked)
      BY <2>4 DEF LoadDefaultPolicy
    <3>2. Faithful(marked)
      BY <2>2 DEF Faithful
    <3> HIDE DEF marked, default
    <3>3. res = Raises("ConfigurationError", marked)
      BY <2>1, <3>1 DEF Raises
    <3> QED BY <1>4, <2>2, <3>2, <3>3 DEF Raises
  <2>5. CASE ~(rep.default_policy_loaded \/ DefaultFile = NoFile) /\ Loads(DefaultFile, readable)
    <3> DEFINE new == [marked EXCEPT !.default_policy = DefaultFile]
    <3>1. default = Found(DefaultFile, new)
      BY <2>5 DEF LoadDefaultPolicy
    <3>2. /\ DefaultFile \notin {NoFile, BadFile} /\ DefaultFile # NotLoaded
          /\ PolicyOf[a] = DefaultFile /\ PolicyOf[a] # NoPolicy
      BY <1>4, <2>5, FileFacts DEF Loads
    <3>3. /\ new \in Repositories /\ new.cache = rep.cache
          /\ new.default_policy = DefaultFile /\ new.default_policy_loaded
      BY <1>1, <2>2 DEF Repositories
    <3> HIDE DEF new, default
    <3>4. res = Found(DefaultFile, new)
      BY <2>1, <3>1, <3>2 DEF Found
    <3>5. Faithful(new) /\ ~Spoiled(new) /\ Settled(new, a)
      BY <1>4, <3>2, <3>3 DEF Faithful, Spoiled, Settled
    <3> QED BY <3>2, <3>3, <3>4, <3>5 DEF Found
  <2> QED BY <2>3, <2>4, <2>5
<1> QED BY <1>2, <1>3, <1>4

\* A policy in memory is answered from memory, whatever has become of its file.
LEMMA SettledResolves ==
    ASSUME NEW rep \in Repositories, Faithful(rep), NEW a \in Applications, Settled(rep, a),
           NEW readable
    PROVE  Resolve(rep, a, readable) = Found(PolicyOf[a], rep)
<1>1. CASE rep.cache[a] # NotLoaded
  BY <1>1, FileFacts DEF Resolve, Faithful
<1>2. CASE rep.cache[a] = NotLoaded
  <2>1. /\ ApplicationFile[a] = NoFile /\ rep.default_policy # NotLoaded
        /\ rep.default_policy = PolicyOf[a] /\ rep.default_policy_loaded
    BY <1>2, FileFacts DEF Settled, Faithful
  <2>2. [rep EXCEPT !.default_policy_loaded = TRUE] = rep
    BY <2>1 DEF Repositories
  <2>3. LoadDefaultPolicy(rep, readable) = Found(PolicyOf[a], rep)
    BY <2>1, <2>2 DEF LoadDefaultPolicy
  <2> QED BY <1>2, <2>1, <2>3 DEF Resolve, Found
<1> QED BY <1>1, <1>2

-----------------------------------------------------------------------------
(***************************************************************************)
(* What becomes of an inference.                                           *)
(***************************************************************************)
\* The repository an inference finds.
LEMMA FoundServices ==
    ASSUME ServicesOK, RepositoryInv, CallInv, TypeInv, NEW r \in Requests, InFlight(r)
    PROVE  /\ frame[r].env \in Envs /\ services[frame[r].env] \in Repositories
           /\ Faithful(services[frame[r].env]) /\ Request(r).application \in Applications
<1>1. frame[r].env \in Envs /\ services[frame[r].env] # NoServices
  BY InFlightFacts DEF CallInv, CallOK
<1> QED BY <1>1, RequestAssumption DEF ServicesOK, RepositoryInv, Request

\* Once evaluated, resolve() finds the policy and leaves the repository alone.
LEMMA ResolvesFromMemory ==
    ASSUME ServicesOK, RepositoryInv, CallInv, TypeInv, NEW r \in Requests,
           pc[r] \in {"calling", "persist", "publish", "complete"}, NEW readable
    PROVE  ResolveFor(r, readable) = Found(Policy(r), services[frame[r].env])
<1>1. InFlight(r) /\ Settled(services[frame[r].env], Request(r).application)
  BY DEF InFlight, Invoking, InvokingPoints, CallInv, CallOK
<1> QED BY <1>1, FoundServices, SettledResolves DEF ResolveFor, Policy

\* The inference goes on and nobody is answered.
GoesOn(r) == pc'[r] # "done" /\ response' = response

\* invoke() returns, and the answer is what its result calls for.
EndsWith(r) ==
    /\ pc'[r] = "done" /\ outcome'[r] \in {"ok", "replayed"}
    /\ response' = [response EXCEPT ![r] = InferenceResponse(r, returned'[r])]

\* invoke() raises, and the answer is what the exception maps to.
EndsRaising(r, exception) ==
    /\ pc'[r] = "done"
    /\ response' = [response EXCEPT ![r] = InferenceFailure(r, MapException(exception))]

\* reserve() turned the inference away.
TurnedAway(r) ==
    /\ pc[r] = "get" /\ outcome'[r] \in {"conflict", "in_progress"}
    /\ \E exception \in {"IdempotencyConflictError", "IdempotencyInProgressError"} :
          EndsRaising(r, exception)

\* An exception of evaluate() that is on its way to release() or to the client.
Unresolved(r, exception) ==
    /\ pc[r] = "evaluate"
    /\ \/ /\ EndsRaising(r, exception) /\ outcome'[r] = "error"
          /\ raised' = raised /\ ~HasKey(r)
       \/ /\ pc'[r] = "release" /\ response' = response
          /\ raised' = [raised EXCEPT ![r] = exception]

LEMMA FailsFacts ==
    ASSUME NEW r \in Requests, NEW exception, Fails(r, exception), ServicesOK
    PROVE  \/ EndsRaising(r, exception) /\ raised' = raised
           \/ GoesOn(r) /\ raised' = [raised EXCEPT ![r] = exception]
BY DEF Fails, Respond, EndsRaising, GoesOn

\* Steps that raise go to release() or end.
LEMMA RaisePoints ==
    ASSUME TypeInv, NEW r \in Requests, Raise(r)
    PROVE  \/ pc'[r] = "release"
           \/ pc'[r] = "done" /\ outcome'[r] = "error" /\ ~HasKey(r)
BY DEF Raise, End, GoTo, TypeInv, SharedOK

LEMMA EndPoints ==
    ASSUME TypeInv, NEW r \in Requests, NEW how, NEW res, End(r, how, res)
    PROVE  pc'[r] = "done" /\ outcome'[r] = how /\ returned'[r] = res
BY DEF End, GoTo, TypeInv, SharedOK

\* An exception other than those of resolve().
Troubles == {"ClientError", "Exception"}

\* complete() or release() is to be sent again, and nobody has heard of it yet.
SendsAgain(r) ==
    /\ pc[r] \in {"complete", "release"}
    /\ UNCHANGED << pc, outcome, returned, audit, services, raised, response >>

LEMMA ProceedFacts ==
    ASSUME TypeInv, NEW r \in Requests, Proceed(r), ~SendsAgain(r)
    PROVE  /\ GoesOn(r) /\ UNCHANGED << services, raised >> /\ pc'[r] # "release"
           /\ pc[r] # "release"
           /\ pc'[r] \in {"calling", "persist", "publish", "complete"} =>
                 pc[r] \in {"calling", "persist"}
<1>1. CASE PutAccepted(r) \/ PutAnswerLost(r) \/ PutRefused(r) \/ GetVanished(r) \/ Persist(r)
  <2>1. \/ pc'[r] \in {"evaluate", "put", "get"} /\ pc[r] \in {"put", "get"}
        \/ pc'[r] = "publish" /\ pc[r] = "persist"
    BY <1>1 DEF PutAccepted, PutAnswerLost, PutRefused, GetVanished, Persist, GoTo,
                TypeInv, SharedOK
  <2> QED BY <2>1 DEF Proceed, GoesOn
<1>2. CASE ProviderSucceeds(r) \/ \E category \in ProviderErrors : ProviderFails(r, category)
  <2>1. pc'[r] \in {"calling", "persist"} /\ pc[r] = "calling"
    BY <1>2, AttemptShape DEF ProviderSucceeds, ProviderFails
  <2> QED BY <2>1 DEF Proceed, GoesOn
<1> QED BY <1>1, <1>2 DEF Proceed, ReleaseAnswerLost, Resend, SendsAgain

\* What the steps of Answer(r) come to.
LEMMA AnswerFacts ==
    ASSUME TypeInv, ServicesOK, NEW r \in Requests, Answer(r)
    PROVE  /\ services' = services
           /\ \/ GoesOn(r) /\ raised' = raised /\ pc[r] = "publish" /\ pc'[r] = "complete"
              \/ /\ GoesOn(r) /\ pc'[r] = "release" /\ pc[r] # "release"
                 /\ \E exception \in Troubles : raised' = [raised EXCEPT ![r] = exception]
              \/ /\ EndsWith(r) /\ raised' = raised
                 /\ pc[r] # "release" /\ (outcome'[r] = "replayed" \/ ~HasKey(r))
              \/ TurnedAway(r) /\ raised' = raised
              \/ /\ outcome'[r] = "error" /\ raised' = raised /\ pc[r] # "release"
                 /\ \E exception \in Troubles : EndsRaising(r, exception)
<1>1. services' = services
  BY DEF Answer
<1>2. CASE ReserveRaises(r) /\ Fails(r, "ClientError")
  <2>1. pc'[r] = "done" /\ outcome'[r] = "error" /\ pc[r] # "release"
    BY <1>2, EndPoints DEF ReserveRaises
  <2> QED BY <1>1, <1>2, <2>1, FailsFacts DEF GoesOn, Troubles
<1>3. CASE GetRejected(r) /\ Fails(r, IF outcome'[r] = "conflict" THEN "IdempotencyConflictError"
                                      ELSE "IdempotencyInProgressError")
  <2>1. pc[r] = "get" /\ pc'[r] = "done" /\ outcome'[r] \in {"conflict", "in_progress"}
    BY <1>3, EndPoints DEF GetRejected
  <2> QED BY <1>1, <1>3, <2>1, FailsFacts DEF GoesOn, TurnedAway
<1>4. CASE GetReplayed(r) /\ Returns(r)
  <2>1. pc[r] = "get" /\ pc'[r] = "done" /\ outcome'[r] = "replayed"
    BY <1>4, EndPoints DEF GetReplayed
  <2> QED BY <1>1, <1>4, <2>1 DEF Returns, Respond, EndsWith
<1>5. CASE \/ ProviderRaises(r) /\ Fails(r, "Exception")
           \/ PersistRaises(r) /\ Fails(r, "ClientError")
  <2>1. PICK exception \in Troubles : Fails(r, exception)
    BY <1>5 DEF Troubles
  <2>2. Raise(r) /\ pc[r] # "release"
    BY <1>5 DEF ProviderRaises, PersistRaises
  <2> QED BY <1>1, <2>1, <2>2, RaisePoints, FailsFacts DEF GoesOn, EndsRaising
<1>6. CASE Publish(r) /\ Returns(r)
  <2>1. /\ pc[r] = "publish"
        /\ \/ pc'[r] = "complete"
           \/ pc'[r] = "done" /\ outcome'[r] = "ok" /\ ~HasKey(r)
    <3>1. CASE HasKey(r)
      BY <1>6, <3>1 DEF Publish, GoTo, TypeInv, SharedOK
    <3>2. CASE ~HasKey(r)
      BY <1>6, <3>2, EndPoints DEF Publish
    <3> QED BY <3>1, <3>2
  <2> QED BY <1>1, <1>6, <2>1 DEF Returns, Respond, EndsWith, GoesOn
<1> QED BY <1>2, <1>3, <1>4, <1>5, <1>6 DEF Answer

\* evaluate(): the policy is in memory now, or its exception is on its way.
LEMMA PolicyEvaluated ==
    ASSUME TypeInv, ServicesOK, RepositoryInv, CallInv, NEW r \in Requests,
           EvaluateInference(r)
    PROVE  LET e == frame[r].env
               a == Request(r).application
           IN  \E rep \in Repositories :
                  /\ services' = [services EXCEPT ![e] = rep] /\ Faithful(rep)
                  /\ \/ /\ GoesOn(r) /\ raised' = raised /\ pc'[r] \in {"calling", "persist"}
                        /\ Settled(rep, a)
                        /\ Spoiled(rep) => Spoiled(services[e])
                     \/ \E exception \in {"ConfigurationError", "RoutingPolicyNotFoundError"} :
                           /\ Unresolved(r, exception)
                           /\ exception = "RoutingPolicyNotFoundError" =>
                                 /\ ApplicationFile[a] = NoFile
                                 /\ DefaultFile = NoFile \/ Spoiled(services[e])
                                 /\ Spoiled(rep) => Spoiled(services[e])
                           /\ exception = "ConfigurationError" /\ Spoiled(rep) =>
                                 Spoiled(services[e]) \/ ApplicationFile[a] = NoFile
<1> DEFINE e == frame[r].env
           a == Request(r).application
<1>1. pc[r] = "evaluate" /\ InFlight(r)
  BY DEF EvaluateInference, InFlight, Invoking, InvokingPoints
<1>2. e \in Envs /\ services[e] \in Repositories /\ Faithful(services[e]) /\ a \in Applications
  BY <1>1, FoundServices
<1>3. PICK readable \in BOOLEAN :
         LET resolved == ResolveFor(r, readable)
         IN  /\ KeepRepository(r, resolved)
             /\ IF resolved.raises = "none"
                THEN EvaluateRoute(r) /\ UNCHANGED << raised, response >>
                ELSE PolicyUnresolved(r) /\ Fails(r, resolved.raises)
  BY DEF EvaluateInference
<1> DEFINE res == ResolveFor(r, readable)
<1>4. res = Resolve(services[e], a, readable)
  BY DEF ResolveFor
<1>5. /\ services' = [services EXCEPT ![e] = res.repository]
      /\ res.raises = "none" => EvaluateRoute(r) /\ UNCHANGED << raised, response >>
      /\ res.raises # "none" => PolicyUnresolved(r) /\ Fails(r, res.raises)
  BY <1>3 DEF KeepRepository
<1> HIDE DEF res
<1>6. /\ res.repository \in Repositories /\ Faithful(res.repository)
      /\ res.raises \in {"none", "ConfigurationError", "RoutingPolicyNotFoundError"}
      /\ res.raises = "none" => Settled(res.repository, a)
      /\ res.raises = "RoutingPolicyNotFoundError" =>
            ApplicationFile[a] = NoFile /\ (DefaultFile = NoFile \/ Spoiled(services[e]))
      /\ Spoiled(res.repository) =>
            \/ Spoiled(services[e])
            \/ res.raises = "ConfigurationError" /\ ApplicationFile[a] = NoFile
  BY <1>2, <1>4, ResolveFacts
<1> HIDE DEF e, a
<1>7. CASE res.raises = "none"
  <2>1. pc'[r] \in {"calling", "persist"}
    BY <1>5, <1>7, EvaluateShape
  <2> QED BY <1>5, <1>6, <1>7, <2>1 DEF GoesOn, e, a
<1>8. CASE res.raises # "none"
  <2>1. Raise(r) /\ Fails(r, res.raises)
    BY <1>5, <1>8 DEF PolicyUnresolved
  <2>2. Unresolved(r, res.raises)
    <3>1. \/ pc'[r] = "release"
          \/ pc'[r] = "done" /\ outcome'[r] = "error" /\ ~HasKey(r)
      BY <2>1, RaisePoints
    <3>2. CASE EndsRaising(r, res.raises) /\ raised' = raised
      BY <1>1, <3>1, <3>2 DEF EndsRaising, Unresolved
    <3>3. CASE GoesOn(r) /\ raised' = [raised EXCEPT ![r] = res.raises]
      BY <1>1, <3>1, <3>3 DEF GoesOn, Unresolved, ServicesOK
    <3> QED BY <2>1, <3>2, <3>3, FailsFacts
  <2> QED BY <1>5, <1>6, <1>8, <2>2 DEF e, a
<1> QED BY <1>7, <1>8

\* complete(): the policy is found, so only the table can fail it.
LEMMA CompleteFacts ==
    ASSUME TypeInv, ServicesOK, RepositoryInv, CallInv, NEW r \in Requests,
           CompleteInference(r)
    PROVE  /\ services' = services /\ raised' = raised
           /\ \/ EndsWith(r) /\ Complete(r)
              \/ EndsRaising(r, "ClientError") /\ outcome'[r] = "error"
              \/ SendsAgain(r)
<1>1. pc[r] = "complete" /\ InFlight(r)
  BY DEF CompleteInference, InFlight, Invoking, InvokingPoints
<1>2. PICK readable \in BOOLEAN :
         LET resolved == ResolveFor(r, readable)
         IN  /\ KeepRepository(r, resolved)
             /\ IF resolved.raises = "none"
                THEN \/ Complete(r) /\ Returns(r)
                     \/ CompleteRaises(r) /\ Fails(r, "ClientError")
                     \/ CompleteAnswerLost(r) /\ UNCHANGED << raised, response >>
                ELSE CompleteRaises(r) /\ UNCHANGED table /\ Fails(r, resolved.raises)
  BY DEF CompleteInference
<1>3. ResolveFor(r, readable) = Found(Policy(r), services[frame[r].env])
  BY <1>1, ResolvesFromMemory
<1>4. /\ services' = [services EXCEPT ![frame[r].env] = services[frame[r].env]]
      /\ \/ Complete(r) /\ Returns(r)
         \/ CompleteRaises(r) /\ Fails(r, "ClientError")
         \/ CompleteAnswerLost(r) /\ UNCHANGED << raised, response >>
  BY <1>2, <1>3 DEF KeepRepository, Found
<1>5. services' = services
  BY <1>4 DEF ServicesOK
<1>6. CASE Complete(r) /\ Returns(r)
  <2>1. pc'[r] = "done" /\ outcome'[r] = "ok"
    BY <1>6, EndPoints DEF Complete
  <2> QED BY <1>5, <1>6, <2>1 DEF Returns, Respond, EndsWith
<1>7. CASE CompleteRaises(r) /\ Fails(r, "ClientError")
  <2>1. pc'[r] = "done" /\ outcome'[r] = "error"
    BY <1>7, EndPoints DEF CompleteRaises
  <2> QED BY <1>5, <1>7, <2>1, FailsFacts DEF GoesOn
<1>8. CASE CompleteAnswerLost(r) /\ UNCHANGED << raised, response >>
  BY <1>5, <1>8 DEF CompleteAnswerLost, Resend, SendsAgain
<1> QED BY <1>4, <1>6, <1>7, <1>8

\* release(): the exception goes on its way, or that of release() does.
LEMMA ReleaseFacts ==
    ASSUME TypeInv, ServicesOK, NEW r \in Requests, ReleaseInference(r)
    PROVE  /\ services' = services /\ pc[r] = "release" /\ outcome'[r] = "error"
           /\ raised' = [raised EXCEPT ![r] = "none"]
           /\ \/ EndsRaising(r, raised[r]) /\ table'[ItemKey(r)] = Released
              \/ EndsRaising(r, "ClientError")
<1>1. pc[r] = "release" /\ pc'[r] = "done" /\ outcome'[r] = "error"
  BY EndPoints DEF ReleaseInference, Release
<1> QED BY <1>1 DEF ReleaseInference, Respond, EndsRaising

-----------------------------------------------------------------------------
(***************************************************************************)
(* Answers.                                                                *)
(***************************************************************************)
\* The status an exception is given.
LEMMA MappedStatus ==
    ASSUME NEW exception
    PROVE  LET error == MapException(exception)
           IN  /\ error.status \in {403, 409, 500, 502} /\ error.code \in ErrorCodes
               /\ error.status = 403 <=> exception = "RoutingPolicyNotFoundError"
               /\ error.status = 409 =>
                     exception \in {"IdempotencyConflictError", "IdempotencyInProgressError"}
               /\ exception \in Troubles \cup {"ConfigurationError"} => error.status = 500
<1> DEFINE error == MapException(exception)
<1>1. CASE exception = "RoutingPolicyNotFoundError"
  <2>1. error = Error(403, "POLICY_DENIED")
    BY <1>1 DEF MapException
  <2> QED BY <1>1, <2>1 DEF Error, Troubles, ErrorCodes
<1>2. CASE exception \in {"IdempotencyConflictError", "IdempotencyInProgressError"}
  <2>1. \/ error = Error(409, "IDEMPOTENCY_CONFLICT")
        \/ error = Error(409, "IDEMPOTENCY_IN_PROGRESS")
    BY <1>2 DEF MapException
  <2> QED BY <1>2, <2>1 DEF Error, Troubles, ErrorCodes
<1>3. CASE exception = "ProviderError"
  <2>1. error = Error(502, "PROVIDER_UNAVAILABLE")
    BY <1>3 DEF MapException
  <2> QED BY <1>3, <2>1 DEF Error, Troubles, ErrorCodes
<1>4. CASE exception \notin {"RoutingPolicyNotFoundError", "IdempotencyConflictError",
                            "IdempotencyInProgressError", "ProviderError"}
  <2>1. error = Error(500, "INTERNAL_ERROR")
    BY <1>4 DEF MapException
  <2> QED BY <1>4, <2>1 DEF Error, ErrorCodes
<1> QED BY <1>1, <1>2, <1>3, <1>4

\* An error shows no decision.
LEMMA FailureProper ==
    ASSUME NEW endpoint \in Endpoints, NEW application \in Applications \cup {NoId},
           NEW error, error.code \in ErrorCodes,
           error.status \in {400, 402, 403, 404, 409, 422, 500, 502}
    PROVE  LET what == Failure(endpoint, application, error)
           IN  /\ Proper(what) /\ what.endpoint = endpoint /\ what.application = application
               /\ what.status = error.status /\ what.status # 200
BY DEF Failure, Proper, Responses

\* An answer with a decision shows its id and its route.
LEMMA SuccessProper ==
    ASSUME NEW endpoint \in Endpoints, NEW application \in Applications \cup {NoId},
           NEW shows, NEW route,
           \/ shows \in Calls /\ route \in Routes
           \/ shows = NoId /\ route = NoId
    PROVE  LET what == Success(endpoint, application, shows, route)
           IN  /\ Proper(what) /\ what.endpoint = endpoint /\ what.application = application
               /\ what.status = 200 /\ what.shows = shows /\ what.route = route
<1>1. NoId \notin Routes /\ NoId \notin Calls
  BY AbsenceAssumption, CallsAssumption
<1> DEFINE what == Success(endpoint, application, shows, route)
<1>2. /\ what \in Responses
      /\ what.endpoint = endpoint /\ what.application = application
      /\ what.status = 200 /\ what.shows = shows /\ what.route = route
  BY DEF Success, Responses, ErrorCodes
<1> HIDE DEF what
<1>3. what.shows = NoId <=> what.route = NoId
  BY <1>1, <1>2
<1> QED BY <1>2, <1>3 DEF Proper, what

LEMMA RouteShown ==
    ASSUME NEW ids, NEW d \in RoutingDecisions(ids)
    PROVE  SerializeRoute(d) \in Routes
BY DEF SerializeRoute, Routes, RoutingDecisions

\* handle_inference, given a result: either it shows the decision, or no model was
\* selected, and then a client error says that none was called.
LEMMA InferenceAnswers ==
    ASSUME NEW r \in Requests, NEW res, res.decision \in Decisions,
           NEW what, what = InferenceResponse(r, res)
    PROVE  /\ Proper(what) /\ what.endpoint = "inference"
           /\ what.application = Request(r).application /\ what.status # 403
           /\ what.status = 200 =>
                 /\ what.shows = res.decision.decision_id
                 /\ what.route = SerializeRoute(res.decision)
           /\ what.status \in 400..499 => res.attempts = << >>
<1>1. Request(r).application \in Applications /\ "inference" \in Endpoints
  BY RequestAssumption DEF Request, Endpoints
<1>2. CASE res.decision.selected = NoModel
  <2> DEFINE error == MapNoSelection(res.decision, res.attempts # << >>)
  <2>1. what = Failure("inference", Request(r).application, error)
    BY <1>2 DEF InferenceResponse, InferenceFailure
  <2>2. /\ error \in {Error(502, "PROVIDER_UNAVAILABLE"), Error(402, "COST_LIMIT_EXCEEDED"),
                     Error(422, "REQUIRED_CAPABILITY_UNAVAILABLE"),
                     Error(404, "NO_ELIGIBLE_MODEL")}
        /\ res.attempts # << >> => error = Error(502, "PROVIDER_UNAVAILABLE")
    BY DEF MapNoSelection
  <2>3. /\ error.code \in ErrorCodes /\ error.status \in {402, 404, 422, 502}
        /\ res.attempts # << >> => error.status = 502
    BY <2>2 DEF Error, ErrorCodes
  <2> HIDE DEF error
  <2>4. /\ Proper(what) /\ what.endpoint = "inference"
        /\ what.application = Request(r).application /\ what.status = error.status
    BY <1>1, <2>1, <2>3, FailureProper
  <2>5. what.status # 200 /\ what.status # 403
    BY <2>3, <2>4
  <2>6. CASE res.attempts = << >>
    BY <2>4, <2>5, <2>6
  <2>7. CASE res.attempts # << >>
    <3>1. what.status = 502
      BY <2>3, <2>4, <2>7
    <3>2. ~(what.status \in 400..499)
      BY <3>1
    <3> QED BY <2>4, <2>5, <3>2
  <2> QED BY <2>6, <2>7
<1>3. CASE res.decision.selected # NoModel
  <2>1. what =
          Success("inference", Request(r).application, res.decision.decision_id,
                  SerializeRoute(res.decision))
    BY <1>3 DEF InferenceResponse
  <2>2. res.decision.decision_id \in Calls /\ SerializeRoute(res.decision) \in Routes
    BY RouteShown DEF Decisions, RoutingDecisions, Calls
  <2>3. /\ Proper(what) /\ what.endpoint = "inference"
        /\ what.application = Request(r).application /\ what.status = 200
        /\ what.shows = res.decision.decision_id /\ what.route = SerializeRoute(res.decision)
    BY <1>1, <2>1, <2>2, SuccessProper
  <2> QED BY <2>3
<1> QED BY <1>2, <1>3

\* An inference that fails.
LEMMA InferenceFails ==
    ASSUME NEW r \in Requests, NEW error, error.code \in ErrorCodes,
           error.status \in {400, 402, 403, 404, 409, 422, 500, 502}
    PROVE  LET what == InferenceFailure(r, error)
           IN  /\ Proper(what) /\ what.endpoint = "inference"
               /\ what.application = Request(r).application
               /\ what.status = error.status /\ what.status # 200
<1>1. Request(r).application \in Applications /\ "inference" \in Endpoints
  BY RequestAssumption DEF Request, Endpoints
<1> QED BY <1>1, FailureProper DEF InferenceFailure

-----------------------------------------------------------------------------
(***************************************************************************)
(* What a step leaves alone.                                               *)
(***************************************************************************)
\* An audit record is written once, and by the request it is about.
LEMMA AuditOnce ==
    ASSUME TypeInv, RecordInv, [Next]_vars, NEW q \in Requests
    PROVE  audit[q] # NoRecord \/ ~InFlight(q) => audit'[q] = audit[q]
<1>1. ASSUME NEW r \in Requests, Advance(r), audit[q] # NoRecord \/ ~InFlight(q)
      PROVE  audit'[q] = audit[q]
  <2>1. CASE q = r
    BY <1>1, <2>1, AdvanceConcerns, AuditWrites DEF Concerns, RecordInv, RecordOK
  <2>2. CASE q # r
    BY <1>1, <2>2, AdvanceConcerns DEF Concerns
  <2> QED BY <2>1, <2>2
<1> QED BY <1>1 DEF Next, Start, Kill, TtlSweep, Replicate, Tick, vars

\* No answer is taken back.
Final == \A c \in Calls : response[c] # NoResponse => response'[c] = response[c]

LEMMA ConfessedStays ==
    ASSUME Final, ServicesOK, Confessed
    PROVE  Confessed'
BY AbsenceAssumption DEF Final, Confessed, Answered

\* What is known of an answer stays known.
LEMMA AnswerStays ==
    ASSUME TypeInv, RecordInv, [Next]_vars, Final, ServicesOK, CallInv, AnswerInv,
           NEW c \in Calls, response[c] # NoResponse
    PROVE  AnswerOK(c, response[c])'
<1> SUFFICES ASSUME NEW what, what = response[c]
             PROVE  AnswerOK(c, what)'
  BY DEF Final, AnswerOK, Proper, Story, Denial, Free
<1>1. AnswerOK(c, what)
  BY DEF AnswerInv
<1>2. Proper(what)'
  BY <1>1 DEF AnswerOK, Proper
<1>3. Story(what)'
  <2> SUFFICES ASSUME what.status = 200, what.shows \in Requests
               PROVE  /\ what.application = Request(what.shows).application
                      /\ audit'[what.shows] # NoRecord
                      /\ what.route = SerializeRoute(audit'[what.shows].decision)
    BY DEF Story
  <2>1. /\ what.application = Request(what.shows).application
        /\ audit[what.shows] # NoRecord
        /\ what.route = SerializeRoute(audit[what.shows].decision)
    BY <1>1 DEF AnswerOK, Story
  <2> QED BY <2>1, AuditOnce
<1>4. Denial(what)'
  BY <1>1, ConfessedStays DEF AnswerOK, Denial, Deniable
<1>5. Free(c, what)'
  <2> SUFFICES ASSUME c \in Requests PROVE Free(c, what)'
    BY DEF Free
  <2>1. ~InFlight(c)
    BY DEF CallInv, CallOK
  <2> QED BY <1>1, <2>1, AuditOnce DEF AnswerOK, Free
<1> QED BY <1>1, <1>2, <1>3, <1>4, <1>5 DEF AnswerOK

\* A step of somebody else.
Untouched(q) ==
    /\ pc'[q] = pc[q] /\ frame'[q] = frame[q] /\ outcome'[q] = outcome[q]
    /\ returned'[q] = returned[q] /\ audit'[q] = audit[q]
    /\ raised'[q] = raised[q] /\ response'[q] = response[q]
    /\ InFlight(q) => services'[frame[q].env] = services[frame[q].env]

LEMMA UntouchedCall ==
    ASSUME Confessed => Confessed', NEW q \in Requests, Untouched(q), CallOK(q)
    PROVE  CallOK(q)'
<1>1. InFlight(q)' <=> InFlight(q)
  BY DEF Untouched, InFlight, Invoking
<1>2. Deniable(Request(q).application) => Deniable(Request(q).application)'
  BY DEF Deniable
<1>3. pc[q] \in {"calling", "persist", "publish", "complete"} => InFlight(q)
  BY DEF InFlight, Invoking, InvokingPoints
<1>4. \A rep, a : Settled(rep, a)' <=> Settled(rep, a)
  BY DEF Settled
<1> QED BY <1>1, <1>2, <1>3, <1>4 DEF Untouched, CallOK

-----------------------------------------------------------------------------
(***************************************************************************)
(* Calls that are answered at once.                                        *)
(***************************************************************************)
\* The repository a call finds in an environment that serves nobody.
LEMMA BuiltFacts ==
    ASSUME ServicesOK, RepositoryInv, NEW e \in Envs, Available(e)
    PROVE  /\ Built(e) \in Repositories /\ Faithful(Built(e))
           /\ Spoiled(Built(e)) => Confessed
<1>1. CASE services[e] = NoServices
  BY <1>1, FreshFaithful DEF Built
<1>2. CASE services[e] # NoServices
  <2>1. ~Confessing(e)
    BY DEF Confessing, Available
  <2> QED BY <1>2, <2>1 DEF Built, ServicesOK, RepositoryInv
<1> QED BY <1>1, <1>2

\* An answer that owns up to a default policy that failed to load.
Apology(what) ==
    /\ what.status = 500 /\ what.endpoint \in {"evaluate", "inference"}
    /\ what.application \in Applications /\ ApplicationFile[what.application] = NoFile

\* What such a call comes to: one answer, and one repository at most is changed.
SideEffect(c, e) ==
    \E what : \E rep \in Repositories \cup {NoServices} :
        /\ response' = [response EXCEPT ![c] = what] /\ AnswerOK(c, what)
        /\ services' = [services EXCEPT ![e] = rep]
        /\ rep # NoServices =>
              Faithful(rep) /\ (Spoiled(rep) => Confessed \/ Apology(what))

\* An error that is neither 403 nor, to an inference, a client error.
LEMMA PlainFailure ==
    ASSUME NEW c \in Calls, NEW endpoint \in Endpoints, NEW application \in Applications \cup {NoId},
           NEW error, error.code \in ErrorCodes,
           error.status \in {400, 402, 403, 404, 409, 422, 500, 502},
           error.status = 403 => endpoint = "decision",
           c \in Requests => error.status = 502
    PROVE  AnswerOK(c, Failure(endpoint, application, error))
<1> SUFFICES ASSUME NEW what, what = Failure(endpoint, application, error)
             PROVE  AnswerOK(c, what)
  OBVIOUS
<1>1. /\ Proper(what) /\ what.endpoint = endpoint /\ what.application = application
      /\ what.status = error.status /\ what.status # 200
  BY FailureProper
<1>2. c \in Requests => ~(what.status \in 400..499)
  BY <1>1
<1> QED BY <1>1, <1>2 DEF AnswerOK, Story, Denial, Free

LEMMA StaticEffect ==
    ASSUME ServicesOK, RepositoryInv, NEW c \in Others, NEW e \in Envs, NEW event,
           HandleStatic(c, e, event)
    PROVE  SideEffect(c, e)
<1>1. Available(e) /\ services' = [services EXCEPT ![e] = Built(e)]
  BY DEF HandleStatic, Dispatched
<1>2. Built(e) \in Repositories /\ Faithful(Built(e)) /\ (Spoiled(Built(e)) => Confessed)
  BY <1>1, BuiltFacts
<1>3. c \in Calls /\ c \notin Requests /\ NoId \notin Requests
  BY CallsAssumption DEF Calls
<1>4. ASSUME NEW what, Respond(c, what), AnswerOK(c, what) PROVE SideEffect(c, e)
  BY <1>1, <1>2, <1>4 DEF SideEffect, Respond
<1>5. CASE /\ event.endpoint \in {"health", "ready", "models"}
           /\ Respond(c, Success(event.endpoint, NoId, NoId, NoId))
  <2> DEFINE what == Success(event.endpoint, NoId, NoId, NoId)
  <2>1. event.endpoint \in Endpoints
    BY <1>5 DEF Endpoints
  <2>2. Proper(what) /\ what.status = 200 /\ what.shows = NoId
    BY <2>1, SuccessProper
  <2> HIDE DEF what
  <2>3. AnswerOK(c, what)
    BY <1>3, <2>2 DEF AnswerOK, Story, Denial, Free
  <2> QED BY <1>4, <1>5, <2>3 DEF what
<1>6. CASE Respond(c, Failure("unknown", NoId, Error(404, "NOT_FOUND")))
  <2>1. /\ Error(404, "NOT_FOUND").code \in ErrorCodes /\ Error(404, "NOT_FOUND").status = 404
        /\ "unknown" \in Endpoints
    BY DEF Error, ErrorCodes, Endpoints
  <2>2. AnswerOK(c, Failure("unknown", NoId, Error(404, "NOT_FOUND")))
    BY <1>3, <2>1, PlainFailure
  <2> QED BY <1>4, <1>6, <2>2
<1>7. CASE /\ event.endpoint \in {"inference", "evaluate"}
           /\ Respond(c, Failure(event.endpoint, NoId, BodyError(event.body)))
  <2> DEFINE error == BodyError(event.body)
  <2>1. error.code \in ErrorCodes /\ error.status \in {400, 500}
    <3>1. CASE error = Error(400, "INVALID_REQUEST")
      BY <3>1 DEF Error, ErrorCodes
    <3>2. CASE error = Error(500, "INTERNAL_ERROR")
      BY <3>2 DEF Error, ErrorCodes
    <3> QED BY <3>1, <3>2 DEF BodyError
  <2>2. event.endpoint \in Endpoints /\ event.endpoint # "decision"
    BY <1>7 DEF Endpoints
  <2> HIDE DEF error
  <2>3. AnswerOK(c, Failure(event.endpoint, NoId, error))
    BY <1>3, <2>1, <2>2, PlainFailure
  <2> QED BY <1>4, <1>7, <2>3 DEF error
<1> QED BY <1>5, <1>6, <1>7 DEF HandleStatic

LEMMA GetDecisionEffect ==
    ASSUME TypeInv, RecordInv, ServicesOK, RepositoryInv, NEW c \in Others, NEW e \in Envs,
           NEW event \in EventsOf[c], HandleGetDecision(c, e, event)
    PROVE  SideEffect(c, e)
<1>1. Available(e) /\ services' = [services EXCEPT ![e] = Built(e)]
  BY DEF HandleGetDecision, Dispatched
<1>2. Built(e) \in Repositories /\ Faithful(Built(e)) /\ (Spoiled(Built(e)) => Confessed)
  BY <1>1, BuiltFacts
<1>3. /\ c \in Calls /\ c \notin Requests /\ "decision" \in Endpoints
      /\ event.application \in Applications \cup {NoId}
  BY CallsAssumption DEF Calls, HandleGetDecision, Endpoints
<1>4. ASSUME NEW what, Respond(c, what), AnswerOK(c, what) PROVE SideEffect(c, e)
  BY <1>1, <1>2, <1>4 DEF SideEffect, Respond
<1>5. ASSUME NEW error, error.code \in ErrorCodes, error.status \in {400, 403, 404, 500},
             Respond(c, Failure("decision", event.application, error))
      PROVE  SideEffect(c, e)
  <2>1. AnswerOK(c, Failure("decision", event.application, error))
    BY <1>3, <1>5, PlainFailure
  <2> QED BY <1>4, <1>5, <2>1
<1>6. ASSUME NEW status \in {400, 403, 404, 500}, NEW code \in ErrorCodes,
             Respond(c, Failure("decision", event.application, Error(status, code)))
      PROVE  SideEffect(c, e)
  BY <1>5, <1>6 DEF Error
<1>7. CASE Respond(c, Failure("decision", event.application, Error(400, "INVALID_REQUEST")))
  BY <1>6, <1>7 DEF ErrorCodes
<1>8. CASE Respond(c, Failure("decision", event.application, MapException("ClientError")))
  <2>1. MapException("ClientError") = Error(500, "INTERNAL_ERROR")
    BY DEF MapException
  <2> QED BY <1>6, <1>8, <2>1 DEF ErrorCodes
<1>9. ASSUME NEW record \in ReadableRecords(event.decision),
             Respond(c, DecisionResponse(event, record))
      PROVE  SideEffect(c, e)
  <2>1. CASE record = NoRecord
    BY <1>6, <1>9, <2>1 DEF DecisionResponse, ErrorCodes
  <2>2. CASE /\ record # NoRecord
             /\ event.application # Request(record.decision.decision_id).application
    BY <1>6, <1>9, <2>2 DEF DecisionResponse, ErrorCodes
  <2>3. CASE /\ record # NoRecord
             /\ event.application = Request(record.decision.decision_id).application
    <3>1. PICK d \in Requests : record = audit[d]
      BY <1>9, <2>3 DEF ReadableRecords
    <3>2. record \in AuditRecords /\ record.decision.decision_id = d
      BY <2>3, <3>1 DEF TypeInv, SharedOK, RecordInv, RecordOK
    <3>3. SerializeRoute(record.decision) \in Routes /\ d \in Calls
      BY <3>2, RouteShown DEF AuditRecords, Decisions, Calls
    <3>4. Respond(c, Success("decision", event.application, d, SerializeRoute(record.decision)))
      BY <1>9, <2>3, <3>2 DEF DecisionResponse
    <3> SUFFICES ASSUME NEW what,
                        what = Success("decision", event.application, d,
                                       SerializeRoute(record.decision))
                 PROVE  AnswerOK(c, what)
      BY <1>4, <3>4
    <3>5. /\ Proper(what) /\ what.status = 200 /\ what.shows = d
          /\ what.application = event.application
          /\ what.route = SerializeRoute(record.decision)
      BY <1>3, <3>3, SuccessProper
    <3>6. Story(what)
      BY <2>3, <3>1, <3>2, <3>5 DEF Story
    <3>7. Denial(what) /\ Free(c, what)
      BY <1>3, <3>5 DEF Denial, Free
    <3> QED BY <3>5, <3>6, <3>7 DEF AnswerOK
  <2> QED BY <2>1, <2>2, <2>3
<1> QED BY <1>7, <1>8, <1>9 DEF HandleGetDecision

LEMMA EvaluateEffect ==
    ASSUME TypeInv, ServicesOK, RepositoryInv, NEW c \in Others, NEW e \in Envs,
           NEW event \in EventsOf[c], HandleEvaluate(c, e, event)
    PROVE  SideEffect(c, e)
<1> DEFINE a      == event.request.application
           health == [m \in Models |-> GetHealth(failures[e], m)]
<1>1. PICK readable \in BOOLEAN :
         LET resolved == Resolve(Built(e), a, readable)
             d        == Evaluate(c, event.request, resolved.policy, health)
         IN  /\ Dispatched(c, e, resolved.repository)
             /\ Respond(c, IF resolved.raises = "none"
                           THEN Success("evaluate", a, c, SerializeRoute(d))
                           ELSE Failure("evaluate", a, MapException(resolved.raises)))
  BY DEF HandleEvaluate
<1> DEFINE res == Resolve(Built(e), a, readable)
           d   == Evaluate(c, event.request, res.policy, health)
<1>2. /\ Available(e) /\ services' = [services EXCEPT ![e] = res.repository]
      /\ res.raises = "none" => Respond(c, Success("evaluate", a, c, SerializeRoute(d)))
      /\ res.raises # "none" => Respond(c, Failure("evaluate", a, MapException(res.raises)))
  BY <1>1 DEF Dispatched
<1>3. /\ c \in Calls /\ c \notin Requests /\ "evaluate" \in Endpoints
      /\ ValidRequest(event.request) /\ a \in Applications
  BY CallsAssumption DEF Calls, HandleEvaluate, Endpoints
<1>4. Built(e) \in Repositories /\ Faithful(Built(e)) /\ (Spoiled(Built(e)) => Confessed)
  BY <1>2, BuiltFacts
<1> HIDE DEF a
<1>5. /\ res.repository \in Repositories /\ Faithful(res.repository)
      /\ res.raises \in {"none", "ConfigurationError", "RoutingPolicyNotFoundError"}
      /\ res.raises = "none" => res.policy = PolicyOf[a] /\ PolicyOf[a] # NoPolicy
      /\ res.raises = "RoutingPolicyNotFoundError" =>
            ApplicationFile[a] = NoFile /\ (DefaultFile = NoFile \/ Spoiled(Built(e)))
      /\ Spoiled(res.repository) =>
            \/ Spoiled(Built(e))
            \/ res.raises = "ConfigurationError" /\ ApplicationFile[a] = NoFile
  BY <1>3, <1>4, ResolveFacts
<1> HIDE DEF res
<1>6. ASSUME NEW what, Respond(c, what), AnswerOK(c, what),
             res.raises = "ConfigurationError" /\ ApplicationFile[a] = NoFile => Apology(what)
      PROVE  SideEffect(c, e)
  BY <1>2, <1>4, <1>5, <1>6 DEF SideEffect, Respond
<1>7. CASE res.raises = "none"
  <2>1. /\ failures[e] \in [Models -> Nat] /\ ValidPolicy(res.policy)
    BY <1>3, <1>5, <1>7, RequestAssumption DEF TypeInv, SharedOK
  <2>2. health \in [Models -> ModelHealthStatus]
    BY <2>1, GetHealthType
  <2> HIDE DEF health
  <2>3. d \in RoutingDecisions({c})
    BY <1>3, <2>1, <2>2, EvaluateFacts DEF DecisionFacts
  <2> HIDE DEF d
  <2>4. SerializeRoute(d) \in Routes
    BY <2>3, RouteShown
  <2> SUFFICES ASSUME NEW what, what = Success("evaluate", a, c, SerializeRoute(d))
               PROVE  AnswerOK(c, what)
    BY <1>2, <1>6, <1>7
  <2>5. Proper(what) /\ what.status = 200 /\ what.shows = c
    BY <1>3, <2>4, SuccessProper
  <2> QED BY <1>3, <2>5 DEF AnswerOK, Story, Denial, Free
<1>8. CASE res.raises # "none"
  <2> DEFINE error == MapException(res.raises)
  <2>1. /\ error.status \in {403, 409, 500, 502} /\ error.code \in ErrorCodes
        /\ error.status = 403 <=> res.raises = "RoutingPolicyNotFoundError"
        /\ res.raises = "ConfigurationError" => error.status = 500
    BY MappedStatus
  <2> HIDE DEF error
  <2> SUFFICES ASSUME NEW what, what = Failure("evaluate", a, error)
               PROVE  /\ AnswerOK(c, what)
                      /\ res.raises = "ConfigurationError" /\ ApplicationFile[a] = NoFile =>
                            Apology(what)
    BY <1>2, <1>6, <1>8 DEF error
  <2>2. /\ Proper(what) /\ what.endpoint = "evaluate" /\ what.application = a
        /\ what.status = error.status /\ what.status # 200
    BY <1>3, <2>1, FailureProper
  <2>3. Denial(what)
    BY <1>4, <1>5, <2>1, <2>2 DEF Denial, Deniable
  <2>4. AnswerOK(c, what)
    BY <1>3, <2>2, <2>3 DEF AnswerOK, Story, Free
  <2> QED BY <1>3, <2>1, <2>2, <2>4 DEF Apology
<1> QED BY <1>7, <1>8

LEMMA SideEffects ==
    ASSUME TypeInv, RecordInv, ServicesOK, RepositoryInv, NEW c \in Calls, NEW e \in Envs,
           SideStep(c, e)
    PROVE  SideEffect(c, e) /\ (c \in Requests => pc[c] = "idle")
<1>1. CASE InitializationFails(c, e)
  <2>1. /\ services' = [services EXCEPT ![e] = services[e]] /\ services[e] = NoServices
        /\ response' = [response EXCEPT ![c] = Failure("none", NoId, GatewayError)]
    BY <1>1 DEF InitializationFails, Respond, ServicesOK
  <2>2. /\ GatewayError.code \in ErrorCodes /\ GatewayError.status = 502
        /\ "none" \in Endpoints
    BY DEF GatewayError, Error, ErrorCodes, Endpoints
  <2>3. AnswerOK(c, Failure("none", NoId, GatewayError))
    BY <2>2, PlainFailure
  <2> QED BY <1>1, <2>1, <2>3 DEF SideEffect, InitializationFails
<1>2. ASSUME c \in Others, NEW event \in EventsOf[c],
             HandleStatic(c, e, event) \/ HandleEvaluate(c, e, event)
             \/ HandleGetDecision(c, e, event)
      PROVE  SideEffect(c, e) /\ c \notin Requests
  BY <1>2, StaticEffect, EvaluateEffect, GetDecisionEffect, CallsAssumption
<1> QED BY <1>1, <1>2 DEF SideStep

-----------------------------------------------------------------------------
(***************************************************************************)
(* The function's invariant.                                               *)
(***************************************************************************)
ApiInv == ServicesOK /\ RepositoryInv /\ CallInv /\ AnswerInv

\* New answers are all there is to look at.
LEMMA AnswerStep ==
    ASSUME TypeInv, RecordInv, [Next]_vars, Final, ServicesOK, CallInv, AnswerInv,
           \A c \in Calls : response[c] = NoResponse /\ response'[c] # NoResponse =>
               AnswerOK(c, response[c])'
    PROVE  AnswerInv'
<1> SUFFICES ASSUME NEW c \in Calls, response'[c] # NoResponse
             PROVE  AnswerOK(c, response[c])'
  BY DEF AnswerInv
<1>1. CASE response[c] = NoResponse
  BY <1>1
<1>2. CASE response[c] # NoResponse
  BY <1>2, AnswerStays
<1> QED BY <1>1, <1>2

\* A repository that is left alone, in an environment whose requests are.
LEMMA RepositoryStays ==
    ASSUME RepositoryInv, Confessed => Confessed', NEW e \in Envs,
           services'[e] = services[e], services[e] # NoServices,
           \A q \in Requests : Serving(e, q) => Untouched(q)
    PROVE  /\ Faithful(services[e])'
           /\ Spoiled(services[e])' => Confessed' \/ Confessing(e)'
<1>1. Faithful(services[e]) /\ (Spoiled(services[e]) => Confessed \/ Confessing(e))
  BY DEF RepositoryInv
<1>2. Confessing(e) => Confessing(e)'
  BY DEF Confessing, Untouched, Serving, InFlight, Invoking
<1> QED BY <1>1, <1>2 DEF Faithful, Spoiled

LEMMA SidePreserves ==
    ASSUME CoreInv, ApiInv, NEW c \in Calls, NEW e \in Envs, SideStep(c, e)
    PROVE  ApiInv'
<1>1. TypeInv /\ AuditInv /\ RecordInv /\ ServicesOK /\ RepositoryInv /\ CallInv /\ AnswerInv
  BY DEF CoreInv, ApiInv
<1>2. UNCHANGED << vars, raised >> /\ response[c] = NoResponse /\ Available(e)
  BY SideSteps
<1>3. SideEffect(c, e) /\ (c \in Requests => pc[c] = "idle")
  BY <1>1, SideEffects
<1>4. PICK what : \E rep \in Repositories \cup {NoServices} :
        /\ response' = [response EXCEPT ![c] = what] /\ AnswerOK(c, what)
        /\ services' = [services EXCEPT ![e] = rep]
        /\ rep # NoServices =>
              Faithful(rep) /\ (Spoiled(rep) => Confessed \/ Apology(what))
  BY <1>3 DEF SideEffect
<1>5. PICK rep \in Repositories \cup {NoServices} :
        /\ response' = [response EXCEPT ![c] = what] /\ AnswerOK(c, what)
        /\ services' = [services EXCEPT ![e] = rep]
        /\ rep # NoServices =>
              Faithful(rep) /\ (Spoiled(rep) => Confessed \/ Apology(what))
  BY <1>4
<1>6. what \in Responses /\ what # NoResponse
  BY <1>5, AbsenceAssumption DEF AnswerOK, Proper
<1>7. /\ response'[c] = what /\ services'[e] = rep
      /\ \A x \in Calls \ {c} : response'[x] = response[x]
      /\ \A x \in Envs \ {e} : services'[x] = services[x]
  BY <1>1, <1>5 DEF ServicesOK
<1>8. ServicesOK'
  BY <1>1, <1>2, <1>5, <1>6 DEF ServicesOK
<1>9. Final /\ (Confessed => Confessed')
  BY <1>1, <1>2, <1>7, ConfessedStays DEF Final
<1>10. /\ vars' = vars /\ pc' = pc /\ frame' = frame /\ outcome' = outcome
       /\ returned' = returned /\ audit' = audit /\ raised' = raised
  BY <1>2 DEF vars
<1>11. \A q \in Requests : q # c => Untouched(q)
  <2> SUFFICES ASSUME NEW q \in Requests, q # c PROVE Untouched(q)
    OBVIOUS
  <2>1. InFlight(q) => frame[q].env \in Envs \ {e}
    BY <1>1, <1>2, InFlightFacts DEF Available, Serving
  <2> QED BY <1>7, <1>10, <2>1 DEF Untouched, Calls
<1>12. CallInv'
  <2> SUFFICES ASSUME NEW q \in Requests PROVE CallOK(q)'
    BY DEF CallInv
  <2>1. CASE q # c
    BY <1>1, <1>9, <1>11, <2>1, UntouchedCall DEF CallInv
  <2>2. CASE q = c
    <3>1. pc'[q] = "idle" /\ outcome'[q] = "none"
      BY <1>1, <1>3, <1>10, <2>2 DEF AuditInv, Reported
    <3> QED BY <3>1 DEF CallOK, InFlight, Invoking, InvokingPoints
  <2> QED BY <2>1, <2>2
<1>13. RepositoryInv'
  <2> SUFFICES ASSUME NEW x \in Envs, services'[x] # NoServices
               PROVE  /\ Faithful(services[x])'
                      /\ Spoiled(services[x])' => Confessed' \/ Confessing(x)'
    BY DEF RepositoryInv
  <2>1. CASE x = e
    <3>1. Apology(what) => Confessed'
      BY <1>6, <1>7 DEF Apology, Confessed, Answered
    <3> QED BY <1>5, <1>7, <1>9, <2>1, <3>1 DEF Faithful, Spoiled
  <2>2. CASE x # e
    <3>1. \A q \in Requests : Serving(x, q) => Untouched(q)
      BY <1>3, <1>11 DEF Serving, InFlight, Invoking, InvokingPoints
    <3> QED BY <1>1, <1>7, <1>9, <2>2, <3>1, RepositoryStays
  <2> QED BY <2>1, <2>2
<1>14. AnswerInv'
  <2>1. Proper(what)' /\ Story(what)' /\ Free(c, what)'
    BY <1>5, <1>10 DEF AnswerOK, Proper, Story, Free
  <2>2. Denial(what)'
    BY <1>5, <1>9 DEF AnswerOK, Denial, Deniable
  <2>3. AnswerOK(c, response[c])'
    BY <1>7, <2>1, <2>2 DEF AnswerOK, Proper, Story, Denial, Free
  <2> QED BY <1>1, <1>7, <1>9, <1>10, <2>3, AnswerStep
<1> QED BY <1>8, <1>12, <1>13, <1>14 DEF ApiInv

LEMMA StartPreserves ==
    ASSUME CoreInv, ApiInv, NEW r \in Requests, NEW e \in Envs, StartInference(r, e)
    PROVE  ApiInv'
<1>1. TypeInv /\ AuditInv /\ RecordInv /\ ServicesOK /\ RepositoryInv /\ CallInv /\ AnswerInv
  BY DEF CoreInv, ApiInv
<1>2. /\ Start(r, e) /\ Available(e) /\ response[r] = NoResponse
      /\ services' = [services EXCEPT ![e] = Built(e)]
      /\ raised' = raised /\ response' = response
  BY DEF StartInference, Dispatched
<1>3. Built(e) \in Repositories /\ Faithful(Built(e)) /\ (Spoiled(Built(e)) => Confessed)
  BY <1>1, <1>2, BuiltFacts
<1>4. /\ services'[e] = Built(e) /\ \A x \in Envs \ {e} : services'[x] = services[x]
      /\ Built(e) # NoServices
  BY <1>1, <1>2, <1>3, AbsenceAssumption DEF ServicesOK
<1>5. ServicesOK'
  BY <1>1, <1>2, <1>3 DEF ServicesOK
<1>6. Final /\ (Confessed => Confessed') /\ [Next]_vars
  BY <1>1, <1>2, ConfessedStays DEF Final, Next
<1>7. /\ pc[r] = "idle" /\ pc'[r] \in {"put", "evaluate"} /\ frame'[r].env = e
      /\ outcome' = outcome /\ returned' = returned /\ audit' = audit
      /\ \A q \in Requests \ {r} : pc'[q] = pc[q] /\ frame'[q] = frame[q]
  BY <1>1, <1>2 DEF Start, GoTo, NewFrame, TypeInv, SharedOK
<1>8. \A q \in Requests \ {r} : Untouched(q)
  <2> SUFFICES ASSUME NEW q \in Requests \ {r} PROVE Untouched(q)
    OBVIOUS
  <2>1. InFlight(q) => frame[q].env \in Envs \ {e}
    BY <1>1, <1>2, InFlightFacts DEF Available, Serving
  <2> QED BY <1>2, <1>4, <1>7, <2>1 DEF Untouched
<1>9. CallInv'
  <2> SUFFICES ASSUME NEW q \in Requests PROVE CallOK(q)'
    BY DEF CallInv
  <2>1. CASE q # r
    BY <1>1, <1>6, <1>8, <2>1, UntouchedCall DEF CallInv
  <2>2. CASE q = r
    <3>1. outcome'[q] = "none"
      BY <1>1, <1>7, <2>2 DEF AuditInv, Reported
    <3> QED BY <1>2, <1>4, <1>7, <2>2, <3>1 DEF CallOK
  <2> QED BY <2>1, <2>2
<1>10. RepositoryInv'
  <2> SUFFICES ASSUME NEW x \in Envs, services'[x] # NoServices
               PROVE  /\ Faithful(services[x])'
                      /\ Spoiled(services[x])' => Confessed' \/ Confessing(x)'
    BY DEF RepositoryInv
  <2>1. CASE x = e
    BY <1>3, <1>4, <1>6, <2>1 DEF Faithful, Spoiled
  <2>2. CASE x # e
    <3>1. \A q \in Requests : Serving(x, q) => Untouched(q)
      BY <1>7, <1>8 DEF Serving, InFlight, Invoking, InvokingPoints
    <3> QED BY <1>1, <1>4, <1>6, <2>2, <3>1, RepositoryStays
  <2> QED BY <2>1, <2>2
<1>11. AnswerInv'
  BY <1>1, <1>2, <1>6, AnswerStep
<1> QED BY <1>5, <1>9, <1>10, <1>11 DEF ApiInv

\* Steps that leave every call alone.
LEMMA QuietPreserves ==
    ASSUME CoreInv, ApiInv, [Next]_vars,
           UNCHANGED << pc, frame, outcome, returned, audit, services, raised, response >>
    PROVE  ApiInv'
<1>1. TypeInv /\ RecordInv /\ ServicesOK /\ RepositoryInv /\ CallInv /\ AnswerInv
  BY DEF CoreInv, ApiInv
<1>2. ServicesOK' /\ Final /\ (Confessed => Confessed')
  BY <1>1, ConfessedStays DEF ServicesOK, Final
<1>3. \A q \in Requests : Untouched(q)
  BY DEF Untouched
<1>4. CallInv'
  BY <1>1, <1>2, <1>3, UntouchedCall DEF CallInv
<1>5. RepositoryInv'
  <2> SUFFICES ASSUME NEW x \in Envs, services'[x] # NoServices
               PROVE  /\ Faithful(services[x])'
                      /\ Spoiled(services[x])' => Confessed' \/ Confessing(x)'
    BY DEF RepositoryInv
  <2> QED BY <1>1, <1>2, <1>3, RepositoryStays
<1>6. AnswerInv'
  BY <1>1, <1>2, AnswerStep
<1> QED BY <1>2, <1>4, <1>5, <1>6 DEF ApiInv

LEMMA EndPreserves ==
    ASSUME CoreInv, ApiInv, NEW e \in Envs, EndEnvironment(e)
    PROVE  ApiInv'
<1>1. TypeInv /\ AuditInv /\ RecordInv /\ ServicesOK /\ RepositoryInv /\ CallInv /\ AnswerInv
  BY DEF CoreInv, ApiInv
<1>2. /\ Kill(e) /\ [Next]_vars
      /\ services' = [services EXCEPT ![e] = NoServices]
      /\ raised' = [q \in Requests |-> IF Serving(e, q) THEN "none" ELSE raised[q]]
      /\ response' = [c \in Calls |-> IF c \in Requests /\ Serving(e, c)
                                      THEN InferenceFailure(c, GatewayError) ELSE response[c]]
  BY DEF EndEnvironment, Next
<1>3. /\ services'[e] = NoServices /\ \A x \in Envs \ {e} : services'[x] = services[x]
  BY <1>1, <1>2 DEF ServicesOK
<1>4. \A c \in Calls :
        \/ response'[c] = response[c]
        \/ c \in Requests /\ Serving(e, c) /\ response'[c] = InferenceFailure(c, GatewayError)
  BY <1>2
<1>5. ASSUME NEW q \in Requests
      PROVE  LET what == InferenceFailure(q, GatewayError)
             IN  Proper(what) /\ what.status = 502
  <2>1. GatewayError.code \in ErrorCodes /\ GatewayError.status = 502
    BY DEF GatewayError, Error, ErrorCodes
  <2> QED BY <2>1, InferenceFails
<1>6. ServicesOK'
  <2>1. \A c \in Calls : response'[c] \in Responses \cup {NoResponse}
    BY <1>1, <1>4, <1>5 DEF ServicesOK, Proper
  <2> QED BY <1>1, <1>2, <2>1 DEF ServicesOK
<1>7. ASSUME NEW q \in Requests, Serving(e, q)
      PROVE  response[q] = NoResponse /\ pc'[q] = "done" /\ outcome'[q] = "killed"
  BY <1>1, <1>2, <1>7 DEF CallInv, CallOK, Serving, Kill
<1>8. Final
  BY <1>4, <1>7 DEF Final
<1>9. Confessed => Confessed'
  BY <1>1, <1>8, ConfessedStays
<1>10. ASSUME NEW q \in Requests, ~Serving(e, q) PROVE Untouched(q)
  <2>1. /\ pc'[q] = pc[q] /\ frame'[q] = frame[q] /\ outcome'[q] = outcome[q]
        /\ returned'[q] = returned[q] /\ audit'[q] = audit[q]
    BY <1>2, <1>10 DEF Kill
  <2>2. raised'[q] = raised[q] /\ response'[q] = response[q]
    BY <1>2, <1>10 DEF Calls
  <2>3. InFlight(q) => frame[q].env \in Envs \ {e}
    BY <1>1, <1>10, InFlightFacts DEF Serving
  <2> QED BY <1>3, <2>1, <2>2, <2>3 DEF Untouched
<1>11. CallInv'
  <2> SUFFICES ASSUME NEW q \in Requests PROVE CallOK(q)'
    BY DEF CallInv
  <2>1. CASE ~Serving(e, q)
    BY <1>1, <1>9, <1>10, <2>1, UntouchedCall DEF CallInv
  <2>2. CASE Serving(e, q)
    BY <1>7, <2>2 DEF CallOK, InFlight, Invoking, InvokingPoints
  <2> QED BY <2>1, <2>2
<1>12. RepositoryInv'
  <2> SUFFICES ASSUME NEW x \in Envs, services'[x] # NoServices
               PROVE  /\ Faithful(services[x])'
                      /\ Spoiled(services[x])' => Confessed' \/ Confessing(x)'
    BY DEF RepositoryInv
  <2>1. x # e
    BY <1>3
  <2>2. \A q \in Requests : Serving(x, q) => Untouched(q)
    BY <1>10, <2>1 DEF Serving
  <2> QED BY <1>1, <1>3, <1>9, <2>1, <2>2, RepositoryStays
<1>13. AnswerInv'
  <2>1. ASSUME NEW c \in Calls, response[c] = NoResponse, response'[c] # NoResponse
        PROVE  AnswerOK(c, response[c])'
    <3>1. c \in Requests /\ response'[c] = InferenceFailure(c, GatewayError)
      BY <1>4, <2>1
    <3> SUFFICES ASSUME NEW what, what = response'[c]
                 PROVE  AnswerOK(c, what)'
      BY DEF AnswerOK, Proper, Story, Denial, Free
    <3>2. Proper(what) /\ what.status = 502
      BY <1>5, <3>1
    <3>3. ~(what.status \in 400..499)
      BY <3>2
    <3> QED BY <3>2, <3>3 DEF AnswerOK, Proper, Story, Denial, Free
  <2> QED BY <1>1, <1>2, <1>8, <2>1, AnswerStep
<1> QED BY <1>6, <1>11, <1>12, <1>13 DEF ApiInv

-----------------------------------------------------------------------------
(***************************************************************************)
(* A step of an inference, in one of four kinds.                           *)
(***************************************************************************)
Rejections == {"IdempotencyConflictError", "IdempotencyInProgressError"}

\* What is known when an exception is on its way.
Justified(r, exception) ==
    /\ exception \in Exceptions \cup Rejections
    /\ exception \in Rejections \cup {"RoutingPolicyNotFoundError"} => audit'[r] = NoRecord
    /\ exception = "RoutingPolicyNotFoundError" => Deniable(Request(r).application)
    /\ exception \in Rejections => outcome'[r] \in {"conflict", "in_progress"}

\* The default policy is not given up on, but by an exception that says so.
Blamed(r, exception) ==
    Spoiled(services'[frame[r].env]) =>
        \/ Spoiled(services[frame[r].env])
        \/ /\ exception = "ConfigurationError"
           /\ ApplicationFile[Request(r).application] = NoFile

KeepsGoing(r) ==
    /\ GoesOn(r) /\ raised' = raised /\ pc[r] # "release" /\ pc'[r] # "release"
    /\ pc'[r] \in {"calling", "persist", "publish", "complete"} =>
          Settled(services'[frame[r].env], Request(r).application)
    /\ Blamed(r, "none")

MustRelease(r) ==
    /\ response' = response /\ pc[r] # "release" /\ pc'[r] = "release"
    /\ \E exception \in Exceptions :
          /\ raised' = [raised EXCEPT ![r] = exception]
          /\ Justified(r, exception) /\ Blamed(r, exception)

Succeeded(r) ==
    /\ EndsWith(r) /\ raised' = raised /\ pc[r] # "release"
    /\ Blamed(r, "none")
    /\ outcome'[r] = "replayed" \/ Complete(r) \/ ~HasKey(r)

Failed(r) ==
    \E exception \in Exceptions \cup Rejections :
        /\ EndsRaising(r, exception) /\ Justified(r, exception) /\ Blamed(r, exception)
        /\ outcome'[r] \in {"error", "conflict", "in_progress"}
        /\ \/ raised' = raised
           \/ raised' = [raised EXCEPT ![r] = "none"]
        /\ pc[r] = "release" => exception \in {raised[r], "ClientError"}
        /\ exception = "RoutingPolicyNotFoundError" =>
              ~HasKey(r) \/ table'[ItemKey(r)] = Released

LEMMA InferenceKinds ==
    ASSUME CoreInv, RecordInv', ApiInv, NEW r \in Requests, InferenceStep(r)
    PROVE  /\ \E rep \in Repositories :
                 services' = [services EXCEPT ![frame[r].env] = rep] /\ Faithful(rep)
           /\ KeepsGoing(r) \/ MustRelease(r) \/ Succeeded(r) \/ Failed(r) \/ SendsAgain(r)
<1>1. TypeInv /\ OneServed /\ AuditInv /\ RecordInv /\ ServicesOK /\ RepositoryInv /\ CallInv
  BY DEF CoreInv, ApiInv
<1> DEFINE e == frame[r].env
           a == Request(r).application
<1>2. Advance(r) /\ Concerns(r) /\ InFlight(r)
  BY <1>1, InferenceAdvances, AdvanceConcerns DEF Concerns
<1>3. e \in Envs /\ services[e] \in Repositories /\ Faithful(services[e]) /\ a \in Applications
  BY <1>1, <1>2, FoundServices
<1>4. ASSUME services' = services
      PROVE  /\ \E rep \in Repositories :
                   services' = [services EXCEPT ![e] = rep] /\ Faithful(rep)
             /\ \A exception : Blamed(r, exception)
  <2>1. services' = [services EXCEPT ![e] = services[e]]
    BY <1>1, <1>4 DEF ServicesOK
  <2> QED BY <1>3, <1>4, <2>1 DEF Blamed
<1>5. ASSUME NEW exception \in Troubles PROVE Justified(r, exception)
  BY <1>5 DEF Justified, Troubles, Exceptions, Rejections
<1>6. CASE Proceed(r) /\ ~SendsAgain(r)
  <2>1. /\ GoesOn(r) /\ services' = services /\ raised' = raised
        /\ pc[r] # "release" /\ pc'[r] # "release"
        /\ pc'[r] \in {"calling", "persist", "publish", "complete"} =>
              pc[r] \in {"calling", "persist"}
    BY <1>1, <1>6, ProceedFacts
  <2>2. pc[r] \in {"calling", "persist"} => Settled(services[e], a)
    BY <1>1 DEF CallInv, CallOK
  <2>3. KeepsGoing(r)
    BY <1>4, <2>1, <2>2 DEF KeepsGoing
  <2> QED BY <1>4, <2>1, <2>3
<1>7. CASE Answer(r)
  <2> DEFINE Goes  == GoesOn(r) /\ raised' = raised /\ pc[r] = "publish" /\ pc'[r] = "complete"
             Must  == /\ GoesOn(r) /\ pc'[r] = "release" /\ pc[r] # "release"
                      /\ \E exception \in Troubles : raised' = [raised EXCEPT ![r] = exception]
             Wins  == /\ EndsWith(r) /\ raised' = raised
                      /\ pc[r] # "release" /\ (outcome'[r] = "replayed" \/ ~HasKey(r))
             Away  == TurnedAway(r) /\ raised' = raised
             Loses == /\ outcome'[r] = "error" /\ raised' = raised /\ pc[r] # "release"
                       /\ \E exception \in Troubles : EndsRaising(r, exception)
  <2>1. services' = services /\ (Goes \/ Must \/ Wins \/ Away \/ Loses)
    BY <1>1, <1>7, AnswerFacts
  <2>2. CASE Goes
    <3>1. Settled(services[e], a)
      BY <1>1, <2>2 DEF CallInv, CallOK
    <3> QED BY <1>4, <2>1, <2>2, <3>1 DEF KeepsGoing
  <2>3. CASE Must
    <3>1. PICK exception \in Troubles : raised' = [raised EXCEPT ![r] = exception]
      BY <2>3
    <3>2. exception \in Exceptions
      BY <3>1 DEF Troubles, Exceptions
    <3>3. Justified(r, exception) /\ Blamed(r, exception)
      BY <1>4, <1>5, <2>1, <3>1
    <3>4. MustRelease(r)
      BY <2>3, <3>1, <3>2, <3>3 DEF MustRelease, GoesOn
    <3> QED BY <1>4, <2>1, <3>4
  <2>4. CASE Wins
    BY <1>4, <2>1, <2>4 DEF Succeeded
  <2>5. CASE Away
    <3>1. PICK exception \in Rejections : EndsRaising(r, exception)
      BY <2>5 DEF TurnedAway, Rejections
    <3>2. pc[r] = "get" /\ outcome'[r] \in {"conflict", "in_progress"} /\ raised' = raised
      BY <2>5 DEF TurnedAway
    <3>3. audit'[r] = NoRecord
      BY <3>2 DEF RecordInv, RecordOK
    <3>4. Justified(r, exception) /\ exception # "RoutingPolicyNotFoundError"
      BY <3>1, <3>2, <3>3 DEF Justified, Rejections
    <3>5. Failed(r)
      BY <1>4, <2>1, <3>1, <3>2, <3>4 DEF Failed
    <3> QED BY <1>4, <2>1, <3>5
  <2>6. CASE Loses
    <3>1. PICK exception \in Troubles : EndsRaising(r, exception)
      BY <2>6
    <3>2. /\ Justified(r, exception) /\ Blamed(r, exception)
          /\ exception \in Exceptions /\ exception # "RoutingPolicyNotFoundError"
      BY <1>4, <1>5, <2>1, <3>1 DEF Troubles, Exceptions
    <3>3. Failed(r)
      BY <2>6, <3>1, <3>2 DEF Failed
    <3> QED BY <1>4, <2>1, <3>3
  <2> QED BY <2>1, <2>2, <2>3, <2>4, <2>5, <2>6
<1>8. CASE EvaluateInference(r)
  <2> DEFINE Settles(rep) == /\ GoesOn(r) /\ raised' = raised /\ pc'[r] \in {"calling", "persist"}
                             /\ Settled(rep, a)
                             /\ Spoiled(rep) => Spoiled(services[e])
             Throws(rep, exception) ==
                 /\ Unresolved(r, exception)
                 /\ exception = "RoutingPolicyNotFoundError" =>
                       /\ ApplicationFile[a] = NoFile
                       /\ DefaultFile = NoFile \/ Spoiled(services[e])
                       /\ Spoiled(rep) => Spoiled(services[e])
                 /\ exception = "ConfigurationError" /\ Spoiled(rep) =>
                       Spoiled(services[e]) \/ ApplicationFile[a] = NoFile
  <2>1. PICK rep \in Repositories :
          /\ services' = [services EXCEPT ![e] = rep] /\ Faithful(rep)
          /\ \/ Settles(rep)
             \/ \E exception \in {"ConfigurationError", "RoutingPolicyNotFoundError"} :
                   Throws(rep, exception)
    BY <1>1, <1>8, PolicyEvaluated
  <2>2. services'[e] = rep
    BY <1>1, <1>3, <2>1 DEF ServicesOK
  <2>3. pc[r] = "evaluate"
    BY <1>8 DEF EvaluateInference
  <2>4. CASE Settles(rep)
    <3>1. Blamed(r, "none")
      BY <2>2, <2>4 DEF Blamed
    <3>2. KeepsGoing(r)
      BY <2>2, <2>3, <2>4, <3>1 DEF KeepsGoing
    <3> QED BY <2>1, <3>2
  <2>5. ASSUME NEW exception \in {"ConfigurationError", "RoutingPolicyNotFoundError"},
               Throws(rep, exception)
        PROVE  MustRelease(r) \/ Failed(r)
    <3>1. ~Confessing(e)
      BY <1>1, <1>2, <2>3 DEF Confessing, Serving, OneServed
    <3>2. Spoiled(services[e]) => Confessed
      BY <1>1, <1>3, <3>1, AbsenceAssumption DEF RepositoryInv
    <3>3. exception = "RoutingPolicyNotFoundError" => Deniable(a)
      BY <2>5, <3>2 DEF Deniable
    <3>4. audit'[r] = NoRecord
      BY <1>1, <1>2, <2>3, AuditWrites DEF RecordInv, RecordOK
    <3>5. Justified(r, exception) /\ exception \in Exceptions
      BY <3>3, <3>4 DEF Justified, Exceptions, Rejections
    <3>6. Blamed(r, exception)
      BY <2>2, <2>5 DEF Blamed
    <3>7. CASE /\ EndsRaising(r, exception) /\ outcome'[r] = "error"
               /\ raised' = raised /\ ~HasKey(r)
      BY <2>3, <3>5, <3>6, <3>7 DEF Failed
    <3>8. CASE /\ pc'[r] = "release" /\ response' = response
               /\ raised' = [raised EXCEPT ![r] = exception]
      BY <2>3, <3>5, <3>6, <3>8 DEF MustRelease
    <3> QED BY <2>5, <3>7, <3>8 DEF Unresolved
  <2> QED BY <2>1, <2>4, <2>5
<1>9. CASE CompleteInference(r)
  <2>1. /\ services' = services /\ raised' = raised
        /\ \/ EndsWith(r) /\ Complete(r)
           \/ EndsRaising(r, "ClientError") /\ outcome'[r] = "error"
           \/ SendsAgain(r)
    BY <1>1, <1>9, CompleteFacts
  <2>2. pc[r] = "complete"
    BY <1>9 DEF CompleteInference
  <2>3. CASE EndsWith(r) /\ Complete(r)
    BY <1>4, <2>1, <2>2, <2>3 DEF Succeeded
  <2>4. CASE EndsRaising(r, "ClientError") /\ outcome'[r] = "error"
    <3>1. "ClientError" \in Troubles /\ "ClientError" \in Exceptions
      BY DEF Troubles, Exceptions
    <3>2. Justified(r, "ClientError")
      BY <1>5, <3>1
    <3> QED BY <1>4, <2>1, <2>2, <2>4, <3>1, <3>2 DEF Failed
  <2> QED BY <1>4, <2>1, <2>3, <2>4
<1>10. CASE ReleaseInference(r)
  <2>1. /\ services' = services /\ pc[r] = "release" /\ outcome'[r] = "error"
        /\ raised' = [raised EXCEPT ![r] = "none"]
        /\ \/ EndsRaising(r, raised[r]) /\ table'[ItemKey(r)] = Released
           \/ EndsRaising(r, "ClientError")
    BY <1>1, <1>10, ReleaseFacts
  <2>2. CASE EndsRaising(r, "ClientError")
    <3>1. "ClientError" \in Troubles /\ "ClientError" \in Exceptions
      BY DEF Troubles, Exceptions
    <3>2. Justified(r, "ClientError")
      BY <1>5, <3>1
    <3> QED BY <1>4, <2>1, <2>2, <3>1, <3>2 DEF Failed
  <2>3. CASE EndsRaising(r, raised[r]) /\ table'[ItemKey(r)] = Released
    <3>1. /\ raised[r] \in Exceptions
          /\ raised[r] = "RoutingPolicyNotFoundError" => audit[r] = NoRecord /\ Deniable(a)
      BY <1>1, <2>1 DEF CallInv, CallOK
    <3>2. audit'[r] = audit[r]
      BY <1>1, <1>2, <2>1, AuditWrites
    <3>3. Justified(r, raised[r])
      BY <3>1, <3>2 DEF Justified, Exceptions, Rejections
    <3> QED BY <1>4, <2>1, <2>3, <3>1, <3>3 DEF Failed
  <2> QED BY <2>1, <2>2, <2>3
<1>11. CASE SendsAgain(r)
  BY <1>4, <1>11 DEF SendsAgain
<1> QED BY <1>6, <1>7, <1>8, <1>9, <1>10, <1>11 DEF InferenceStep

\* The answer of an inference that returned tells the story of its audit record.
LEMMA SucceededAnswer ==
    ASSUME TypeInv', AuditInv', RecordInv', NEW r \in Requests, EndsWith(r), ServicesOK
    PROVE  AnswerOK(r, response[r])'
<1>1. /\ outcome'[r] \in {"ok", "replayed"} /\ r \in Calls
      /\ response'[r] = InferenceResponse(r, returned'[r])
  BY DEF EndsWith, ServicesOK, Calls
<1> SUFFICES ASSUME NEW res, res = returned'[r], NEW what, what = InferenceResponse(r, res)
             PROVE  AnswerOK(r, what)'
  BY <1>1 DEF AnswerOK, Proper, Story, Denial, Free
<1>2. PICK d \in Requests :
        /\ res.decision.decision_id = d /\ audit'[d] = AuditRecord(res) /\ audit'[d] # NoRecord
        /\ Request(d).application = Request(r).application
        /\ d = r \/ audit'[r] = NoRecord
  <2>1. CASE outcome'[r] = "ok"
    BY <2>1 DEF AuditInv, Reported, RecordInv, RecordOK
  <2>2. CASE outcome'[r] = "replayed"
    <3>1. PICK d \in Requests :
            /\ res \in InferenceResults /\ res.decision.decision_id = d
            /\ audit'[d] = AuditRecord(res) /\ ItemKey(d) = ItemKey(r)
      BY <2>2 DEF AuditInv, Reported, Audited
    <3>2. Request(d).application = Request(r).application
      BY <3>1 DEF ItemKey
    <3>3. AuditRecord(res) \in AuditRecords
      BY <3>1 DEF AuditRecord, AuditRecords, InferenceResults
    <3>4. audit'[d] # NoRecord
      BY <3>1, <3>3, NoneAssumption
    <3>5. audit'[r] = NoRecord
      BY <2>2 DEF RecordInv, RecordOK
    <3> QED BY <3>1, <3>2, <3>4, <3>5
  <2> QED BY <1>1, <2>1, <2>2
<1>3. /\ audit'[d] \in AuditRecords
      /\ audit'[d].decision = res.decision /\ audit'[d].attempts = res.attempts
  BY <1>2 DEF TypeInv, SharedOK, AuditRecord
<1>4. res.decision \in Decisions
  BY <1>3 DEF AuditRecords
<1>5. /\ Proper(what) /\ what.endpoint = "inference"
      /\ what.application = Request(r).application /\ what.status # 403
      /\ what.status = 200 =>
            /\ what.shows = res.decision.decision_id
            /\ what.route = SerializeRoute(res.decision)
  BY <1>4, InferenceAnswers
<1>6. what.status \in 400..499 => res.attempts = << >>
  BY <1>4, InferenceAnswers
<1>7. Proper(what)' /\ Denial(what)'
  BY <1>5 DEF Proper, Denial
<1>8. Story(what)'
  BY <1>2, <1>3, <1>5 DEF Story
<1>9. Free(r, what)'
  <2> SUFFICES ASSUME what.status \in 400..499, audit'[r] # NoRecord
               PROVE  audit'[r].attempts = << >>
    BY DEF Free
  <2>1. res.attempts = << >>
    BY <1>6
  <2>2. audit'[r].attempts = res.attempts
    BY <1>2, <1>3
  <2> QED BY <2>1, <2>2
<1> QED BY <1>7, <1>8, <1>9 DEF AnswerOK

\* The answer of an inference that failed.
LEMMA FailedAnswer ==
    ASSUME NEW r \in Requests, NEW exception, EndsRaising(r, exception),
           Justified(r, exception), Confessed => Confessed', ServicesOK
    PROVE  /\ AnswerOK(r, response[r])'
           /\ exception \in Exceptions \ {"RoutingPolicyNotFoundError"} => response'[r].status = 500
           /\ response'[r].endpoint = "inference"
           /\ response'[r].application = Request(r).application
<1>1. r \in Calls /\ response'[r] = InferenceFailure(r, MapException(exception))
  BY DEF EndsRaising, ServicesOK, Calls
<1> DEFINE error == MapException(exception)
<1>2. /\ error.status \in {403, 409, 500, 502} /\ error.code \in ErrorCodes
      /\ error.status = 403 <=> exception = "RoutingPolicyNotFoundError"
      /\ error.status = 409 => exception \in Rejections
      /\ exception \in Troubles \cup {"ConfigurationError"} => error.status = 500
  BY MappedStatus DEF Rejections
<1> HIDE DEF error
<1> SUFFICES ASSUME NEW what, what = InferenceFailure(r, error)
             PROVE  /\ AnswerOK(r, what)'
                    /\ exception \in Exceptions \ {"RoutingPolicyNotFoundError"} =>
                          what.status = 500
                    /\ what.endpoint = "inference" /\ what.application = Request(r).application
  BY <1>1 DEF AnswerOK, Proper, Story, Denial, Free, error
<1>3. /\ Proper(what) /\ what.endpoint = "inference"
      /\ what.application = Request(r).application
      /\ what.status = error.status /\ what.status # 200
  BY <1>2, InferenceFails
<1>4. Proper(what)' /\ Story(what)'
  BY <1>3 DEF Proper, Story
<1>5. Denial(what)'
  BY <1>2, <1>3 DEF Denial, Deniable, Justified
<1>6. Free(r, what)'
  <2>1. what.status \in 400..499 => audit'[r] = NoRecord
    BY <1>2, <1>3 DEF Justified
  <2> QED BY <2>1 DEF Free
<1>7. exception \in Exceptions \ {"RoutingPolicyNotFoundError"} => what.status = 500
  BY <1>2, <1>3 DEF Exceptions, Troubles
<1> QED BY <1>3, <1>4, <1>5, <1>6, <1>7 DEF AnswerOK

\* Whatever an inference does, it leaves the others alone.
LEMMA InferenceFrame ==
    ASSUME CoreInv, ApiInv, RecordInv', NEW r \in Requests, InferenceStep(r)
    PROVE  /\ response[r] = NoResponse /\ Final /\ (Confessed => Confessed')
           /\ frame[r].env \in Envs
           /\ services'[frame[r].env] \in Repositories /\ Faithful(services'[frame[r].env])
           /\ \A x \in Envs \ {frame[r].env} : services'[x] = services[x]
           /\ \A c \in Calls \ {r} : response'[c] = response[c]
           /\ \A q \in Requests \ {r} : Untouched(q)
<1>1. TypeInv /\ OneServed /\ ServicesOK /\ CallInv /\ RecordInv
  BY DEF CoreInv, ApiInv
<1>2. Concerns(r) /\ InFlight(r)
  BY <1>1, InferenceAdvances, AdvanceConcerns DEF Concerns
<1>3. frame[r].env \in Envs /\ response[r] = NoResponse /\ r \in Calls
  BY <1>1, <1>2, InFlightFacts DEF CallInv, CallOK, Calls
<1>4. PICK rep \in Repositories :
        services' = [services EXCEPT ![frame[r].env] = rep] /\ Faithful(rep)
  BY InferenceKinds
<1>5. /\ services'[frame[r].env] \in Repositories /\ Faithful(services'[frame[r].env])
      /\ \A x \in Envs \ {frame[r].env} : services'[x] = services[x]
  BY <1>1, <1>3, <1>4 DEF ServicesOK
<1>6. /\ \A q \in Requests \ {r} : raised'[q] = raised[q]
      /\ \A c \in Calls \ {r} : response'[c] = response[c]
  <2>1. KeepsGoing(r) \/ MustRelease(r) \/ Succeeded(r) \/ Failed(r) \/ SendsAgain(r)
    BY InferenceKinds
  <2>2. raised' = raised \/ \E x : raised' = [raised EXCEPT ![r] = x]
    BY <2>1 DEF KeepsGoing, MustRelease, Succeeded, Failed, SendsAgain
  <2>3. response' = response \/ \E x : response' = [response EXCEPT ![r] = x]
    BY <2>1 DEF KeepsGoing, GoesOn, MustRelease, Succeeded, EndsWith, Failed, EndsRaising,
                SendsAgain
  <2> QED BY <1>1, <2>2, <2>3 DEF ServicesOK
<1>7. Final
  BY <1>3, <1>6 DEF Final
<1>8. Confessed => Confessed'
  BY <1>1, <1>7, ConfessedStays
<1>9. ASSUME NEW q \in Requests \ {r} PROVE Untouched(q)
  <2>1. InFlight(q) => frame[q].env \in Envs \ {frame[r].env}
    BY <1>1, <1>2, InFlightFacts DEF OneServed
  <2> QED BY <1>2, <1>5, <1>6, <2>1 DEF Untouched, Concerns, Calls
<1> QED BY <1>3, <1>5, <1>6, <1>7, <1>8, <1>9

LEMMA InferenceTypes ==
    ASSUME CoreInv, CoreInv', ApiInv, NEW r \in Requests, InferenceStep(r)
    PROVE  ServicesOK' /\ (response'[r] # NoResponse => AnswerOK(r, response[r])')
<1>1. TypeInv /\ ServicesOK /\ TypeInv' /\ AuditInv' /\ RecordInv' /\ r \in Calls
  BY DEF CoreInv, ApiInv, Calls
<1>2. /\ response[r] = NoResponse /\ (Confessed => Confessed') /\ frame[r].env \in Envs
  BY <1>1, InferenceFrame
<1>3. KeepsGoing(r) \/ MustRelease(r) \/ Succeeded(r) \/ Failed(r) \/ SendsAgain(r)
  BY <1>1, InferenceKinds
<1>4. response'[r] # NoResponse => AnswerOK(r, response[r])'
  <2>1. CASE KeepsGoing(r) \/ MustRelease(r) \/ SendsAgain(r)
    BY <1>2, <2>1 DEF KeepsGoing, GoesOn, MustRelease, SendsAgain
  <2>2. CASE Succeeded(r)
    BY <1>1, <2>2, SucceededAnswer DEF Succeeded
  <2>3. CASE Failed(r)
    BY <1>1, <1>2, <2>3, FailedAnswer DEF Failed
  <2> QED BY <1>3, <2>1, <2>2, <2>3
<1>5. services' \in [Envs -> Repositories \cup {NoServices}]
  <2>1. PICK rep \in Repositories : services' = [services EXCEPT ![frame[r].env] = rep]
    BY <1>1, InferenceKinds
  <2> QED BY <1>1, <2>1 DEF ServicesOK
<1>6. raised' \in [Requests -> Exceptions \cup {"none"}]
  <2>1. raised' = raised \/ \E x \in Exceptions \cup {"none"} : raised' = [raised EXCEPT ![r] = x]
    BY <1>3 DEF KeepsGoing, MustRelease, Succeeded, Failed, SendsAgain
  <2> QED BY <1>1, <2>1 DEF ServicesOK
<1>7. response' \in [Calls -> Responses \cup {NoResponse}]
  <2>1. response' = response \/ \E x : response' = [response EXCEPT ![r] = x]
    BY <1>3 DEF KeepsGoing, GoesOn, MustRelease, Succeeded, EndsWith, Failed, EndsRaising,
                SendsAgain
  <2>2. response'[r] \in Responses \cup {NoResponse}
    BY <1>4 DEF AnswerOK, Proper
  <2> QED BY <1>1, <2>1, <2>2 DEF ServicesOK
<1> QED BY <1>4, <1>5, <1>6, <1>7 DEF ServicesOK

LEMMA InferenceCall ==
    ASSUME CoreInv, CoreInv', ApiInv, NEW r \in Requests, InferenceStep(r)
    PROVE  CallOK(r)'
<1>1. /\ TypeInv /\ ServicesOK /\ CallInv /\ AuditInv' /\ RecordInv' /\ r \in Calls
  BY DEF CoreInv, ApiInv, Calls
<1>2. /\ response[r] = NoResponse /\ (Confessed => Confessed') /\ frame[r].env \in Envs
      /\ services'[frame[r].env] \in Repositories
  BY <1>1, InferenceFrame
<1>3. InFlight(r)' => frame'[r].env = frame[r].env
  BY <1>1, InferenceAdvances, AdvanceConcerns DEF Concerns
<1>4. InFlight(r)' => services'[frame'[r].env] # NoServices
  BY <1>2, <1>3, AbsenceAssumption
<1>5. pc'[r] # "done" => outcome'[r] = "none"
  BY <1>1 DEF AuditInv, Reported
<1>6. pc'[r] \in {"calling", "persist", "publish", "complete"} => InFlight(r)'
  BY DEF InFlight, Invoking, InvokingPoints
<1>7. CASE KeepsGoing(r)
  BY <1>2, <1>3, <1>4, <1>5, <1>6, <1>7 DEF KeepsGoing, GoesOn, CallOK
<1>8. CASE MustRelease(r)
  <2>1. PICK exception \in Exceptions :
          raised' = [raised EXCEPT ![r] = exception] /\ Justified(r, exception)
    BY <1>8 DEF MustRelease
  <2>2. raised'[r] = exception /\ pc'[r] = "release" /\ response' = response
    BY <1>1, <1>8, <2>1 DEF MustRelease, ServicesOK
  <2>3. exception = "RoutingPolicyNotFoundError" =>
          audit'[r] = NoRecord /\ Deniable(Request(r).application)'
    BY <1>2, <2>1 DEF Justified, Deniable
  <2> QED BY <1>2, <1>4, <1>5, <2>1, <2>2, <2>3 DEF CallOK
<1>9. ASSUME pc'[r] = "done",
             outcome'[r] \in {"ok", "replayed"} =>
                 response'[r] = InferenceResponse(r, returned'[r])
      PROVE  CallOK(r)'
  BY <1>9 DEF CallOK, InFlight, Invoking, InvokingPoints
<1>10. CASE Succeeded(r)
  <2>1. pc'[r] = "done" /\ response'[r] = InferenceResponse(r, returned'[r])
    BY <1>1, <1>10 DEF Succeeded, EndsWith, ServicesOK
  <2> QED BY <1>9, <2>1
<1>11. CASE Failed(r)
  <2>1. pc'[r] = "done" /\ outcome'[r] \notin {"ok", "replayed"}
    BY <1>11 DEF Failed, EndsRaising
  <2> QED BY <1>9, <2>1
<1>12. CASE SendsAgain(r)
  BY <1>1, <1>2, <1>3, <1>4, <1>5, <1>6, <1>12
     DEF SendsAgain, CallInv, CallOK, Deniable, InFlight, Invoking, InvokingPoints
<1> QED BY <1>1, <1>7, <1>8, <1>10, <1>11, <1>12, InferenceKinds

LEMMA InferenceRepository ==
    ASSUME CoreInv, RecordInv', ApiInv, NEW r \in Requests, InferenceStep(r)
    PROVE  RepositoryInv'
<1>1. TypeInv /\ OneServed /\ ServicesOK /\ RepositoryInv /\ CallInv /\ r \in Calls
  BY DEF CoreInv, ApiInv, Calls
<1> DEFINE e == frame[r].env
           a == Request(r).application
<1>2. /\ Confessed => Confessed'
      /\ e \in Envs /\ Faithful(services'[e])
      /\ \A x \in Envs \ {e} : services'[x] = services[x]
      /\ \A q \in Requests \ {r} : Untouched(q)
  BY InferenceFrame
<1>3. InFlight(r) /\ (InFlight(r)' => frame'[r].env = e) /\ a \in Applications
  BY <1>1, InferenceAdvances, AdvanceConcerns, RequestAssumption DEF Concerns, Request
<1>4. services[e] # NoServices
  BY <1>1, <1>3 DEF CallInv, CallOK
<1> SUFFICES ASSUME NEW x \in Envs, services'[x] # NoServices
             PROVE  /\ Faithful(services[x])'
                    /\ Spoiled(services[x])' => Confessed' \/ Confessing(x)'
  BY DEF RepositoryInv
<1>5. CASE x # e
  <2>1. \A q \in Requests : Serving(x, q) => Untouched(q)
    BY <1>2, <1>5 DEF Serving
  <2> QED BY <1>1, <1>2, <1>5, <2>1, RepositoryStays
<1>6. CASE x = e
  <2> SUFFICES ASSUME Spoiled(services'[e]) PROVE Confessed' \/ Confessing(x)'
    BY <1>2, <1>6 DEF Faithful, Spoiled
  <2>1. ASSUME NEW exception, EndsRaising(r, exception), Justified(r, exception),
               exception \in Exceptions \ {"RoutingPolicyNotFoundError"},
               ApplicationFile[a] = NoFile
        PROVE  Confessed'
    <3>1. /\ AnswerOK(r, response[r])' /\ response'[r].status = 500
          /\ response'[r].endpoint = "inference" /\ response'[r].application = a
      BY <1>1, <1>2, <2>1, FailedAnswer
    <3>2. response'[r] # NoResponse
      BY <3>1, AbsenceAssumption DEF AnswerOK, Proper
    <3> QED BY <1>1, <1>3, <2>1, <3>1, <3>2 DEF Confessed, Answered
  <2>2. CASE SendsAgain(r)
    <3>1. InFlight(r)' /\ services'[e] = services[e]
      BY <2>2 DEF SendsAgain, InFlight, Invoking, InvokingPoints
    <3>2. CASE Confessing(e)
      <4>1. /\ pc[r] = "release" /\ raised[r] = "ConfigurationError"
            /\ ApplicationFile[Request(r).application] = NoFile
        BY <1>1, <1>3, <3>2 DEF Confessing, Serving, OneServed
      <4> QED BY <1>3, <1>6, <2>2, <3>1, <4>1 DEF Confessing, Serving, SendsAgain
    <3> QED BY <1>1, <1>2, <1>4, <3>1, <3>2 DEF RepositoryInv
  <2>3. CASE pc[r] = "release" /\ ~SendsAgain(r)
    <3>1. Failed(r)
      BY <2>3, InferenceKinds DEF KeepsGoing, MustRelease, Succeeded
    <3>2. PICK exception \in Exceptions \cup Rejections :
            /\ EndsRaising(r, exception) /\ Justified(r, exception) /\ Blamed(r, exception)
            /\ exception \in {raised[r], "ClientError"}
      BY <2>3, <3>1 DEF Failed
    <3>3. CASE Spoiled(services[e]) /\ ~Confessed
      <4>1. Confessing(e)
        BY <1>1, <1>2, <1>4, <3>3 DEF RepositoryInv
      <4>2. raised[r] = "ConfigurationError" /\ ApplicationFile[a] = NoFile
        BY <1>1, <1>3, <4>1 DEF Confessing, Serving, OneServed
      <4>3. exception \in Exceptions \ {"RoutingPolicyNotFoundError"}
        BY <3>2, <4>2 DEF Exceptions
      <4> QED BY <2>1, <3>2, <4>2, <4>3
    <3>4. CASE exception = "ConfigurationError" /\ ApplicationFile[a] = NoFile
      <4>1. exception \in Exceptions \ {"RoutingPolicyNotFoundError"}
        BY <3>4 DEF Exceptions
      <4> QED BY <2>1, <3>2, <3>4, <4>1
    <3> QED BY <1>2, <3>2, <3>3, <3>4 DEF Blamed
  <2>4. CASE pc[r] # "release" /\ ~SendsAgain(r)
    <3>1. ~Confessing(e)
      BY <1>1, <1>3, <2>4 DEF Confessing, Serving, OneServed
    <3>2. Spoiled(services[e]) => Confessed
      BY <1>1, <1>2, <1>4, <3>1 DEF RepositoryInv
    <3>3. CASE Spoiled(services[e])
      BY <1>2, <3>2, <3>3
    <3>4. CASE MustRelease(r) /\ ~Spoiled(services[e])
      <4>1. PICK exception \in Exceptions :
              raised' = [raised EXCEPT ![r] = exception] /\ Blamed(r, exception)
        BY <3>4 DEF MustRelease
      <4>2. /\ exception = "ConfigurationError" /\ ApplicationFile[a] = NoFile
            /\ raised'[r] = "ConfigurationError" /\ pc'[r] = "release"
        BY <1>1, <3>4, <4>1 DEF Blamed, MustRelease, ServicesOK
      <4>3. InFlight(r)'
        BY <4>2 DEF InFlight, Invoking, InvokingPoints
      <4> QED BY <1>3, <1>6, <4>2, <4>3 DEF Confessing, Serving
    <3>5. CASE Failed(r) /\ ~Spoiled(services[e])
      <4>1. PICK exception \in Exceptions \cup Rejections :
              EndsRaising(r, exception) /\ Justified(r, exception) /\ Blamed(r, exception)
        BY <3>5 DEF Failed
      <4>2. /\ exception = "ConfigurationError" /\ ApplicationFile[a] = NoFile
            /\ exception \in Exceptions \ {"RoutingPolicyNotFoundError"}
        BY <3>5, <4>1 DEF Blamed, Exceptions
      <4> QED BY <2>1, <4>1, <4>2
    <3>6. CASE KeepsGoing(r) \/ Succeeded(r)
      <4>1. Spoiled(services[e])
        BY <3>6 DEF KeepsGoing, Succeeded, Blamed
      <4> QED BY <3>3, <4>1
    <3> QED BY <2>4, <3>3, <3>4, <3>5, <3>6, InferenceKinds
  <2> QED BY <2>2, <2>3, <2>4
<1> QED BY <1>5, <1>6

LEMMA InferencePreserves ==
    ASSUME CoreInv, CoreInv', ApiInv, NEW r \in Requests, InferenceStep(r)
    PROVE  ApiInv'
<1>1. /\ TypeInv /\ RecordInv /\ ServicesOK /\ CallInv /\ AnswerInv /\ RecordInv'
      /\ [Next]_vars
  BY InferenceAdvances DEF CoreInv, ApiInv, Next
<1>2. /\ Final /\ (Confessed => Confessed') /\ \A q \in Requests \ {r} : Untouched(q)
      /\ \A c \in Calls \ {r} : response'[c] = response[c]
  BY <1>1, InferenceFrame
<1>3. ServicesOK' /\ (response'[r] # NoResponse => AnswerOK(r, response[r])')
  BY InferenceTypes
<1>4. CallInv'
  <2> SUFFICES ASSUME NEW q \in Requests PROVE CallOK(q)'
    BY DEF CallInv
  <2>1. CASE q = r
    BY <2>1, InferenceCall
  <2>2. CASE q # r
    BY <1>1, <1>2, <2>2, UntouchedCall DEF CallInv
  <2> QED BY <2>1, <2>2
<1>5. RepositoryInv'
  BY <1>1, InferenceRepository
<1>6. AnswerInv'
  <2>1. ASSUME NEW c \in Calls, response[c] = NoResponse, response'[c] # NoResponse
        PROVE  AnswerOK(c, response[c])'
    BY <1>2, <1>3, <2>1
  <2> QED BY <1>1, <1>2, <2>1, AnswerStep
<1> QED BY <1>3, <1>4, <1>5, <1>6 DEF ApiInv

LEMMA ApiInvHolds == ApiSpec => []ApiInv
<1>1. ApiInit => ApiInv
  <2> SUFFICES ASSUME ApiInit PROVE ApiInv
    OBVIOUS
  <2>1. /\ ServicesOK
        /\ \A e \in Envs : services[e] = NoServices
        /\ \A c \in Calls : response[c] = NoResponse
    BY DEF ApiInit, ServicesOK
  <2>2. \A r \in Requests : pc[r] = "idle" /\ outcome[r] = "none"
    BY DEF ApiInit, Init
  <2>3. CallInv
    BY <2>2 DEF CallInv, CallOK, InFlight, Invoking, InvokingPoints
  <2> QED BY <2>1, <2>3 DEF ApiInv, RepositoryInv, AnswerInv
<1>2. CoreInv /\ CoreInv' /\ ApiInv /\ [ApiNext]_apiVars => ApiInv'
  <2> SUFFICES ASSUME CoreInv, CoreInv', ApiInv, [ApiNext]_apiVars PROVE ApiInv'
    OBVIOUS
  <2>1. [Next]_vars
    BY StepRefines
  <2>2. CASE Elapse
    BY <2>1, <2>2, QuietPreserves DEF Elapse, Tick, TtlSweep, Replicate
  <2>3. CASE UNCHANGED apiVars
    BY <2>1, <2>3, QuietPreserves DEF apiVars, vars
  <2> QED BY <2>2, <2>3, ApiCases, SidePreserves, StartPreserves, InferencePreserves,
             EndPreserves
<1> QED BY <1>1, <1>2, CoreInvHolds, PTL DEF ApiSpec

-----------------------------------------------------------------------------
(***************************************************************************)
(* What a client sees.                                                     *)
(***************************************************************************)
\* Services, exceptions and answers have their types, and an answer shows a
\* decision's id exactly when it shows a route.
THEOREM ApiTypeCorrect == ApiSpec => []ApiTypeOK
<1>1. ApiInv => ApiTypeOK
  BY DEF ApiInv, ServicesOK, AnswerInv, AnswerOK, Proper, ApiTypeOK
<1> QED BY <1>1, ApiInvHolds, PTL

\* Whoever is shown a decision, by the inference that made it, by a replay or by
\* GET /v1/decisions, is of its application and is shown the audited route.
THEOREM OneStoryHolds == ApiSpec => []OneStory
<1>1. ApiInv => OneStory
  BY DEF ApiInv, AnswerInv, AnswerOK, Story, OneStory, Answered
<1> QED BY <1>1, ApiInvHolds, PTL

\* No inference that was answered with a client error has called a model.
THEOREM ClientErrorsFree == ApiSpec => []ClientErrorsAreFree
<1>1. ApiInv => ClientErrorsAreFree
  BY DEF ApiInv, AnswerInv, AnswerOK, Free, ClientErrorsAreFree, Answered, Calls
<1> QED BY <1>1, ApiInvHolds, PTL

\* 403 is only said to applications without a file of their own, and where a default
\* policy exists only once somebody was answered 500 for it.
THEOREM DenialsExplained == ApiSpec => []DenialFollowsServerError
<1>1. ApiInv => DenialFollowsServerError
  BY DEF ApiInv, AnswerInv, AnswerOK, Denial, Deniable, Confessed,
         DenialFollowsServerError, Answered
<1> QED BY <1>1, ApiInvHolds, PTL

\* Once an inference was evaluated, resolve() gives the same policy from memory until
\* the key is completed, whatever happens to the policy files.
THEOREM PolicyStaysSettled == ApiSpec => []PolicySettledWhileInvoking
<1>1. CoreInv /\ ApiInv => PolicySettledWhileInvoking
  <2> SUFFICES ASSUME CoreInv, ApiInv, NEW r \in Requests, Invoking(r),
                      pc[r] \notin {"evaluate", "release"}
               PROVE  ResolveFor(r, FALSE) = Found(Policy(r), services[frame[r].env])
    BY DEF PolicySettledWhileInvoking
  <2>1. pc[r] \in {"calling", "persist", "publish", "complete"}
    BY DEF Invoking, InvokingPoints
  <2> QED BY <2>1, ResolvesFromMemory DEF CoreInv, ApiInv
<1> QED BY <1>1, CoreInvHolds, ApiInvHolds, PTL

\* What RetriesGetOneResult says of results holds of the clients' answers: all
\* calls under a key that is cached, retained and guarded that end with a result
\* get one answer, from the invocation and from its replays.
THEOREM RetriesGetOneAnswer == ApiSpec => []RetriesAnsweredAlike
<1>1. CoreInv /\ ApiInv => RetriesAnsweredAlike
  <2> SUFFICES ASSUME CoreInv, ApiInv, NEW r \in Requests, NEW s \in Requests, MustAgree(r, s)
               PROVE  response[r] = response[s]
    BY DEF RetriesAnsweredAlike
  <2>1. TypeInv /\ AuditInv /\ RecordInv /\ RetentionInv /\ CallInv
    BY DEF CoreInv, ApiInv
  <2>2. returned[r] = returned[s] /\ Request(s).application = Request(r).application
    BY <2>1, RetainedAlike DEF MustAgree, ItemKey
  <2>3. /\ response[r] = InferenceResponse(r, returned[r])
        /\ response[s] = InferenceResponse(s, returned[s])
    BY <2>1 DEF CallInv, CallOK, MustAgree
  <2> QED BY <2>2, <2>3 DEF InferenceResponse, InferenceFailure
<1> QED BY <1>1, CoreInvHolds, ApiInvHolds, PTL

-----------------------------------------------------------------------------
(***************************************************************************)
(* Orphaned reservations.                                                  *)
(***************************************************************************)
IsReserved(item) == item # NoItem /\ item.status = "in_progress"

\* Why a reservation of r may still be there.
Excused(r) ==
    \/ InFlight(r)
    \/ Answered(r, 500..599)
    \/ outcome[r] \in {"conflict", "in_progress", "replayed"}

\* Only reserve() writes a reservation, and its request is in flight.
LEMMA NewReservation ==
    ASSUME TypeInv, [Next]_vars, NEW k \in ItemKeys, ~IsReserved(table[k]), IsReserved(table'[k])
    PROVE  \E r \in Requests : ItemKey(r) = k /\ InFlight(r)'
<1>1. table \in [ItemKeys -> Items \cup {NoItem}] /\ pc \in [Requests -> Points]
  BY DEF TypeInv, SharedOK
<1>2. PICK r \in Requests : Advance(r)
  <2>1. ASSUME NEW x \in ItemKeys, TtlSweep(x) PROVE FALSE
    BY <1>1, <2>1 DEF TtlSweep, IsReserved
  <2>2. table' # table
    OBVIOUS
  <2> QED BY <2>1, <2>2 DEF Next, Start, Kill, Replicate, Tick, vars
<1>3. CASE PutAccepted(r) \/ PutAnswerLost(r)
  <2>1. ItemKey(r) = k
    BY <1>1, <1>3 DEF PutAccepted, PutAnswerLost, WriteReservation
  <2>2. pc'[r] \in {"evaluate", "put"}
    BY <1>1, <1>3 DEF PutAccepted, PutAnswerLost, GoTo
  <2> QED BY <2>1, <2>2 DEF InFlight, Invoking, InvokingPoints
<1>4. CASE \/ Complete(r) \/ CompleteRaises(r) \/ CompleteAnswerLost(r)
           \/ Release(r) \/ ReleaseAnswerLost(r)
  <2>1. WriteItem(r, Written(r)) /\ ItemKey(r) = k
    BY <1>1, <1>4, WriteFacts DEF WriteItem
  <2>2. ~IsReserved(table'[k])
    BY <1>1, <2>1 DEF WriteItem, Written, Completion, Released, IsReserved
  <2> QED BY <2>2
<1>5. CASE table' = table
  BY <1>5
<1> QED BY <1>2, <1>3, <1>4, <1>5
    DEF Advance, PutRefused, ReserveRaises, GetVanished, GetRejected, GetReplayed,
        EvaluateRoute, PolicyUnresolved, ProviderSucceeds, ProviderRaises, ProviderFails,
        Persist, PersistRaises, Publish

\* No answer is taken back by any step of the function.
LEMMA AnswersFinal ==
    ASSUME CoreInv, RecordInv', ApiInv, [ApiNext]_apiVars
    PROVE  Final
<1>1. TypeInv /\ RecordInv /\ ServicesOK /\ RepositoryInv /\ CallInv
  BY DEF CoreInv, ApiInv
<1>2. ASSUME NEW c \in Calls, NEW e \in Envs, SideStep(c, e) PROVE Final
  <2>1. response[c] = NoResponse /\ \E what : response' = [response EXCEPT ![c] = what]
    BY <1>1, <1>2, SideSteps, SideEffects DEF SideEffect
  <2> QED BY <1>1, <2>1 DEF Final, ServicesOK
<1>3. ASSUME NEW r \in Requests, NEW e \in Envs, StartInference(r, e) PROVE Final
  BY <1>3 DEF StartInference, Final
<1>4. ASSUME NEW r \in Requests, InferenceStep(r) PROVE Final
  BY <1>4, InferenceFrame
<1>5. ASSUME NEW e \in Envs, EndEnvironment(e) PROVE Final
  BY <1>1, <1>5 DEF EndEnvironment, Final, Serving, CallInv, CallOK
<1>6. CASE Elapse \/ UNCHANGED apiVars
  BY <1>6 DEF Elapse, apiVars, Final
<1> QED BY <1>2, <1>3, <1>4, <1>5, <1>6, ApiCases

\* A keyed inference that leaves while its item is reserved has an excuse.
LEMMA LeavesExcused ==
    ASSUME CoreInv, CoreInv', ApiInv, [ApiNext]_apiVars, NEW q \in Requests, HasKey(q),
           InFlight(q), IsReserved(table'[ItemKey(q)])
    PROVE  Excused(q)'
<1>1. /\ TypeInv /\ RecordInv /\ ServicesOK /\ RepositoryInv /\ CallInv /\ q \in Calls
      /\ RecordInv'
  BY DEF CoreInv, ApiInv, Calls
<1>2. ASSUME pc'[q] = pc[q] PROVE Excused(q)'
  BY <1>2 DEF Excused, InFlight, Invoking
<1>3. ASSUME NEW c \in Calls, NEW e \in Envs, SideStep(c, e) PROVE pc'[q] = pc[q]
  BY <1>3, SideSteps DEF vars
<1>4. ASSUME NEW r \in Requests, NEW e \in Envs, StartInference(r, e) PROVE pc'[q] = pc[q]
  <2>1. q # r /\ Start(r, e)
    BY <1>4 DEF StartInference, Start, InFlight, Invoking, InvokingPoints
  <2> QED BY <1>1, <2>1 DEF Start, GoTo, TypeInv, SharedOK
<1>5. ASSUME NEW r \in Requests, InferenceStep(r), r # q PROVE pc'[q] = pc[q]
  BY <1>1, <1>5, InferenceFrame DEF Untouched
<1>6. CASE InferenceStep(q)
  <2>1. CASE KeepsGoing(q) \/ MustRelease(q) \/ SendsAgain(q)
    <3>1. pc'[q] # "done" /\ pc'[q] # "idle" /\ pc'[q] \in Points
      BY <1>1, <1>6, <2>1, InferenceAdvances, AdvancePoints
         DEF KeepsGoing, GoesOn, MustRelease, SendsAgain, CoreInv, TypeInv, SharedOK
    <3> QED BY <3>1 DEF Excused, InFlight, Invoking, Points
  <2>2. CASE Succeeded(q)
    <3>1. CASE Complete(q)
      <4>1. WriteCompletion(q) /\ ItemKey(q) \in ItemKeys
        BY <3>1, KeyedItemKey DEF Complete
      <4>2. ~IsReserved(table'[ItemKey(q)])
        BY <1>1, <4>1 DEF WriteCompletion, WriteItem, Completion, Released, IsReserved, TypeInv,
                          SharedOK
      <4> QED BY <4>2
    <3> QED BY <2>2, <3>1 DEF Succeeded, Excused
  <2>3. CASE Failed(q)
    <3>1. PICK exception \in Exceptions \cup Rejections :
            /\ EndsRaising(q, exception) /\ Justified(q, exception)
            /\ exception = "RoutingPolicyNotFoundError" =>
                  ~HasKey(q) \/ table'[ItemKey(q)] = Released
      BY <2>3 DEF Failed
    <3>2. exception # "RoutingPolicyNotFoundError"
      BY <3>1 DEF Released, IsReserved
    <3>3. CASE exception \in Rejections
      BY <3>1, <3>3 DEF Justified, Excused
    <3>4. CASE exception \in Exceptions
      <4>1. Confessed => Confessed'
        BY <1>1, <1>6, InferenceFrame
      <4>2. AnswerOK(q, response[q])' /\ response'[q].status = 500
        BY <1>1, <3>1, <3>2, <3>4, <4>1, FailedAnswer
      <4>3. response'[q] # NoResponse
        BY <4>2, AbsenceAssumption DEF AnswerOK, Proper
      <4> QED BY <4>2, <4>3 DEF Excused, Answered
    <3> QED BY <3>1, <3>3, <3>4
  <2> QED BY <1>1, <1>6, <2>1, <2>2, <2>3, InferenceKinds
<1>7. ASSUME NEW e \in Envs, EndEnvironment(e) PROVE Excused(q)'
  <2>1. CASE Serving(e, q)
    <3>1. response'[q] = InferenceFailure(q, GatewayError)
      BY <1>1, <1>7, <2>1 DEF EndEnvironment
    <3>2. GatewayError.code \in ErrorCodes /\ GatewayError.status = 502
      BY DEF GatewayError, Error, ErrorCodes
    <3>3. response'[q] \in Responses /\ response'[q].status = 502
      BY <3>1, <3>2, InferenceFails DEF Proper
    <3> QED BY <3>3, AbsenceAssumption DEF Excused, Answered
  <2>2. CASE ~Serving(e, q)
    BY <1>2, <1>7, <2>2 DEF EndEnvironment, Kill
  <2> QED BY <2>1, <2>2
<1>8. CASE Elapse \/ UNCHANGED apiVars
  BY <1>2, <1>8 DEF Elapse, Tick, TtlSweep, Replicate, apiVars, vars
<1> QED BY <1>2, <1>3, <1>4, <1>5, <1>6, <1>7, <1>8, ApiCases

LEMMA ExcuseStays ==
    ASSUME CoreInv, CoreInv', ApiInv, [ApiNext]_apiVars, NEW q \in Requests, HasKey(q),
           Excused(q), IsReserved(table'[ItemKey(q)])
    PROVE  Excused(q)'
<1>1. CASE InFlight(q)
  BY <1>1, LeavesExcused
<1>2. CASE Answered(q, 500..599)
  <2>1. Final /\ q \in Calls
    BY AnswersFinal DEF CoreInv, Calls
  <2> QED BY <1>2, <2>1 DEF Final, Answered, Excused
<1>3. CASE outcome[q] \in {"conflict", "in_progress", "replayed"}
  <2>1. pc[q] = "done"
    BY <1>3 DEF CoreInv, AuditInv, Reported
  <2>2. outcome'[q] = outcome[q]
    BY <2>1, StepRefines, NothingRewritten DEF CoreInv, Kept
  <2> QED BY <1>3, <2>2 DEF Excused
<1> QED BY <1>1, <1>2, <1>3 DEF Excused

\* A reservation that nobody is working under is explained by what a client was told:
\* a 5xx, or that the key was in use.  Every other answer, a 4xx of evaluation in
\* particular, has freed its key.
THEOREM OrphansWitnessed == ApiSpec => []OrphansHaveWitness
<1> DEFINE Witnessed == \A k \in ItemKeys : IsReserved(table[k]) =>
                            \E r \in Requests : ItemKey(r) = k /\ Excused(r)
<1>1. ApiInit => Witnessed
  BY DEF ApiInit, Init, IsReserved
<1>2. CoreInv /\ CoreInv' /\ ApiInv /\ Witnessed /\ [ApiNext]_apiVars => Witnessed'
  <2> SUFFICES ASSUME CoreInv, CoreInv', ApiInv, Witnessed, [ApiNext]_apiVars,
                      NEW k \in ItemKeys, IsReserved(table'[k])
               PROVE  \E r \in Requests : ItemKey(r) = k /\ Excused(r)'
    BY DEF IsReserved, ItemKey
  <2>1. CASE IsReserved(table[k])
    <3>1. PICK r \in Requests : ItemKey(r) = k /\ Excused(r)
      BY <2>1
    <3>2. HasKey(r)
      BY <3>1, KeyedItemKey
    <3> QED BY <3>1, <3>2, ExcuseStays
  <2>2. CASE ~IsReserved(table[k])
    BY <2>2, StepRefines, NewReservation DEF CoreInv, Excused
  <2> QED BY <2>1, <2>2
<1>3. Witnessed => OrphansHaveWitness
  BY DEF IsReserved, Excused, OrphansHaveWitness
<1> QED BY <1>1, <1>2, <1>3, CoreInvHolds, ApiInvHolds, PTL DEF ApiSpec

=============================================================================
