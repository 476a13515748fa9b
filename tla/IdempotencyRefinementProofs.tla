-------------------- MODULE IdempotencyRefinementProofs --------------------
(***************************************************************************)
(* The orchestrator over DynamoDB implements the contract of the port      *)
(* (ImplementsContract), and the in-memory store answers as the DynamoDB   *)
(* one does (DoublesAgree).                                                *)
(*                                                                         *)
(* Every step of the orchestrator is a step of the contract or is not seen *)
(* by it.  LeaseInv says that NEW by an accepted put finds nobody at work, *)
(* and AuditInv what the items stand for that CONFLICT, IN_PROGRESS and    *)
(* COMPLETED are answered from, however old the copy that was read.        *)
(* CameInv says that a repeated complete() or release() takes the guard    *)
(* off a key only after another caller has come under it.                  *)
(***************************************************************************)
EXTENDS IdempotencyRefinement, InvocationLoopProofs

-----------------------------------------------------------------------------
(***************************************************************************)
(* The contract of the port.                                               *)
(***************************************************************************)
\* The refinement mapping, as the contract's variables see it.
States     == [r \in Keyed |-> CallerState(r)]
Answers    == [r \in Keyed |-> CallerAnswer(r)]
Recorded   == {r \in Keyed : audit[r] # NoRecord}
Unguarded  == {ItemKey(r) : r \in unguarding}

LEMMA CallerStates ==
    ASSUME NEW r \in Requests, pc[r] \in Points
    PROVE  /\ pc[r] = "idle" => CallerState(r) = "idle"
           /\ pc[r] \in {"put", "get"} => CallerState(r) = "asking"
           /\ CallerState(r) = "working" <=> Holding(r)
           /\ Invoking(r) /\ ~Holding(r) => CallerState(r) = "leaving"
           /\ pc[r] = "done" => CallerState(r) = "gone"
BY DEF CallerState, Holding, Invoking, InvokingPoints, Points

LEMMA CallerAnswers ==
    ASSUME NEW r \in Requests, outcome[r] \in Outcomes
    PROVE  /\ outcome[r] \in {"none", "error", "killed"} => CallerAnswer(r) = "none"
           /\ outcome[r] \in {"conflict", "in_progress"} => CallerAnswer(r) = outcome[r]
           /\ outcome[r] = "replayed" => CallerAnswer(r) = returned[r].decision.decision_id
           /\ outcome[r] = "ok" => CallerAnswer(r) = r
BY DEF CallerAnswer, Outcomes

\* The same of the state after a step.
LEMMA NextCallerStates ==
    ASSUME NEW r \in Requests, pc'[r] \in Points
    PROVE  /\ pc'[r] \in {"put", "get"} => CallerState(r)' = "asking"
           /\ Holding(r)' => CallerState(r)' = "working"
           /\ Invoking(r)' /\ ~Holding(r)' => CallerState(r)' = "leaving"
           /\ pc'[r] = "done" => CallerState(r)' = "gone"
BY DEF CallerState, Holding, Invoking, InvokingPoints, Points

LEMMA NextCallerAnswers ==
    ASSUME NEW r \in Requests, outcome'[r] \in Outcomes
    PROVE  /\ outcome'[r] \in {"none", "error", "killed"} => CallerAnswer(r)' = "none"
           /\ outcome'[r] \in {"conflict", "in_progress"} => CallerAnswer(r)' = outcome'[r]
           /\ outcome'[r] = "replayed" => CallerAnswer(r)' = returned'[r].decision.decision_id
           /\ outcome'[r] = "ok" => CallerAnswer(r)' = r
BY DEF CallerAnswer, Outcomes

\* The callers, their keys and their contents do not change.
LEMMA KeyedFacts ==
    /\ Keyed' = Keyed /\ Keyed \subseteq Requests
    /\ \A r \in Requests : ItemKey(r)' = ItemKey(r)
    /\ \A r \in Requests : r \in Keyed <=> ItemKey(r) \in ItemKeys
<1>1. Keyed' = Keyed /\ Keyed \subseteq Requests
  BY DEF Keyed, HasKey, Request
<1>2. \A r \in Requests : ItemKey(r)' = ItemKey(r)
  BY DEF ItemKey, Request
<1>3. \A r \in Requests : r \in Keyed <=> ItemKey(r) \in ItemKeys
  BY KeyedItemKey DEF Keyed
<1> QED BY <1>1, <1>2, <1>3

\* While complete() or release() of r is sent again, its item is gone or still what it
\* wrote, or another caller has come under the key.
Came(r) ==
    InFlight(r) /\ frame[r].resending =>
        \/ table[ItemKey(r)] \in {NoItem, Written(r)}
        \/ \E q \in Keyed \ {r} : pc[q] # "idle" /\ ItemKey(q) = ItemKey(r)

CameInv == \A r \in Requests : Came(r)

\* A step of the code serving q leaves every item but its own alone.
LEMMA OwnItem ==
    ASSUME TypeInv, NEW q \in Requests, Advance(q), NEW k \in ItemKeys, k # ItemKey(q)
    PROVE  table'[k] = table[k]
<1>1. table' = table \/ \E item : table' = [table EXCEPT ![ItemKey(q)] = item]
  BY DEF Advance, PutAccepted, PutAnswerLost, PutRefused, ReserveRaises, GetVanished,
         GetRejected, GetReplayed, EvaluateRoute, PolicyUnresolved, ProviderSucceeds,
         ProviderRaises, ProviderFails, Persist, PersistRaises, Publish, Complete,
         CompleteRaises, Release, CompleteAnswerLost, ReleaseAnswerLost, WriteReservation,
         WriteCompletion, WriteItem
<1> QED BY <1>1 DEF TypeInv, SharedOK

LEMMA CameInvHolds == Spec => []CameInv
<1>1. Init => CameInv
  BY DEF Init, CameInv, Came, InFlight, Invoking, InvokingPoints
<1>2. TypeInv /\ ResendInv /\ CameInv /\ [Next]_vars => CameInv'
  <2> SUFFICES ASSUME TypeInv, ResendInv, CameInv, [Next]_vars, NEW r \in Requests,
                      InFlight(r)', frame'[r].resending
               PROVE  \/ table'[ItemKey(r)] \in {NoItem, Written(r)'}
                      \/ \E q \in Keyed \ {r} : pc'[q] # "idle" /\ ItemKey(q) = ItemKey(r)
    BY KeyedFacts DEF CameInv, Came, ItemKey, Request
  <2>1. ASSUME pc'[r] = pc[r], frame'[r] = frame[r]
        PROVE  /\ InFlight(r) /\ frame[r].resending /\ pc[r] \in {"complete", "release"}
               /\ HasKey(r) /\ ItemKey(r) \in ItemKeys /\ Written(r)' = Written(r)
               /\ \/ table[ItemKey(r)] \in {NoItem, Written(r)}
                  \/ \E q \in Keyed \ {r} : pc'[q] # "idle" /\ ItemKey(q) = ItemKey(r)
    <3>1. InFlight(r) /\ frame[r].resending
      BY <2>1 DEF InFlight, Invoking
    <3>2. pc[r] \in {"complete", "release"}
      BY <3>1 DEF ResendInv
    <3>3. HasKey(r) /\ ItemKey(r) \in ItemKeys
      BY <3>2, KeyedItemKey DEF TypeInv, LocalOK
    <3>4. Written(r)' = Written(r)
      BY <2>1 DEF Written, Request, Policy
    <3>5. \A q \in Keyed : pc[q] # "idle" => pc'[q] # "idle"
      BY NothingRewritten, KeyedFacts DEF Kept
    <3> QED BY <3>1, <3>2, <3>3, <3>4, <3>5 DEF CameInv, Came
  <2>2. CASE pc'[r] = pc[r] /\ frame'[r] = frame[r] /\ table'[ItemKey(r)] = table[ItemKey(r)]
    BY <2>1, <2>2
  <2>3. ASSUME NEW q \in Requests, Advance(q)
        PROVE  \/ table'[ItemKey(r)] \in {NoItem, Written(r)'}
               \/ \E d \in Keyed \ {r} : pc'[d] # "idle" /\ ItemKey(d) = ItemKey(r)
    <3>1. CASE q = r
      <4>1. CompleteAnswerLost(r) \/ ReleaseAnswerLost(r)
        BY <2>3, <3>1, ResendSteps
      <4>2. WriteItem(r, Written(r)) /\ Written(r)' = Written(r)
        BY <4>1, ResendWrites
      <4>3. ItemKey(r) \in ItemKeys
        BY <4>1, WriteFacts
      <4> QED BY <4>2, <4>3 DEF WriteItem, TypeInv, SharedOK
    <3>2. CASE q # r
      <4>1. pc'[r] = pc[r] /\ frame'[r] = frame[r]
        BY <2>3, <3>2, AdvanceConcerns DEF Concerns
      <4>2. CASE ItemKey(q) = ItemKey(r)
        BY <2>1, <2>3, <3>2, <4>1, <4>2, AdvancePoints, KeyedFacts
      <4>3. CASE ItemKey(q) # ItemKey(r)
        BY <2>1, <2>2, <2>3, <4>1, <4>3, OwnItem
      <4> QED BY <4>2, <4>3
    <3> QED BY <3>1, <3>2
  <2>4. ASSUME NEW q \in Requests, NEW e \in Envs, Start(q, e)
        PROVE  pc'[r] = pc[r] /\ frame'[r] = frame[r] /\ table' = table
    <3>1. /\ q = r => frame'[r].resending = FALSE
          /\ q # r => pc'[r] = pc[r] /\ frame'[r] = frame[r]
          /\ table' = table
      BY <2>4 DEF Start, GoTo, NewFrame, TypeInv, SharedOK
    <3> QED BY <3>1
  <2>5. ASSUME NEW e \in Envs, Kill(e)
        PROVE  pc'[r] = pc[r] /\ frame'[r] = frame[r] /\ table' = table
    BY <2>5 DEF Kill, InFlight, Invoking, InvokingPoints
  <2>6. ASSUME NEW k \in ItemKeys, TtlSweep(k)
        PROVE  \/ table'[ItemKey(r)] = NoItem
               \/ pc'[r] = pc[r] /\ frame'[r] = frame[r] /\ table'[ItemKey(r)] = table[ItemKey(r)]
    <3>1. pc' = pc /\ frame' = frame
      BY <2>6 DEF TtlSweep
    <3>2. ItemKey(r) \in ItemKeys
      BY <2>1, <3>1
    <3> QED BY <2>6, <3>1, <3>2 DEF TtlSweep, TypeInv, SharedOK
  <2>7. CASE UNCHANGED << pc, frame, table >>
    BY <2>2, <2>7
  <2> QED BY <2>2, <2>3, <2>4, <2>5, <2>6, <2>7 DEF Next, Replicate, Tick, vars
<1> QED BY <1>1, <1>2, TypeInvHolds, ResendHolds, PTL DEF Spec

-----------------------------------------------------------------------------
\* Everybody but r stays where it is and keeps its answer and its record.
OnlyMoves(r) ==
    \A q \in Keyed \ {r} :
        /\ pc'[q] = pc[q] /\ frame'[q] = frame[q]
        /\ outcome'[q] = outcome[q] /\ returned'[q] = returned[q] /\ audit'[q] = audit[q]

\* What the contract sees of such a step.
LEMMA SeenStep ==
    ASSUME NEW r \in Requests, OnlyMoves(r)
    PROVE  /\ \A to : CallerState(r)' = to => States' = [States EXCEPT ![r] = to]
           /\ \A what : CallerAnswer(r)' = what => Answers' = [Answers EXCEPT ![r] = what]
           /\ CallerState(r)' = CallerState(r) => States' = States
           /\ CallerAnswer(r)' = CallerAnswer(r) => Answers' = Answers
           /\ (audit'[r] # NoRecord <=> audit[r] # NoRecord) => Recorded' = Recorded
           /\ r \in Keyed /\ audit'[r] # NoRecord => Recorded' = Recorded \cup {r}
           /\ r \notin Keyed => States' = States /\ Answers' = Answers /\ Recorded' = Recorded
<1>1. Keyed' = Keyed /\ Keyed \subseteq Requests
  BY KeyedFacts
<1>2. \A q \in Keyed \ {r} : CallerState(q)' = CallerState(q)
  BY DEF OnlyMoves, CallerState, Holding, Invoking
<1>3. \A q \in Keyed \ {r} : CallerAnswer(q)' = CallerAnswer(q)
  BY DEF OnlyMoves, CallerAnswer
<1>4. /\ \A to : CallerState(r)' = to => States' = [States EXCEPT ![r] = to]
      /\ CallerState(r)' = CallerState(r) => States' = States
      /\ r \notin Keyed => States' = States
  BY <1>1, <1>2 DEF States
<1>5. /\ \A what : CallerAnswer(r)' = what => Answers' = [Answers EXCEPT ![r] = what]
      /\ CallerAnswer(r)' = CallerAnswer(r) => Answers' = Answers
      /\ r \notin Keyed => Answers' = Answers
  BY <1>1, <1>3 DEF Answers
<1>6. /\ (audit'[r] # NoRecord <=> audit[r] # NoRecord) => Recorded' = Recorded
      /\ r \in Keyed /\ audit'[r] # NoRecord => Recorded' = Recorded \cup {r}
      /\ r \notin Keyed => Recorded' = Recorded
  BY <1>1 DEF Recorded, OnlyMoves
<1> QED BY <1>4, <1>5, <1>6

LEMMA UnguardedStays ==
    ASSUME unguarding' = unguarding, unguarding \subseteq Requests
    PROVE  Unguarded' = Unguarded
BY KeyedFacts DEF Unguarded, ItemKey, Request

LEMMA FlightOnlyMoves ==
    ASSUME TypeInv, NEW r \in Requests, Advance(r)
    PROVE  OnlyMoves(r)
BY AdvanceConcerns, KeyedFacts DEF OnlyMoves, Concerns

\* A step the contract does not see.
Unseen == UNCHANGED << States, Answers, Recorded, Unguarded >>

\* A keyed request in flight has no answer yet.
LEMMA Unanswered ==
    ASSUME TypeInv, AuditInv, NEW r \in Requests, pc[r] # "done"
    PROVE  CallerAnswer(r) = "none"
<1>1. outcome[r] = "none" /\ outcome[r] \in Outcomes
  BY DEF AuditInv, Reported, TypeInv, SharedOK
<1> QED BY <1>1, CallerAnswers

\* A step of the code serving r that ends nothing, records nothing and gives up on
\* nothing, from waiting to waiting or within the guarded section.
LEMMA QuietUnseen ==
    ASSUME TypeInv, TypeInv', NEW r \in Requests, Advance(r), outcome' = outcome,
           returned' = returned, unguarding' = unguarding,
           audit'[r] # NoRecord <=> audit[r] # NoRecord,
           \/ pc[r] \in {"put", "get"} /\ pc'[r] \in {"put", "get"}
           \/ Holding(r) /\ Holding(r)'
    PROVE  Unseen
<1>1. pc \in [Requests -> Points] /\ pc' \in [Requests -> Points] /\ unguarding \subseteq Requests
  BY DEF TypeInv, SharedOK
<1>2. CallerState(r)' = CallerState(r)
  BY <1>1, CallerStates, NextCallerStates
<1>3. CallerAnswer(r)' = CallerAnswer(r)
  BY DEF CallerAnswer
<1> QED BY <1>1, <1>2, <1>3, FlightOnlyMoves, SeenStep, UnguardedStays DEF Unseen

\* The end of a request, as the contract sees it.
LEMMA EndSeen ==
    ASSUME TypeInv, TypeInv', AuditInv, NEW r \in Requests, Advance(r),
           NEW how, NEW res, End(r, how, res), audit' = audit
    PROVE  /\ States' = [States EXCEPT ![r] = "gone"]
           /\ Recorded' = Recorded /\ (unguarding' = unguarding => Unguarded' = Unguarded)
           /\ how = "error" => Answers' = Answers
           /\ how \in {"conflict", "in_progress"} => Answers' = [Answers EXCEPT ![r] = how]
           /\ how = "replayed" => Answers' = [Answers EXCEPT ![r] = res.decision.decision_id]
           /\ how = "ok" => Answers' = [Answers EXCEPT ![r] = r]
<1>1. /\ pc'[r] = "done" /\ outcome'[r] = how /\ returned'[r] = res
      /\ pc'[r] \in Points /\ outcome'[r] \in Outcomes /\ unguarding \subseteq Requests
  BY DEF TypeInv, SharedOK, End, GoTo
<1>2. CallerState(r)' = "gone"
  BY <1>1, NextCallerStates
<1>3. CallerAnswer(r) = "none"
  BY Unanswered, AdvanceConcerns DEF Concerns, InFlight, Invoking, InvokingPoints
<1>4. OnlyMoves(r)
  BY FlightOnlyMoves
<1>5. /\ States' = [States EXCEPT ![r] = "gone"] /\ Recorded' = Recorded
      /\ unguarding' = unguarding => Unguarded' = Unguarded
  BY <1>1, <1>2, <1>4, SeenStep, UnguardedStays
<1>6. CASE how = "error"
  <2>1. CallerAnswer(r)' = CallerAnswer(r)
    BY <1>1, <1>3, <1>6, NextCallerAnswers
  <2> QED BY <1>4, <1>5, <1>6, <2>1, SeenStep
<1>7. CASE how # "error"
  BY <1>1, <1>4, <1>5, <1>7, NextCallerAnswers, SeenStep
<1> QED BY <1>5, <1>6, <1>7

\* Before complete() and release() a request holds its key.
LEMMA Working ==
    ASSUME ResendInv, NEW r \in Requests, pc[r] \in {"evaluate", "calling", "persist", "publish"}
    PROVE  Holding(r)
BY DEF ResendInv, Holding, InFlight, Invoking, InvokingPoints

LEMMA WorkingNext ==
    ASSUME ResendInv', NEW r \in Requests,
           pc'[r] \in {"evaluate", "calling", "persist", "publish"}
    PROVE  Holding(r)'
BY DEF ResendInv, Holding, InFlight, Invoking, InvokingPoints

\* NEW by an accepted put: nobody else is at work under the key.
LEMMA PutGrants ==
    ASSUME TypeInv, TypeInv', LeaseInv, ResendInv', AuditInv, NEW r \in Keyed, PutAccepted(r)
    PROVE  Contract!Reserve(r)
<1>1. /\ r \in Requests /\ pc[r] = "put" /\ Advance(r)
      /\ PutCondition(table[ItemKey(r)], frame[r].stamp)
      /\ UNCHANGED << outcome, returned, audit, unguarding >>
  BY KeyedFacts DEF PutAccepted, Advance
<1>2. /\ pc[r] \in Points /\ pc'[r] \in Points /\ pc'[r] = "evaluate"
      /\ unguarding \subseteq Requests
  BY <1>1 DEF PutAccepted, GoTo, TypeInv, SharedOK
<1>3. CallerState(r) = "asking" /\ CallerState(r)' = "working" /\ CallerAnswer(r)' = CallerAnswer(r)
  <2>1. Holding(r)'
    BY <1>1, <1>2, WorkingNext
  <2> QED BY <1>1, <1>2, <2>1, CallerStates, NextCallerStates DEF CallerAnswer
<1>4. /\ States' = [States EXCEPT ![r] = "working"]
      /\ Answers' = Answers /\ Recorded' = Recorded /\ Unguarded' = Unguarded
  BY <1>1, <1>2, <1>3, FlightOnlyMoves, SeenStep, UnguardedStays
<1>5. ASSUME NEW d \in Keyed, CallerState(d) = "working", ItemKey(r) = ItemKey(d)
      PROVE  ItemKey(r) \in Unguarded
  <2>1. d \in Requests /\ HasKey(d) /\ pc[d] \in Points
    BY DEF Keyed, TypeInv, SharedOK
  <2>2. Holding(d)
    BY <1>5, <2>1, CallerStates
  <2>3. ~Guarded(ItemKey(d))
    BY <1>1, <1>5, <2>1, <2>2, PutFindsNobody
  <2> QED BY <1>5, <2>3 DEF Guarded, Unguarded
<1>6. Contract!Grant(r)
  BY <1>4, <1>5 DEF Contract!Grant, Contract!SameKey, States, Answers, Recorded, Unguarded
<1>7. States[r] = "asking"
  BY <1>3 DEF States
<1> QED BY <1>4, <1>6, <1>7 DEF Contract!Reserve, Contract!Move, States

\* A get that finds no item: another round, or NEW without a record.
LEMMA GetVanishedSeen ==
    ASSUME TypeInv, TypeInv', ResendInv', AuditInv, NEW r \in Keyed, GetVanished(r)
    PROVE  Unseen \/ Contract!Reserve(r)
<1>1. /\ r \in Requests /\ pc[r] = "get" /\ Advance(r)
      /\ UNCHANGED << outcome, returned, audit >>
  BY KeyedFacts DEF GetVanished, Advance
<1>2. CASE pc'[r] = "put" /\ unguarding' = unguarding
  BY <1>1, <1>2, QuietUnseen
<1>3. CASE pc'[r] = "evaluate" /\ unguarding' = unguarding \cup {r}
  <2>1. /\ pc[r] \in Points /\ pc'[r] \in Points /\ unguarding \subseteq Requests
    BY <1>1 DEF TypeInv, SharedOK
  <2>2. /\ CallerState(r) = "asking" /\ CallerState(r)' = "working"
        /\ CallerAnswer(r)' = CallerAnswer(r)
    <3>1. Holding(r)'
      BY <1>1, <1>3, WorkingNext
    <3> QED BY <1>1, <1>3, <2>1, <3>1, CallerStates, NextCallerStates DEF CallerAnswer
  <2>3. /\ States' = [States EXCEPT ![r] = "working"]
        /\ Answers' = Answers /\ Recorded' = Recorded
    BY <1>1, <2>2, FlightOnlyMoves, SeenStep
  <2>4. Unguarded' = Unguarded \cup {ItemKey(r)}
    BY <1>3, <2>1 DEF Unguarded, ItemKey, Request
  <2>5. Contract!GiveUp(r)
    BY <2>3, <2>4 DEF Contract!GiveUp, Answers, Recorded, Unguarded
  <2>6. States[r] = "asking"
    BY <2>2 DEF States
  <2> QED BY <2>3, <2>5, <2>6 DEF Contract!Reserve, Contract!Move, States
<1>4. \/ pc'[r] = "put" /\ unguarding' = unguarding
      \/ pc'[r] = "evaluate" /\ unguarding' = unguarding \cup {r}
  BY <1>1 DEF GetVanished, GoTo, TypeInv, SharedOK
<1> QED BY <1>2, <1>3, <1>4

\* CONFLICT and IN_PROGRESS.  The item that is there was put by a request of another
\* content, even if the get read an old copy of it.
LEMMA GetRejectedSeen ==
    ASSUME TypeInv, TypeInv', AuditInv, NEW r \in Keyed, GetRejected(r)
    PROVE  Contract!Reserve(r)
<1>1. /\ r \in Requests /\ pc[r] = "get" /\ Advance(r)
      /\ UNCHANGED << audit, unguarding >>
  BY KeyedFacts DEF GetRejected, Advance
<1>2. PICK item \in ReadableItems(r) :
         /\ ReadOutcome(item, Request(r).hash) \in {"conflict", "in_progress"}
         /\ End(r, ReadOutcome(item, Request(r).hash), NoResult)
  BY DEF GetRejected
<1> DEFINE read == ReadOutcome(item, Request(r).hash)
<1>3. States[r] = "asking"
  BY <1>1, CallerStates DEF States, TypeInv, SharedOK
<1>4. /\ States' = [States EXCEPT ![r] = "gone"] /\ Answers' = [Answers EXCEPT ![r] = read]
      /\ Recorded' = Recorded /\ Unguarded' = Unguarded
  BY <1>1, <1>2, EndSeen
<1>5. CASE read = "in_progress"
  <2>1. Contract!InProgress(r)
    BY <1>4, <1>5 DEF Contract!InProgress, Contract!Take, Answers
  <2> QED BY <1>3, <1>4, <2>1 DEF Contract!Reserve, Contract!Move, States, Recorded, Unguarded
<1>6. CASE read = "conflict"
  <2>1. Sound(ItemKey(r), item) /\ item \in Items \cup {NoItem} /\ ItemKey(r) \in ItemKeys
    BY <1>1, ReadableSound DEF ReadableItems, TypeInv, SharedOK
  <2>2. item # NoItem /\ item.hash # Request(r).hash
    BY <1>6, <2>1 DEF ReadOutcome, Items
  <2>3. PICK q \in Requests : pc[q] # "idle" /\ ItemKey(q) = ItemKey(r)
                              /\ Request(q).hash = item.hash
    BY <2>1, <2>2 DEF Sound, Asked
  <2>4. q \in Keyed
    BY <2>1, <2>3, KeyedFacts
  <2>5. States[q] # "idle"
    BY <2>3, <2>4
       DEF States, CallerState, TypeInv, SharedOK, Points, Holding, Invoking, InvokingPoints
  <2>6. Contract!SameKey(r, q) /\ ContentOf(r) # ContentOf(q)
    BY <2>2, <2>3 DEF Contract!SameKey, ContentOf
  <2>7. \E d \in Keyed : States[d] # "idle" /\ Contract!SameKey(r, d)
                         /\ ContentOf(r) # ContentOf(d)
    BY <2>4, <2>5, <2>6
  <2>8. Contract!Conflict(r)
    BY <1>4, <1>6, <2>7 DEF Contract!Conflict, Contract!Take, States, Answers
  <2> QED BY <1>3, <1>4, <2>8 DEF Contract!Reserve, Contract!Move, States, Recorded, Unguarded
<1> QED BY <1>2, <1>5, <1>6

\* COMPLETED.
LEMMA GetReplayedSeen ==
    ASSUME TypeInv, TypeInv', AuditInv, NEW r \in Keyed, GetReplayed(r)
    PROVE  Contract!Reserve(r)
<1>1. /\ r \in Requests /\ pc[r] = "get" /\ Advance(r)
      /\ UNCHANGED << audit, unguarding >>
  BY KeyedFacts DEF GetReplayed, Advance
<1>2. PICK item \in ReadableItems(r) :
         /\ ReadOutcome(item, Request(r).hash) = "completed"
         /\ End(r, "replayed", item.result)
  BY DEF GetReplayed
<1>3. States[r] = "asking"
  BY <1>1, CallerStates DEF States, TypeInv, SharedOK
<1>4. Sound(ItemKey(r), item) /\ ItemKey(r) \in ItemKeys
  BY <1>1, ReadableSound
<1>5. item # NoItem /\ item.hash = Request(r).hash /\ item.status = "completed"
  BY <1>2 DEF ReadOutcome
<1>6. PICK origin \in Requests :
         /\ item.result \in InferenceResults /\ item.result.decision.decision_id = origin
         /\ Over(origin) /\ audit[origin] = AuditRecord(item.result)
         /\ ItemKey(origin) = ItemKey(r) /\ Request(origin).hash = Request(r).hash
  BY <1>4, <1>5 DEF Sound, Audited
<1>7. AuditRecord(item.result) \in AuditRecords
  BY <1>6 DEF AuditRecord, AuditRecords, InferenceResults
<1>8. origin \in Keyed /\ origin \in Recorded
  BY <1>4, <1>6, <1>7, KeyedFacts, NoneAssumption DEF Recorded
<1>9. States[origin] \in {"leaving", "gone"}
  BY <1>6, <1>8, CallerStates
     DEF States, Over, Holding, Invoking, InvokingPoints, TypeInv, SharedOK
<1>10. Contract!SameKey(r, origin) /\ ContentOf(r) = ContentOf(origin)
  BY <1>6 DEF Contract!SameKey, ContentOf
<1>11. /\ States' = [States EXCEPT ![r] = "gone"] /\ Answers' = [Answers EXCEPT ![r] = origin]
       /\ Recorded' = Recorded /\ Unguarded' = Unguarded
  BY <1>1, <1>2, <1>6, EndSeen
<1>12. \E d \in Recorded :
          /\ States[d] \in {"leaving", "gone"} /\ Contract!SameKey(r, d) /\ ContentOf(r) = ContentOf(d)
          /\ Answers' = [Answers EXCEPT ![r] = d]
  BY <1>8, <1>9, <1>10, <1>11
<1>13. Contract!Replay(r)
  BY <1>12 DEF Contract!Replay, Contract!Take, States, Answers, Recorded
<1> QED BY <1>3, <1>11, <1>13 DEF Contract!Reserve, Contract!Move, States, Recorded, Unguarded

\* _persist, applied: the result is recorded.
LEMMA PersistSeen ==
    ASSUME TypeInv, TypeInv', ResendInv, NEW r \in Keyed, Persist(r) \/ PersistRaises(r)
    PROVE  Unseen \/ Contract!Work(r)
<1>1. /\ r \in Requests /\ pc[r] = "persist" /\ Advance(r) /\ Holding(r) /\ HasKey(r)
      /\ unguarding' = unguarding
  BY KeyedFacts, Working DEF Persist, PersistRaises, Advance, Keyed
<1>2. /\ pc'[r] \in InvokingPoints /\ UNCHANGED << frame, outcome, returned >>
      /\ WriteAudit(r) \/ audit' = audit
  BY <1>1 DEF Persist, PersistRaises, Raise, GoTo, TypeInv, SharedOK, InvokingPoints
<1>5. Holding(r)'
  BY <1>1, <1>2 DEF Holding, Invoking
<1>3. CASE audit' = audit
  BY <1>1, <1>2, <1>3, <1>5, QuietUnseen
<1>4. CASE WriteAudit(r)
  <2>1. /\ frame[r].result \in InferenceResults /\ pc[r] \in Points /\ pc'[r] \in Points
        /\ audit \in [Requests -> AuditRecords \cup {NoRecord}] /\ unguarding \subseteq Requests
    BY <1>1 DEF TypeInv, LocalOK, SharedOK
  <2>2. AuditRecord(frame[r].result) \in AuditRecords
    BY <2>1 DEF AuditRecord, AuditRecords, InferenceResults
  <2>3. audit'[r] # NoRecord
    BY <1>1, <1>4, <2>1, <2>2, NoneAssumption DEF WriteAudit
  <2>4. CallerState(r) = "working" /\ CallerState(r)' = "working"
    BY <1>1, <1>5, <2>1, CallerStates, NextCallerStates
  <2>5. CallerAnswer(r)' = CallerAnswer(r)
    BY <1>2 DEF CallerAnswer
  <2>6. /\ States' = States /\ Answers' = Answers /\ Unguarded' = Unguarded
        /\ Recorded' = Recorded \cup {r}
    BY <1>1, <2>1, <2>3, <2>4, <2>5, FlightOnlyMoves, SeenStep, UnguardedStays
  <2>7. Contract!Record(r)
    BY <2>6 DEF Contract!Record, States, Answers, Recorded, Unguarded
  <2>8. States[r] = "working"
    BY <2>4 DEF States
  <2> QED BY <2>7, <2>8 DEF Contract!Work, States
<1> QED BY <1>2, <1>3, <1>4

\* reserve() raises: the caller is gone.
LEMMA ReserveRaisesSeen ==
    ASSUME TypeInv, TypeInv', AuditInv, NEW r \in Keyed, ReserveRaises(r)
    PROVE  Contract!Reserve(r)
<1>1. /\ r \in Requests /\ Advance(r) /\ UNCHANGED << audit, unguarding >>
      /\ End(r, "error", NoResult) /\ pc[r] \in {"put", "get"}
  BY KeyedFacts DEF ReserveRaises, Advance
<1>2. States[r] = "asking"
  BY <1>1, CallerStates DEF States, TypeInv, SharedOK
<1>3. /\ States' = [States EXCEPT ![r] = "gone"] /\ Answers' = Answers
      /\ Recorded' = Recorded /\ Unguarded' = Unguarded
  BY <1>1, EndSeen
<1> QED BY <1>2, <1>3
        DEF Contract!Reserve, Contract!Raise, Contract!Move, States, Answers, Recorded, Unguarded

\* The first write of complete() or release() leaves the guard on the key; a repeat
\* takes it off at most if somebody else has come under the key.
LEMMA WriteSeen ==
    ASSUME TypeInv, CameInv, NEW r \in Keyed,
           \/ Complete(r) \/ CompleteRaises(r) \/ CompleteAnswerLost(r)
           \/ Release(r) \/ ReleaseAnswerLost(r)
    PROVE  /\ Holding(r) => Unguarded' = Unguarded
           /\ Contract!Repeat(r)
<1>1. /\ r \in Requests /\ pc[r] \in {"complete", "release"} /\ unguarding \subseteq Requests
      /\ UNCHANGED << table, unguarding >> \/ WriteItem(r, Written(r))
  BY KeyedFacts, WriteFacts DEF TypeInv, SharedOK
<1>2. CASE unguarding' = unguarding
  <2>1. Unguarded' = Unguarded
    BY <1>1, <1>2, UnguardedStays
  <2> QED BY <2>1 DEF Contract!Repeat, Unguarded
<1>3. CASE unguarding' # unguarding
  <2>1. /\ unguarding' = unguarding \cup {r} /\ frame[r].resending
        /\ table[ItemKey(r)] \notin {NoItem, Written(r)}
    BY <1>1, <1>3 DEF WriteItem
  <2>2. Unguarded' = Unguarded \cup {ItemKey(r)}
    BY <1>1, <2>1 DEF Unguarded, ItemKey, Request
  <2>3. PICK q \in Keyed \ {r} : pc[q] # "idle" /\ ItemKey(q) = ItemKey(r)
    BY <1>1, <2>1 DEF CameInv, Came, InFlight, Invoking, InvokingPoints
  <2>4. States[q] # "idle" /\ Contract!SameKey(r, q)
    <3>1. pc[q] \in Points
      BY <2>3, KeyedFacts DEF TypeInv, SharedOK
    <3>2. CallerState(q) # "idle"
      BY <2>3, <3>1 DEF CallerState, Points, Holding, Invoking, InvokingPoints
    <3> QED BY <2>3, <3>2 DEF States, Contract!SameKey
  <2>5. Contract!Repeat(r)
    BY <2>2, <2>3, <2>4 DEF Contract!Repeat, States, Unguarded
  <2> QED BY <2>1, <2>5 DEF Holding
<1> QED BY <1>2, <1>3

\* complete() and release(): the caller goes, with its own result or without one, or
\* is yet to hear of it.
LEMMA LeaveSeen ==
    ASSUME TypeInv, TypeInv', CameInv, AuditInv, NEW r \in Keyed,
           \/ Complete(r) \/ CompleteRaises(r) \/ CompleteAnswerLost(r)
           \/ Release(r) \/ ReleaseAnswerLost(r)
    PROVE  Contract!Work(r) \/ Contract!Leave(r)
<1>1. /\ r \in Requests /\ Advance(r) /\ audit' = audit /\ Invoking(r)
      /\ pc[r] \in Points /\ pc'[r] \in Points
  BY KeyedFacts DEF Complete, CompleteRaises, CompleteAnswerLost, Release, ReleaseAnswerLost,
       Resend, Advance, Invoking, InvokingPoints, TypeInv, SharedOK
<1>2. States[r] = IF Holding(r) THEN "working" ELSE "leaving"
  BY <1>1, CallerStates DEF States
<1>3. /\ Holding(r) => Unguarded' = Unguarded
      /\ Contract!Repeat(r)
  BY WriteSeen
<1>4. CASE Complete(r) \/ CompleteRaises(r) \/ Release(r)
  <2>1. Contract!Depart(r)
    <3>1. CASE Complete(r)
      <4>1. audit[r] = AuditRecord(frame[r].result) /\ frame[r].result \in InferenceResults
        BY <1>1, <3>1 DEF Complete, AuditInv, OwnResult, TypeInv, LocalOK
      <4>2. AuditRecord(frame[r].result) \in AuditRecords
        BY <4>1 DEF AuditRecord, AuditRecords, InferenceResults
      <4>3. r \in Recorded
        BY <4>1, <4>2, NoneAssumption DEF Recorded
      <4>4. /\ States' = [States EXCEPT ![r] = "gone"] /\ Answers' = [Answers EXCEPT ![r] = r]
            /\ Recorded' = Recorded
        BY <1>1, <3>1, EndSeen DEF Complete
      <4> QED BY <4>3, <4>4
              DEF Contract!Depart, Contract!Move, Contract!Take, States, Answers, Recorded
    <3>2. CASE CompleteRaises(r) \/ Release(r)
      <4>1. /\ States' = [States EXCEPT ![r] = "gone"] /\ Answers' = Answers
            /\ Recorded' = Recorded
        BY <1>1, <3>2, EndSeen DEF CompleteRaises, Release
      <4> QED BY <4>1 DEF Contract!Depart, Contract!Move, States, Answers, Recorded
    <3> QED BY <1>4, <3>1, <3>2
  <2>2. CASE Holding(r)
    BY <1>2, <1>3, <2>1, <2>2 DEF Contract!Work, States, Unguarded
  <2>3. CASE ~Holding(r)
    BY <1>2, <1>3, <2>1, <2>3 DEF Contract!Leave, States
  <2> QED BY <2>2, <2>3
<1>5. CASE CompleteAnswerLost(r) \/ ReleaseAnswerLost(r)
  <2>1. ~Holding(r)' /\ pc' = pc /\ outcome' = outcome /\ returned' = returned
    BY <1>1, <1>5, ReplaceFacts DEF CompleteAnswerLost, ReleaseAnswerLost, Resend
  <2>2. CallerState(r)' = "leaving" /\ CallerAnswer(r)' = CallerAnswer(r)
    BY <1>1, <2>1, NextCallerStates DEF Invoking, CallerAnswer
  <2>3. /\ States' = [States EXCEPT ![r] = "leaving"]
        /\ Answers' = Answers /\ Recorded' = Recorded
    BY <1>1, <2>2, FlightOnlyMoves, SeenStep
  <2>4. CASE Holding(r)
    <3>1. Contract!Settle(r)
      BY <1>3, <2>3, <2>4 DEF Contract!Settle, Contract!Move, States, Answers, Recorded, Unguarded
    <3> QED BY <1>2, <2>4, <3>1 DEF Contract!Work, States
  <2>5. CASE ~Holding(r)
    <3>1. States' = States
      BY <1>1, <2>2, <2>5, CallerStates, FlightOnlyMoves, SeenStep
    <3> QED BY <1>2, <1>3, <2>3, <2>5, <3>1 DEF Contract!Leave, States, Answers, Recorded
  <2> QED BY <2>4, <2>5
<1> QED BY <1>4, <1>5

\* Inside the guarded section only _persist, complete() and release() are seen.
LEMMA WorkUnseen ==
    ASSUME TypeInv, TypeInv', ResendInv, ResendInv', NEW r \in Keyed,
           \/ PutAnswerLost(r) \/ PutRefused(r)
           \/ EvaluateRoute(r) \/ PolicyUnresolved(r) \/ ProviderSucceeds(r)
           \/ ProviderRaises(r) \/ \E category \in ProviderErrors : ProviderFails(r, category)
           \/ Publish(r)
    PROVE  Unseen
<1>1. /\ r \in Requests /\ HasKey(r) /\ Advance(r) /\ SharedOK
      /\ UNCHANGED << audit, unguarding >>
  BY KeyedFacts DEF PutAnswerLost, PutRefused, EvaluateRoute, PolicyUnresolved,
       ProviderSucceeds, ProviderRaises, ProviderFails, Publish, Advance, Keyed, TypeInv
<1>2. UNCHANGED << outcome, returned >>
  BY <1>1 DEF PutAnswerLost, PutRefused, EvaluateRoute, PolicyUnresolved,
       ProviderSucceeds, ProviderRaises, ProviderFails, Publish, Raise
<1>3. CASE PutAnswerLost(r) \/ PutRefused(r)
  <2>1. pc[r] \in {"put", "get"} /\ pc'[r] \in {"put", "get"}
    BY <1>1, <1>3 DEF PutAnswerLost, PutRefused, GoTo, SharedOK
  <2> QED BY <1>1, <1>2, <2>1, QuietUnseen
<1>4. CASE PolicyUnresolved(r) \/ ProviderRaises(r)
  <2>1. /\ pc[r] \in {"evaluate", "calling"} /\ pc'[r] = "release" /\ frame' = frame
    BY <1>1, <1>4 DEF PolicyUnresolved, ProviderRaises, Raise, GoTo, SharedOK
  <2>2. Holding(r) /\ Holding(r)'
    BY <1>1, <2>1, Working DEF Holding, Invoking, InvokingPoints
  <2> QED BY <1>1, <1>2, <2>2, QuietUnseen
<1>5. CASE EvaluateRoute(r)
  <2>1. pc[r] = "evaluate" /\ pc'[r] \in {"calling", "persist"}
    BY <1>1, <1>5, EvaluateShape DEF EvaluateRoute
  <2> QED BY <1>1, <1>2, <2>1, Working, WorkingNext, QuietUnseen
<1>6. CASE ProviderSucceeds(r) \/ \E category \in ProviderErrors : ProviderFails(r, category)
  <2>1. pc[r] = "calling" /\ pc'[r] \in {"calling", "persist"}
    BY <1>1, <1>6, AttemptShape DEF ProviderSucceeds, ProviderFails
  <2> QED BY <1>1, <1>2, <2>1, Working, WorkingNext, QuietUnseen
<1>7. CASE Publish(r)
  <2>1. /\ pc[r] = "publish" /\ pc'[r] = "complete"
        /\ frame'[r] = [frame[r] EXCEPT !.stamp = Clock(r)]
    BY <1>1, <1>7 DEF Publish, GoTo, SharedOK
  <2>2. Holding(r) /\ frame[r] \in Frames
    BY <1>1, <2>1, Working, InFlightFacts DEF InFlight, Invoking, InvokingPoints
  <2>3. frame'[r].resending = frame[r].resending
    BY <2>1, <2>2 DEF Frames
  <2>4. Holding(r)'
    BY <2>1, <2>2, <2>3 DEF Holding, Invoking, InvokingPoints
  <2> QED BY <1>1, <1>2, <2>2, <2>4, QuietUnseen
<1> QED BY <1>3, <1>4, <1>5, <1>6, <1>7

\* What the contract does not see leaves its variables alone.
LEMMA UnseenStutters == Unseen => UNCHANGED Contract!contractVars
BY DEF Unseen, Contract!contractVars, States, Answers, Recorded, Unguarded

LEMMA AdvanceSeen ==
    ASSUME TypeInv, TypeInv', LeaseInv, ResendInv, ResendInv', CameInv, AuditInv,
           NEW r \in Requests, Advance(r)
    PROVE  Unseen \/ Contract!Next
<1>1. CASE r \in Keyed
  <2>1. Unseen \/ Contract!Reserve(r) \/ Contract!Work(r) \/ Contract!Leave(r)
    BY <1>1, PutGrants, GetVanishedSeen, GetRejectedSeen, GetReplayedSeen, ReserveRaisesSeen,
       PersistSeen, LeaveSeen, WorkUnseen DEF Advance
  <2> QED BY <1>1, <2>1 DEF Contract!Next
<1>2. CASE r \notin Keyed
  <2>1. unguarding' = unguarding
    <3>1. pc[r] \notin {"get", "complete", "release"}
      BY <1>2 DEF TypeInv, LocalOK, Keyed
    <3> QED BY <3>1 DEF Advance, PutAccepted, PutAnswerLost, PutRefused,
         ReserveRaises, GetVanished, GetRejected, GetReplayed, EvaluateRoute, PolicyUnresolved,
         ProviderSucceeds, ProviderRaises, ProviderFails, Persist, PersistRaises, Publish,
         Complete, CompleteRaises, CompleteAnswerLost, Release, ReleaseAnswerLost
  <2>2. unguarding \subseteq Requests
    BY DEF TypeInv, SharedOK
  <2> QED BY <1>2, <2>1, <2>2, FlightOnlyMoves, SeenStep, UnguardedStays DEF Unseen
<1> QED BY <1>1, <1>2

LEMMA StartSeen ==
    ASSUME TypeInv, TypeInv', AuditInv, NEW r \in Requests, NEW e \in Envs, Start(r, e)
    PROVE  Unseen \/ Contract!Next
<1>1. /\ pc[r] = "idle" /\ pc[r] \in Points /\ pc'[r] \in Points
      /\ UNCHANGED << outcome, returned, audit, unguarding >> /\ unguarding \subseteq Requests
      /\ HasKey(r) => pc'[r] = "put"
      /\ \A q \in Requests \ {r} : pc'[q] = pc[q] /\ frame'[q] = frame[q]
  BY DEF Start, GoTo, TypeInv, SharedOK
<1>2. OnlyMoves(r)
  BY <1>1, KeyedFacts DEF OnlyMoves
<1>3. CallerAnswer(r)' = CallerAnswer(r)
  BY <1>1 DEF CallerAnswer
<1>4. Answers' = Answers /\ Recorded' = Recorded /\ Unguarded' = Unguarded
  BY <1>1, <1>2, <1>3, SeenStep, UnguardedStays
<1>5. CASE r \in Keyed
  <2>1. CallerState(r) = "idle" /\ CallerState(r)' = "asking"
    BY <1>1, <1>5, CallerStates, NextCallerStates DEF Keyed
  <2>2. States' = [States EXCEPT ![r] = "asking"] /\ States[r] = "idle"
    BY <1>2, <1>5, <2>1, SeenStep DEF States
  <2>3. Contract!Ask(r)
    BY <1>4, <2>2 DEF Contract!Ask, Contract!Move, States, Answers, Recorded, Unguarded
  <2> QED BY <1>5, <2>3 DEF Contract!Next
<1>6. CASE r \notin Keyed
  BY <1>2, <1>4, <1>6, SeenStep DEF Unseen
<1> QED BY <1>5, <1>6

\* The end of an environment is the end of at most one caller.
LEMMA KillSeen ==
    ASSUME TypeInv, TypeInv', OneServed, AuditInv, NEW e \in Envs, Kill(e)
    PROVE  Unseen \/ Contract!Next
<1>1. /\ UNCHANGED << returned, audit, unguarding >> /\ unguarding \subseteq Requests
      /\ \A q \in Requests : ~Serving(e, q) =>
            pc'[q] = pc[q] /\ frame'[q] = frame[q] /\ outcome'[q] = outcome[q]
      /\ \A q \in Requests : Serving(e, q) => pc'[q] = "done" /\ outcome'[q] = "killed"
  BY DEF Kill, TypeInv, SharedOK
<1>2. CASE \E r \in Keyed : Serving(e, r)
  <2>1. PICK r \in Keyed : Serving(e, r)
    BY <1>2
  <2>2. r \in Requests /\ InFlight(r) /\ pc[r] \in Points /\ pc'[r] \in Points
        /\ outcome'[r] \in Outcomes
    BY <2>1, KeyedFacts DEF Serving, TypeInv, SharedOK
  <2>3. \A q \in Requests \ {r} : ~Serving(e, q)
    BY <2>1, <2>2 DEF OneServed, Serving
  <2>4. OnlyMoves(r)
    BY <1>1, <2>3, KeyedFacts DEF OnlyMoves
  <2>5. CallerState(r)' = "gone" /\ CallerAnswer(r)' = "none"
    BY <1>1, <2>1, <2>2, NextCallerStates, NextCallerAnswers
  <2>6. CallerAnswer(r) = "none" /\ CallerState(r) \in {"asking", "working", "leaving"}
    BY <2>2, Unanswered, CallerStates DEF InFlight, Invoking, InvokingPoints
  <2>7. /\ States' = [States EXCEPT ![r] = "gone"] /\ Answers' = Answers
        /\ Recorded' = Recorded /\ Unguarded' = Unguarded
    BY <1>1, <2>2, <2>4, <2>5, <2>6, SeenStep, UnguardedStays
  <2>8. States[r] \in {"asking", "working", "leaving"}
    BY <2>6 DEF States
  <2>9. /\ Contract!Move(r, "gone") /\ Contract!Raise(r) /\ Contract!Depart(r)
        /\ Contract!Repeat(r)
    BY <2>7 DEF Contract!Move, Contract!Raise, Contract!Depart, Contract!Repeat,
                States, Answers, Recorded, Unguarded
  <2>10. Contract!Reserve(r) \/ Contract!Work(r) \/ Contract!Leave(r)
    BY <2>7, <2>8, <2>9
       DEF Contract!Reserve, Contract!Work, Contract!Leave, States, Recorded, Unguarded
  <2> QED BY <2>10 DEF Contract!Next
<1>3. CASE \A r \in Keyed : ~Serving(e, r)
  <2>1. \A q \in Keyed : CallerState(q)' = CallerState(q) /\ CallerAnswer(q)' = CallerAnswer(q)
    BY <1>1, <1>3, KeyedFacts DEF CallerState, CallerAnswer, Holding, Invoking
  <2>2. States' = States /\ Answers' = Answers /\ Recorded' = Recorded
    BY <1>1, <2>1, KeyedFacts DEF States, Answers, Recorded
  <2> QED BY <1>1, <2>2, UnguardedStays DEF Unseen
<1> QED BY <1>2, <1>3

LEMMA ContractStep ==
    TypeInv /\ TypeInv' /\ LeaseInv /\ OneServed /\ ResendInv /\ ResendInv' /\ CameInv
        /\ AuditInv /\ [Next]_vars
        => [Contract!Next]_(Contract!contractVars)
<1> SUFFICES ASSUME TypeInv, TypeInv', LeaseInv, OneServed, ResendInv, ResendInv', CameInv,
                    AuditInv, [Next]_vars
             PROVE  Unseen \/ Contract!Next
  BY UnseenStutters
<1>1. CASE UNCHANGED << pc, frame, outcome, returned, audit, unguarding >>
  <2>1. \A q \in Keyed : CallerState(q)' = CallerState(q) /\ CallerAnswer(q)' = CallerAnswer(q)
    BY <1>1 DEF CallerState, CallerAnswer, Holding, Invoking
  <2>2. States' = States /\ Answers' = Answers /\ Recorded' = Recorded
    BY <1>1, <2>1, KeyedFacts DEF States, Answers, Recorded
  <2> QED BY <1>1, <2>2, UnguardedStays DEF Unseen, TypeInv, SharedOK
<1> QED BY <1>1, AdvanceSeen, StartSeen, KillSeen DEF Next, TtlSweep, Replicate, Tick, vars

\* The orchestrator over DynamoDB implements the contract of the port, for any number
\* of requests, keys and environments: conditional puts, gets of stale copies,
\* repeated and lost calls, expiry, sweeps and kills, seen from outside, are the
\* steps of an atomic store that excludes and replays, gives up as it says, and lets
\* a late repeat of complete() or release() undo what others were granted.
THEOREM StoreKeepsContract == Spec => ImplementsContract
<1>1. ASSUME Init PROVE Contract!Init
  <2>1. \A r \in Keyed : pc[r] = "idle" /\ outcome[r] = "none" /\ audit[r] = NoRecord
    BY <1>1, KeyedFacts DEF Init
  <2>2. \A r \in Keyed : CallerState(r) = "idle" /\ CallerAnswer(r) = "none"
    BY <2>1, CallerStates, CallerAnswers, KeyedFacts DEF Points, Outcomes
  <2>3. States = [r \in Keyed |-> "idle"] /\ Answers = [r \in Keyed |-> "none"]
    BY <2>2 DEF States, Answers
  <2>4. Recorded = {} /\ Unguarded = {}
    BY <1>1, <2>1 DEF Recorded, Unguarded, Init
  <2> QED BY <2>3, <2>4 DEF Contract!Init, States, Answers, Recorded, Unguarded
<1> QED BY <1>1, ContractStep, TypeInvHolds, LeaseInvHolds, OneServedHolds, ResendHolds,
           CameInvHolds, AuditInvHolds, PTL
    DEF Spec, ImplementsContract, Contract!Spec

-----------------------------------------------------------------------------
(***************************************************************************)
(* The in-memory store in place of the DynamoDB one.                       *)
(***************************************************************************)
LEMMA ItemIsRecord ==
    ASSUME NEW item \in Items
    PROVE  /\ item # NoItem /\ AsRecord(item) \in Records /\ AsRecord(item) # NoItem
           /\ AsRecord(item).request_hash = item.hash
           /\ AsRecord(item).in_progress <=> item.status = "in_progress"
           /\ AsRecord(item).expires_at = item.expiresAt
<1>1. item # NoItem
  BY NoneAssumption
<1>2. AsRecord(item) = [ request_hash |-> item.hash, in_progress |-> item.status = "in_progress",
                         result |-> item.result, expires_at |-> item.expiresAt ]
  BY <1>1 DEF AsRecord
<1>3. AsRecord(item) \in Records
  BY <1>2 DEF Items, Records
<1>4. AsRecord(item).in_progress <=> item.status = "in_progress"
  <2>1. CASE item.status = "in_progress"
    <3>1. (item.status = "in_progress") = TRUE
      BY <2>1
    <3>2. AsRecord(item) = [ request_hash |-> item.hash, in_progress |-> TRUE,
                             result |-> item.result, expires_at |-> item.expiresAt ]
      BY <1>2, <3>1
    <3> QED BY <2>1, <3>2
  <2>2. CASE item.status # "in_progress"
    <3>1. (item.status = "in_progress") = FALSE
      BY <2>2
    <3>2. AsRecord(item) = [ request_hash |-> item.hash, in_progress |-> FALSE,
                             result |-> item.result, expires_at |-> item.expiresAt ]
      BY <1>2, <3>1
    <3> QED BY <2>2, <3>2
  <2> QED BY <2>1, <2>2
<1>5. /\ AsRecord(item).request_hash = item.hash /\ AsRecord(item).expires_at = item.expiresAt
  BY <1>2
<1>6. AsRecord(item) # NoItem
  BY <1>3, RecordAssumption
<1> QED BY <1>1, <1>3, <1>4, <1>5, <1>6

\* A fresh reservation is the same in both stores.
LEMMA ReservationIsRecord ==
    ASSUME NEW hash \in Hashes, NEW clock \in Int
    PROVE  AsRecord(Reservation(hash, clock)) = Memory!NewRecord(hash, clock)
<1>1. Reservation(hash, clock) \in Items
  BY StaleAssumption DEF Reservation, Items
<1>2. Reservation(hash, clock) # NoItem
  BY <1>1, NoneAssumption
<1> QED BY <1>2 DEF AsRecord, Reservation, Memory!NewRecord

\* reserve() of both stores on one item.
LEMMA ReservesAgree ==
    ASSUME NEW item \in Items \cup {NoItem}, NEW hash \in Hashes, NEW clock \in Int
    PROVE  LET record == AsRecord(item)
           IN  IF item # NoItem /\ item.expiresAt = clock
               THEN /\ Memory!ReserveOutcome(record, hash, clock) = "new"
                    /\ RoundOutcome(item, hash, clock) # "new"
               ELSE /\ Memory!ReserveOutcome(record, hash, clock) = RoundOutcome(item, hash, clock)
                    /\ Memory!RecordAfterReserve(record, hash, clock) =
                           AsRecord(IF PutCondition(item, clock)
                                    THEN Reservation(hash, clock) ELSE item)
<1>1. CASE item = NoItem
  <2>1. AsRecord(item) = NoItem /\ PutCondition(item, clock)
    BY <1>1 DEF AsRecord, PutCondition
  <2> QED BY <1>1, <2>1, ReservationIsRecord DEF Memory!ReserveOutcome, Memory!Honoured,
        Memory!RecordAfterReserve, RoundOutcome
<1>2. CASE item \in Items
  <2>1. /\ item # NoItem /\ AsRecord(item) # NoItem
        /\ AsRecord(item).request_hash = item.hash
        /\ AsRecord(item).in_progress <=> item.status = "in_progress"
        /\ AsRecord(item).expires_at = item.expiresAt
    BY <1>2, ItemIsRecord
  <2>2. item.expiresAt \in Int /\ item.status \in {"in_progress", "completed"}
    BY <1>2 DEF Items
  <2>3. CASE item.expiresAt = clock
    BY <2>1, <2>2, <2>3 DEF Memory!ReserveOutcome, Memory!Honoured, RoundOutcome, ReadOutcome,
         PutCondition
  <2>4. CASE item.expiresAt # clock
    <3>1. PutCondition(item, clock) <=> ~Memory!Honoured(AsRecord(item), clock)
      BY <2>1, <2>2, <2>4 DEF PutCondition, Memory!Honoured
    <3>2. Memory!ReserveOutcome(AsRecord(item), hash, clock) = RoundOutcome(item, hash, clock)
      BY <2>1, <2>2, <3>1 DEF Memory!ReserveOutcome, RoundOutcome, ReadOutcome
    <3>3. Memory!RecordAfterReserve(AsRecord(item), hash, clock) =
              AsRecord(IF PutCondition(item, clock) THEN Reservation(hash, clock) ELSE item)
      BY <3>1, ReservationIsRecord DEF Memory!RecordAfterReserve
    <3> QED BY <2>4, <3>2, <3>3
  <2> QED BY <2>3, <2>4
<1> QED BY <1>1, <1>2

\* complete() of both stores.
LEMMA CompletesAgree ==
    ASSUME NEW r \in Requests, Policy(r) # NoPolicy, NEW result \in InferenceResults,
           NEW clock \in Int, NEW caching, NEW seconds, seconds = Policy(r).retention_seconds
    PROVE  Memory!RecordAfterComplete(ContentOf(r), result, clock, caching, seconds)
               = AsRecord(Completion(ContentOf(r), result, clock, caching, seconds))
<1> DEFINE hash == ContentOf(r)
           item == [ hash |-> hash, status |-> "completed", result |-> result,
                     expiresAt |-> clock + seconds ]
<1>1. hash \in Hashes /\ clock + seconds \in Int
  <2>1. seconds \in Nat
    BY RequestAssumption DEF Request, Policy, ValidPolicy
  <2> QED BY <2>1 DEF ContentOf, Request, Hashes
<1>2. item \in Items
  BY <1>1 DEF Items
<1>3. item # NoItem
  BY <1>2, NoneAssumption
<1>4. AsRecord(item) = [ request_hash |-> hash, in_progress |-> FALSE, result |-> result,
                         expires_at |-> clock + seconds ]
  BY <1>3 DEF AsRecord
<1>5. AsRecord(NoItem) = NoItem
  BY DEF AsRecord
<1> QED BY <1>4, <1>5 DEF Memory!RecordAfterComplete, Completion

\* The tests' stand-in is faithful whatever the table holds, for every policy, clock
\* and content, save in the second of the expiry.
THEOREM StandInIsFaithful == Spec => []DoublesAgree
<1>1. TypeInv => DoublesAgree
  <2> SUFFICES ASSUME TypeInv, NEW k \in ItemKeys, NEW e \in Envs,
                      NEW item, item = table[k], NEW clock, clock = now + Skew[e]
               PROVE  /\ \A hash \in Hashes :
                            LET record == AsRecord(item)
                            IN  IF item # NoItem /\ item.expiresAt = clock
                                THEN /\ Memory!ReserveOutcome(record, hash, clock) = "new"
                                     /\ RoundOutcome(item, hash, clock) # "new"
                                ELSE /\ Memory!ReserveOutcome(record, hash, clock)
                                            = RoundOutcome(item, hash, clock)
                                     /\ Memory!RecordAfterReserve(record, hash, clock) =
                                            AsRecord(IF PutCondition(item, clock)
                                                     THEN Reservation(hash, clock) ELSE item)
                      /\ \A r \in Requests : pc[r] = "complete" =>
                            LET caching == Policy(r).allow_response_caching
                                seconds == Policy(r).retention_seconds
                                result  == frame[r].result
                            IN  Memory!RecordAfterComplete(ContentOf(r), result, clock, caching, seconds)
                                  = AsRecord(Completion(ContentOf(r), result, clock, caching, seconds))
                      /\ Memory!RecordAfterRelease = AsRecord(Released)
    BY DEF DoublesAgree
  <2>1. item \in Items \cup {NoItem} /\ clock \in Int
    BY TimeoutAssumption DEF TypeInv, SharedOK
  <2>2. ASSUME NEW r \in Requests, pc[r] = "complete"
        PROVE  Policy(r) # NoPolicy /\ frame[r].result \in InferenceResults
    BY <2>2 DEF TypeInv, LocalOK
  <2>3. Memory!RecordAfterRelease = AsRecord(Released)
    BY DEF Memory!RecordAfterRelease, AsRecord, Released
  <2>4. \A r \in Requests : pc[r] = "complete" =>
            Memory!RecordAfterComplete(ContentOf(r), frame[r].result, clock,
                    Policy(r).allow_response_caching, Policy(r).retention_seconds)
              = AsRecord(Completion(ContentOf(r), frame[r].result, clock,
                    Policy(r).allow_response_caching, Policy(r).retention_seconds))
    BY <2>1, <2>2, CompletesAgree
  <2>5. \A hash \in Hashes :
          LET record == AsRecord(item)
          IN  IF item # NoItem /\ item.expiresAt = clock
              THEN /\ Memory!ReserveOutcome(record, hash, clock) = "new"
                   /\ RoundOutcome(item, hash, clock) # "new"
              ELSE /\ Memory!ReserveOutcome(record, hash, clock) = RoundOutcome(item, hash, clock)
                   /\ Memory!RecordAfterReserve(record, hash, clock) =
                          AsRecord(IF PutCondition(item, clock)
                                   THEN Reservation(hash, clock) ELSE item)
    BY <2>1, ReservesAgree
  <2> QED BY <2>3, <2>4, <2>5
<1> QED BY <1>1, TypeInvHolds, PTL

=============================================================================
