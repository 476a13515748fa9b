----------------------- MODULE IdempotencyRefinement -----------------------
(***************************************************************************)
(* The orchestrator over the DynamoDB store keeps the contract of the port *)
(* (IdempotencyContract), and the DynamoDB store answers as the in-memory  *)
(* one does, which stands in for it in the repository's tests.             *)
(***************************************************************************)
EXTENDS InvocationOrchestrator

Keyed == {r \in Requests : HasKey(r)}

CallerState(r) ==
    CASE pc[r] = "idle"           -> "idle"
      [] pc[r] \in {"put", "get"} -> "asking"
      [] Holding(r)               -> "working"
      [] Invoking(r) /\ ~Holding(r) -> "leaving"
      [] pc[r] = "done"           -> "gone"

CallerAnswer(r) ==
    CASE outcome[r] \in {"none", "error", "killed"}    -> "none"
      [] outcome[r] \in {"conflict", "in_progress"}    -> outcome[r]
      [] outcome[r] = "replayed" -> returned[r].decision.decision_id
      [] outcome[r] = "ok"       -> r

ContentOf(r) == Request(r).hash

Contract == INSTANCE IdempotencyContract WITH
    Callers   <- Keyed,
    KeyOf     <- ItemKey,
    HashOf    <- ContentOf,
    state     <- [r \in Keyed |-> CallerState(r)],
    answer    <- [r \in Keyed |-> CallerAnswer(r)],
    recorded  <- {r \in Keyed : audit[r] # NoRecord},
    unguarded <- {ItemKey(r) : r \in unguarding}

\* Puts and gets that interleave, expire, repeat, read stale items and lose
\* answers look, from outside, like the atomic store of the contract; what a
\* caller records is its audit record, so no result is handed out, first or
\* again, that is not in the decision table.
ImplementsContract == Contract!Spec

-----------------------------------------------------------------------------
Memory == INSTANCE InMemoryIdempotencyStore

\* The in-memory store's records, none of which is None.
Records ==
    [ request_hash : Hashes, in_progress : BOOLEAN,
      result : InferenceResults \cup {NoResult}, expires_at : Int ]

ASSUME RecordAssumption == NoItem \notin Records

AsRecord(item) ==
    IF item = NoItem THEN NoItem
    ELSE [ request_hash |-> item.hash, in_progress |-> item.status = "in_progress",
           result |-> item.result, expires_at |-> item.expiresAt ]

\* One undisturbed round of _try_reserve, its get reading the latest item.
RoundOutcome(item, hash, clock) ==
    IF PutCondition(item, clock) THEN "new" ELSE ReadOutcome(item, hash)

\* The stand-in is faithful: on whatever the table holds, for every content and
\* every environment's clock, both stores answer the same and leave the same
\* record behind.  The one exception is the second of the expiry itself, in
\* which only DynamoDB's strict comparison still honours the item.
DoublesAgree ==
    \A k \in ItemKeys, e \in Envs :
        LET item   == table[k]
            record == AsRecord(item)
            clock  == now + Skew[e]
        IN  /\ \A hash \in Hashes :
                  IF item # NoItem /\ item.expiresAt = clock
                  THEN /\ Memory!ReserveOutcome(record, hash, clock) = "new"
                       /\ RoundOutcome(item, hash, clock) # "new"
                  ELSE /\ Memory!ReserveOutcome(record, hash, clock)
                              = RoundOutcome(item, hash, clock)
                       /\ Memory!RecordAfterReserve(record, hash, clock) =
                              AsRecord(IF PutCondition(item, clock)
                                       THEN Reservation(hash, clock) ELSE item)
            /\ \A r \in Requests : pc[r] = "complete" =>
                  LET caching == Policy(r).allow_response_caching
                      seconds == Policy(r).retention_seconds
                      result  == frame[r].result
                  IN  Memory!RecordAfterComplete(ContentOf(r), result, clock, caching, seconds)
                        = AsRecord(Completion(ContentOf(r), result, clock, caching, seconds))
            /\ Memory!RecordAfterRelease = AsRecord(Released)

=============================================================================
