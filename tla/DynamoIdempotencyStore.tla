----------------------- MODULE DynamoIdempotencyStore -----------------------
(***************************************************************************)
(* DynamoDbIdempotencyStore: what each of its table calls does to the item *)
(* of one (application_id, idempotency_key).  reserve() is not one atomic  *)
(* step: a conditional put_item, then, if refused, a get_item, the pair    *)
(* tried at most MaxReserveAttempts times.  InvocationOrchestrator takes   *)
(* the calls one at a time, between the calls of other instances.          *)
(***************************************************************************)
EXTENDS Integers

CONSTANTS
    StaleReservationSeconds,    \* how long an in-progress item is honoured
    NoItem,                     \* the table has no item under the key
    NoResult

ASSUME StaleAssumption == StaleReservationSeconds \in Nat \ {0}

MaxReserveAttempts == 2

\* Seeded fault: an item is taken over in the second it is still honoured in.
PutConditionInclusive(item, clock) == item # NoItem => item.expiresAt <= clock

\* attribute_not_exists(pk) OR expiresAt < :now
PutCondition(item, clock) == item # NoItem => item.expiresAt < clock

\* Seeded fault: seconds taken for milliseconds.
ReservationMillis(hash, clock) ==
    [ hash |-> hash, status |-> "in_progress", result |-> NoResult,
      expiresAt |-> clock + 1000 * StaleReservationSeconds ]

\* The item written by the conditional put of _try_reserve.
Reservation(hash, clock) ==
    [ hash |-> hash, status |-> "in_progress", result |-> NoResult,
      expiresAt |-> clock + StaleReservationSeconds ]

\* Seeded fault: the request hash is not compared.
ReadOutcomeUnhashed(item, hash) == IF item = NoItem THEN "vanished" ELSE item.status

\* What _try_reserve concludes from the item its get_item returned.  The
\* item's expiresAt is not looked at again.
ReadOutcome(item, hash) ==
    IF item = NoItem THEN "vanished"
    ELSE IF item.hash # hash THEN "conflict"
    ELSE item.status

\* Seeded fault: the flag is read the wrong way round.
CompletionInverted(hash, result, clock, cache_result, retention) ==
    IF ~cache_result
    THEN [ hash |-> hash, status |-> "completed", result |-> result,
           expiresAt |-> clock + retention ]
    ELSE NoItem

\* The item after complete(): the cached result, or nothing.  Neither this
\* put nor the delete of release() checks whose reservation it replaces.
Completion(hash, result, clock, cache_result, retention) ==
    IF cache_result
    THEN [ hash |-> hash, status |-> "completed", result |-> result,
           expiresAt |-> clock + retention ]
    ELSE NoItem

\* The item after release().
Released == NoItem

=============================================================================
