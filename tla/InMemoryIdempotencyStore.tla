---------------------- MODULE InMemoryIdempotencyStore ----------------------
(***************************************************************************)
(* InMemoryIdempotencyStore: the store of tests, scripts and local runs.   *)
(* Each method holds the lock from beginning to end, so it is one step on  *)
(* the record of one (application_id, idempotency_key); the operators give *)
(* the outcome and the record after it.                                    *)
(***************************************************************************)
EXTENDS Integers

CONSTANTS StaleReservationSeconds, NoItem, NoResult

NewRecord(hash, clock) ==
    [ request_hash |-> hash, in_progress |-> TRUE, result |-> NoResult,
      expires_at |-> clock + StaleReservationSeconds ]

\* Seeded fault: a completed record never expires.
HonouredForever(record, clock) ==
    record # NoItem /\ (record.in_progress => clock < record.expires_at)

\* record is not None and now < record.expires_at
Honoured(record, clock) == record # NoItem /\ clock < record.expires_at

ReserveOutcome(record, hash, clock) ==
    IF ~Honoured(record, clock) THEN "new"
    ELSE IF record.request_hash # hash THEN "conflict"
    ELSE IF record.in_progress THEN "in_progress"
    ELSE "completed"

RecordAfterReserve(record, hash, clock) ==
    IF Honoured(record, clock) THEN record ELSE NewRecord(hash, clock)

RecordAfterComplete(hash, result, clock, cache_result, retention) ==
    IF cache_result
    THEN [ request_hash |-> hash, in_progress |-> FALSE, result |-> result,
           expires_at |-> clock + retention ]
    ELSE NoItem

RecordAfterRelease == NoItem

=============================================================================
