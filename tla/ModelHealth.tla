---------------------------- MODULE ModelHealth ----------------------------
(***************************************************************************)
(* InMemoryModelHealthRepository: model health derived from a counter of   *)
(* consecutive failures per model alias.  The operators act on a function  *)
(* failures \in [Models -> Nat], the _consecutive_failures dictionary with *)
(* an absent alias counted as 0.  Both methods hold the repository's lock  *)
(* while they touch the counter.                                           *)
(***************************************************************************)
EXTENDS Naturals, RouterTypes

CONSTANTS DegradedAfter, UnavailableAfter

\* The constructor's own check.
ASSUME ThresholdAssumption ==
    /\ DegradedAfter \in Nat /\ UnavailableAfter \in Nat
    /\ 1 <= DegradedAfter /\ DegradedAfter < UnavailableAfter

HealthAffectingStatuses == {"throttled", "transient_error", "timeout"}

\* Seeded fault: the thresholds are exceeded, not reached.
GetHealthLate(failures, model) ==
    IF failures[model] > UnavailableAfter THEN "unavailable"
    ELSE IF failures[model] > DegradedAfter THEN "degraded"
    ELSE "healthy"

GetHealth(failures, model) ==
    IF failures[model] >= UnavailableAfter THEN "unavailable"
    ELSE IF failures[model] >= DegradedAfter THEN "degraded"
    ELSE "healthy"

\* The counters after record_outcome(model, status): a success resets, a
\* retryable failure increments, a permanent error changes nothing.
RecordOutcome(failures, model, status) ==
    IF status = "succeeded" THEN [failures EXCEPT ![model] = 0]
    ELSE IF status \in HealthAffectingStatuses
         THEN [failures EXCEPT ![model] = @ + 1]
    ELSE failures

=============================================================================
