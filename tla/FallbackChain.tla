--------------------------- MODULE FallbackChain ---------------------------
(***************************************************************************)
(* What invoke() and invoke_stream() of InvocationOrchestrator share: the  *)
(* chain of models to try, and the result and audit record made of what    *)
(* happened.  _build_candidate_chain is consumed one alias at a time: the  *)
(* selected model first, then the policy's fallback aliases in order,      *)
(* eligible ones only, each alias once, maximum_attempts in all.           *)
(***************************************************************************)
EXTENDS RouteEvaluation

Tried(atts) == {atts[i].model_alias : i \in DOMAIN atts}

\* Seeded fault: an alias may come up again.
RepeatedPositions(d, policy, atts) ==
    {i \in DOMAIN policy.fallback_model_aliases :
        policy.fallback_model_aliases[i] \in EligibleAliases(d.candidates)}

FallbackPositions(d, policy, atts) ==
    {i \in DOMAIN policy.fallback_model_aliases :
        /\ policy.fallback_model_aliases[i] \in EligibleAliases(d.candidates)
        /\ policy.fallback_model_aliases[i] \notin Tried(atts)}

\* Seeded fault: maximum_attempts is not looked at.
UncappedCandidate(d, policy, atts) ==
    LET positions == FallbackPositions(d, policy, atts)
    IN  IF atts = << >> /\ d.selected # NoModel THEN d.selected
        ELSE IF positions = {} THEN NoModel
        ELSE policy.fallback_model_aliases[CHOOSE i \in positions :
                                               \A j \in positions : i <= j]

NextCandidate(d, policy, atts) ==
    LET positions == FallbackPositions(d, policy, atts)
    IN  IF atts = << >> /\ d.selected # NoModel THEN d.selected
        ELSE IF Len(atts) >= policy.maximum_attempts \/ positions = {} THEN NoModel
        ELSE policy.fallback_model_aliases[CHOOSE i \in positions :
                                               \A j \in positions : i <= j]

\* Seeded fault: fallback_used without asking whether anything succeeded.
AggregateAnyway(d, succeeded, codes) ==
    [d EXCEPT
        !.selected = succeeded,
        !.provider = IF succeeded = NoModel THEN Unset ELSE d.candidates[succeeded].provider,
        !.fallback_used = succeeded # d.selected,
        !.reason_codes = (@ \ {"NO_ELIGIBLE_MODEL"}) \cup codes,
        !.estimated_cost =
            IF succeeded = NoModel THEN Unset ELSE d.candidates[succeeded].estimated_cost]

\* _aggregate_decision.
AggregateDecision(d, succeeded, codes) ==
    [d EXCEPT
        !.selected = succeeded,
        !.provider = IF succeeded = NoModel THEN Unset ELSE d.candidates[succeeded].provider,
        !.fallback_used = succeeded # NoModel /\ succeeded # d.selected,
        !.reason_codes = (@ \ {"NO_ELIGIBLE_MODEL"}) \cup codes,
        !.estimated_cost =
            IF succeeded = NoModel THEN Unset ELSE d.candidates[succeeded].estimated_cost]

\* The response's content is abstracted to the alias of the model that gave it.
InferenceResult(d, response, atts) ==
    [decision |-> d, response |-> response, attempts |-> atts]

\* Seeded fault: the response content is kept in the audit record (against ADR-008).
AuditEverything(res) == res

AuditRecord(res) == [decision |-> res.decision, attempts |-> res.attempts]

Attempt(alias, status) == [model_alias |-> alias, status |-> status]

=============================================================================
