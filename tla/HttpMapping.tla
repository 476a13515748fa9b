---------------------------- MODULE HttpMapping ----------------------------
(***************************************************************************)
(* handlers/error_mapping.py and handlers/request_mapping.py: how outcomes *)
(* become status and error code, which request bodies are refused, and     *)
(* what a decision or the catalogue looks like to a client.                *)
(*                                                                         *)
(* Data.  An exception is its class; a body is the way it is wrong, or     *)
(* "valid".  Of a serialized decision the route is kept, message texts,    *)
(* timestamps and the usage figures are not.                               *)
(***************************************************************************)
EXTENDS RouteEvaluation

Error(status, code) == [status |-> status, code |-> code]

MapException(exception) ==
    CASE exception = "RoutingPolicyNotFoundError" -> Error(403, "POLICY_DENIED")
      [] exception = "IdempotencyConflictError"   -> Error(409, "IDEMPOTENCY_CONFLICT")
      [] exception = "IdempotencyInProgressError" -> Error(409, "IDEMPOTENCY_IN_PROGRESS")
      [] exception = "ProviderError"              -> Error(502, "PROVIDER_UNAVAILABLE")
      [] OTHER                                    -> Error(500, "INTERNAL_ERROR")

\* Seeded fault: any() for all().
CostRejectedSome(candidates) ==
    \E alias \in Models :
        /\ candidates[alias] # NotConsidered
        /\ ~candidates[alias].eligible
        /\ "COST_LIMIT_EXCEEDED" \in candidates[alias].reason_codes

\* Every model that was considered is too dear, and there was one.
CostRejectedOnly(candidates) ==
    LET considered == {alias \in Models : candidates[alias] # NotConsidered}
    IN  /\ considered # {}
        /\ \A alias \in considered :
              /\ ~candidates[alias].eligible
              /\ "COST_LIMIT_EXCEEDED" \in candidates[alias].reason_codes

\* Seeded fault: the reason codes alone decide, attempts or not.
MapByCodes(decision, invocation_attempted) ==
    IF "REQUIRED_CAPABILITY_UNAVAILABLE" \in decision.reason_codes
         THEN Error(422, "REQUIRED_CAPABILITY_UNAVAILABLE")
    ELSE IF CostRejectedOnly(decision.candidates) THEN Error(402, "COST_LIMIT_EXCEEDED")
    ELSE Error(404, "NO_ELIGIBLE_MODEL")

\* An inference that ended without a selected model.
MapNoSelection(decision, invocation_attempted) ==
    IF invocation_attempted THEN Error(502, "PROVIDER_UNAVAILABLE")
    ELSE IF "REQUIRED_CAPABILITY_UNAVAILABLE" \in decision.reason_codes
         THEN Error(422, "REQUIRED_CAPABILITY_UNAVAILABLE")
    ELSE IF CostRejectedOnly(decision.candidates) THEN Error(402, "COST_LIMIT_EXCEEDED")
    ELSE Error(404, "NO_ELIGIBLE_MODEL")

-----------------------------------------------------------------------------
\* Ways for a POST body to be wrong.  The checks for size, JSON syntax and
\* schema answer 400; what they do not foresee (bytes that do not decode, JSON
\* that is no object, requirements that are none) ends in dispatch's handler.
Refused   == {"too_large", "not_json", "fails_validation"}
Unforeseen == {"undecodable", "not_an_object", "requirements_not_an_object"}
Bodies == {"valid"} \cup Refused \cup Unforeseen

BodyError(body) ==
    IF body \in Refused THEN Error(400, "INVALID_REQUEST") ELSE Error(500, "INTERNAL_ERROR")

\* The "route" object of every response that shows a decision.
SerializeRoute(decision) ==
    [ modelAlias |-> decision.selected, provider |-> decision.provider,
      fallbackUsed |-> decision.fallback_used, reasonCodes |-> decision.reason_codes ]

-----------------------------------------------------------------------------
(***************************************************************************)
(* GET /v1/models.                                                         *)
(***************************************************************************)
LatencyRank(latency) ==
    CASE latency = "low" -> 0 [] latency = "balanced" -> 1 [] latency = "high" -> 2

BestLatency(group) ==
    CHOOSE latency \in {Catalogue[m].typical_latency : m \in group} :
        \A m \in group : LatencyRank(latency) <= LatencyRank(Catalogue[m].typical_latency)

\* Seeded fault: all() for any().
CapabilityOfAll(capability, group) ==
    [ capability |-> capability,
      qualityTiers |-> {Catalogue[m].quality_tier : m \in group},
      supportsToolUse |-> \A m \in group : Catalogue[m].supports_tool_use,
      supportsStructuredOutput |-> \A m \in group : Catalogue[m].supports_structured_output,
      typicalLatency |-> BestLatency(group) ]

\* What is said of a capability: the union of what its models offer.
CapabilityOf(capability, group) ==
    [ capability |-> capability,
      qualityTiers |-> {Catalogue[m].quality_tier : m \in group},
      supportsToolUse |-> \E m \in group : Catalogue[m].supports_tool_use,
      supportsStructuredOutput |-> \E m \in group : Catalogue[m].supports_structured_output,
      typicalLatency |-> BestLatency(group) ]

SerializeModelsResponse ==
    { CapabilityOf(capability, FindByCapability(capability)) :
        capability \in UNION {Catalogue[m].capability_tags : m \in Models} }

=============================================================================
