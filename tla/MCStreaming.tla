---------------------------- MODULE MCStreaming ----------------------------
(***************************************************************************)
(* StreamingOrchestrator with two streams, each of an application that     *)
(* falls back over two models, of one that may try one model only, of one  *)
(* whose limit lets no model through, with an idempotency key, or without  *)
(* a policy.                                                               *)
(***************************************************************************)
EXTENDS StreamingOrchestrator, TLC

CONSTANTS m1, m2, s1, s2

MCRank == [m \in Models |-> IF m = m1 THEN 1 ELSE 2]

MCCatalogue ==
    [ m \in Models |->
        [ provider |-> IF m = m1 THEN "bedrock" ELSE "openai", capability_tags |-> {"text"},
          quality_tier |-> "standard", typical_latency |-> "low",
          max_input_tokens |-> 4, max_output_tokens |-> 4,
          supports_tool_use |-> FALSE, supports_structured_output |-> FALSE,
          input_price |-> 1000, output_price |-> 1000 ] ]

MCPolicy(cost, attempts) ==
    [ allowed_capabilities |-> {"text"}, allowed_model_aliases |-> Models,
      allowed_quality_tiers |-> {"standard"}, default_quality_tier |-> "standard",
      maximum_estimated_cost |-> cost, maximum_output_tokens |-> 2,
      routing_strategy |-> "preferred_model", preferred_model_alias |-> m1,
      latency_preference |-> "balanced", allow_client_overrides |-> {},
      fallback_model_aliases |-> << m2, m1, m2 >>, maximum_attempts |-> attempts,
      arms |-> << >>, experiment_id |-> Unset, subject_key_source |-> "application_id",
      allow_response_caching |-> FALSE, retention_seconds |-> 300 ]

MCPolicyOf ==
    [ a \in {"app", "hasty", "poor", "stranger"} |->
        CASE a = "app" -> MCPolicy(9000, 3) [] a = "hasty" -> MCPolicy(9000, 1)
          [] a = "poor" -> MCPolicy(1000, 3) [] OTHER -> NoPolicy ]

MCRequest(application, key) ==
    [ application |-> application, key |-> key, chars |-> 4, conversation |-> Unset,
      requirements |->
        [ capability |-> "text", quality_tier |-> Unset, maximum_estimated_cost |-> Unset,
          maximum_output_tokens |-> Unset, latency_preference |-> Unset,
          requires_tool_use |-> FALSE, requires_structured_output |-> FALSE ] ]

MCStreamRequests ==
    { MCRequest("app", NoKey), MCRequest("hasty", NoKey), MCRequest("poor", NoKey),
      MCRequest("app", "k1"), MCRequest("stranger", NoKey) }

\* Streams differ in nothing but their name.
Callers == Permutations(Streams)

NoHash == [key \in {} |-> 0]
=============================================================================
