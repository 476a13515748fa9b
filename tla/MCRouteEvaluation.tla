------------------------- MODULE MCRouteEvaluation -------------------------
(***************************************************************************)
(* RouteEvaluationService over a catalogue of three models, one policy per *)
(* strategy and override setting, and requests at the limits.              *)
(***************************************************************************)
EXTENDS RouteEvaluationService

CONSTANTS m1, m2, m3

MCRank == [m \in Models |-> CASE m = m1 -> 2 [] m = m2 -> 1 [] OTHER -> 3]

\* Prices are chosen so that estimates fall on, and just beside, a half micro-USD, and
\* that m1 and m2 cost the same once rounded.
MCCatalogue ==
    [ m \in Models |->
        [ provider |-> IF m = m3 THEN "openai" ELSE "bedrock",
          capability_tags |-> IF m = m3 THEN {"text", "code"} ELSE {"text"},
          quality_tier |-> IF m = m3 THEN "premium" ELSE "standard",
          typical_latency |-> CASE m = m1 -> "high" [] m = m2 -> "balanced" [] OTHER -> "low",
          max_input_tokens |-> 3, max_output_tokens |-> CASE m = m1 -> 4 [] m = m2 -> 2 [] OTHER -> 3,
          supports_tool_use |-> m # m1, supports_structured_output |-> m = m1,
          input_price |-> CASE m = m1 -> 500 [] m = m2 -> 250 [] OTHER -> 1500,
          output_price |-> CASE m = m1 -> 1000 [] m = m2 -> 1825 [] OTHER -> 2000 ] ]

MCPolicy(strategy, tiers, overrides, arms) ==
    [ allowed_capabilities |-> {"text", "vision"},
      allowed_model_aliases |-> IF strategy = "quality_tier" THEN {m1, m3} ELSE Models,
      allowed_quality_tiers |-> tiers, default_quality_tier |-> "standard",
      maximum_estimated_cost |-> 4000, maximum_output_tokens |-> 3,
      routing_strategy |-> strategy, preferred_model_alias |-> m1,
      latency_preference |-> "balanced", allow_client_overrides |-> overrides,
      fallback_model_aliases |-> << >>, maximum_attempts |-> 1,
      arms |-> arms, experiment_id |-> "x", subject_key_source |-> "application_and_conversation",
      allow_response_caching |-> FALSE, retention_seconds |-> 300 ]

Arms == << [alias |-> m1, weight |-> 2], [alias |-> m2, weight |-> 3] >>

MCPolicies ==
    { MCPolicy(strategy, tiers, overrides, IF strategy = "experiment" THEN Arms ELSE << >>) :
        strategy \in Strategies, tiers \in {{"standard"}, {"standard", "premium"}},
        overrides \in {{}, OverridableFields} }

MCRequests ==
    { [ application |-> "app", conversation |-> conversation, chars |-> chars,
        requirements |->
          [ capability |-> capability, quality_tier |-> tier,
            maximum_estimated_cost |-> limits[1], maximum_output_tokens |-> limits[2],
            latency_preference |-> Unset,
            requires_tool_use |-> tool, requires_structured_output |-> FALSE ] ] :
        conversation \in {"c", Unset}, chars \in {0, 12, 13}, capability \in {"text", "vision"},
        tier \in {Unset, "premium"}, tool \in BOOLEAN,
        limits \in {<< Unset, Unset >>, << 3000, 2 >>, << 9000, 2 >>, << 9000, 4 >>} }

\* Two subjects on either side of the boundary between the arms.
MCHash == [key \in {<<"x", "app">>, <<"x", "app", "c">>} |-> Len(key) * 2]
=============================================================================
