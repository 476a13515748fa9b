-------------------------------- MODULE MCApi --------------------------------
(***************************************************************************)
(* ApiHandler on a small instance: two inferences under one key of an      *)
(* application that lives on the default policy, and one further call of   *)
(* any kind, by this or another application.                               *)
(***************************************************************************)
EXTENDS ApiHandler, TLC

CONSTANTS m1, r1, r2, x1, e1, e2, k1

MCRank == [m \in Models |-> 1]
MCCatalogue ==
    [ m \in Models |->
        [ provider |-> "bedrock", capability_tags |-> {"text"}, quality_tier |-> "standard",
          typical_latency |-> "balanced",
          max_input_tokens |-> 4, max_output_tokens |-> 4,
          supports_tool_use |-> FALSE, supports_structured_output |-> FALSE,
          input_price |-> 1000, output_price |-> 1000 ] ]

\* One policy allows the model, the other cannot pay for it.
MCPolicy(limit) ==
    [ allowed_capabilities |-> {"text"}, allowed_model_aliases |-> Models,
      allowed_quality_tiers |-> {"standard"}, default_quality_tier |-> "standard",
      maximum_estimated_cost |-> limit, maximum_output_tokens |-> 2,
      routing_strategy |-> "preferred_model", preferred_model_alias |-> m1,
      latency_preference |-> "balanced", allow_client_overrides |-> {},
      fallback_model_aliases |-> << >>, maximum_attempts |-> 1,
      arms |-> << >>, experiment_id |-> Unset, subject_key_source |-> "application_id",
      allow_response_caching |-> TRUE, retention_seconds |-> 1 ]

MCDefault == MCPolicy(20000)
MCApplicationFile ==
    [ a \in {"guest", "own", "broken"} |->
        CASE a = "guest" -> NoFile [] a = "own" -> MCPolicy(1000) [] a = "broken" -> BadFile ]
MCPolicyOf ==
    [ a \in {"guest", "own", "broken"} |->
        CASE a = "guest" -> MCDefault [] a = "own" -> MCPolicy(1000) [] a = "broken" -> NoPolicy ]

MCRequest(application, key) ==
    [ application |-> application, key |-> key, hash |-> "h1", chars |-> 4,
      conversation |-> Unset,
      requirements |->
        [ capability |-> "text", quality_tier |-> Unset, maximum_estimated_cost |-> Unset,
          maximum_output_tokens |-> Unset, latency_preference |-> Unset,
          requires_tool_use |-> FALSE, requires_structured_output |-> FALSE ] ]
MCRequestOf == [r \in Requests |-> MCRequest("guest", k1)]

Event(endpoint, body, application, decision) ==
    [ endpoint |-> endpoint, body |-> body, application |-> application,
      decision |-> decision, request |-> MCRequest(application, NoKey) ]

MCEventsOf ==
    [ c \in Others |->
        {Event(endpoint, "valid", "guest", NoId) :
            endpoint \in {"health", "ready", "models", "unknown", "decision"}}
        \cup {Event("inference", body, "guest", NoId) : body \in Bodies \ {"valid"}}
        \cup {Event("evaluate", "valid", a, NoId) : a \in Applications}
        \cup {Event("decision", "valid", a, d) : a \in {"guest", "own"}, d \in Calls} ]

\* The two inferences, and the environments, differ in name only.
Twins == Permutations(Requests) \cup Permutations(Envs)

NoSkew  == [e \in Envs |-> 0]
NoHash  == [key \in {} |-> 0]
=============================================================================
