--------------------------- MODULE MCOrchestrator ---------------------------
(***************************************************************************)
(* InvocationOrchestrator on small instances: the catalogue, policies and  *)
(* requests that the runs' configurations choose from.                     *)
(***************************************************************************)
EXTENDS IdempotencyRefinement, TLC

CONSTANTS m1, m2, m3            \* model aliases
CONSTANTS r1, r2, r3            \* requests
CONSTANTS e1, e2                \* environments
CONSTANTS k1                    \* an idempotency key

\* Money: prices in nano-USD per token.
MCModel(tier, price) ==
    [ provider |-> "bedrock", capability_tags |-> {"text"}, quality_tier |-> tier,
      typical_latency |-> "balanced",
      max_input_tokens |-> 4, max_output_tokens |-> 4,
      supports_tool_use |-> FALSE, supports_structured_output |-> FALSE,
      input_price |-> price, output_price |-> price ]

MCRank == [m \in Models |-> CASE m = m1 -> 1 [] m = m2 -> 2 [] OTHER -> 3]
MCCatalogue ==
    [m \in Models |-> MCModel("standard", CASE m = m1 -> 1000 [] m = m2 -> 2000 [] OTHER -> 3000)]

MCPolicy(strategy, fallbacks, attemptsAllowed, caching) ==
    [ allowed_capabilities |-> {"text"}, allowed_model_aliases |-> Models,
      allowed_quality_tiers |-> {"standard"}, default_quality_tier |-> "standard",
      maximum_estimated_cost |-> 20000, maximum_output_tokens |-> 2,
      routing_strategy |-> strategy, preferred_model_alias |-> m1,
      latency_preference |-> "balanced", allow_client_overrides |-> {},
      fallback_model_aliases |-> fallbacks, maximum_attempts |-> attemptsAllowed,
      arms |-> << >>, experiment_id |-> Unset, subject_key_source |-> "application_id",
      allow_response_caching |-> caching, retention_seconds |-> 2 ]

MCPolicyOf ==
    [ a \in {"caching", "brief", "plain", "patient", "dear"} |->
        CASE a = "caching"  -> MCPolicy("preferred_model", << >>, 1, TRUE)
          [] a = "brief"    -> [ MCPolicy("preferred_model", << >>, 1, TRUE) EXCEPT
                                   !.retention_seconds = 1 ]
          [] a = "plain"    -> MCPolicy("preferred_model", << >>, 1, FALSE)
          [] a = "patient"  -> MCPolicy("preferred_model", << m1, m2, m2, m3 >>, 3, FALSE)
          [] OTHER          -> [ MCPolicy("preferred_model", << m1, m2 >>, 1, FALSE) EXCEPT
                                   !.preferred_model_alias = m3, !.maximum_estimated_cost = 7000 ] ]

MCRequest(application, key, hash) ==
    [ application |-> application, key |-> key, hash |-> hash, chars |-> 4,
      conversation |-> Unset,
      requirements |->
        [ capability |-> "text", quality_tier |-> Unset, maximum_estimated_cost |-> Unset,
          maximum_output_tokens |-> Unset, latency_preference |-> Unset,
          requires_tool_use |-> FALSE, requires_structured_output |-> FALSE ] ]

\* Requests of one application with one key and one content.
RetriedRequests == [r \in Requests |-> MCRequest("caching", k1, "h1")]
UncachedRequests == [r \in Requests |-> MCRequest("plain", k1, "h1")]

\* The same key, used by r3 for other content; what is cached soon expires.
ReusedKeyRequests ==
    [r \in Requests |-> MCRequest("brief", k1, IF r = r3 THEN "h2" ELSE "h1")]

\* Two requests of an application whose preferred model is too dear and which may
\* call one of its two fallbacks, and one of an application that may call three.
FallbackRequests ==
    [r \in Requests |-> MCRequest(IF r = r2 THEN "patient" ELSE "dear", NoKey, "h1")]

\* Requests whose preferred model costs more than the policy allows.
DearRequests == [r \in Requests |-> MCRequest("dear", NoKey, "h1")]

\* Requests that differ in nothing but their name.
Retries == Permutations(Requests)
Twins == Permutations({r1, r2})
Dears == Permutations({r1, r3})

NoSkew  == [e \in Envs |-> 0]
OneFast == [e \in Envs |-> IF e = e1 THEN 1 ELSE 0]
TwoFast == [e \in Envs |-> IF e = e1 THEN 2 ELSE 0]
NoHash  == [key \in {} |-> 0]
=============================================================================
