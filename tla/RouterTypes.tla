---------------------------- MODULE RouterTypes ----------------------------
(***************************************************************************)
(* The fixed vocabulary of the router: provider error categories, attempt  *)
(* statuses, model health and reason codes.  A decision's reason codes are *)
(* kept as a SET: sort_reason_codes removes duplicates and imposes one     *)
(* canonical order, so a tuple of codes and its set determine each other.  *)
(***************************************************************************)

ProviderErrorCategory == {"throttled", "transient", "timeout", "permanent"}

InvocationAttemptStatus ==
    {"succeeded", "throttled", "transient_error", "non_retryable_error", "timeout"}

ModelHealthStatus == {"healthy", "degraded", "unavailable"}

RoutingReasonCode ==
    { "CAPABILITY_MATCH", "MODEL_ALLOWED", "MODEL_NOT_ALLOWED",
      "WITHIN_COST_LIMIT", "COST_LIMIT_EXCEEDED", "TOKEN_LIMIT_EXCEEDED",
      "LOWEST_ESTIMATED_COST", "LATENCY_PREFERENCE_MATCH", "QUALITY_TIER_MATCH",
      "REGION_POLICY_MATCH", "MODEL_UNHEALTHY", "MODEL_DEGRADED",
      "MODEL_THROTTLED", "MODEL_UNAVAILABLE", "FALLBACK_SELECTED",
      "EXPERIMENT_ROUTE_SELECTED", "NO_ELIGIBLE_MODEL",
      "INVALID_ROUTING_POLICY", "REQUIRED_CAPABILITY_UNAVAILABLE" }

\* The status recorded for an attempt that failed with an error of category c.
StatusForCategory(c) ==
    CASE c = "throttled" -> "throttled"
      [] c = "transient" -> "transient_error"
      [] c = "timeout"   -> "timeout"
      [] c = "permanent" -> "non_retryable_error"

\* The reason codes (none or one) such a failure adds to the decision.
ReasonCodesForCategory(c) ==
    CASE c = "throttled"                -> {"MODEL_THROTTLED"}
      [] c \in {"transient", "timeout"} -> {"MODEL_UNAVAILABLE"}
      [] c = "permanent"                -> {}

=============================================================================
