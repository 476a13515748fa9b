-------------------------- MODULE RouteEvaluation --------------------------
(***************************************************************************)
(* The pure part of routing: client requirements merged with the policy    *)
(* (domain/requirements.py), candidate filtering (domain/filtering.py),    *)
(* the four strategies (domain/strategy.py, domain/experiment.py) and the  *)
(* decision they build (application/route_evaluation_service.py).          *)
(*                                                                         *)
(* Data.  Money is counted in nano-USD: a price of p micro-USD per 1000    *)
(* tokens is p nano-USD per token, and quantize("0.000001") rounds to a    *)
(* multiple of 1000.  Of a request's messages only their total length      *)
(* matters; model aliases are ordered by AliasRank, their alphabetical     *)
(* order.  considered_candidates is a function of the alias (its order in  *)
(* the code is the catalogue's and nothing depends on it).  A decision's   *)
(* estimated_usage is left to its candidate, as policy id and timestamps.  *)
(***************************************************************************)
EXTENDS Integers, Sequences, RouterTypes

CONSTANTS
    Models,         \* aliases in the model catalogue
    AliasRank,      \* [Models -> Nat], injective: alphabetical position
    Catalogue,      \* [Models -> model definition]
    NoModel,        \* selected_model_alias is None
    NotConsidered,  \* the alias is not among considered_candidates
    Unset,          \* an optional field the client or policy left out
    HashSpace,      \* 0xFFFFFFFF in the code: the largest bucket
    CohortHash      \* subject key (a tuple of its parts) -> 0..HashSpace

CharsPerToken == 4
QualityTiers == {"standard", "premium"}
LatencyPreferences == {"low", "balanced", "high"}
Providers == {"bedrock", "openai"}
Strategies == {"preferred_model", "lowest_cost", "quality_tier", "experiment"}
OverridableFields ==
    {"quality_tier", "maximum_estimated_cost", "maximum_output_tokens",
     "latency_preference"}

Usage == [input_tokens : Nat, output_tokens : Nat]

RouteCandidate ==
    [ provider : Providers, eligible : BOOLEAN, reason_codes : SUBSET RoutingReasonCode,
      estimated_usage : Usage, estimated_cost : Nat ]

\* What ModelDefinition's fields may hold, of those that routing or a listing uses.
ModelDefinitions ==
    [ provider : Providers, capability_tags : SUBSET STRING, quality_tier : QualityTiers,
      typical_latency : LatencyPreferences,
      max_input_tokens : Nat, max_output_tokens : Nat,
      supports_tool_use : BOOLEAN, supports_structured_output : BOOLEAN,
      input_price : Nat, output_price : Nat ]

\* A catalogue has no two models of one alias; None is no alias and no candidate.
ASSUME CatalogueAssumption ==
    /\ Catalogue \in [Models -> ModelDefinitions]
    /\ NoModel \notin Models
    /\ NotConsidered \notin RouteCandidate
    /\ AliasRank \in [Models -> Nat]
    /\ \A a, b \in Models : AliasRank[a] = AliasRank[b] => a = b
    /\ HashSpace \in Nat \ {0}

\* Seeded fault: a client's limit may loosen the policy's.
Higher(a, b) == IF a <= b THEN b ELSE a

\* min(client value, policy value).
Lower(a, b) == IF a <= b THEN a ELSE b

-----------------------------------------------------------------------------
(***************************************************************************)
(* Configuration and requests the validators accept (RoutingPolicy,        *)
(* FallbackPolicy, ExperimentPolicy, IdempotencyPolicy, InferenceRequest). *)
(***************************************************************************)
ValidExperiment(policy) ==
    policy.arms # << >> =>
        /\ Len(policy.arms) >= 2
        /\ \A i, j \in DOMAIN policy.arms :
              policy.arms[i].alias = policy.arms[j].alias => i = j

ValidPolicy(policy) ==
    /\ policy.maximum_estimated_cost \in Int
    /\ policy.maximum_output_tokens \in Nat \ {0}
    /\ policy.routing_strategy \in Strategies
    /\ policy.default_quality_tier \in policy.allowed_quality_tiers
    /\ policy.routing_strategy = "preferred_model" =>
          policy.preferred_model_alias # NoModel
    /\ policy.preferred_model_alias \in policy.allowed_model_aliases \cup {NoModel}
    /\ policy.routing_strategy = "experiment" => policy.arms # << >>
    /\ ValidExperiment(policy)
    /\ policy.arms \in Seq([alias : policy.allowed_model_aliases, weight : Nat \ {0}])
    /\ policy.fallback_model_aliases \in Seq(policy.allowed_model_aliases)
    /\ policy.maximum_attempts \in Nat \ {0}
    /\ policy.allow_response_caching \in BOOLEAN
    /\ policy.retention_seconds \in Nat \ {0}

ValidRequest(request) ==
    /\ request.chars \in Nat
    /\ request.requirements.maximum_estimated_cost \in Int \cup {Unset}
    /\ request.requirements.maximum_output_tokens \in (Nat \ {0}) \cup {Unset}

-----------------------------------------------------------------------------
\* resolve_effective_requirements: a client value counts only if the policy
\* permits that override; cost and tokens can only be tightened.
Overridden(requested, policy, field) ==
    field \in policy.allow_client_overrides /\ requested[field] # Unset

EffectiveRequirements(requested, policy) ==
    [ capability |-> requested.capability,
      quality_tier |->
        IF /\ Overridden(requested, policy, "quality_tier")
           /\ requested.quality_tier \in policy.allowed_quality_tiers
        THEN requested.quality_tier ELSE policy.default_quality_tier,
      maximum_estimated_cost |->
        IF Overridden(requested, policy, "maximum_estimated_cost")
        THEN Lower(requested.maximum_estimated_cost, policy.maximum_estimated_cost)
        ELSE policy.maximum_estimated_cost,
      maximum_output_tokens |->
        IF Overridden(requested, policy, "maximum_output_tokens")
        THEN Lower(requested.maximum_output_tokens, policy.maximum_output_tokens)
        ELSE policy.maximum_output_tokens,
      latency_preference |->
        IF Overridden(requested, policy, "latency_preference")
        THEN requested.latency_preference ELSE policy.latency_preference,
      requires_tool_use |-> requested.requires_tool_use,
      requires_structured_output |-> requested.requires_structured_output ]

\* DefaultTokenEstimator: ceiling division, at least one token; the output is
\* taken to be the whole allowance.
EstimateUsage(chars, output_tokens) ==
    LET tokens == (chars + CharsPerToken - 1) \div CharsPerToken
    IN  [ input_tokens  |-> IF tokens > 1 THEN tokens ELSE 1,
          output_tokens |-> output_tokens ]

\* Seeded fault: ROUND_DOWN.
Truncate(nano) == 1000 * (nano \div 1000)

\* Decimal.quantize to a multiple of 1000 nano-USD, ROUND_HALF_EVEN.
Quantize(nano) ==
    LET micro == nano \div 1000
        rest  == nano % 1000
    IN  1000 * ( IF rest > 500 \/ (rest = 500 /\ micro % 2 = 1)
                 THEN micro + 1 ELSE micro )

ExactCost(usage, pricing) ==
    usage.input_tokens * pricing.input_price + usage.output_tokens * pricing.output_price

\* DefaultCostEstimator.
EstimateCost(usage, pricing) == Quantize(ExactCost(usage, pricing))

-----------------------------------------------------------------------------
(***************************************************************************)
(* evaluate_candidate: every dimension is evaluated, an exclusion in one   *)
(* never hides another.                                                    *)
(***************************************************************************)
CapabilityMatched(model, requirements) ==
    /\ requirements.capability \in model.capability_tags
    /\ requirements.requires_tool_use => model.supports_tool_use
    /\ requirements.requires_structured_output => model.supports_structured_output

\* Seeded fault: one code for both kinds of ill health.
UnhealthyCodes(health) == IF health = "healthy" THEN {} ELSE {"MODEL_UNHEALTHY"}

HealthCodes(health) ==
    CASE health = "unavailable" -> {"MODEL_UNHEALTHY"}
      [] health = "degraded"    -> {"MODEL_DEGRADED"}
      [] health = "healthy"     -> {}

\* Seeded fault: a degraded model is excluded too.
OnlyHealthy(health) == health = "healthy"

\* Seeded fault: ill health is reported but excludes nothing.
AnyHealth(health) == TRUE

HealthPermits(health) == health # "unavailable"

EvaluateCandidate(alias, requirements, policy, chars, health) ==
    LET model    == Catalogue[alias]
        usage    == EstimateUsage(chars, requirements.maximum_output_tokens)
        cost     == EstimateCost(usage, model)
        capable  == CapabilityMatched(model, requirements)
        allowed  == alias \in policy.allowed_model_aliases
        tiered   == model.quality_tier = requirements.quality_tier
        overlong == \/ usage.input_tokens > model.max_input_tokens
                    \/ usage.output_tokens > model.max_output_tokens
        cheap    == cost <= requirements.maximum_estimated_cost
    IN  [ provider |-> model.provider,
          eligible |-> /\ HealthPermits(health)
                       /\ capable /\ allowed /\ tiered /\ cheap /\ ~overlong,
          reason_codes |->
            HealthCodes(health)
            \cup (IF capable THEN {"CAPABILITY_MATCH"} ELSE {})
            \cup (IF allowed THEN {"MODEL_ALLOWED"} ELSE {"MODEL_NOT_ALLOWED"})
            \cup (IF tiered THEN {"QUALITY_TIER_MATCH"} ELSE {})
            \cup (IF overlong THEN {"TOKEN_LIMIT_EXCEEDED"} ELSE {})
            \cup (IF cheap THEN {"WITHIN_COST_LIMIT"} ELSE {"COST_LIMIT_EXCEEDED"}),
          estimated_usage |-> usage,
          estimated_cost |-> cost ]

FindByCapability(capability) ==
    {alias \in Models : capability \in Catalogue[alias].capability_tags}

BuildRouteCandidates(requirements, policy, chars, health) ==
    [ alias \in Models |->
        IF alias \in FindByCapability(requirements.capability)
        THEN EvaluateCandidate(alias, requirements, policy, chars, health[alias])
        ELSE NotConsidered ]

EligibleAliases(candidates) ==
    {alias \in Models : candidates[alias] # NotConsidered /\ candidates[alias].eligible}

-----------------------------------------------------------------------------
(***************************************************************************)
(* The strategies.  Each returns the selected alias, or NoModel, and the   *)
(* reason codes it adds.                                                   *)
(***************************************************************************)
NoSelection == [selected |-> NoModel, codes |-> {}]

SelectPreferred(eligible, policy) ==
    IF policy.preferred_model_alias \in eligible
    THEN [selected |-> policy.preferred_model_alias, codes |-> {}]
    ELSE NoSelection

\* Seeded fault: the alphabetically first wins, whatever it costs.
FirstByAlias(candidates, a, b) == AliasRank[a] <= AliasRank[b]

\* min by (estimated cost, alias).
CheaperOrFirst(candidates, a, b) ==
    \/ candidates[a].estimated_cost < candidates[b].estimated_cost
    \/ /\ candidates[a].estimated_cost = candidates[b].estimated_cost
       /\ AliasRank[a] <= AliasRank[b]

SelectLowestCost(eligible, candidates) ==
    IF eligible = {} THEN NoSelection
    ELSE [ selected |-> CHOOSE a \in eligible :
                            \A b \in eligible : CheaperOrFirst(candidates, a, b),
           codes    |-> {"LOWEST_ESTIMATED_COST"} ]

SelectQualityTier(eligible) ==
    IF eligible = {} THEN NoSelection
    ELSE [ selected |-> CHOOSE a \in eligible :
                            \A b \in eligible : AliasRank[a] <= AliasRank[b],
           codes    |-> {} ]

\* The parts of the subject key; the code joins them with "|", and the ids are
\* taken to contain no "|" so that the joined string determines the parts.
SubjectKey(policy, application, conversation) ==
    << policy.experiment_id >>
    \o (IF policy.subject_key_source \in {"application_id", "application_and_conversation"}
        THEN << application >> ELSE << >>)
    \o (IF /\ policy.subject_key_source \in {"conversation_id", "application_and_conversation"}
           /\ conversation # Unset
        THEN << conversation >> ELSE << >>)

CumulativeWeight(arms) ==
    LET cumulative[i \in 0 .. Len(arms)] ==
            IF i = 0 THEN 0 ELSE cumulative[i - 1] + arms[i].weight
    IN  cumulative

\* Seeded fault: each arm is given the cumulative weight of the arms before it.
LateCohortIndex(hash, arms) ==
    LET cumulative == CumulativeWeight(arms)
        below == {i \in DOMAIN arms :
                    hash * cumulative[Len(arms)] < cumulative[i - 1] * HashSpace}
    IN  IF below = {} THEN Len(arms)
        ELSE CHOOSE i \in below : \A j \in below : i <= j

\* threshold < cumulative, with bucket = hash / HashSpace, in exact arithmetic.
CohortIndex(hash, arms) ==
    LET cumulative == CumulativeWeight(arms)
        below == {i \in DOMAIN arms :
                    hash * cumulative[Len(arms)] < cumulative[i] * HashSpace}
    IN  IF below = {} THEN Len(arms)
        ELSE CHOOSE i \in below : \A j \in below : i <= j

AssignedArm(policy, application, conversation) ==
    policy.arms[CohortIndex(CohortHash[SubjectKey(policy, application, conversation)],
                            policy.arms)].alias

\* Seeded fault: a subject whose arm is ineligible is moved to another arm.
SelectAnyArm(eligible, policy, application, conversation) ==
    LET open == {i \in DOMAIN policy.arms : policy.arms[i].alias \in eligible}
    IN  IF open = {} THEN NoSelection
        ELSE [ selected |-> policy.arms[CHOOSE i \in open : \A j \in open : i <= j].alias,
               codes |-> {"EXPERIMENT_ROUTE_SELECTED"} ]

SelectExperiment(eligible, policy, application, conversation) ==
    IF policy.arms = << >> THEN NoSelection
    ELSE LET assigned == AssignedArm(policy, application, conversation)
         IN  IF assigned \in eligible
             THEN [selected |-> assigned, codes |-> {"EXPERIMENT_ROUTE_SELECTED"}]
             ELSE NoSelection

Select(eligible, candidates, policy, request) ==
    CASE policy.routing_strategy = "preferred_model" -> SelectPreferred(eligible, policy)
      [] policy.routing_strategy = "lowest_cost"  -> SelectLowestCost(eligible, candidates)
      [] policy.routing_strategy = "quality_tier" -> SelectQualityTier(eligible)
      [] policy.routing_strategy = "experiment"   ->
            SelectExperiment(eligible, policy, request.application, request.conversation)

-----------------------------------------------------------------------------
(***************************************************************************)
(* RouteEvaluationService._evaluate.  The id is the fresh decision_id.     *)
(***************************************************************************)
NoCandidates == [alias \in Models |-> NotConsidered]

\* Seeded fault: the alias where the provider belongs.
BuildDecisionByAlias(id, selected, candidates, codes) ==
    [ decision_id |-> id, selected |-> selected, provider |-> selected,
      fallback_used |-> FALSE, reason_codes |-> codes, candidates |-> candidates,
      estimated_cost |->
        IF selected = NoModel THEN Unset ELSE candidates[selected].estimated_cost ]

BuildDecision(id, selected, candidates, codes) ==
    [ decision_id |-> id,
      selected |-> selected,
      provider |-> IF selected = NoModel THEN Unset ELSE candidates[selected].provider,
      fallback_used |-> FALSE,
      reason_codes |-> codes,
      candidates |-> candidates,
      estimated_cost |->
        IF selected = NoModel THEN Unset ELSE candidates[selected].estimated_cost ]

Evaluate(id, request, policy, health) ==
    LET requested    == request.requirements
        requirements == EffectiveRequirements(requested, policy)
        candidates   == BuildRouteCandidates(requirements, policy, request.chars, health)
        selection    == Select(EligibleAliases(candidates), candidates, policy, request)
    IN  IF \/ requested.capability \notin policy.allowed_capabilities
           \/ FindByCapability(requested.capability) = {}
        THEN BuildDecision(id, NoModel, NoCandidates, {"REQUIRED_CAPABILITY_UNAVAILABLE"})
        ELSE BuildDecision(id, selection.selected, candidates,
                 IF selection.selected = NoModel THEN {"NO_ELIGIBLE_MODEL"}
                 ELSE candidates[selection.selected].reason_codes \cup selection.codes)

-----------------------------------------------------------------------------
(***************************************************************************)
(* Types.                                                                  *)
(***************************************************************************)
\* Decisions whose decision_id is drawn from ids.
RoutingDecisions(ids) ==
    [ decision_id : ids, selected : Models \cup {NoModel},
      provider : Providers \cup {Unset}, fallback_used : BOOLEAN,
      reason_codes : SUBSET RoutingReasonCode,
      candidates : [Models -> RouteCandidate \cup {NotConsidered}],
      estimated_cost : Nat \cup {Unset} ]

=============================================================================
