----------------------- MODULE RouteEvaluationService -----------------------
(***************************************************************************)
(* POST /v1/routes/evaluate: one request evaluated again and again under   *)
(* one policy while the health of the models changes.  The catalogue and   *)
(* the policy are immutable once loaded; only the health moves.            *)
(***************************************************************************)
EXTENDS HttpMapping, FiniteSets

CONSTANTS Policies, InferenceRequests, DecisionId

ASSUME ConfigurationAssumption ==
    /\ \A p \in Policies : ValidPolicy(p)
    /\ \A q \in InferenceRequests : ValidRequest(q)

VARIABLES policy, request, health, decision

vars == << policy, request, health, decision >>

Init ==
    /\ policy \in Policies
    /\ request \in InferenceRequests
    /\ health = [m \in Models |-> "healthy"]
    /\ decision = Evaluate(DecisionId, request, policy, health)

\* A model's health becomes h, and the client asks for the route again.
Reevaluate(m, h) ==
    /\ health' = [health EXCEPT ![m] = h]
    /\ decision' = Evaluate(DecisionId, request, policy, health')
    /\ UNCHANGED << policy, request >>

Next == \E m \in Models, h \in ModelHealthStatus : Reevaluate(m, h)

Spec == Init /\ [][Next]_vars

-----------------------------------------------------------------------------
\* The type invariant.
TypeOK ==
    /\ policy \in Policies /\ request \in InferenceRequests
    /\ health \in [Models -> ModelHealthStatus]
    /\ decision \in RoutingDecisions({DecisionId})

\* FR-2.1, ClientOverridePermissions: whatever the client asked for, the model
\* selected is within every limit of the policy itself, and not unavailable.
SelectedWithinPolicy ==
    decision.selected # NoModel =>
        LET model == Catalogue[decision.selected]
            usage == decision.candidates[decision.selected].estimated_usage
        IN  /\ decision.selected \in policy.allowed_model_aliases
            /\ request.requirements.capability \in policy.allowed_capabilities
            /\ model.quality_tier \in policy.allowed_quality_tiers
            /\ usage.output_tokens <= policy.maximum_output_tokens
            /\ decision.estimated_cost <= policy.maximum_estimated_cost
            /\ health[decision.selected] # "unavailable"

\* domain/filtering.py: the reason codes "fully explain an exclusion".  The codes
\* alone, negative ones present or positive ones absent, determine eligibility.
CodesExplainEligibility ==
    \A m \in Models : decision.candidates[m] # NotConsidered =>
        LET codes == decision.candidates[m].reason_codes
        IN  decision.candidates[m].eligible <=>
                /\ {"CAPABILITY_MATCH", "MODEL_ALLOWED", "QUALITY_TIER_MATCH",
                    "WITHIN_COST_LIMIT"} \subseteq codes
                /\ codes \cap {"MODEL_UNHEALTHY", "TOKEN_LIMIT_EXCEEDED"} = {}

\* LowestCostStrategy, read in money: no eligible candidate's exact cost is lower
\* than the winner's by more than the two roundings can hide (1 micro-USD), and of
\* those the rounding makes equal to the winner none has an earlier alias.
CheapestWins ==
    decision.selected # NoModel /\ policy.routing_strategy = "lowest_cost" =>
        LET winner   == decision.selected
            exact(m) == ExactCost(decision.candidates[m].estimated_usage, Catalogue[m])
        IN  \A m \in EligibleAliases(decision.candidates) :
                /\ exact(winner) <= exact(m) + 1000
                /\ decision.candidates[m].estimated_cost = decision.estimated_cost =>
                      AliasRank[winner] <= AliasRank[m]

\* Rounding moves the verdict on the cost limit by at most half a micro-USD.
CostVerdictExactToHalfMicro ==
    \A m \in Models : decision.candidates[m] # NotConsidered =>
        LET c     == decision.candidates[m]
            exact == ExactCost(c.estimated_usage, Catalogue[m])
            limit == EffectiveRequirements(request.requirements, policy).maximum_estimated_cost
        IN  /\ "WITHIN_COST_LIMIT" \in c.reason_codes => exact <= limit + 500
            /\ "COST_LIMIT_EXCEEDED" \in c.reason_codes => exact >= limit - 500

\* serialize_models_response: GET /v1/models withholds nothing a client could use.
\* Whatever request is routed to a model, its capability is listed, with that
\* model's tier, with every feature the request requires, and with a latency no
\* worse than the model's.
RoutableIsAdvertised ==
    decision.selected # NoModel =>
        LET wanted == request.requirements
            model  == Catalogue[decision.selected]
        IN  \E entry \in SerializeModelsResponse :
                /\ entry.capability = wanted.capability
                /\ model.quality_tier \in entry.qualityTiers
                /\ wanted.requires_tool_use => entry.supportsToolUse
                /\ wanted.requires_structured_output => entry.supportsStructuredOutput
                /\ LatencyRank(entry.typicalLatency) <= LatencyRank(model.typical_latency)

\* assign_experiment_cohort: every arm receives its share of the hash space, its
\* weight out of the total, to within one hash value.
CohortsAreProportional ==
    policy.arms # << >> =>
        LET total == CumulativeWeight(policy.arms)[Len(policy.arms)]
        IN  \A i \in DOMAIN policy.arms :
                LET hits == Cardinality({h \in 0 .. HashSpace : CohortIndex(h, policy.arms) = i})
                    fair == policy.arms[i].weight * HashSpace
                IN  fair - total <= hits * total /\ hits * total <= fair + total

\* A change of health takes a subject from its arm, or back to it, only if it is
\* that arm's model that fails or recovers.
KeepsItsArm ==
    \/ decision'.selected = decision.selected
    \/ \E arm \in Models : /\ {decision.selected, decision'.selected} = {NoModel, arm}
                           /\ ~(health[arm] = "unavailable" <=> health'[arm] = "unavailable")

\* ExperimentStrategy: as health changes a subject is never moved to another arm, and
\* it loses or regains its own only when that arm's model fails or recovers,
\* whatever happens to the models of the other arms.
CohortIsStable == [][policy.routing_strategy = "experiment" => KeepsItsArm]_vars

\* evaluate_candidate (ADR-020): degradation is informational; the selection only
\* depends on which models are unavailable.
DegradedIsInformational ==
    [][ {m \in Models : health[m] = "unavailable"} = {m \in Models : health'[m] = "unavailable"}
          => decision'.selected = decision.selected ]_vars

\* map_no_selection: docs/architecture/api-contracts.md calls 402 and 422 final.
\* A request refused that way stays refused, with the same status, whichever
\* models fail or recover; waiting and retrying can only help after a 404.
RefusalOutlivesHealth ==
    [][ LET refusal == MapNoSelection(decision, FALSE)
        IN  decision.selected = NoModel /\ refusal.status \in {402, 422} =>
                decision'.selected = NoModel /\ MapNoSelection(decision', FALSE) = refusal ]_vars

=============================================================================
