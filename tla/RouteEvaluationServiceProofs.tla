-------------------- MODULE RouteEvaluationServiceProofs --------------------
(***************************************************************************)
(* The invariants of RouteEvaluationService hold for every catalogue, set  *)
(* of valid policies and set of valid requests.  Inv says that the current *)
(* decision is Evaluate of the current policy, request and health; the     *)
(* rest is what RouteEvaluationLemmas says of Evaluate.                    *)
(***************************************************************************)
EXTENDS RouteEvaluationService, RouteEvaluationLemmas, FiniteSetTheorems

Inv ==
    /\ policy \in Policies /\ request \in InferenceRequests
    /\ health \in [Models -> ModelHealthStatus]
    /\ decision = Evaluate(DecisionId, request, policy, health)

\* The decision in force is always the evaluation of the current state.
LEMMA InvHolds == Spec => []Inv
<1>1. Init => Inv
  BY DEF Init, Inv, ModelHealthStatus
<1>2. Inv /\ [Next]_vars => Inv'
  BY DEF Inv, Next, Reevaluate, vars
<1> QED BY <1>1, <1>2, PTL DEF Spec

\* So everything that is true of an evaluation is true of the decision in force.
LEMMA InvFacts ==
    Inv => /\ DecisionFacts(decision, DecisionId, request, policy, health)
           /\ ValidPolicy(policy) /\ ValidRequest(request)
BY EvaluateFacts, ConfigurationAssumption DEF Inv

\* Type correctness: route evaluation always returns a RoutingDecision.
THEOREM TypeCorrect == Spec => []TypeOK
<1>1. Inv => TypeOK
  BY InvFacts DEF Inv, TypeOK, DecisionFacts
<1> QED BY <1>1, InvHolds, PTL

\* Whatever the client asks for, the model that evaluate() selects is within
\* every limit of the policy, and not unavailable.
THEOREM PolicyRespected == Spec => []SelectedWithinPolicy
<1>1. Inv => SelectedWithinPolicy
  <2> SUFFICES ASSUME Inv, decision.selected # NoModel
               PROVE  LET model == Catalogue[decision.selected]
                          usage == decision.candidates[decision.selected].estimated_usage
                      IN  /\ decision.selected \in policy.allowed_model_aliases
                          /\ request.requirements.capability \in policy.allowed_capabilities
                          /\ model.quality_tier \in policy.allowed_quality_tiers
                          /\ usage.output_tokens <= policy.maximum_output_tokens
                          /\ decision.estimated_cost <= policy.maximum_estimated_cost
                          /\ health[decision.selected] # "unavailable"
    BY DEF SelectedWithinPolicy
  <2> DEFINE m == decision.selected
             effective == EffectiveRequirements(request.requirements, policy)
             c == decision.candidates[m]
  <2>1. DecisionFacts(decision, DecisionId, request, policy, health)
        /\ ValidPolicy(policy) /\ ValidRequest(request)
    BY InvFacts
  <2>2. /\ m \in EligibleAliases(decision.candidates)
        /\ decision.estimated_cost = c.estimated_cost
        /\ request.requirements.capability \in policy.allowed_capabilities
    BY <2>1 DEF DecisionFacts
  <2>3. m \in Models /\ c # NotConsidered /\ c.eligible
    BY <2>2 DEF EligibleAliases
  <2>4. CandidateFacts(c, m, effective, policy, health[m])
    BY <2>1, <2>3 DEF DecisionFacts
  <2>5. /\ effective.maximum_output_tokens \in Nat
        /\ effective.maximum_output_tokens <= policy.maximum_output_tokens
        /\ effective.maximum_estimated_cost \in Int
        /\ effective.maximum_estimated_cost <= policy.maximum_estimated_cost
        /\ effective.quality_tier \in policy.allowed_quality_tiers
    BY <2>1, EffectiveWithinPolicy
  <2> HIDE DEF effective
  <2>6. c.estimated_cost \in Nat /\ policy.maximum_estimated_cost \in Int
    BY <2>1, <2>4 DEF RouteCandidate, CandidateFacts, ValidPolicy
  <2>7. decision.estimated_cost <= policy.maximum_estimated_cost
    BY <2>2, <2>3, <2>4, <2>5, <2>6 DEF CandidateFacts
  <2> QED BY <2>2, <2>3, <2>4, <2>5, <2>7 DEF CandidateFacts
<1> QED BY <1>1, InvHolds, PTL

\* domain/filtering.py: a candidate's reason codes determine its eligibility.
THEOREM EligibilityExplained == Spec => []CodesExplainEligibility
<1>1. Inv => CodesExplainEligibility
  <2> SUFFICES ASSUME Inv, NEW m \in Models, decision.candidates[m] # NotConsidered
               PROVE  LET codes == decision.candidates[m].reason_codes
                      IN  decision.candidates[m].eligible <=>
                            /\ {"CAPABILITY_MATCH", "MODEL_ALLOWED", "QUALITY_TIER_MATCH",
                                "WITHIN_COST_LIMIT"} \subseteq codes
                            /\ codes \cap {"MODEL_UNHEALTHY", "TOKEN_LIMIT_EXCEEDED"} = {}
    BY DEF CodesExplainEligibility
  <2>1. CandidateFacts(decision.candidates[m], m,
            EffectiveRequirements(request.requirements, policy), policy, health[m])
    BY InvFacts DEF DecisionFacts
  <2> QED BY <2>1 DEF CandidateFacts
<1> QED BY <1>1, InvHolds, PTL

\* LowestCostStrategy over DefaultCostEstimator: the two half-even roundings never
\* hide more than one micro-USD, whatever the catalogue's prices.
THEOREM LowestCostIsLow == Spec => []CheapestWins
<1>1. Inv => CheapestWins
  <2> SUFFICES ASSUME Inv, decision.selected # NoModel, policy.routing_strategy = "lowest_cost",
                      NEW m \in EligibleAliases(decision.candidates)
               PROVE  /\ ExactCost(decision.candidates[decision.selected].estimated_usage,
                                   Catalogue[decision.selected])
                             <= ExactCost(decision.candidates[m].estimated_usage, Catalogue[m]) + 1000
                      /\ decision.candidates[m].estimated_cost = decision.estimated_cost =>
                            AliasRank[decision.selected] <= AliasRank[m]
    BY DEF CheapestWins
  <2> DEFINE candidates == decision.candidates
             eligible == EligibleAliases(candidates)
             winner == decision.selected
             Exact(a) == ExactCost(candidates[a].estimated_usage, Catalogue[a])
  <2>1. DecisionFacts(decision, DecisionId, request, policy, health)
    BY InvFacts
  <2>2. /\ candidates \in [Models -> RouteCandidate \cup {NotConsidered}]
        /\ \A a \in eligible : a \in Models /\ candidates[a] \in RouteCandidate
    BY <2>1 DEF DecisionFacts, RoutingDecisions, EligibleAliases
  <2>3. \A a \in eligible : /\ Exact(a) \in Nat /\ candidates[a].estimated_cost \in Nat
                            /\ Exact(a) - 500 <= candidates[a].estimated_cost
                            /\ candidates[a].estimated_cost <= Exact(a) + 500
    <3> SUFFICES ASSUME NEW a \in eligible
                 PROVE  /\ Exact(a) \in Nat /\ candidates[a].estimated_cost \in Nat
                        /\ Exact(a) - 500 <= candidates[a].estimated_cost
                        /\ candidates[a].estimated_cost <= Exact(a) + 500
      OBVIOUS
    <3>1. candidates[a].estimated_cost = EstimateCost(candidates[a].estimated_usage, Catalogue[a])
      BY <2>1 DEF DecisionFacts, CandidateFacts, EligibleAliases
    <3>2. candidates[a].estimated_usage \in Usage /\ Catalogue[a] \in ModelDefinitions
      BY <2>2, CatalogueAssumption DEF RouteCandidate
    <3>3. Exact(a) \in Nat
      BY <3>2, EstimateCostType
    <3>4. candidates[a].estimated_cost = Quantize(Exact(a))
      BY <3>1 DEF EstimateCost
    <3> HIDE DEF Exact
    <3> QED BY <3>3, <3>4, QuantizeRounds
  <2>4. /\ Served(request, policy) /\ candidates = CandidatesOf(request, policy, health)
        /\ winner = Select(eligible, candidates, policy, request).selected
    BY EvaluateCases DEF Inv
  <2>5. winner = Cheapest(eligible, candidates)
    BY <2>4 DEF Select, SelectLowestCost, Cheapest, Strategies
  <2>6. winner \in eligible /\ CheaperOrFirst(candidates, winner, m)
    BY <2>2, <2>5, CheapestFacts
  <2>7. candidates[winner].estimated_cost <= candidates[m].estimated_cost
    BY <2>3, <2>6 DEF CheaperOrFirst
  <2>8. Exact(winner) <= Exact(m) + 1000
    <3> HIDE DEF Exact
    <3> QED BY <2>3, <2>6, <2>7
  <2>9. decision.estimated_cost = candidates[winner].estimated_cost
    BY <2>1 DEF DecisionFacts
  <2>10. candidates[m].estimated_cost = decision.estimated_cost => AliasRank[winner] <= AliasRank[m]
    BY <2>3, <2>6, <2>9 DEF CheaperOrFirst
  <2> QED BY <2>8, <2>10
<1> QED BY <1>1, InvHolds, PTL

\* evaluate_candidate compares the rounded estimate with the limit: its verdict is
\* that of the exact cost, to half a micro-USD.
THEOREM CostVerdictExact == Spec => []CostVerdictExactToHalfMicro
<1>1. Inv => CostVerdictExactToHalfMicro
  <2> SUFFICES ASSUME Inv, NEW m \in Models, decision.candidates[m] # NotConsidered
               PROVE  LET c     == decision.candidates[m]
                          exact == ExactCost(c.estimated_usage, Catalogue[m])
                          limit == EffectiveRequirements(request.requirements, policy)
                                       .maximum_estimated_cost
                      IN  /\ "WITHIN_COST_LIMIT" \in c.reason_codes => exact <= limit + 500
                          /\ "COST_LIMIT_EXCEEDED" \in c.reason_codes => exact >= limit - 500
    BY DEF CostVerdictExactToHalfMicro
  <2> DEFINE c         == decision.candidates[m]
             exact     == ExactCost(c.estimated_usage, Catalogue[m])
             effective == EffectiveRequirements(request.requirements, policy)
             limit     == effective.maximum_estimated_cost
  <2>1. CandidateFacts(c, m, effective, policy, health[m])
    BY InvFacts DEF DecisionFacts
  <2>2. limit \in Int
    BY InvFacts, EffectiveWithinPolicy
  <2> HIDE DEF c, effective
  <2>3. c.estimated_usage \in Usage /\ Catalogue[m] \in ModelDefinitions
    BY <2>1, CatalogueAssumption DEF CandidateFacts, RouteCandidate
  <2>4. exact \in Nat /\ c.estimated_cost = Quantize(exact)
    BY <2>1, <2>3, EstimateCostType DEF CandidateFacts, EstimateCost
  <2>5. /\ "WITHIN_COST_LIMIT" \in c.reason_codes => c.estimated_cost <= limit
        /\ "COST_LIMIT_EXCEEDED" \in c.reason_codes => ~(c.estimated_cost <= limit)
    BY <2>1 DEF CandidateFacts
  <2> HIDE DEF exact, limit
  <2>6. /\ "WITHIN_COST_LIMIT" \in c.reason_codes => exact <= limit + 500
        /\ "COST_LIMIT_EXCEEDED" \in c.reason_codes => exact >= limit - 500
    BY <2>2, <2>4, <2>5, QuantizeRounds
  <2> QED BY <2>6 DEF c, exact, effective, limit
<1> QED BY <1>1, InvHolds, PTL

\* The best latency of a group of models is that of one of them, and no worse than any.
LEMMA BestLatencyFacts ==
    ASSUME NEW group \in SUBSET Models, NEW model \in group
    PROVE  LatencyRank(BestLatency(group)) <= LatencyRank(Catalogue[model].typical_latency)
<1> DEFINE latencies == {Catalogue[m].typical_latency : m \in group}
           ranks == {LatencyRank(l) : l \in latencies}
<1>1. latencies \subseteq LatencyPreferences
  BY CatalogueAssumption DEF ModelDefinitions
<1>2. \A l \in LatencyPreferences : LatencyRank(l) \in Nat
  BY DEF LatencyRank, LatencyPreferences
<1>3. ranks \subseteq Nat /\ ranks # {}
  BY <1>1, <1>2
<1>4. PICK least \in ranks : \A k \in ranks : least <= k
  BY <1>3, NatMinimum
<1>5. \E l \in latencies : \A m \in group : LatencyRank(l) <= LatencyRank(Catalogue[m].typical_latency)
  BY <1>4
<1> QED BY <1>5 DEF BestLatency

\* serialize_models_response offers whatever routing can select: GET /v1/models lists
\* every capability, tier, feature and latency that a request was ever routed by.
THEOREM ListingIsComplete == Spec => []RoutableIsAdvertised
<1>1. Inv => RoutableIsAdvertised
  <2> SUFFICES ASSUME Inv, decision.selected # NoModel
               PROVE  LET wanted == request.requirements
                          model  == Catalogue[decision.selected]
                      IN  \E entry \in SerializeModelsResponse :
                            /\ entry.capability = wanted.capability
                            /\ model.quality_tier \in entry.qualityTiers
                            /\ wanted.requires_tool_use => entry.supportsToolUse
                            /\ wanted.requires_structured_output => entry.supportsStructuredOutput
                            /\ LatencyRank(entry.typicalLatency) <= LatencyRank(model.typical_latency)
    BY DEF RoutableIsAdvertised
  <2> DEFINE m      == decision.selected
             wanted == request.requirements
             group  == FindByCapability(wanted.capability)
             entry  == CapabilityOf(wanted.capability, group)
  <2>1. m \in Models /\ CapabilityMatched(Catalogue[m], EffectiveRequirements(wanted, policy))
    BY InvFacts DEF DecisionFacts, CandidateFacts, EligibleAliases
  <2>2. /\ wanted.capability \in Catalogue[m].capability_tags
        /\ wanted.requires_tool_use => Catalogue[m].supports_tool_use
        /\ wanted.requires_structured_output => Catalogue[m].supports_structured_output
    BY <2>1 DEF CapabilityMatched, EffectiveRequirements
  <2>3. group \in SUBSET Models /\ m \in group
    BY <2>1, <2>2 DEF FindByCapability
  <2>4. entry \in SerializeModelsResponse
    BY <2>1, <2>2 DEF SerializeModelsResponse
  <2> HIDE DEF group
  <2>5. /\ entry.capability = wanted.capability
        /\ Catalogue[m].quality_tier \in entry.qualityTiers
        /\ wanted.requires_tool_use => entry.supportsToolUse
        /\ wanted.requires_structured_output => entry.supportsStructuredOutput
        /\ entry.typicalLatency = BestLatency(group)
    BY <2>2, <2>3 DEF CapabilityOf
  <2>6. LatencyRank(entry.typicalLatency) <= LatencyRank(Catalogue[m].typical_latency)
    BY <2>3, <2>5, BestLatencyFacts
  <2> HIDE DEF entry
  <2> QED BY <2>4, <2>5, <2>6
<1> QED BY <1>1, InvHolds, PTL

-----------------------------------------------------------------------------
(***************************************************************************)
(* What a change of health may never do.                                   *)
(***************************************************************************)
\* Both ends of a step, in terms of the evaluation.
LEMMA StepFacts ==
    ASSUME Inv, Inv', [Next]_vars
    PROVE  /\ policy' = policy /\ request' = request
           /\ ValidPolicy(policy) /\ ValidRequest(request)
           /\ health \in [Models -> ModelHealthStatus] /\ health' \in [Models -> ModelHealthStatus]
           /\ decision = Evaluate(DecisionId, request, policy, health)
           /\ decision' = Evaluate(DecisionId, request, policy, health')
<1>1. policy' = policy /\ request' = request
  BY DEF Next, Reevaluate, vars
<1>2. ValidPolicy(policy) /\ ValidRequest(request)
  BY InvFacts
<1> QED BY <1>1, <1>2 DEF Inv

\* ExperimentStrategy: a subject's arm is a matter of its key alone.
LEMMA ExperimentArm ==
    ASSUME NEW id, NEW pol, pol.routing_strategy = "experiment", NEW req, NEW h
    PROVE  Evaluate(id, req, pol, h).selected
               \in {NoModel, AssignedArm(pol, req.application, req.conversation)}
<1> DEFINE candidates == CandidatesOf(req, pol, h)
           assigned   == AssignedArm(pol, req.application, req.conversation)
           selection  == SelectExperiment(EligibleAliases(candidates), pol, req.application,
                                          req.conversation)
<1>1. Select(EligibleAliases(candidates), candidates, pol, req) = selection
  BY DEF Select
<1>2. Evaluate(id, req, pol, h).selected \in {NoModel, selection.selected}
  BY <1>1, EvaluateCases
<1> HIDE DEF candidates, assigned
<1>3. selection.selected \in {NoModel, assigned}
  BY DEF SelectExperiment, NoSelection, assigned
<1> QED BY <1>2, <1>3 DEF candidates, assigned

\* Sticky cohorts: for any arms, weights and hash, a subject is on its arm or on no
\* arm at all, and only its own model's failing or recovering takes it from the one
\* to the other.
THEOREM CohortsStick == Spec => CohortIsStable
<1> DEFINE mine == AssignedArm(policy, request.application, request.conversation)
           Sticks == policy.routing_strategy = "experiment" => KeepsItsArm
<1>1. Inv /\ Inv' /\ [Next]_vars => Sticks
  <2> SUFFICES ASSUME Inv, Inv', [Next]_vars, policy.routing_strategy = "experiment",
                      decision'.selected # decision.selected
               PROVE  KeepsItsArm
    BY DEF KeepsItsArm
  <2> DEFINE c1 == CandidatesOf(request, policy, health)
             c2 == CandidatesOf(request, policy, health')
  <2>1. decision.selected \in {NoModel, mine} /\ decision'.selected \in {NoModel, mine}
    BY StepFacts, ExperimentArm
  <2>2. Served(request, policy)
    BY StepFacts, EvaluateCases
  <2>3. /\ decision.selected = Select(EligibleAliases(c1), c1, policy, request).selected
        /\ decision'.selected = Select(EligibleAliases(c2), c2, policy, request).selected
    BY <2>2, StepFacts, EvaluateCases
  <2>4. \A m \in Models :
          /\ c1[m] = NotConsidered <=> c2[m] = NotConsidered
          /\ c1[m] # NotConsidered /\ (health[m] = "unavailable" <=> health'[m] = "unavailable")
                => (c1[m].eligible <=> c2[m].eligible)
    BY StepFacts, CandidatesHealth
  <2> HIDE DEF mine, c1, c2
  <2>5. /\ Select(EligibleAliases(c1), c1, policy, request).selected
             = IF policy.arms # << >> /\ mine \in EligibleAliases(c1) THEN mine ELSE NoModel
        /\ Select(EligibleAliases(c2), c2, policy, request).selected
             = IF policy.arms # << >> /\ mine \in EligibleAliases(c2) THEN mine ELSE NoModel
    BY DEF Select, SelectExperiment, NoSelection, mine
  <2>6. ~(mine \in EligibleAliases(c1) <=> mine \in EligibleAliases(c2))
    BY <2>3, <2>5
  <2>7. mine \in Models
    BY <2>6 DEF EligibleAliases
  <2>8. ~(health[mine] = "unavailable" <=> health'[mine] = "unavailable")
    BY <2>4, <2>6, <2>7 DEF EligibleAliases
  <2>9. {decision.selected, decision'.selected} = {NoModel, mine}
    BY <2>1
  <2> QED BY <2>7, <2>8, <2>9 DEF KeepsItsArm
<1>2. Inv /\ Inv' /\ [Next]_vars => [Sticks]_vars
  BY <1>1
<1> QED BY <1>2, InvHolds, PTL DEF Spec, CohortIsStable

\* ADR-020: as long as the same models are unavailable the same model is selected,
\* whatever the strategy and whichever of the others are degraded.
THEOREM DegradationDecidesNothing == Spec => DegradedIsInformational
<1> DEFINE Same == {m \in Models : health[m] = "unavailable"}
                       = {m \in Models : health'[m] = "unavailable"}
                   => decision'.selected = decision.selected
<1>1. Inv /\ Inv' /\ [Next]_vars => Same
  <2> SUFFICES ASSUME Inv, Inv', [Next]_vars,
                      {m \in Models : health[m] = "unavailable"}
                          = {m \in Models : health'[m] = "unavailable"}
               PROVE  decision'.selected = decision.selected
    OBVIOUS
  <2> DEFINE c1 == CandidatesOf(request, policy, health)
             c2 == CandidatesOf(request, policy, health')
  <2>1. \A m \in Models : health[m] = "unavailable" <=> health'[m] = "unavailable"
    OBVIOUS
  <2>2. Select(EligibleAliases(c1), c1, policy, request)
            = Select(EligibleAliases(c2), c2, policy, request)
    BY <2>1, StepFacts, SelectionHealth
  <2>3. CASE Served(request, policy)
    <3>1. decision.selected = Select(EligibleAliases(c1), c1, policy, request).selected
      BY <2>3, StepFacts, EvaluateCases
    <3>2. decision'.selected = Select(EligibleAliases(c2), c2, policy, request).selected
      BY <2>3, StepFacts, EvaluateCases
    <3> QED BY <2>2, <3>1, <3>2
  <2>4. CASE ~Served(request, policy)
    BY <2>4, StepFacts, EvaluateCases
  <2> QED BY <2>3, <2>4
<1>2. Inv /\ Inv' /\ [Next]_vars => [Same]_vars
  BY <1>1
<1> QED BY <1>2, InvHolds, PTL DEF Spec, DegradedIsInformational

\* map_no_selection: a 422 or a 402 is final; no model that fails or recovers turns it
\* into a selection or into another answer.
THEOREM RefusalsAreFinal == Spec => RefusalOutlivesHealth
<1> DEFINE Final == LET refusal == MapNoSelection(decision, FALSE)
                    IN  decision.selected = NoModel /\ refusal.status \in {402, 422} =>
                            /\ decision'.selected = NoModel
                            /\ MapNoSelection(decision', FALSE) = refusal
<1>1. Inv /\ Inv' /\ [Next]_vars => Final
  <2> SUFFICES ASSUME Inv, Inv', [Next]_vars, decision.selected = NoModel,
                      MapNoSelection(decision, FALSE).status \in {402, 422}
               PROVE  /\ decision'.selected = NoModel
                      /\ MapNoSelection(decision', FALSE) = MapNoSelection(decision, FALSE)
    OBVIOUS
  <2> DEFINE c1 == CandidatesOf(request, policy, health)
             c2 == CandidatesOf(request, policy, health')
  <2>1. CASE ~Served(request, policy)
    <3>1. /\ decision'.selected = NoModel
          /\ decision.reason_codes = {"REQUIRED_CAPABILITY_UNAVAILABLE"}
          /\ decision'.reason_codes = {"REQUIRED_CAPABILITY_UNAVAILABLE"}
      BY <2>1, StepFacts, EvaluateCases
    <3> QED BY <3>1 DEF MapNoSelection
  <2>2. CASE Served(request, policy)
    <3>1. /\ decision.candidates = c1 /\ decision.reason_codes = {"NO_ELIGIBLE_MODEL"}
          /\ decision'.candidates = c2
          /\ decision'.selected = NoModel => decision'.reason_codes = {"NO_ELIGIBLE_MODEL"}
      BY <2>2, StepFacts, EvaluateCases
    <3>2. CostRejectedOnly(c1) /\ MapNoSelection(decision, FALSE) = Error(402, "COST_LIMIT_EXCEEDED")
      BY <3>1 DEF MapNoSelection, Error
    <3>3. \A m \in Models :
            /\ c1[m] = NotConsidered <=> c2[m] = NotConsidered
            /\ c1[m] # NotConsidered =>
                 ("COST_LIMIT_EXCEEDED" \in c1[m].reason_codes <=>
                     "COST_LIMIT_EXCEEDED" \in c2[m].reason_codes)
      BY StepFacts, CandidatesHealth
    <3>4. \A m \in Models : c2[m] # NotConsidered =>
             ("COST_LIMIT_EXCEEDED" \in c2[m].reason_codes => ~c2[m].eligible)
      BY StepFacts, CandidatesHealth
    <3> HIDE DEF c1, c2
    <3>5. CostRejectedOnly(c2)
      BY <3>2, <3>3, <3>4 DEF CostRejectedOnly
    <3>6. EligibleAliases(c2) = {}
      BY <3>5 DEF EligibleAliases, CostRejectedOnly
    <3>7. decision'.selected = NoModel
      <4>1. DecisionFacts(decision', DecisionId, request, policy, health')
        BY StepFacts, EvaluateFacts
      <4> QED BY <3>1, <3>6, <4>1 DEF DecisionFacts
    <3> QED BY <3>1, <3>2, <3>5, <3>7 DEF MapNoSelection
  <2> QED BY <2>1, <2>2
<1>2. Inv /\ Inv' /\ [Next]_vars => [Final]_vars
  BY <1>1
<1> QED BY <1>2, InvHolds, PTL DEF Spec, RefusalOutlivesHealth

-----------------------------------------------------------------------------
(***************************************************************************)
(* The shares of an experiment's arms.  CumulativeWeight is a recursive    *)
(* function, so what it computes needs induction over the arms: each such  *)
(* fact is proved here by NatMinimum, from its least counterexample.       *)
(***************************************************************************)
\* What the validators say of the arms of an experiment.
LEMMA ArmsFacts ==
    ASSUME NEW aliases, NEW arms \in Seq([alias : aliases, weight : Nat \ {0}]), arms # << >>
    PROVE  /\ Len(arms) \in Nat \ {0} /\ DOMAIN arms = 1 .. Len(arms)
           /\ \A j \in 1 .. Len(arms) : arms[j].weight \in Nat \ {0}
<1> DEFINE arm == [alias : aliases, weight : Nat \ {0}]
<1>1. arms \in Seq(arm) /\ \A a \in arm : a.weight \in Nat \ {0}
  OBVIOUS
<1> HIDE DEF arm
<1>2. /\ Len(arms) \in Nat \ {0} /\ DOMAIN arms = 1 .. Len(arms)
      /\ \A j \in 1 .. Len(arms) : arms[j] \in arm
  BY <1>1
<1> QED BY <1>1, <1>2

\* The recursion behind CumulativeWeight has a solution on every prefix: a least
\* prefix without one would be one arm longer than a prefix with one.
LEMMA PartialSums ==
    ASSUME NEW w, NEW len \in Nat, \A i \in 1 .. len : w[i].weight \in Nat
    PROVE  \A n \in 0 .. len : \E f \in [0 .. n -> Nat] :
               f = [i \in 0 .. n |-> IF i = 0 THEN 0 ELSE f[i - 1] + w[i].weight]
<1> DEFINE Summed(n) == \E f \in [0 .. n -> Nat] :
               f = [i \in 0 .. n |-> IF i = 0 THEN 0 ELSE f[i - 1] + w[i].weight]
           bad == {n \in 0 .. len : ~ Summed(n)}
<1> SUFFICES ASSUME bad # {} PROVE FALSE
  OBVIOUS
<1>0. bad \subseteq Nat
  OBVIOUS
<1>1. PICK n \in bad : \A m \in bad : n <= m
  <2> HIDE DEF bad
  <2> QED BY <1>0, NatMinimum
<1>2. n \in 0 .. len /\ ~ Summed(n)
  OBVIOUS
<1>3. CASE n = 0
  <2> DEFINE f == [i \in 0 .. n |-> 0]
  <2>1. f \in [0 .. n -> Nat]
    OBVIOUS
  <2>2. ASSUME NEW i \in 0 .. n
        PROVE  f[i] = IF i = 0 THEN 0 ELSE f[i - 1] + w[i].weight
    BY <1>3
  <2>3. f = [i \in 0 .. n |-> IF i = 0 THEN 0 ELSE f[i - 1] + w[i].weight]
    BY <2>2
  <2> HIDE DEF f
  <2> QED BY <1>2, <2>1, <2>3
<1>4. CASE n # 0
  <2>0. n - 1 \in 0 .. len /\ ~ (n <= n - 1)
    BY <1>2, <1>4
  <2>1. Summed(n - 1)
    <3> HIDE DEF Summed
    <3> QED BY <1>1, <2>0
  <2>2. PICK g \in [0 .. (n - 1) -> Nat] :
            g = [i \in 0 .. (n - 1) |-> IF i = 0 THEN 0 ELSE g[i - 1] + w[i].weight]
    BY <2>1
  <2> DEFINE f == [i \in 0 .. n |-> IF i = n THEN g[n - 1] + w[n].weight ELSE g[i]]
  <2>3. f \in [0 .. n -> Nat]
    BY <1>2, <1>4
  <2>4. ASSUME NEW i \in 0 .. n
        PROVE  f[i] = IF i = 0 THEN 0 ELSE f[i - 1] + w[i].weight
    BY <1>2, <1>4, <2>2
  <2>5. f = [i \in 0 .. n |-> IF i = 0 THEN 0 ELSE f[i - 1] + w[i].weight]
    BY <2>4
  <2> HIDE DEF f
  <2> QED BY <1>2, <2>3, <2>5
<1> QED BY <1>3, <1>4

\* So CumulativeWeight, a CHOOSE to the prover, obeys its recursive equation: it
\* is the running sum `cumulative += arm.weight` of assign_experiment_cohort.
LEMMA CumulativeWeightEquation ==
    ASSUME NEW arms, Len(arms) \in Nat, \A i \in 1 .. Len(arms) : arms[i].weight \in Nat
    PROVE  LET c == CumulativeWeight(arms)
           IN  /\ c \in [0 .. Len(arms) -> Nat]
               /\ c[0] = 0
               /\ \A i \in 1 .. Len(arms) : c[i] = c[i - 1] + arms[i].weight
<1> DEFINE Equation(f) == f = [i \in 0 .. Len(arms) |-> IF i = 0 THEN 0 ELSE f[i - 1] + arms[i].weight]
           c == CumulativeWeight(arms)
<1>1. \E f : Equation(f)
  BY PartialSums
<1>2. c = CHOOSE f : Equation(f)
  BY DEF CumulativeWeight
<1>3. Equation(c)
  <2> HIDE DEF Equation, c
  <2> QED BY <1>1, <1>2
<1>4. c[0] = 0 /\ \A i \in 1 .. Len(arms) : c[i] = c[i - 1] + arms[i].weight
  BY <1>3
<1>5. \A i \in 0 .. Len(arms) : c[i] \in Nat
  <2> DEFINE bad == {i \in 0 .. Len(arms) : c[i] \notin Nat}
  <2> SUFFICES ASSUME bad # {} PROVE FALSE
    OBVIOUS
  <2>0. bad \subseteq Nat
    OBVIOUS
  <2>1. PICK n \in bad : \A m \in bad : n <= m
    <3> HIDE DEF bad
    <3> QED BY <2>0, NatMinimum
  <2>2. n - 1 \in 0 .. Len(arms) /\ c[n - 1] \in Nat
    BY <1>4, <2>1
  <2> QED BY <1>4, <2>1, <2>2
<1>6. c \in [0 .. Len(arms) -> Nat]
  BY <1>3, <1>5
<1> QED BY <1>4, <1>6
\* The running sum never decreases.
LEMMA CumulativeWeightGrows ==
    ASSUME NEW arms, Len(arms) \in Nat, \A i \in 1 .. Len(arms) : arms[i].weight \in Nat,
           NEW i \in 0 .. Len(arms), NEW j \in i .. Len(arms)
    PROVE  CumulativeWeight(arms)[i] <= CumulativeWeight(arms)[j]
<1> DEFINE c == CumulativeWeight(arms)
           bad == {k \in i .. Len(arms) : ~ (c[i] <= c[k])}
<1>1. /\ c \in [0 .. Len(arms) -> Nat]
      /\ \A k \in 1 .. Len(arms) : c[k] = c[k - 1] + arms[k].weight
  BY CumulativeWeightEquation
<1> HIDE DEF c
<1> SUFFICES ASSUME bad # {} PROVE FALSE
  BY DEF c
<1>2. bad \subseteq Nat
  OBVIOUS
<1>3. PICK n \in bad : \A m \in bad : n <= m
  <2> HIDE DEF bad
  <2> QED BY <1>2, NatMinimum
<1>4. n - 1 \in i .. Len(arms) /\ n \in 1 .. Len(arms) /\ n - 1 \in 0 .. Len(arms)
  BY <1>1, <1>3
<1>5. c[i] <= c[n - 1]
  BY <1>3, <1>4
<1>6. c[i] \in Nat /\ c[n - 1] \in Nat /\ arms[n].weight \in Nat /\ c[n] = c[n - 1] + arms[n].weight
  BY <1>1, <1>4
<1>7. c[i] <= c[n]
  BY <1>5, <1>6
<1> QED BY <1>3, <1>7

\* Multiplication by a natural number is monotonic and distributes.
LEMMA ProductGrows ==
    ASSUME NEW a \in Nat, NEW b \in Nat, NEW t \in Nat, a <= b
    PROVE  /\ a * t \in Nat /\ b * t \in Nat /\ a * t <= b * t
           /\ (b - a) * t = b * t - a * t
<1>1. PICK d \in Nat : b = a + d
  <2>1. b - a \in Nat /\ b = a + (b - a)
    OBVIOUS
  <2> QED BY <2>1
<1>2. b * t = a * t + d * t /\ b - a = d
  BY <1>1
<1>3. a * t \in Nat /\ d * t \in Nat
  OBVIOUS
<1>4. \A x, y, z \in Nat : z = x + y => z \in Nat /\ x <= z /\ y = z - x
  OBVIOUS
<1> QED BY <1>2, <1>3, <1>4

\* x / t rounded up: the least a with a * t at or above x.
LEMMA Ceiling ==
    ASSUME NEW x \in Nat, NEW t \in Nat \ {0}
    PROVE  \E a \in Nat : /\ \A h \in Nat : x <= h * t <=> a <= h
                          /\ x <= a * t /\ a * t < x + t
<1> DEFINE reach == {h \in Nat : x <= h * t}
<1>0. \A h \in Nat : h * t \in Nat
  OBVIOUS
<1>1. x \in reach
  <2>1. 1 * x <= t * x
    BY ProductGrows
  <2>2. 1 * x = x /\ t * x = x * t
    OBVIOUS
  <2> QED BY <2>1, <2>2
<1>2. PICK a \in reach : \A h \in reach : a <= h
  <2>1. reach \subseteq Nat
    OBVIOUS
  <2> HIDE DEF reach
  <2> QED BY <1>1, <2>1, NatMinimum
<1>3. a \in Nat /\ x <= a * t /\ a * t \in Nat
  BY <1>0, <1>2
<1>4. ASSUME NEW h \in Nat PROVE x <= h * t <=> a <= h
  <2>1. ASSUME a <= h PROVE x <= h * t
    <3>1. a * t <= h * t /\ h * t \in Nat
      BY <1>3, <2>1, ProductGrows
    <3>2. \A p, q \in Nat : x <= p /\ p <= q => x <= q
      OBVIOUS
    <3> QED BY <1>3, <3>1, <3>2
  <2> QED BY <1>2, <2>1
<1>5. a * t < x + t
  <2>1. CASE a = 0
    BY <2>1
  <2>2. CASE a # 0
    <3>1. a - 1 \in Nat /\ ~ (a <= a - 1)
      BY <1>3, <2>2
    <3>2. (a - 1) * t \in Nat /\ ~ (x <= (a - 1) * t)
      BY <1>4, <3>1
    <3>3. (a - 1) * t = a * t - t
      BY <1>3
    <3> QED BY <1>3, <3>2, <3>3
  <2> QED BY <2>1, <2>2
<1> QED BY <1>3, <1>4, <1>5

\* assign_experiment_cohort's loop, read back: an arm receives the hashes whose
\* threshold lies between the weight before it and the weight up to it, and the
\* last arm (the `return` after the loop) the hash that reaches the total.
LEMMA CohortBounds ==
    ASSUME NEW arms, Len(arms) \in Nat \ {0}, DOMAIN arms = 1 .. Len(arms),
           \A i \in 1 .. Len(arms) : arms[i].weight \in Nat,
           NEW h \in Nat, NEW i \in DOMAIN arms
    PROVE  LET c == CumulativeWeight(arms)
           IN  CohortIndex(h, arms) = i <=>
                   /\ c[i - 1] * HashSpace <= h * c[Len(arms)]
                   /\ i = Len(arms) \/ h * c[Len(arms)] < c[i] * HashSpace
<1> DEFINE c == CumulativeWeight(arms)
           len == Len(arms)
           C(j) == c[j] * HashSpace
           threshold == h * c[len]
           below == {j \in 1 .. len : threshold < C(j)}
           k == IF below = {} THEN len ELSE CHOOSE j \in below : \A l \in below : j <= l
<1>1. c \in [0 .. len -> Nat] /\ c[0] = 0
  BY CumulativeWeightEquation
<1>2. threshold \in Nat /\ \A j \in 0 .. len : C(j) \in Nat
  <2> HIDE DEF c
  <2>1. h \in Nat /\ HashSpace \in Nat /\ c[len] \in Nat /\ \A j \in 0 .. len : c[j] \in Nat
    BY <1>1, CatalogueAssumption
  <2>2. \A p, q \in Nat : p * q \in Nat
    OBVIOUS
  <2> QED BY <2>1, <2>2
<1>3. C(0) = 0
  BY <1>1, CatalogueAssumption
<1>4. \A j, l \in 0 .. len : j <= l => C(j) <= C(l)
  <2> SUFFICES ASSUME NEW j \in 0 .. len, NEW l \in 0 .. len, j <= l PROVE C(j) <= C(l)
    OBVIOUS
  <2>1. l \in j .. len
    OBVIOUS
  <2>2. c[j] <= c[l] /\ c[j] \in Nat /\ c[l] \in Nat
    BY <1>1, <2>1, CumulativeWeightGrows
  <2> QED BY <2>2, CatalogueAssumption, ProductGrows
<1>5. CohortIndex(h, arms) = k
  BY DEF CohortIndex
<1>6. below # {} => k \in below /\ \A l \in below : k <= l
  <2> SUFFICES ASSUME below # {} PROVE k \in below /\ \A l \in below : k <= l
    OBVIOUS
  <2>1. below \subseteq Nat
    OBVIOUS
  <2>2. k = CHOOSE j \in below : \A l \in below : j <= l
    OBVIOUS
  <2> HIDE DEF below, k
  <2>3. \E j \in below : \A l \in below : j <= l
    BY <2>1, NatMinimum
  <2> QED BY <2>2, <2>3
<1>7. below = {} => k = len
  OBVIOUS
<1>8. i \in 1 .. len /\ i - 1 \in 0 .. len /\ len \in Nat
  OBVIOUS
<1> HIDE DEF c, C, threshold, k, len
<1>9. CASE below = {}
  <2>1. C(i) <= threshold
    BY <1>2, <1>8, <1>9
  <2>2. C(i - 1) <= threshold
    BY <1>2, <1>3, <1>8, <1>9, <1>4, <2>1
  <2> QED BY <1>2, <1>5, <1>7, <1>8, <1>9, <2>1, <2>2 DEF c, C, threshold, len
<1>10. CASE below # {}
  <2>0. k \in 1 .. len /\ threshold < C(k)
    BY <1>6, <1>10
  <2>1. CASE i = k
    <3>1. i - 1 = 0 \/ i - 1 \in 1 .. len
      BY <1>8
    <3>2. C(i - 1) <= threshold
      <4>1. CASE i - 1 = 0
        BY <1>2, <1>3, <4>1
      <4>2. CASE i - 1 \in 1 .. len
        <5>1. ~ (k <= i - 1)
          BY <1>8, <2>1
        <5>2. ~ (threshold < C(i - 1))
          BY <1>6, <1>10, <4>2, <5>1
        <5> QED BY <1>2, <1>8, <5>2
      <4> QED BY <3>1, <4>1, <4>2
    <3> QED BY <1>5, <2>0, <2>1, <3>2 DEF c, C, threshold, len
  <2>2. CASE i < k
    <3>1. ~ (threshold < C(i)) /\ i # len
      BY <1>6, <1>8, <1>10, <2>0, <2>2
    <3> QED BY <1>5, <1>8, <2>0, <2>2, <3>1 DEF c, C, threshold, len
  <2>3. CASE k < i
    <3>1. k <= i - 1 /\ k \in 0 .. len
      BY <1>8, <2>0, <2>3
    <3>2. C(k) <= C(i - 1)
      BY <1>4, <1>8, <3>1
    <3>3. ~ (C(i - 1) <= threshold)
      BY <1>2, <1>8, <2>0, <3>1, <3>2
    <3> QED BY <1>5, <1>8, <2>0, <2>3, <3>3 DEF c, C, threshold, len
  <2> QED BY <1>8, <2>0, <2>1, <2>2, <2>3
<1> QED BY <1>9, <1>10
\* Those hashes are an interval whose ends are rounded up from the arm's bounds,
\* so their number is the arm's share of the hash space to within one hash.
LEMMA CohortShare ==
    ASSUME NEW arms, Len(arms) \in Nat \ {0}, DOMAIN arms = 1 .. Len(arms),
           \A j \in 1 .. Len(arms) : arms[j].weight \in Nat \ {0},
           NEW i \in DOMAIN arms
    PROVE  LET total == CumulativeWeight(arms)[Len(arms)]
               hits  == Cardinality({h \in 0 .. HashSpace : CohortIndex(h, arms) = i})
               fair  == arms[i].weight * HashSpace
           IN  fair - total <= hits * total /\ hits * total <= fair + total
<1> DEFINE c == CumulativeWeight(arms)
           len == Len(arms)
           total == c[len]
           cohort == {h \in 0 .. HashSpace : CohortIndex(h, arms) = i}
           hits == Cardinality(cohort)
           fair == arms[i].weight * HashSpace
           lo == c[i - 1] * HashSpace
           hi == c[i] * HashSpace
           top == HashSpace * total
<1> SUFFICES fair - total <= hits * total /\ hits * total <= fair + total
  OBVIOUS
<1>1. /\ c \in [0 .. len -> Nat] /\ c[0] = 0
      /\ \A j \in 1 .. len : c[j] = c[j - 1] + arms[j].weight
  BY CumulativeWeightEquation
<1>2. i \in 1 .. len /\ i - 1 \in 0 .. len /\ i \in 0 .. len /\ len \in 1 .. len /\ len - 1 \in 0 .. len
  OBVIOUS
<1>3. /\ c[i - 1] \in Nat /\ c[i] \in Nat /\ c[len - 1] \in Nat
      /\ arms[i].weight \in Nat /\ arms[len].weight \in Nat \ {0}
      /\ c[i] = c[i - 1] + arms[i].weight /\ total = c[len - 1] + arms[len].weight
      /\ HashSpace \in Nat
  BY <1>1, <1>2, CatalogueAssumption
<1>4. total \in Nat \ {0}
  BY <1>3
<1>5. c[i] <= total
  BY <1>2, CumulativeWeightGrows
<1>6. \A h \in 0 .. HashSpace : h \in cohort <=>
          lo <= h * total /\ (i = len \/ ~ (hi <= h * total))
  <2> SUFFICES ASSUME NEW h \in 0 .. HashSpace
               PROVE  h \in cohort <=> lo <= h * total /\ (i = len \/ ~ (hi <= h * total))
    OBVIOUS
  <2>1. CohortIndex(h, arms) = i <=> lo <= h * total /\ (i = len \/ h * total < hi)
    BY CohortBounds
  <2>2. \A p, q \in Nat : p * q \in Nat
    OBVIOUS
  <2> HIDE DEF c, len, total
  <2>3. h \in Nat /\ h * total \in Nat /\ hi \in Nat
    <3>1. h \in Nat /\ total \in Nat /\ c[i] \in Nat /\ HashSpace \in Nat
      BY <1>3, <1>4
    <3> QED BY <2>2, <3>1
  <2> HIDE DEF lo, hi
  <2>4. h * total < hi <=> ~ (hi <= h * total)
    BY <2>3
  <2> QED BY <2>1, <2>4
<1> HIDE DEF c, len, total
<1>7. /\ fair \in Nat /\ lo \in Nat /\ hi \in Nat /\ top \in Nat
      /\ hi = lo + fair /\ hi <= top
  <2>1. \A p, q \in Nat : p * q \in Nat
    OBVIOUS
  <2>2. fair \in Nat /\ lo \in Nat /\ hi \in Nat /\ top \in Nat
    BY <1>3, <1>4, <2>1
  <2>3. hi = lo + fair
    BY <1>3
  <2>4. c[i] * HashSpace <= total * HashSpace /\ total * HashSpace = top
    BY <1>3, <1>4, <1>5, ProductGrows
  <2> QED BY <2>2, <2>3, <2>4
<1> HIDE DEF fair, lo, hi
<1>8. PICK a \in Nat : /\ \A h \in Nat : lo <= h * total <=> a <= h
                       /\ lo <= a * total /\ a * total < lo + total
  BY <1>4, <1>7, Ceiling
<1>9. PICK b \in Nat : /\ \A h \in Nat : hi <= h * total <=> b <= h
                       /\ hi <= b * total /\ b * total < hi + total
  BY <1>4, <1>7, Ceiling
<1>10. b <= HashSpace /\ a <= b
  <2>1. b <= HashSpace
    BY <1>3, <1>7, <1>9
  <2>2. \A z \in Nat : hi <= z => lo <= z
    BY <1>7
  <2>3. b * total \in Nat
    BY <1>4
  <2> QED BY <1>8, <1>9, <2>1, <2>2, <2>3
<1>11. /\ a * total \in Nat /\ b * total \in Nat
       /\ (b - a) * total = b * total - a * total
  BY <1>4, <1>10, ProductGrows
<1>12. cohort \subseteq 0 .. HashSpace
  OBVIOUS
<1> HIDE DEF cohort
<1>13. CASE i # len
  <2>1. \A h \in 0 .. HashSpace : h \in cohort <=> a <= h /\ ~ (b <= h)
    BY <1>6, <1>8, <1>9, <1>13
  <2>2. cohort = a .. (b - 1)
    <3>1. \A h \in cohort : h \in a .. (b - 1)
      BY <1>3, <1>12, <2>1
    <3>2. \A h \in a .. (b - 1) : h \in cohort
      BY <1>3, <1>10, <2>1
    <3> QED BY <3>1, <3>2
  <2>3. hits = b - a
    <3>1. hits = IF a > b - 1 THEN 0 ELSE (b - 1) - a + 1
      BY <2>2, FS_Interval
    <3> QED BY <1>10, <3>1
  <2>4. hits * total = b * total - a * total
    BY <1>11, <2>3
  <2> HIDE DEF hits
  <2>5. PICK p \in Nat : p = a * total
    BY <1>11
  <2>6. PICK q \in Nat : q = b * total
    BY <1>11
  <2>7. fair - total <= q - p /\ q - p <= fair + total
    BY <1>4, <1>7, <1>8, <1>9, <2>5, <2>6
  <2> QED BY <2>4, <2>5, <2>6, <2>7
<1>14. CASE i = len
  <2>1. \A h \in 0 .. HashSpace : h \in cohort <=> a <= h
    BY <1>6, <1>8, <1>14
  <2>2. cohort = a .. HashSpace
    <3>1. \A h \in cohort : h \in a .. HashSpace
      BY <1>3, <1>12, <2>1
    <3>2. \A h \in a .. HashSpace : h \in cohort
      BY <1>3, <2>1
    <3> QED BY <3>1, <3>2
  <2>3. hits = HashSpace - a + 1
    <3>1. hits = IF a > HashSpace THEN 0 ELSE HashSpace - a + 1
      BY <1>3, <2>2, FS_Interval
    <3> QED BY <1>3, <1>10, <3>1
  <2>4. hi = top
    BY <1>3, <1>14 DEF hi, total
  <2>5. (HashSpace - a) * total = top - a * total
    BY <1>3, <1>4, <1>10, ProductGrows
  <2>6. hits * total = (HashSpace - a) * total + total
    BY <1>3, <1>4, <2>3
  <2> HIDE DEF top, hits
  <2>7. PICK p \in Nat : p = a * total
    BY <1>11
  <2>8. fair - total <= top - p + total /\ top - p + total <= fair + total
    BY <1>4, <1>7, <1>8, <2>4, <2>7
  <2> QED BY <2>5, <2>6, <2>7, <2>8
<1> QED BY <1>13, <1>14

\* assign_experiment_cohort: for every experiment the validators accept, whatever
\* the number of its arms and their weights and whatever the size of the hash
\* space, each arm receives its share of the hashes to within one.
THEOREM CohortsGetTheirShare == Spec => []CohortsAreProportional
<1>1. Inv => CohortsAreProportional
  <2> SUFFICES ASSUME Inv, policy.arms # << >>, NEW i \in DOMAIN policy.arms
               PROVE  LET total == CumulativeWeight(policy.arms)[Len(policy.arms)]
                          hits == Cardinality({h \in 0 .. HashSpace : CohortIndex(h, policy.arms) = i})
                          fair == policy.arms[i].weight * HashSpace
                      IN  fair - total <= hits * total /\ hits * total <= fair + total
    BY DEF CohortsAreProportional
  <2>1. policy.arms \in Seq([alias : policy.allowed_model_aliases, weight : Nat \ {0}])
    BY InvFacts DEF ValidPolicy
  <2>2. /\ Len(policy.arms) \in Nat \ {0} /\ DOMAIN policy.arms = 1 .. Len(policy.arms)
        /\ \A j \in 1 .. Len(policy.arms) : policy.arms[j].weight \in Nat \ {0}
    BY <2>1, ArmsFacts
  <2> QED BY <2>2, CohortShare
<1> QED BY <1>1, InvHolds, PTL

=============================================================================
