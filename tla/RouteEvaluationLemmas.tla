----------------------- MODULE RouteEvaluationLemmas -----------------------
(***************************************************************************)
(* What the operators of RouteEvaluation and FallbackChain return, for     *)
(* every catalogue, every valid policy and every valid request.            *)
(***************************************************************************)
EXTENDS FallbackChain, TLAPS, WellFoundedInduction

\* The reason codes that only the fallback loop adds to a decision.
OutcomeCodes == {"MODEL_THROTTLED", "MODEL_UNAVAILABLE", "FALLBACK_SELECTED"}

\* Every non-empty set of natural numbers has a least element.
LEMMA NatMinimum ==
    ASSUME NEW S, S \subseteq Nat, S # {}
    PROVE  \E x \in S : \A y \in S : x <= y
<1>1. PICK x \in S : \A y \in S : ~ (<<y, x>> \in OpToRel(<, Nat))
  BY NatLessThanWellFounded, WFMin
<1>2. ASSUME NEW y \in S PROVE x <= y
  <2>1. ~ (y < x)
    BY <1>1 DEF OpToRel
  <2> QED BY <2>1
<1> QED BY <1>2

\* Quantize maps an amount to an amount, at most half a micro-USD away.
LEMMA QuantizeRounds ==
    ASSUME NEW nano \in Nat
    PROVE  /\ Quantize(nano) \in Nat
           /\ nano - 500 <= Quantize(nano)
           /\ Quantize(nano) <= nano + 500
BY DEF Quantize

\* The estimators return a usage of whole tokens, the output being the
\* allowance, and an amount of money.
LEMMA EstimateUsageType ==
    ASSUME NEW chars \in Nat, NEW output \in Nat
    PROVE  /\ EstimateUsage(chars, output) \in Usage
           /\ EstimateUsage(chars, output).output_tokens = output
BY DEF EstimateUsage, Usage, CharsPerToken

LEMMA EstimateCostType ==
    ASSUME NEW usage \in Usage, NEW model \in ModelDefinitions
    PROVE  /\ ExactCost(usage, model) \in Nat
           /\ EstimateCost(usage, model) \in Nat
<1>1. \A a, b \in Nat : a * b \in Nat
  OBVIOUS
<1>2. /\ usage.input_tokens \in Nat /\ usage.output_tokens \in Nat
      /\ model.input_price \in Nat /\ model.output_price \in Nat
  BY DEF Usage, ModelDefinitions
<1>3. ExactCost(usage, model) \in Nat
  BY <1>1, <1>2 DEF ExactCost
<1> QED BY <1>3, QuantizeRounds DEF EstimateCost

\* The effective requirements keep the policy's limits, whatever the client asks.
LEMMA EffectiveWithinPolicy ==
    ASSUME NEW policy, ValidPolicy(policy), NEW request, ValidRequest(request)
    PROVE  LET effective == EffectiveRequirements(request.requirements, policy)
           IN  /\ effective.maximum_output_tokens \in Nat
               /\ effective.maximum_output_tokens <= policy.maximum_output_tokens
               /\ effective.maximum_estimated_cost \in Int
               /\ effective.maximum_estimated_cost <= policy.maximum_estimated_cost
               /\ effective.quality_tier \in policy.allowed_quality_tiers
               /\ effective.capability = request.requirements.capability
<1> DEFINE effective == EffectiveRequirements(request.requirements, policy)
<1>1. /\ policy.maximum_estimated_cost \in Int
      /\ policy.maximum_output_tokens \in Nat
      /\ policy.default_quality_tier \in policy.allowed_quality_tiers
  BY DEF ValidPolicy
<1>2. /\ effective.maximum_output_tokens \in Nat
      /\ effective.maximum_output_tokens <= policy.maximum_output_tokens
  BY <1>1 DEF ValidRequest, EffectiveRequirements, Overridden, Lower
<1>3. /\ effective.maximum_estimated_cost \in Int
      /\ effective.maximum_estimated_cost <= policy.maximum_estimated_cost
  BY <1>1 DEF ValidRequest, EffectiveRequirements, Overridden, Lower
<1>4. effective.quality_tier \in policy.allowed_quality_tiers
  BY <1>1 DEF EffectiveRequirements
<1>5. effective.capability = request.requirements.capability
  BY DEF EffectiveRequirements
<1> QED BY <1>2, <1>3, <1>4, <1>5

\* A candidate is a RouteCandidate, an eligible one passed every filter, and the
\* codes tell whether it is eligible.
CandidateFacts(c, alias, requirements, policy, health) ==
    /\ c \in RouteCandidate
    /\ c.estimated_usage.output_tokens = requirements.maximum_output_tokens
    /\ c.reason_codes \cap OutcomeCodes = {}
    /\ c.eligible =>
          /\ health # "unavailable"
          /\ alias \in policy.allowed_model_aliases
          /\ Catalogue[alias].quality_tier = requirements.quality_tier
          /\ c.estimated_cost <= requirements.maximum_estimated_cost
          /\ CapabilityMatched(Catalogue[alias], requirements)
    /\ c.eligible <=>
          /\ {"CAPABILITY_MATCH", "MODEL_ALLOWED", "QUALITY_TIER_MATCH",
              "WITHIN_COST_LIMIT"} \subseteq c.reason_codes
          /\ c.reason_codes \cap {"MODEL_UNHEALTHY", "TOKEN_LIMIT_EXCEEDED"} = {}
    /\ c.estimated_cost = EstimateCost(c.estimated_usage, Catalogue[alias])
    /\ "WITHIN_COST_LIMIT" \in c.reason_codes =>
          c.estimated_cost <= requirements.maximum_estimated_cost
    /\ "COST_LIMIT_EXCEEDED" \in c.reason_codes =>
          ~(c.estimated_cost <= requirements.maximum_estimated_cost)

LEMMA EvaluateCandidateFacts ==
    ASSUME NEW alias \in Models, NEW requirements, NEW policy, NEW chars \in Nat,
           NEW health, requirements.maximum_output_tokens \in Nat,
           health \in ModelHealthStatus
    PROVE  CandidateFacts(EvaluateCandidate(alias, requirements, policy, chars, health),
                          alias, requirements, policy, health)
<1> DEFINE model == Catalogue[alias]
           usage == EstimateUsage(chars, requirements.maximum_output_tokens)
           cost  == EstimateCost(usage, model)
           c     == EvaluateCandidate(alias, requirements, policy, chars, health)
<1>1. model \in ModelDefinitions /\ model.provider \in Providers
  BY CatalogueAssumption DEF ModelDefinitions
<1>2. usage \in Usage /\ usage.output_tokens = requirements.maximum_output_tokens
  BY EstimateUsageType
<1>3. cost \in Nat
  BY <1>1, <1>2, EstimateCostType
<1>4. HealthCodes(health) \in SUBSET RoutingReasonCode
  BY DEF HealthCodes, ModelHealthStatus, RoutingReasonCode
<1>5. c.reason_codes \in SUBSET RoutingReasonCode
  BY <1>4 DEF EvaluateCandidate, RoutingReasonCode
<1>6. c.eligible \in BOOLEAN
  BY DEF EvaluateCandidate
<1>7. c \in RouteCandidate
  BY <1>1, <1>2, <1>3, <1>5, <1>6 DEF EvaluateCandidate, RouteCandidate
<1>8. c.estimated_usage.output_tokens = requirements.maximum_output_tokens
  BY <1>2 DEF EvaluateCandidate
<1>9. c.eligible =>
        /\ health # "unavailable"
        /\ alias \in policy.allowed_model_aliases
        /\ model.quality_tier = requirements.quality_tier
        /\ c.estimated_cost <= requirements.maximum_estimated_cost
        /\ CapabilityMatched(model, requirements)
  BY DEF EvaluateCandidate, HealthPermits
<1>10. c.eligible <=>
         /\ {"CAPABILITY_MATCH", "MODEL_ALLOWED", "QUALITY_TIER_MATCH",
             "WITHIN_COST_LIMIT"} \subseteq c.reason_codes
         /\ c.reason_codes \cap {"MODEL_UNHEALTHY", "TOKEN_LIMIT_EXCEEDED"} = {}
  BY DEF EvaluateCandidate, HealthPermits, HealthCodes, ModelHealthStatus
<1>11. c.reason_codes \cap OutcomeCodes = {}
  BY DEF EvaluateCandidate, HealthCodes, ModelHealthStatus, OutcomeCodes
<1>12. c.estimated_usage = usage /\ c.estimated_cost = cost
  BY DEF EvaluateCandidate
<1>13. /\ "WITHIN_COST_LIMIT" \in c.reason_codes => cost <= requirements.maximum_estimated_cost
       /\ "COST_LIMIT_EXCEEDED" \in c.reason_codes =>
             ~(cost <= requirements.maximum_estimated_cost)
  BY DEF EvaluateCandidate, HealthCodes, ModelHealthStatus
<1> HIDE DEF c, cost, usage, model
<1>14. CandidateFacts(c, alias, requirements, policy, health)
  BY <1>7, <1>8, <1>9, <1>10, <1>11, <1>12, <1>13 DEF CandidateFacts, cost, model
<1> QED BY <1>14 DEF c

\* Every entry of considered_candidates is one, with the facts above.
LEMMA BuildRouteCandidatesFacts ==
    ASSUME NEW policy, ValidPolicy(policy), NEW request, ValidRequest(request),
           NEW health \in [Models -> ModelHealthStatus]
    PROVE  LET effective  == EffectiveRequirements(request.requirements, policy)
               candidates == BuildRouteCandidates(effective, policy, request.chars, health)
           IN  /\ candidates \in [Models -> RouteCandidate \cup {NotConsidered}]
               /\ \A m \in Models : candidates[m] # NotConsidered =>
                     candidates[m] = EvaluateCandidate(m, effective, policy, request.chars,
                                                       health[m])
<1> DEFINE effective  == EffectiveRequirements(request.requirements, policy)
           candidates == BuildRouteCandidates(effective, policy, request.chars, health)
<1>1. effective.maximum_output_tokens \in Nat
  BY EffectiveWithinPolicy
<1>2. request.chars \in Nat
  BY DEF ValidRequest
<1> HIDE DEF effective
<1>3. ASSUME NEW m \in Models
      PROVE  EvaluateCandidate(m, effective, policy, request.chars, health[m])
                \in RouteCandidate
  BY <1>1, <1>2, EvaluateCandidateFacts DEF CandidateFacts
<1>4. \A m \in Models :
        candidates[m] \in {EvaluateCandidate(m, effective, policy, request.chars, health[m]),
                          NotConsidered}
  BY DEF BuildRouteCandidates
<1>5. candidates \in [Models -> RouteCandidate \cup {NotConsidered}]
  BY <1>3 DEF BuildRouteCandidates
<1> QED BY <1>4, <1>5 DEF effective

\* The candidate that LowestCostStrategy takes: min by (estimated cost, alias).
Cheapest(eligible, candidates) ==
    CHOOSE a \in eligible : \A b \in eligible : CheaperOrFirst(candidates, a, b)

\* There is one, and only one.
LEMMA CheapestFacts ==
    ASSUME NEW candidates, NEW eligible \in SUBSET Models, eligible # {},
           \A m \in eligible : candidates[m] \in RouteCandidate
    PROVE  /\ Cheapest(eligible, candidates) \in eligible
           /\ \A b \in eligible :
                 CheaperOrFirst(candidates, Cheapest(eligible, candidates), b)
           /\ \A a \in eligible :
                 (\A b \in eligible : CheaperOrFirst(candidates, a, b))
                     => a = Cheapest(eligible, candidates)
<1> DEFINE costs == {candidates[m].estimated_cost : m \in eligible}
<1>1. \A m \in eligible : candidates[m].estimated_cost \in Nat /\ AliasRank[m] \in Nat
  BY CatalogueAssumption DEF RouteCandidate
<1>2. costs \subseteq Nat /\ costs # {}
  BY <1>1
<1>3. PICK least \in costs : \A c \in costs : least <= c
  BY <1>2, NatMinimum
<1> DEFINE cheapest == {m \in eligible : candidates[m].estimated_cost = least}
           ranks == {AliasRank[m] : m \in cheapest}
<1>4. ranks \subseteq Nat /\ ranks # {}
  BY <1>1, <1>3
<1>5. PICK first \in ranks : \A k \in ranks : first <= k
  BY <1>4, NatMinimum
<1>6. PICK a \in cheapest : AliasRank[a] = first
  BY <1>5
<1>7. \A b \in eligible : CheaperOrFirst(candidates, a, b)
  <2> TAKE b \in eligible
  <2>1. /\ candidates[a].estimated_cost = least /\ least \in Nat
        /\ candidates[b].estimated_cost \in Nat /\ least <= candidates[b].estimated_cost
    BY <1>1, <1>2, <1>3, <1>6
  <2>2. CASE candidates[b].estimated_cost = least
    <3>1. AliasRank[b] \in ranks
      BY <2>2
    <3> QED BY <3>1, <2>1, <2>2, <1>5, <1>6 DEF CheaperOrFirst
  <2>3. CASE candidates[b].estimated_cost # least
    BY <2>1, <2>3 DEF CheaperOrFirst
  <2> QED BY <2>2, <2>3
<1>8. \E x \in eligible : \A b \in eligible : CheaperOrFirst(candidates, x, b)
  BY <1>6, <1>7
<1> DEFINE chosen == Cheapest(eligible, candidates)
<1>9. chosen \in eligible /\ \A b \in eligible : CheaperOrFirst(candidates, chosen, b)
  BY <1>8 DEF Cheapest
<1>10. ASSUME NEW x \in eligible, \A b \in eligible : CheaperOrFirst(candidates, x, b)
       PROVE  x = chosen
  <2>1. CheaperOrFirst(candidates, x, chosen) /\ CheaperOrFirst(candidates, chosen, x)
    BY <1>9, <1>10
  <2> HIDE DEF chosen
  <2>2. AliasRank[x] <= AliasRank[chosen] /\ AliasRank[chosen] <= AliasRank[x]
    BY <1>1, <1>9, <2>1 DEF CheaperOrFirst
  <2>3. AliasRank[x] = AliasRank[chosen]
    BY <1>1, <1>9, <2>2
  <2> QED BY <1>9, <2>3, CatalogueAssumption
<1> QED BY <1>9, <1>10

\* Whatever the strategy, it selects an eligible model or none, and its codes are
\* reason codes, none of them the fallback loop's.
LEMMA SelectsEligible ==
    ASSUME NEW policy, ValidPolicy(policy), NEW request,
           NEW candidates \in [Models -> RouteCandidate \cup {NotConsidered}]
    PROVE  LET eligible  == EligibleAliases(candidates)
               selection == Select(eligible, candidates, policy, request)
           IN  /\ selection.selected \in eligible \cup {NoModel}
               /\ selection.codes \subseteq RoutingReasonCode \ OutcomeCodes
<1> DEFINE eligible  == EligibleAliases(candidates)
           selection == Select(eligible, candidates, policy, request)
           Good(s)   == /\ s.selected \in eligible \cup {NoModel}
                        /\ s.codes \subseteq RoutingReasonCode \ OutcomeCodes
<1>1. /\ eligible \subseteq Models
      /\ \A m \in eligible : candidates[m] \in RouteCandidate
  BY DEF EligibleAliases
<1>2. \A m \in eligible : candidates[m].estimated_cost \in Nat /\ AliasRank[m] \in Nat
  BY <1>1, CatalogueAssumption DEF RouteCandidate
<1> HIDE DEF eligible
<1>3. Good(NoSelection)
  BY DEF NoSelection
<1>4. Good(SelectPreferred(eligible, policy))
  BY <1>3 DEF SelectPreferred, NoSelection
<1>5. Good(SelectLowestCost(eligible, candidates))
  <2>1. CASE eligible = {}
    BY <2>1, <1>3 DEF SelectLowestCost
  <2>2. CASE eligible # {}
    BY <1>1, <2>2, CheapestFacts DEF Cheapest, SelectLowestCost, RoutingReasonCode, OutcomeCodes
  <2> QED BY <2>1, <2>2
<1>6. Good(SelectQualityTier(eligible))
  <2>1. CASE eligible = {}
    BY <2>1, <1>3 DEF SelectQualityTier
  <2>2. CASE eligible # {}
    <3> DEFINE ranks == {AliasRank[m] : m \in eligible}
    <3>1. ranks \subseteq Nat /\ ranks # {}
      BY <2>2, <1>2
    <3>2. PICK first \in ranks : \A k \in ranks : first <= k
      BY <3>1, NatMinimum
    <3>3. \E x \in eligible : \A b \in eligible : AliasRank[x] <= AliasRank[b]
      BY <3>2
    <3>4. (CHOOSE x \in eligible : \A b \in eligible : AliasRank[x] <= AliasRank[b]) \in eligible
      BY <3>3
    <3> QED BY <2>2, <3>4 DEF SelectQualityTier
  <2> QED BY <2>1, <2>2
<1>7. Good(SelectExperiment(eligible, policy, request.application, request.conversation))
  <2> DEFINE assigned == AssignedArm(policy, request.application, request.conversation)
  <2> HIDE DEF assigned
  <2>1. \/ SelectExperiment(eligible, policy, request.application, request.conversation)
              = NoSelection
        \/ /\ assigned \in eligible
           /\ SelectExperiment(eligible, policy, request.application, request.conversation)
                = [selected |-> assigned, codes |-> {"EXPERIMENT_ROUTE_SELECTED"}]
    BY DEF SelectExperiment, assigned
  <2> QED BY <2>1, <1>3 DEF RoutingReasonCode, OutcomeCodes
<1>8. policy.routing_strategy \in Strategies
  BY DEF ValidPolicy
<1> HIDE DEF Good
<1>9. Good(selection)
  BY <1>4, <1>5, <1>6, <1>7, <1>8 DEF Select, Strategies
<1> QED BY <1>9 DEF Good, eligible

\* What RouteEvaluationService._evaluate returns.  Note the last facts: at this
\* point every decision carries a reason code, and none says anything of a call.
DecisionFacts(d, id, request, policy, health) ==
    /\ d \in RoutingDecisions({id})
    /\ d.selected # NoModel =>
          /\ d.selected \in EligibleAliases(d.candidates)
          /\ d.estimated_cost = d.candidates[d.selected].estimated_cost
          /\ "MODEL_ALLOWED" \in d.reason_codes
          /\ request.requirements.capability \in policy.allowed_capabilities
    /\ \A m \in Models : d.candidates[m] # NotConsidered =>
          CandidateFacts(d.candidates[m], m,
                         EffectiveRequirements(request.requirements, policy), policy, health[m])
    /\ d.reason_codes # {} /\ d.reason_codes \cap OutcomeCodes = {}
    /\ d.fallback_used = FALSE

LEMMA EvaluateFacts ==
    ASSUME NEW id, NEW policy, ValidPolicy(policy), NEW request, ValidRequest(request),
           NEW health \in [Models -> ModelHealthStatus]
    PROVE  DecisionFacts(Evaluate(id, request, policy, health), id, request, policy, health)
<1> DEFINE effective  == EffectiveRequirements(request.requirements, policy)
           candidates == BuildRouteCandidates(effective, policy, request.chars, health)
           selection  == Select(EligibleAliases(candidates), candidates, policy, request)
           rejected   == BuildDecision(id, NoModel, NoCandidates,
                                       {"REQUIRED_CAPABILITY_UNAVAILABLE"})
           codes      == IF selection.selected = NoModel THEN {"NO_ELIGIBLE_MODEL"}
                         ELSE candidates[selection.selected].reason_codes \cup selection.codes
           decided    == BuildDecision(id, selection.selected, candidates, codes)
           d          == Evaluate(id, request, policy, health)
           Good(x)    == /\ x \in RoutingDecisions({id})
                         /\ x.selected # NoModel =>
                              /\ x.selected \in EligibleAliases(x.candidates)
                              /\ x.estimated_cost = x.candidates[x.selected].estimated_cost
                              /\ "MODEL_ALLOWED" \in x.reason_codes
                         /\ \A m \in Models : x.candidates[m] # NotConsidered =>
                              x.candidates[m] = EvaluateCandidate(m, effective, policy,
                                                                  request.chars, health[m])
                         /\ x.reason_codes # {} /\ x.reason_codes \cap OutcomeCodes = {}
                         /\ x.fallback_used = FALSE
<1>1. /\ candidates \in [Models -> RouteCandidate \cup {NotConsidered}]
      /\ \A m \in Models : candidates[m] # NotConsidered =>
            candidates[m] = EvaluateCandidate(m, effective, policy, request.chars, health[m])
  BY BuildRouteCandidatesFacts
<1> HIDE DEF candidates, effective
<1>2. /\ selection.selected \in EligibleAliases(candidates) \cup {NoModel}
      /\ selection.codes \subseteq RoutingReasonCode \ OutcomeCodes
  BY <1>1, SelectsEligible
<1> HIDE DEF selection
<1>3. selection.selected # NoModel =>
        /\ candidates[selection.selected] \in RouteCandidate
        /\ "MODEL_ALLOWED" \in candidates[selection.selected].reason_codes
        /\ candidates[selection.selected].reason_codes \cap OutcomeCodes = {}
  <2> SUFFICES ASSUME selection.selected # NoModel
               PROVE  /\ candidates[selection.selected] \in RouteCandidate
                      /\ "MODEL_ALLOWED" \in candidates[selection.selected].reason_codes
                      /\ candidates[selection.selected].reason_codes \cap OutcomeCodes = {}
    OBVIOUS
  <2> DEFINE m == selection.selected
  <2>1. m \in Models /\ candidates[m] # NotConsidered /\ candidates[m].eligible
    BY <1>2 DEF EligibleAliases
  <2>2. candidates[m] \in RouteCandidate
    BY <1>1, <2>1
  <2>3. candidates[m] = EvaluateCandidate(m, effective, policy, request.chars, health[m])
    BY <1>1, <2>1
  <2>4. effective.maximum_output_tokens \in Nat /\ request.chars \in Nat
        /\ health[m] \in ModelHealthStatus
    BY <2>1, EffectiveWithinPolicy DEF effective, ValidRequest
  <2> HIDE DEF m
  <2>5. LET c == EvaluateCandidate(m, effective, policy, request.chars, health[m])
        IN  c.eligible => "MODEL_ALLOWED" \in c.reason_codes
    BY <2>1, <2>4 DEF EvaluateCandidate
  <2>6. "MODEL_ALLOWED" \in candidates[m].reason_codes
    BY <2>1, <2>3, <2>5
  <2>7. candidates[m].reason_codes \cap OutcomeCodes = {}
    <3>1. CandidateFacts(EvaluateCandidate(m, effective, policy, request.chars, health[m]),
                         m, effective, policy, health[m])
      BY <2>1, <2>4, EvaluateCandidateFacts
    <3> QED BY <2>3, <3>1 DEF CandidateFacts
  <2> QED BY <2>2, <2>6, <2>7 DEF m
<1>4. /\ codes \subseteq RoutingReasonCode
      /\ codes # {} /\ codes \cap OutcomeCodes = {}
      /\ selection.selected # NoModel => "MODEL_ALLOWED" \in codes
  BY <1>2, <1>3 DEF RouteCandidate, RoutingReasonCode, OutcomeCodes
<1> HIDE DEF codes
<1>5. Good(rejected)
  BY DEF BuildDecision, RoutingDecisions, NoCandidates, RoutingReasonCode, OutcomeCodes
<1>6. Good(decided)
  <2>1. CASE selection.selected = NoModel
    BY <2>1, <1>1, <1>4 DEF BuildDecision, RoutingDecisions
  <2>2. CASE selection.selected # NoModel
    <3>1. /\ candidates[selection.selected].provider \in Providers
          /\ candidates[selection.selected].estimated_cost \in Nat
          /\ selection.selected \in Models
      BY <2>2, <1>2, <1>3 DEF RouteCandidate, EligibleAliases
    <3> QED BY <2>2, <3>1, <1>1, <1>2, <1>4 DEF BuildDecision, RoutingDecisions
  <2> QED BY <2>1, <2>2
<1>7. \/ d = rejected
      \/ d = decided /\ request.requirements.capability \in policy.allowed_capabilities
  BY DEF Evaluate, decided, rejected, codes, selection, candidates, effective
<1>8. rejected.selected = NoModel
  BY DEF BuildDecision
<1>9. Good(d)
  BY <1>5, <1>6, <1>7
<1>10. d.selected # NoModel => request.requirements.capability \in policy.allowed_capabilities
  BY <1>7, <1>8
<1>11. ASSUME NEW m \in Models, d.candidates[m] # NotConsidered
       PROVE  CandidateFacts(d.candidates[m], m, effective, policy, health[m])
  <2>1. d.candidates[m] = EvaluateCandidate(m, effective, policy, request.chars, health[m])
    BY <1>9, <1>11
  <2>2. effective.maximum_output_tokens \in Nat /\ request.chars \in Nat
        /\ health[m] \in ModelHealthStatus
    BY EffectiveWithinPolicy DEF effective, ValidRequest
  <2> QED BY <2>1, <2>2, EvaluateCandidateFacts
<1> HIDE DEF d
<1> QED BY <1>9, <1>10, <1>11 DEF d, effective, DecisionFacts

-----------------------------------------------------------------------------
(***************************************************************************)
(* What an evaluation owes to the health of the models.                    *)
(***************************************************************************)
\* The policy allows the capability, and some model of the catalogue has it.
Served(request, policy) ==
    /\ request.requirements.capability \in policy.allowed_capabilities
    /\ FindByCapability(request.requirements.capability) # {}

CandidatesOf(request, policy, health) ==
    BuildRouteCandidates(EffectiveRequirements(request.requirements, policy), policy,
                         request.chars, health)

\* The decision, by cases.
LEMMA EvaluateCases ==
    ASSUME NEW id, NEW policy, NEW request, NEW health
    PROVE  LET d          == Evaluate(id, request, policy, health)
               candidates == CandidatesOf(request, policy, health)
               selection  == Select(EligibleAliases(candidates), candidates, policy, request)
           IN  /\ ~Served(request, policy) =>
                     /\ d.selected = NoModel /\ d.candidates = NoCandidates
                     /\ d.reason_codes = {"REQUIRED_CAPABILITY_UNAVAILABLE"}
               /\ Served(request, policy) =>
                     /\ d.selected = selection.selected /\ d.candidates = candidates
                     /\ d.selected = NoModel => d.reason_codes = {"NO_ELIGIBLE_MODEL"}
<1> DEFINE candidates == CandidatesOf(request, policy, health)
           selection  == Select(EligibleAliases(candidates), candidates, policy, request)
           codes      == IF selection.selected = NoModel THEN {"NO_ELIGIBLE_MODEL"}
                         ELSE candidates[selection.selected].reason_codes \cup selection.codes
           d          == Evaluate(id, request, policy, health)
<1>1. ~Served(request, policy) =>
        d = BuildDecision(id, NoModel, NoCandidates, {"REQUIRED_CAPABILITY_UNAVAILABLE"})
  BY DEF Evaluate, Served
<1>2. Served(request, policy) => d = BuildDecision(id, selection.selected, candidates, codes)
  BY DEF Evaluate, Served, CandidatesOf
<1> HIDE DEF d, selection, candidates
<1>3. /\ ~Served(request, policy) =>
            /\ d.selected = NoModel /\ d.candidates = NoCandidates
            /\ d.reason_codes = {"REQUIRED_CAPABILITY_UNAVAILABLE"}
      /\ Served(request, policy) =>
            /\ d.selected = selection.selected /\ d.candidates = candidates
            /\ d.selected = NoModel => d.reason_codes = {"NO_ELIGIBLE_MODEL"}
  BY <1>1, <1>2 DEF BuildDecision
<1> QED BY <1>3 DEF d, selection, candidates

\* Of a candidate, health decides nothing but whether it is available: not what it
\* would cost, and not whether that is too much.
LEMMA CandidateHealth ==
    ASSUME NEW alias \in Models, NEW requirements, NEW policy, NEW chars,
           NEW h1 \in ModelHealthStatus, NEW h2 \in ModelHealthStatus
    PROVE  LET c1 == EvaluateCandidate(alias, requirements, policy, chars, h1)
               c2 == EvaluateCandidate(alias, requirements, policy, chars, h2)
           IN  /\ c1.estimated_cost = c2.estimated_cost
               /\ "COST_LIMIT_EXCEEDED" \in c1.reason_codes <=>
                     "COST_LIMIT_EXCEEDED" \in c2.reason_codes
               /\ "COST_LIMIT_EXCEEDED" \in c1.reason_codes => ~c1.eligible
               /\ (h1 = "unavailable" <=> h2 = "unavailable") => (c1.eligible <=> c2.eligible)
BY DEF EvaluateCandidate, HealthPermits, HealthCodes, ModelHealthStatus

\* The same of all the candidates of a request.
LEMMA CandidatesHealth ==
    ASSUME NEW policy, ValidPolicy(policy), NEW request, ValidRequest(request),
           NEW h1 \in [Models -> ModelHealthStatus], NEW h2 \in [Models -> ModelHealthStatus]
    PROVE  LET c1 == CandidatesOf(request, policy, h1)
               c2 == CandidatesOf(request, policy, h2)
           IN  \A m \in Models :
                 /\ c1[m] = NotConsidered <=> c2[m] = NotConsidered
                 /\ c1[m] # NotConsidered =>
                      /\ c1[m].estimated_cost = c2[m].estimated_cost
                      /\ "COST_LIMIT_EXCEEDED" \in c1[m].reason_codes <=>
                            "COST_LIMIT_EXCEEDED" \in c2[m].reason_codes
                      /\ "COST_LIMIT_EXCEEDED" \in c1[m].reason_codes => ~c1[m].eligible
                      /\ (h1[m] = "unavailable" <=> h2[m] = "unavailable") =>
                            (c1[m].eligible <=> c2[m].eligible)
<1> DEFINE effective == EffectiveRequirements(request.requirements, policy)
           group == FindByCapability(effective.capability)
           c1 == CandidatesOf(request, policy, h1)
           c2 == CandidatesOf(request, policy, h2)
           E(m, h) == EvaluateCandidate(m, effective, policy, request.chars, h)
<1>1. effective.maximum_output_tokens \in Nat /\ request.chars \in Nat
  BY EffectiveWithinPolicy DEF ValidRequest
<1> HIDE DEF effective
<1>2. ASSUME NEW m \in Models, NEW h \in ModelHealthStatus PROVE E(m, h) # NotConsidered
  <2>1. E(m, h) \in RouteCandidate
    BY <1>1, EvaluateCandidateFacts DEF CandidateFacts
  <2> QED BY <2>1, CatalogueAssumption
<1>3. \A m \in Models :
        /\ c1[m] = IF m \in group THEN E(m, h1[m]) ELSE NotConsidered
        /\ c2[m] = IF m \in group THEN E(m, h2[m]) ELSE NotConsidered
  BY DEF CandidatesOf, BuildRouteCandidates, effective
<1> HIDE DEF c1, c2, group
<1> SUFFICES ASSUME NEW m \in Models
             PROVE /\ c1[m] = NotConsidered <=> c2[m] = NotConsidered
                   /\ c1[m] # NotConsidered =>
                      /\ c1[m].estimated_cost = c2[m].estimated_cost
                      /\ "COST_LIMIT_EXCEEDED" \in c1[m].reason_codes <=>
                            "COST_LIMIT_EXCEEDED" \in c2[m].reason_codes
                      /\ "COST_LIMIT_EXCEEDED" \in c1[m].reason_codes => ~c1[m].eligible
                      /\ (h1[m] = "unavailable" <=> h2[m] = "unavailable") =>
                            (c1[m].eligible <=> c2[m].eligible)
  BY DEF c1, c2
<1>4. CASE m \notin group
  BY <1>3, <1>4
<1>5. CASE m \in group
  <2>1. c1[m] = E(m, h1[m]) /\ c2[m] = E(m, h2[m])
    BY <1>3, <1>5
  <2>2. h1[m] \in ModelHealthStatus /\ h2[m] \in ModelHealthStatus
    OBVIOUS
  <2>3. c1[m] # NotConsidered /\ c2[m] # NotConsidered
    BY <1>2, <2>1, <2>2
  <2>4. /\ c1[m].estimated_cost = c2[m].estimated_cost
        /\ "COST_LIMIT_EXCEEDED" \in c1[m].reason_codes <=>
              "COST_LIMIT_EXCEEDED" \in c2[m].reason_codes
        /\ "COST_LIMIT_EXCEEDED" \in c1[m].reason_codes => ~c1[m].eligible
        /\ (h1[m] = "unavailable" <=> h2[m] = "unavailable") =>
              (c1[m].eligible <=> c2[m].eligible)
    BY <2>1, <2>2, CandidateHealth
  <2> QED BY <2>3, <2>4
<1> QED BY <1>4, <1>5

\* The selection depends on the health of the models only by which are unavailable.
LEMMA SelectionHealth ==
    ASSUME NEW policy, ValidPolicy(policy), NEW request, ValidRequest(request),
           NEW h1 \in [Models -> ModelHealthStatus], NEW h2 \in [Models -> ModelHealthStatus],
           \A m \in Models : h1[m] = "unavailable" <=> h2[m] = "unavailable"
    PROVE  LET c1 == CandidatesOf(request, policy, h1)
               c2 == CandidatesOf(request, policy, h2)
           IN  Select(EligibleAliases(c1), c1, policy, request)
                   = Select(EligibleAliases(c2), c2, policy, request)
<1> DEFINE c1 == CandidatesOf(request, policy, h1)
           c2 == CandidatesOf(request, policy, h2)
           eligible == EligibleAliases(c1)
<1>1. \A m \in Models :
        /\ c1[m] = NotConsidered <=> c2[m] = NotConsidered
        /\ c1[m] # NotConsidered => /\ c1[m].estimated_cost = c2[m].estimated_cost
                                    /\ c1[m].eligible <=> c2[m].eligible
  BY CandidatesHealth
<1>2. /\ c1 \in [Models -> RouteCandidate \cup {NotConsidered}]
      /\ c2 \in [Models -> RouteCandidate \cup {NotConsidered}]
  BY BuildRouteCandidatesFacts DEF CandidatesOf
<1> HIDE DEF c1, c2
<1>3. EligibleAliases(c2) = eligible
  BY <1>1 DEF EligibleAliases
<1>4. /\ eligible \in SUBSET Models
      /\ \A m \in eligible : c1[m] \in RouteCandidate /\ c2[m] \in RouteCandidate
      /\ \A m \in eligible : c1[m].estimated_cost = c2[m].estimated_cost
  BY <1>1, <1>2, <1>3 DEF EligibleAliases
<1> HIDE DEF eligible
<1>5. SelectLowestCost(eligible, c1) = SelectLowestCost(eligible, c2)
  <2>1. CASE eligible = {}
    BY <2>1 DEF SelectLowestCost
  <2>2. CASE eligible # {}
    <3>1. /\ Cheapest(eligible, c2) \in eligible
          /\ \A b \in eligible : CheaperOrFirst(c2, Cheapest(eligible, c2), b)
      BY <1>4, <2>2, CheapestFacts
    <3>2. \A b \in eligible : CheaperOrFirst(c1, Cheapest(eligible, c2), b)
      BY <1>4, <3>1 DEF CheaperOrFirst
    <3>3. Cheapest(eligible, c2) = Cheapest(eligible, c1)
      BY <1>4, <2>2, <3>1, <3>2, CheapestFacts
    <3> QED BY <2>2, <3>3 DEF SelectLowestCost, Cheapest
  <2> QED BY <2>1, <2>2
<1>6. Select(eligible, c1, policy, request) = Select(eligible, c2, policy, request)
  BY <1>5 DEF Select
<1> QED BY <1>3, <1>6 DEF c1, c2, eligible

-----------------------------------------------------------------------------
(***************************************************************************)
(* The fallback chain.                                                     *)
(***************************************************************************)
\* The next candidate of the chain, if there is one, is an eligible model that
\* has not been tried, and the policy allows one attempt more.
LEMMA NextCandidateFacts ==
    ASSUME NEW d, NEW policy, ValidPolicy(policy), NEW S, NEW atts \in Seq(S),
           d.selected # NoModel => d.selected \in EligibleAliases(d.candidates),
           NextCandidate(d, policy, atts) # NoModel
    PROVE  /\ NextCandidate(d, policy, atts) \in EligibleAliases(d.candidates)
           /\ NextCandidate(d, policy, atts) \notin Tried(atts)
           /\ Len(atts) < policy.maximum_attempts
<1> DEFINE positions == FallbackPositions(d, policy, atts)
           least == CHOOSE i \in positions : \A j \in positions : i <= j
           alias == policy.fallback_model_aliases[least]
<1>1. /\ positions \subseteq Nat
      /\ \A i \in positions :
            /\ policy.fallback_model_aliases[i] \in EligibleAliases(d.candidates)
            /\ policy.fallback_model_aliases[i] \notin Tried(atts)
  BY DEF FallbackPositions, ValidPolicy
<1>2. positions # {} => least \in positions
  BY <1>1, NatMinimum
<1> HIDE DEF positions, least
<1>3. positions # {} => alias \in EligibleAliases(d.candidates) /\ alias \notin Tried(atts)
  BY <1>1, <1>2
<1> HIDE DEF alias
<1>4. policy.maximum_attempts \in Nat \ {0} /\ Len(atts) \in Nat
  BY DEF ValidPolicy
<1>5. CASE atts = << >> /\ d.selected # NoModel
  <2>1. Tried(atts) = {} /\ Len(atts) = 0
    BY <1>5 DEF Tried
  <2> QED BY <1>4, <1>5, <2>1 DEF NextCandidate
<1>6. CASE ~(atts = << >> /\ d.selected # NoModel)
  <2>1. positions # {} /\ Len(atts) < policy.maximum_attempts
        /\ NextCandidate(d, policy, atts) = alias
    BY <1>4, <1>6 DEF NextCandidate, positions, least, alias
  <2> QED BY <1>3, <2>1
<1> QED BY <1>5, <1>6

\* _aggregate_decision returns a decision if the model that succeeded, if any, was
\* a candidate.
LEMMA AggregateDecisionType ==
    ASSUME NEW ids, NEW d \in RoutingDecisions(ids), NEW succeeded,
           NEW codes \in SUBSET RoutingReasonCode,
           succeeded \in EligibleAliases(d.candidates) \cup {NoModel}
    PROVE  AggregateDecision(d, succeeded, codes) \in RoutingDecisions(ids)
<1>1. succeeded # NoModel =>
        /\ succeeded \in Models
        /\ d.candidates[succeeded].provider \in Providers
        /\ d.candidates[succeeded].estimated_cost \in Nat
  BY DEF RoutingDecisions, EligibleAliases, RouteCandidate
<1>2. (d.reason_codes \ {"NO_ELIGIBLE_MODEL"}) \cup codes \subseteq RoutingReasonCode
  BY DEF RoutingDecisions
<1> QED BY <1>1, <1>2 DEF AggregateDecision, RoutingDecisions

\* What an attempt more adds to the attempts made.
Statuses(atts) == {atts[i].status : i \in DOMAIN atts}

LEMMA AppendFacts ==
    ASSUME NEW S, NEW atts \in Seq(S), NEW alias, NEW status
    PROVE  LET longer == Append(atts, Attempt(alias, status))
           IN  /\ Len(longer) = Len(atts) + 1 /\ longer # << >>
               /\ longer[Len(longer)].model_alias = alias
               /\ longer[Len(longer)].status = status
               /\ \A i \in DOMAIN longer : i < Len(longer) =>
                     i \in DOMAIN atts /\ longer[i] = atts[i]
               /\ Tried(longer) = Tried(atts) \cup {alias}
               /\ Statuses(longer) = Statuses(atts) \cup {status}
<1> DEFINE a == Attempt(alias, status)
           longer == Append(atts, a)
<1>1. a.model_alias = alias /\ a.status = status
  BY DEF Attempt
<1> HIDE DEF a
<1>2. /\ Len(longer) = Len(atts) + 1 /\ Len(atts) \in Nat
      /\ DOMAIN longer = 1 .. (Len(atts) + 1) /\ DOMAIN atts = 1 .. Len(atts)
      /\ \A i \in 1 .. Len(atts) : longer[i] = atts[i]
      /\ longer[Len(atts) + 1] = a
  OBVIOUS
<1>3. longer # << >>
  BY <1>2
<1> HIDE DEF longer
<1>4. DOMAIN longer = DOMAIN atts \cup {Len(atts) + 1}
  BY <1>2
<1>5. /\ \A i \in DOMAIN atts : longer[i] = atts[i]
      /\ longer[Len(atts) + 1] = a
  BY <1>2
<1>6. Tried(longer) = Tried(atts) \cup {alias}
  BY <1>1, <1>4, <1>5 DEF Tried
<1>7. Statuses(longer) = Statuses(atts) \cup {status}
  BY <1>1, <1>4, <1>5 DEF Statuses
<1>8. \A i \in DOMAIN longer : i < Len(longer) => i \in DOMAIN atts /\ longer[i] = atts[i]
  BY <1>2
<1> QED BY <1>1, <1>2, <1>3, <1>6, <1>7, <1>8 DEF longer, a

=============================================================================
