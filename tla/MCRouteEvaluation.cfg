\* Every strategy, override setting and request, under every health.
SPECIFICATION Spec
CONSTANTS
    m1 = m1
    m2 = m2
    m3 = m3
    Models = {m1, m2, m3}
    AliasRank <- MCRank
    Catalogue <- MCCatalogue
    NoModel = NoModel
    NotConsidered = NotConsidered
    Unset = Unset
    HashSpace = 12
    CohortHash <- MCHash
    Policies <- MCPolicies
    InferenceRequests <- MCRequests
    DecisionId = DecisionId
INVARIANTS
    TypeOK
    SelectedWithinPolicy
    CodesExplainEligibility
    CheapestWins
    CostVerdictExactToHalfMicro
    CohortsAreProportional
    RoutableIsAdvertised
PROPERTIES
    CohortIsStable
    DegradedIsInformational
    RefusalOutlivesHealth
