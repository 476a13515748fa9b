\* Two streams of any of five kinds, up to two chunks each.
SPECIFICATION Spec
CONSTANTS
    m1 = m1
    m2 = m2
    s1 = s1
    s2 = s2
    Models = {m1, m2}
    AliasRank <- MCRank
    Catalogue <- MCCatalogue
    NoModel = NoModel
    NotConsidered = NotConsidered
    Unset = Unset
    HashSpace = 1
    CohortHash <- NoHash
    DegradedAfter = 1
    UnavailableAfter = 2
    Streams = {s1, s2}
    StreamRequests <- MCStreamRequests
    PolicyOf <- MCPolicyOf
    NoPolicy = NoPolicy
    NoKey = NoKey
    NoDecision = NoDecision
    NoRecord = NoRecord
    NoFrame = NoFrame
    ProviderErrors = {"throttled", "transient", "timeout", "permanent"}
    MaxChunks = 2
INVARIANTS
    OneModelPerStream
    AuditedExactlyOnce
    DecisionNamesTheDeliverer
    AttemptsAccounted
PROPERTIES
    HealthFollowsOutcomes
SYMMETRY Callers
\* All streams end, and the behaviour with them.
CHECK_DEADLOCK FALSE
