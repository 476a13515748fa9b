\* Two identical requests, nothing cached, one environment with a fast clock.
SPECIFICATION FairSpec
CONSTANTS
    m1 = m1
    m2 = m2
    m3 = m3
    r1 = r1
    r2 = r2
    r3 = r3
    e1 = e1
    e2 = e2
    k1 = k1
    Models = {m1}
    AliasRank <- MCRank
    Catalogue <- MCCatalogue
    NoModel = NoModel
    NotConsidered = NotConsidered
    Unset = Unset
    HashSpace = 1
    CohortHash <- NoHash
    DegradedAfter = 1
    UnavailableAfter = 2
    StaleReservationSeconds = 2
    NoItem = NoItem
    NoResult = NoResult
    Requests = {r1, r2}
    RequestOf <- UncachedRequests
    Envs = {e1, e2}
    Skew <- OneFast
    Applications = {"plain"}
    Keys = {k1}
    NoKey = NoKey
    PolicyOf <- MCPolicyOf
    NoPolicy = NoPolicy
    NoDecision = NoDecision
    NoRecord = NoRecord
    NoFrame = NoFrame
    LostEvents = {r1}
    ProviderErrors = {}
    LambdaTimeout = 1
    LastStart = 2
    MaxTime = 7
INVARIANTS
    LocksAreShort
PROPERTIES
    EveryRequestEnds
    KeyIsFreed
\* All requests end, and the behaviour with them.
CHECK_DEADLOCK FALSE
