\* Two identical requests; reserve() may give up.
SPECIFICATION Spec
CONSTANTS
    m1 = m1
    m2 = m2
    m3 = m3
    r1 = r1
    r2 = r2
    r3 = r3
    e1 = e1
    e2 = e2
    k1 = k1
    Models = {m1}
    AliasRank <- MCRank
    Catalogue <- MCCatalogue
    NoModel = NoModel
    NotConsidered = NotConsidered
    Unset = Unset
    HashSpace = 1
    CohortHash <- NoHash
    DegradedAfter = 1
    UnavailableAfter = 2
    StaleReservationSeconds = 1
    NoItem = NoItem
    NoResult = NoResult
    Requests = {r1, r2}
    RequestOf <- UncachedRequests
    Envs = {e1, e2}
    Skew <- NoSkew
    Applications = {"plain"}
    Keys = {k1}
    NoKey = NoKey
    PolicyOf <- MCPolicyOf
    NoPolicy = NoPolicy
    NoDecision = NoDecision
    NoRecord = NoRecord
    NoFrame = NoFrame
    LostEvents = {}
    ProviderErrors = {}
    LambdaTimeout = 1
    LastStart = 0
    MaxTime = 0
INVARIANTS
    NeverBothInvoke
\* All requests end, and the behaviour with them.
CHECK_DEADLOCK FALSE
