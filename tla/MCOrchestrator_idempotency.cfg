\* Three identical requests at two instants, over two environments whose clocks are
\* as far apart as a reservation lasts.
SPECIFICATION Spec
CONSTANTS
    m1 = m1
    m2 = m2
    m3 = m3
    r1 = r1
    r2 = r2
    r3 = r3
    e1 = e1
    e2 = e2
    k1 = k1
    Models = {m1}
    AliasRank <- MCRank
    Catalogue <- MCCatalogue
    NoModel = NoModel
    NotConsidered = NotConsidered
    Unset = Unset
    HashSpace = 1
    CohortHash <- NoHash
    DegradedAfter = 1
    UnavailableAfter = 2
    StaleReservationSeconds = 1
    NoItem = NoItem
    NoResult = NoResult
    Requests = {r1, r2, r3}
    RequestOf <- RetriedRequests
    Envs = {e1, e2}
    Skew <- OneFast
    Applications = {"caching"}
    Keys = {k1}
    NoKey = NoKey
    PolicyOf <- MCPolicyOf
    NoPolicy = NoPolicy
    NoDecision = NoDecision
    NoRecord = NoRecord
    NoFrame = NoFrame
    LostEvents = {}
    ProviderErrors = {}
    LambdaTimeout = 0
    LastStart = 1
    MaxTime = 1
INVARIANTS
    OneInvocationPerKey
    RetriesAgree
PROPERTIES
    ImplementsContract
SYMMETRY Retries
\* All requests end, and the behaviour with them.
CHECK_DEADLOCK FALSE
