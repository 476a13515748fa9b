\* Two inferences under one key and one other call, over two environments, at
\* one instant.
SPECIFICATION ApiSpec
CONSTANTS
    m1 = m1
    r1 = r1
    r2 = r2
    x1 = x1
    e1 = e1
    e2 = e2
    k1 = k1
    Models = {m1}
    AliasRank <- MCRank
    Catalogue <- MCCatalogue
    NoModel = NoModel
    NotConsidered = NotConsidered
    Unset = Unset
    HashSpace = 1
    CohortHash <- NoHash
    DegradedAfter = 1
    UnavailableAfter = 2
    StaleReservationSeconds = 1
    NoItem = NoItem
    NoResult = NoResult
    Requests = {r1, r2}
    RequestOf <- MCRequestOf
    Envs = {e1, e2}
    Skew <- NoSkew
    Applications = {"guest", "own", "broken"}
    Keys = {k1}
    NoKey = NoKey
    PolicyOf <- MCPolicyOf
    NoPolicy = NoPolicy
    NoDecision = NoDecision
    NoRecord = NoRecord
    NoFrame = NoFrame
    LostEvents = {}
    ProviderErrors = {"permanent"}
    LambdaTimeout = 0
    LastStart = 0
    MaxTime = 0
    ApplicationFile <- MCApplicationFile
    DefaultFile <- MCDefault
    NoFile = NoFile
    BadFile = BadFile
    NotLoaded = NotLoaded
    Others = {x1}
    EventsOf <- MCEventsOf
    NoServices = NoServices
    NoResponse = NoResponse
    NoId = NoId
INVARIANTS
    OneStory
    ClientErrorsAreFree
    OrphansHaveWitness
    DenialFollowsServerError
    PolicySettledWhileInvoking
SYMMETRY Twins
\* All calls are answered, and the behaviour ends with them.
CHECK_DEADLOCK FALSE
