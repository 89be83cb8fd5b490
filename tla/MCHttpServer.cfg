CONSTANTS
    c1 = c1
    Conn = {c1}
    MaxRequests = 2
    MaxFaults = 1
    Verb = {"get"}
    Pattern <- Patterns
    Path <- Paths
    Middleware = {"m1", "m2"}
    n1 = n1
    q1 = q1
    Node = {n1}
    HttpCall = {q1}
    MaxLives = 2
    MaxMoves = 1
    BytesPerSecond = 2
    LeastBurst = 3
    Size = {1, 2, 3, 5}
    MaxSeconds = 3
    MaxMessages = 2
    IdleTimeout = 2
    Schema <- Schemas
    Messages <- MessageSet
    Width = 4
    Leaf <- LeafSet
SPECIFICATION Spec
INVARIANTS SessionsAnswerInOrder RequestsRouted NodesShownTrue StreamServed
PROPERTIES ConnectionsComeAndGo RegistryFollowsGraph StreamReleased
CHECK_DEADLOCK FALSE
