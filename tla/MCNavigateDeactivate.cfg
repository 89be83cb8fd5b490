CONSTANTS
    Goal = {g1, g2}
    NoGoal = NoGoal
    Service = Service
    NoCommand = NoCommand
    HeartbeatTimeout = 2
    GracePeriod = 3
    Services = {"land", "command"}
    MaxTransitions = 1
SPECIFICATION Spec
INVARIANTS WatchedFlight
