CONSTANTS
    Goal = {g1, g2}
    NoGoal = NoGoal
    Service = Service
    NoCommand = NoCommand
    HeartbeatTimeout = 1
    GracePeriod = 2
    Services = {"land", "command"}
    MaxTransitions = 3
SPECIFICATION Spec
SYMMETRY GoalSymmetry
INVARIANTS LifecycleSound
