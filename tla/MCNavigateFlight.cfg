CONSTANTS
    Goal = {g1, g2}
    NoGoal = NoGoal
    Service = Service
    NoCommand = NoCommand
    HeartbeatTimeout = 2
    GracePeriod = 3
    Services = {"land", "command"}
    MaxTransitions = 0
SPECIFICATION AloneOrNot
INVARIANTS SlotConsistent WatchedFlight NoSuccessForLostClient AloneSuccessMeansArrived
PROPERTIES HealthyGoalNotAborted GoalsEnd
