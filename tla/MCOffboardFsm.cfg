CONSTANTS
    MaxPlace = 2
    HeightLow = 1
    StreamTime = 1
    OffboardTimeout = 2
    ArmTimeout = 1
    MaxAge = 2
SPECIFICATION FairSpec
INVARIANTS LadderBeforeFlight FlightIntent FiniteNavigation
PROPERTIES NoJumpBeforeConfirmed HoldOnlyAtTarget LossEndsCommand ImplementsContract StartingEnds
