SPECIFICATION Spec
CONSTANTS
    EnergiseToShutDown = FALSE
    RelayActiveHigh = FALSE
    BootActive = FALSE
    Period = 3
    Limits = {4, 5}
INVARIANTS
    RelayFollows
    FaultPasses
    NeverOnWithoutRelay
PROPERTY
    StaysCut
