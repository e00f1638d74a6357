SPECIFICATION Spec
CONSTANTS
    Distances = {0, 1}
    Menuconfig <- MCMenuconfig
    ApplySettings = TRUE
    Changes <- MCChanges
    MaxMishaps = 2
    MaxRequests = 2
    MaxReads = 1
    MaxInFlight = 1
INVARIANTS
    RadarAsBelieved
    SavedSurvives
    ExecutedOnce
    ShownIsCurrent
PROPERTIES
    EveryRequestAnswered
CHECK_DEADLOCK FALSE
