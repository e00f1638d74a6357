SPECIFICATION Spec
CONSTANTS
    Values <- MCValues
    Tau <- MCTau
    Normal <- MCNormal
    Test <- MCTest
    Menuconfig = Menuconfig
    Foreign = Foreign
    RadarRules = RadarRules
    RequireAll = FALSE
    AfterUnattendedStart = TRUE
    MaxCommands = 3
    MaxReboots = 1
    MaxFailures = 1
INVARIANTS
    RunsItsCards
    InForceIsSaved
PROPERTIES
    RefusedForABadCard
CHECK_DEADLOCK FALSE
