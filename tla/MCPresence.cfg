SPECIFICATION Spec
CONSTANTS
    Radars = {A, B}
    A = A
    B = B
    Distances = {1}
    Stale = 2
    Second = 1
    RingSize = 1
    Settings <- FusionSettings
    QuietMax = 1
    DwellMax = 1
    WindowMax = 0
    GapMax = 1
    Gaps = {1}
SYMMETRY Both
INVARIANTS
    TheCookCounts
PROPERTIES
    EarnedInThisStay
    SilenceTellsNothing
CHECK_DEADLOCK FALSE
