SPECIFICATION HSpec
CONSTANTS
    Configs <- HoldConfigs
    Inputs <- HoldInputs
    StepGaps = {1, 2}
    PauseStepMax = 1
    TopTier = 2
    Wrap = 1024
    MaxTime = 60
INVARIANTS
    HoldsEnd
PROPERTIES
    BuzzerAfterHold
VIEW HoldView
