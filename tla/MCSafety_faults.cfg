SPECIFICATION HSpec
CONSTANTS
    Configs <- FaultConfigs
    Inputs <- FaultInputs
    StepGaps = {1, 2}
    PauseStepMax = 1
    TopTier = 2
    Wrap = 1024
    MaxTime = 120
INVARIANTS
    SettlesInOneStep
    CutOffByDeadline
PROPERTIES
    OnlyAReturnCancels
    ResetStartsOver
    ImplementsInterlock
VIEW View
