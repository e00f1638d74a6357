SPECIFICATION HSpec
CONSTANTS
    Configs <- PolicyConfigs
    Inputs <- PolicyInputs
    StepGaps = {1}
    PauseStepMax = 1
    TopTier = 2
    Wrap = 1024
    MaxTime = 60
INVARIANTS
    PauseAccounted
PROPERTIES
    NeverCutEarly
VIEW View
