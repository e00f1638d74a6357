SPECIFICATION Spec
CONSTANTS
    MaxChannel = 3
    HomeChannel = 1
    LostFailures = 2
    Roles = {"presence", "thermal"}
    TxRoom = 2
    RxRoom = 1
    MaxChanges = 1
    MaxMishaps = 2
INVARIANTS
    FoundIsAnswered
    SeenIsOnItsWay
PROPERTIES
    KnownInTheEnd
CHECK_DEADLOCK FALSE
