SPECIFICATION Spec
CONSTANTS
    QueueLen = 1
    OutboxRoom = 2
    MaxChanges = 2
    MaxMishaps = 2
INVARIANTS
    NothingLostSilently
    OncePerEpisode
PROPERTIES
    ShownInTheEnd
    LossIsFlagged
CHECK_DEADLOCK FALSE
