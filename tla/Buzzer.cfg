SPECIFICATION BuzzerSpec
CONSTANT TickMax = 20
INVARIANTS
    HeardAsAsked
    TimerKeptAlive
PROPERTY
    OffGoesQuiet
