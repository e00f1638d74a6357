SPECIFICATION Spec
CONSTANTS
    NetworkCount = 2
    SwitchAfter = 2
    MaxChanges = 2
    Uris = {0, 2}
    AtBoot = {2}
INVARIANTS
    NeverStranded
    ChannelComesHome
PROPERTIES
    ServedInTheEnd
CHECK_DEADLOCK FALSE
