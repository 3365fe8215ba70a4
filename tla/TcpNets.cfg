SPECIFICATION FairSpec
CONSTANTS
    Host = {a, b}
    NoHost = none
    MaxLen = 1
    Relisten = FALSE
    Attempts = 2
    MaxCalls = 4
    MaxFaults = 1
    Networks = {{}, {"lose"}, {"reorder"}, {"repeat"}}
INVARIANTS TypeOK AcksNeverAhead TornDownByPeer
PROPERTIES TakenInOrder CloseCompletes
CHECK_DEADLOCK FALSE
