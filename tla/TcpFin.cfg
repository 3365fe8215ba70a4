SPECIFICATION Spec
CONSTANTS
    Host = {a, b}
    NoHost = none
    MaxLen = 1
    Relisten = FALSE
    Attempts = 2
    MaxCalls = 5
    MaxFaults = 0
    Networks = {{}}
PROPERTIES AckIsForFin
CHECK_DEADLOCK FALSE
