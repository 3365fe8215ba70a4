SPECIFICATION Spec
CONSTANTS
    Thread = {0, 1, 2}
    Senders = {0, 1, 2}
    Tables = {{0, 1}, {0, 1, 2}, {0, 2}}
    KernelThread = 2
    Priority <- PeersPriority
    Period <- EqualPeriod
    Signals = {1, 2}
    Handlers = {"h1"}
    Calls <- SomeCalls
    Targets <- SomeTargets
    MaxSleep = 0
    MaxElapsed = 1
    Size = 2
    Width = 2
    Chars = {"a", "b"}
    NUL = "nul"
    Texts <- Texts2
INVARIANTS HandlerCanReturn
PROPERTIES ImplementsChannels
