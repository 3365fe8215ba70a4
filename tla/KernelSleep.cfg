SPECIFICATION Spec
CONSTANTS
    Thread = {0, 1, 2, 3}
    Senders = {0, 1, 2, 3}
    Tables = {{0, 1, 2}, {0, 3}}
    KernelThread = 3
    Priority <- PeersPriority
    Period <- PeersPeriod
    Signals = {}
    Handlers = {}
    Calls <- TimingCalls
    Targets <- TimingTargets
    MaxSleep = 2
    MaxElapsed = 2
    Size = 1
    Width = 0
    Chars = {"a", "b"}
    NUL = "nul"
    Texts <- Texts2
INVARIANTS SleepersDoNotRun
