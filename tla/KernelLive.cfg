SPECIFICATION FairSpec
CONSTANTS
    Thread = {0, 1, 2, 3}
    Senders = {0, 1, 2, 3}
    Tables = {{0, 1}, {0, 1, 2}}
    KernelThread = 3
    Priority <- PeersPriority
    Period <- EqualPeriod
    Signals = {}
    Handlers = {}
    Calls <- TimingCalls
    Targets <- TimingTargets
    MaxSleep = 2
    MaxElapsed = 1
    Size = 1
    Width = 0
    Chars = {"a", "b"}
    NUL = "nul"
    Texts <- Texts2
INVARIANTS TypeOK NoLostWakeup MostUrgentRuns
PROPERTIES SleepersWake TopThreadsTakeTurns
