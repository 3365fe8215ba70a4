SPECIFICATION Spec
CONSTANTS
    Thread = {0, 1, 2}
    Senders = {0, 1, 2}
    Tables = {{0, 1}}
    KernelThread = 2
    Priority <- PeersPriority
    Period <- EqualPeriod
    Signals = {1, 2}
    Handlers = {"h1"}
    Calls <- SignalCalls
    Targets <- SignalTargets
    MaxSleep = 0
    MaxElapsed = 1
    Size = 1
    Width = 0
    Chars = {}
    NUL = "nul"
    Texts = {}
PROPERTIES SavesOriginalPC
