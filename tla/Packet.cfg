SPECIFICATION FairSpec
CONSTANTS
    Descs = 2
    QueueSize = 2
    MaxFrames = 4
INVARIANTS TypeOK RxInStep TxInStep
PROPERTIES ReceivedInOrder SentInOrder ImplementsChannels TxThreadDrains
CHECK_DEADLOCK FALSE
