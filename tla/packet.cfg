SPECIFICATION FairSpec
CONSTANTS
    B = 3
    Packets <- Fields
    Garbage <- NoCommand
    QueueSize = 1
    MaxSent = 3
INVARIANTS TypeOK InOrder NobodyIsCutOff
PROPERTIES AllHandled ReaderEnds
CHECK_DEADLOCK FALSE
