SPECIFICATION FairSpec
CONSTANTS
    HeaderBytes = 2
    SendMax = 2
    ReceiveMax = 1
    ReadBytes = 3
    WireBytes = 4
    MaxFrames = 3
    MaxDamage = 1
INVARIANTS
    TypeOK
    ReceivedInOrder
    BufferBounded
    CleanCloseIsComplete
PROPERTY
    CancelledReceiveReturns
CHECK_DEADLOCK FALSE
