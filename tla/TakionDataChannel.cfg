SPECIFICATION Spec
CONSTANTS
    Modulus = 16
    AddWraps = TRUE
    QueueSize = 4
    NoUser = NoUser
    InitSeq = 14
    N = 6
    Window = 5
    Bang = 1
INVARIANT DataChannelInv
INVARIANT AckedIsDelivered
PROPERTY IsReassembly
PROPERTY SentIsDelivered
CHECK_DEADLOCK FALSE
