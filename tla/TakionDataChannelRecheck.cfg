SPECIFICATION Spec
CONSTANTS
    Modulus = 16
    AddWraps = TRUE
    QueueSize = 4
    NoUser = NoUser
    InitSeq = 14
    N = 4
    Window = 4
    Bang = 0
INVARIANT RecheckSurvives
CHECK_DEADLOCK FALSE
