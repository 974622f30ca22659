SPECIFICATION Spec
CONSTANTS
    Sticks = {0, 1}
    Idle = 0
    Buttons = {"cross"}
    Resend = 1
    BufferSize = 2
    QueueSize = 1
    MaxPads = 2
    LinkTimeout = 2
INVARIANT StreamInv
INVARIANT UsedWhileAlive
INVARIANT StreamInfoNotLost
INVARIANT EventsKept
PROPERTY RunReturns
PROPERTY PadReachesConsole
CHECK_DEADLOCK FALSE
