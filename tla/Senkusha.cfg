SPECIFICATION Spec
CONSTANTS
    Lo = 2
    Hi = 7
    Retries = 2
    Pings = 2
INVARIANT SenkushaInv
INVARIANT MtuGetsThrough
INVARIANT MtuIsLargest
PROPERTY RunReturns
CHECK_DEADLOCK FALSE
