SPECIFICATION Spec
CONSTANTS
    Senders = {s1, s2}
    Size = 3
    TriesMax = 1
    Modulus = 16
    InitSeq = 14
    MaxSends = 3
INVARIANT SendBufferInv
INVARIANT NoLostWakeup
PROPERTY AckTakesPrefix
PROPERTY QueuedLeaves
PROPERTY FiniReturns
