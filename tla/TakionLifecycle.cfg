SPECIFICATION Spec
CONSTANTS
    Senders = {s1, s2}
    TakionThread = takion
    Resender = resender
INVARIANT IInv
PROPERTY DoorIsGate
PROPERTY SocketIsGate
PROPERTY TeardownCompletes
