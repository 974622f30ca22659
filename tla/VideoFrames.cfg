SPECIFICATION Spec
CONSTANTS
    SeqSize = 16
    RefSlots = 3
    SourceUnits = 2
    FecUnits = 1
    MaxFrames = 5
    IdrOnFecFailure = TRUE
INVARIANT ReceiverInv
INVARIANT LossCountedOnce
INVARIANT LossIsReported
CHECK_DEADLOCK FALSE
