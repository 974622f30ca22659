SPECIFICATION Spec
CONSTANTS
    MaxCancels = 1
    MaxExtras = 1
INVARIANT HolePunchInv
INVARIANT EstablishedIsAgreed
INVARIANT HandedSocketStaysOpen
PROPERTY CancelEnds
CHECK_DEADLOCK FALSE
