SPECIFICATION Spec
CONSTANTS
    Modes = {"lan", "remote", "holepunch"}
    MaxConsole = 2
    MaxPins = 1
    MaxMsgs = 1
INVARIANT SessionInv
INVARIANT NotifyNotLost
INVARIANT StreamIsAgreed
PROPERTY ConsoleIdStays
PROPERTY StopEnds
PROPERTY PinTaken
CHECK_DEADLOCK FALSE
