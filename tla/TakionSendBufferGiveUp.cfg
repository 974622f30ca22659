SPECIFICATION Spec
CONSTANTS
    Senders = {s1}
    Size = 2
    TriesMax = 1
    Modulus = 16
    InitSeq = 15
    MaxSends = 2
INVARIANTS GiveUpSparesOthers
