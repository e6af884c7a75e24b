SPECIFICATION FairSpec
CONSTANTS
    mac = mac
    laptop = laptop
    i1 = i1
    i2 = i2
    None = None
    Devices = {mac, laptop}
    Pollers = {mac}
    Items = {i1, i2}
    Owner <- MCOwner
    Chunks = 1
    Ttl = 1
    MaxTransfers = 1
    Attempts = 2
    MaxTroubles = 1
INVARIANT NoLostWakeUp
PROPERTIES AnsweredInTime TransfersEnd ViewsFollow
CHECK_DEADLOCK FALSE
