SPECIFICATION FairSpec
CONSTANTS
    mac = mac
    laptop = laptop
    phone = phone
    qr = qr
    None = None
    Devices = {mac, laptop, phone}
    Pairings = {qr}
    First = mac
    PairingTtl = 1
    PendingTtl = 1
    MaxTroubles = 1
INVARIANT CreatorIsApproved
CHECK_DEADLOCK FALSE
