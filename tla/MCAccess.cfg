SPECIFICATION FairSpec
CONSTANTS
    mac = mac
    laptop = laptop
    phone = phone
    qr = qr
    None = None
    Devices = {mac, laptop, phone}
    Pairings = {qr}
    First = mac
    PairingTtl = 1
    PendingTtl = 1
    MaxTroubles = 1
INVARIANTS OneLetsItselfIn OnlyConfirmedAreGranted SecretIsAccountedFor
PROPERTIES ImplementsRegister GrantedStopWaiting
CHECK_DEADLOCK FALSE
