SPECIFICATION ServerSpec
CONSTANTS
    mac = mac
    phone = phone
    Devices = {mac, phone}
    Nonces = {n1}
    n1 = n1
    Skew = 1
    Drift = 2
    MaxTime = 6
    MaxRestarts = 1
    ann = ann
    bob = bob
    seb = seb
    i1 = i1
    i2 = i2
    None = None
    Clients = {ann, bob}
    Password <- MCPassword
    Users = {seb}
    Invites = {i1, i2}
    Registration = "invite"
    InviteTtl = 2
    PendingTtl = 1
    Window = 2
    MaxAttempts = 2
    MaxOverall = 2
    MaxTries = 2
    MaxNow = 3
    MaxTroubles = 1
SYMMETRY Symmetry
INVARIANTS AcceptedOnce OneAccountEach PendingIsBounded EveryoneIsAtHome
CHECK_DEADLOCK FALSE
