\* One user with one device more than allowed.
CONSTANTS
    ana = ana
    a1 = a1
    a2 = a2
    a3 = a3
    Users = {ana}
    Conns = {a1, a2, a3}
    Owner <- OwnerOf
    MaxDevices = 2
    SendBuffer = 1
    MaxEvents = 2
SPECIFICATION FairSpec
INVARIANTS HubInv HooksMatch
PROPERTY ConnsEnd
CHECK_DEADLOCK FALSE
