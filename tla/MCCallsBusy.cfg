\* Three people, two calls, a friendship that ends and a restart: who is busy, who rings, what is logged.
\* bob has three devices; his laptop may be too slow to be told that another one has answered.
CONSTANTS
    ana = ana
    bob = bob
    cid = cid
    ana1 = ana1
    ana2 = ana2
    bob1 = bob1
    bob2 = bob2
    bob3 = bob3
    phone = phone
    tablet = tablet
    laptop = laptop
    NoUser = NoUser
    NoConn = NoConn
    NoCall = NoCall
    Users = {ana, bob, cid}
    Conns = {ana1, bob1, bob2, bob3}
    CallIds = {k1, k2}
    InitUp = {ana1, bob1, bob2, bob3}
    Callers = {ana, bob, cid}
    Untouched = {bob2, bob3}
    MaxSignals = 0
    Signallers = {}
    MaxRestarts = 1
    Flaky = {}
    Slow = {bob3}
    May = {}
    Breakups = {{ana, bob}}
    Owner <- OwnerOf
    Device <- DeviceOf
SPECIFICATION Spec
SYMMETRY Symmetry
INVARIANTS OneCallEach LogMatchesCalls PhonesStopRinging
CHECK_DEADLOCK FALSE
