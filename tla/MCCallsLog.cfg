\* Connections break and come back, Postgres fails and the server restarts.
CONSTANTS
    ana = ana
    bob = bob
    cid = cid
    ana1 = ana1
    ana2 = ana2
    bob1 = bob1
    bob2 = bob2
    bob3 = bob3
    phone = phone
    tablet = tablet
    laptop = laptop
    NoUser = NoUser
    NoConn = NoConn
    NoCall = NoCall
    Users = {ana, bob}
    Conns = {ana1, ana2, bob1}
    CallIds = {k1}
    InitUp = {ana1, bob1}
    Callers = {ana}
    Untouched = {}
    MaxSignals = 1
    Signallers = {bob}
    MaxRestarts = 1
    Flaky = {ana1}
    Slow = {}
    May = {"fail", "daily", "limit"}
    Breakups = {}
    Owner <- OwnerOf
    Device <- DeviceOf
SPECIFICATION FairSpec
INVARIANTS LogIsTruthful LostIsTimed
PROPERTIES ClosedRowsStay CallsEnd
CHECK_DEADLOCK FALSE
