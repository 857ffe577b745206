\* Two media, two requests of every kind, one pass of the cleanup.
CONSTANTS
    ana = ana
    bob = bob
    u1 = u1
    u2 = u2
    s1 = s1
    s2 = s2
    s3 = s3
    c1 = c1
    c2 = c2
    None = None
    NoCid = NoCid
    Users = {ana, bob}
    Ids = {u1, u2}
    Uploader <- UploaderOf
    Leavers = {bob}
    Slots = {s1, s2}
    Cids = {c1, c2}
    Sender <- SenderOf
    Carries <- CarriedBy
    DailyFiles = 1
    UploadCap = 2
    LruHigh = 1
    LruLow = 1
    MaxCleanups = 1
    MaxKeys = 2
    Ops = {"upload", "download", "setStill", "seeStill", "send", "forward", "erase"}
SPECIFICATION Spec
SYMMETRY Symmetry
INVARIANTS SendsInv AttachedHasFile OrphansExplained QuotaHolds
CHECK_DEADLOCK FALSE
