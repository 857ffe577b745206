\* Two client ids, three requests, a table that holds one entry too few.
CONSTANTS
    ana = ana
    bob = bob
    u1 = u1
    u2 = u2
    s1 = s1
    s2 = s2
    s3 = s3
    c1 = c1
    c2 = c2
    None = None
    NoCid = NoCid
    Users = {ana, bob}
    Ids = {}
    Uploader <- Nobody
    Leavers = {}
    Slots = {s1, s2, s3}
    Cids = {c1, c2}
    Sender <- SenderOf
    Carries <- NoUploads
    DailyFiles = 1
    UploadCap = 2
    LruHigh = 1
    LruLow = 1
    MaxCleanups = 0
    MaxKeys = 1
    Ops = {"send", "erase", "window"}
SPECIFICATION FairSpec
INVARIANTS SentOnce AnswerIsStored
PROPERTY SendsEnd
CHECK_DEADLOCK FALSE
