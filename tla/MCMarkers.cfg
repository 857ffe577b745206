\* Two receipts, of one message or of two, one fault and one early reclaim.
CONSTANTS
    seen1 = seen1
    seen2 = seen2
    Jobs = {seen1, seen2}
    Payloads <- SeenMessages
    Created <- CreatedAt
    MaxRetries = 2
    MaxLen = 2
    MaxFaults = 1
    MaxStale = 1
SPECIFICATION MCSpec
INVARIANTS NoLoss QueueInv SeenStaysSeen
PROPERTY JobsEnd
CHECK_DEADLOCK FALSE
