\* Two readers against two writers, with a forgotten counter between loads.
CONSTANTS
    Readers = {r1, r2}
    Writers = {w1, w2}
    MaxCommits = 2
    MaxResets = 1
    ResetMidLoad = FALSE
SPECIFICATION CacheFairSpec
INVARIANTS NoStaleValue
PROPERTIES ReadsAreFresh StalenessEnds
