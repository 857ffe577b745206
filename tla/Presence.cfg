\* One user comes and goes twice, watched by a friend.
CONSTANTS
    Users = {ana}
    MaxChanges = 4
    MaxSettings = 1
SPECIFICATION Spec
INVARIANT PresenceIsRight
CHECK_DEADLOCK FALSE
