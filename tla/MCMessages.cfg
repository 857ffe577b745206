\* Two people, two messages that may have the same time, two requests.
CONSTANTS
    ana = ana
    bob = bob
    q1 = q1
    q2 = q2
    Users = {ana, bob}
    Reqs = {q1, q2}
    Msgs = {1, 2}
    Times = {1, 2}
    PageSize = 1
    None = None
    Group = Group
    Admin = ana
SPECIFICATION Spec
SYMMETRY Symmetry
INVARIANTS MessagesInv CachedIsCurrent DeletedStaysEmpty PageHides HistoryComplete
PROPERTY NothingAfterTheEnd
CHECK_DEADLOCK FALSE
