\* Four people in a group of three: the creator may be suspended, another may
\* delete the account.
CONSTANTS
    ana = ana
    bob = bob
    cid = cid
    dan = dan
    NoUser = NoUser
    Users = {ana, bob, cid, dan}
    Creator = ana
    Deleters = {bob}
    Suspects = {ana}
    Perms = {"remove_members"}
    MaxMember = 3
    MaxJoins = 4
SPECIFICATION Spec
INVARIANTS GroupsInv OneAdmin HeirIsNext
SYMMETRY Bystanders
CHECK_DEADLOCK FALSE
