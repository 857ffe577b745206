\* Two accounts, three addresses, two requests, two guesses at a code.
CONSTANTS
    u1 = u1
    u2 = u2
    e1 = e1
    e2 = e2
    e3 = e3
    s1 = s1
    s2 = s2
    Ids = {u1, u2}
    Emails = {e1, e2, e3}
    Google = e1
    Slots = {s1, s2}
    First = First
    None = None
    MaxAttempts = 2
SPECIFICATION Spec
SYMMETRY Symmetry
INVARIANTS AccountsInv CodeLimits MailedCodeWorks
CHECK_DEADLOCK FALSE
