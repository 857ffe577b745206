SPECIFICATION Spec
CONSTANTS
  r1 = r1
  r2 = r2
  Reqs <- MCReqs
  AccessTTL = 2
  AdminTTL = 3
  LocalTTL = 0
  TicketTTL = 1
  Roles = {TRUE, FALSE}
  MaxTime = 3
  MaxRequests = 4
  MaxTokens = 2
  MaxLinks = 1
  MaxSignOuts = 1
  MaxFaults = 1
SYMMETRY Symmetry
CHECK_DEADLOCK FALSE
INVARIANT NoOldSession
INVARIANT BannedStaysOut
INVARIANT OwnSessionWorks
INVARIANT SessionsInv
