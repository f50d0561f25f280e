SPECIFICATION RuntimeSpec
CONSTANTS
    c1 = c1
    c2 = c2
    c3 = c3
    Clients = {c1}
    Allowed = {c1}
    MaximumPending = 1
    HandshakeTimeout = 2
    MaxInstant = 5
    MaxCandidateId = 4
    MaxClientRuns = 2
    MaxServerRuns = 2
INVARIANT
    SessionsAgree
PROPERTIES
    SessionUsedOnce
CHECK_DEADLOCK FALSE
