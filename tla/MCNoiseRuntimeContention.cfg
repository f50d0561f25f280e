SPECIFICATION FairRuntimeSpec
CONSTANTS
    c1 = c1
    c2 = c2
    c3 = c3
    Clients = {c1, c2, c3}
    Allowed = {c1, c2}
    MaximumPending = 1
    HandshakeTimeout = 2
    MaxInstant = 4
    MaxCandidateId = 3
    MaxClientRuns = 1
    MaxServerRuns = 1
INVARIANTS
    ServerPeerProven
    DuplicateFinishNeverFatal
PROPERTIES
    ClientRunResolves
    CandidatesResolve
CHECK_DEADLOCK FALSE
