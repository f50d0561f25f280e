SPECIFICATION ServerSpec
CONSTANTS
    s1 = s1
    s2 = s2
    s3 = s3
    good = good
    bad = bad
    Sources <- MCSources
    Hellos <- MCHellos
    Acceptable <- MCAcceptable
    Attempts = {1, 2}
    MaximumPending = 2
    HandshakeTimeout = 2
    MaxInstant = 4
    MaxCandidateId = 4
SYMMETRY Symmetry
PROPERTIES
    DuplicateFinishKeepsSession
