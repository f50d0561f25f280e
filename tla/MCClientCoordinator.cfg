SPECIFICATION ClientSpec
CONSTANTS
    c1 = c1
    c2 = c2
    Clients <- MCClients
    HandshakeTimeout = 2
    MaxInstant = 6
    Attempts = {1, 2}
SYMMETRY Symmetry
INVARIANTS
    ClientTypeOK
    ClientPhasesAgree
    FinishesAnswerHellos
PROPERTY
    PhasesOnlyAdvance
