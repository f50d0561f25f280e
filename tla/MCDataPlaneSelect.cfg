SPECIFICATION FairSelectSpec
CONSTANTS
    MaxSequence = 3
    Width = 2
    CounterMax = 4
    Mtu <- LimitMtu
    MaxOutPackets <- LimitOutPackets
    MaxOutBytes <- LimitOutBytes
    MaxInPackets <- LimitInPackets
    MaxInBytes <- LimitInBytes
    IdleTimeout <- LimitIdle
    Sizes = {0, 1, 2, 3}
INVARIANTS
    LimitsHold
    CtrlCPreempts
PROPERTY
    SessionEnds
