SPECIFICATION DataSpec
CONSTANTS
    MaxSequence = 5
    Width = 2
    CounterMax = 7
    Mtu <- One
    MaxOutPackets <- WindowOutPackets
    MaxOutBytes <- WindowBytes
    MaxInPackets <- WindowInPackets
    MaxInBytes <- WindowBytes
    IdleTimeout <- One
    Sizes = {0, 1}
INVARIANTS
    DataTypeOK
    NonceUsedOnce
    WindowCorrect
PROPERTY
    DeliversAtMostOnce
