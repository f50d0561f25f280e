SPECIFICATION FairTunnelSpec
CONSTANTS
    MaxSequence = 2
    Clients = {"c1", "c2"}
    Mtu <- MCMtu
    CounterMax = 2
    Packets <- MCPackets
    Strays <- MCStrays
    Samples <- MCSamples
    MaxTurns <- MCMaxTurns
INVARIANTS TunnelTypeOK OnePeer StatsExact FramesUnambiguous
PROPERTIES CtrlCEndsLoop
CHECK_DEADLOCK FALSE
