SPECIFICATION FairLifecycleSpec
CONSTANTS
    Hosts = {"vpn", "other", "lan", "tun", "localhost"}
    NftNames = {"crab0", "eth0"}
    Keys = {"k1", "k2"}
    Files <- NatServerOnly
    Arguments <- NoOverrides
    ChainListings <- NoListings
    MaxHandle = 3
    MaxIdle = 2
PROPERTY CtrlCDuringHandshakeCleansUp
CHECK_DEADLOCK FALSE
