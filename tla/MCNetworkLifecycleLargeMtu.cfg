SPECIFICATION LifecycleSpec
CONSTANTS
    Hosts = {"vpn", "other", "lan", "tun", "localhost"}
    NftNames = {"crab0", "eth0"}
    Keys = {"k1", "k2"}
    Files <- LargeMtuOnly
    Arguments <- NoOverrides
    ChainListings <- NoListings
    MaxHandle = 0
    MaxIdle = 2
INVARIANT DataCodecBuiltFirst
CHECK_DEADLOCK FALSE
