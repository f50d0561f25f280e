SPECIFICATION FairLifecycleSpec
CONSTANTS
    Hosts = {"vpn", "other", "lan", "tun", "localhost"}
    NftNames = {"crab0", "eth0"}
    Keys = {"k1", "k2"}
    Files <- MCFiles
    Arguments <- MCArguments
    ChainListings <- MCChainListings
    MaxHandle = 3
    MaxIdle = 2
INVARIANTS LifecycleTypeOK OwnershipTracked LeftoverReported TransportNotCaptured LateRefusalsKnown AssessmentConservative
PROPERTIES PreexistingPreserved ChangedStateKept RestoreCompletes
CHECK_DEADLOCK FALSE
