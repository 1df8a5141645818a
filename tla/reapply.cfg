SPECIFICATION Spec
CONSTANTS
    FeeSink = "sink"
    FeeBps = 5000
    BlockReward = 4
    Blocks <- MCBlocks
    Finalized <- MCFinalized
    Submitted <- MCSubmitted
    Genesis = "g"
    MaxHeight = 3
    Addresses <- MCAddresses
    Outpoints <- MCOutpoints
    Dids = {"did"}
    NoHash = "none"
    Peers = {"main", "fork"}
    ValidatorPeers = {"main"}
    PeerChain <- MCPeerChain
    PeerProofs <- MCPeerProofs
    PageSize = 2
    WrongChainLimit = 2
CONSTRAINT FewFaults
ACTION_CONSTRAINT TaskStepsBetweenBlocks
INVARIANT ReapplyOverwrites
