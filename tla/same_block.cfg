SPECIFICATION Spec
CONSTANTS
    FeeSink = "sink"
    FeeBps = 5000
    BlockReward = 4
    Blocks <- PayBlocks
    Finalized <- PayFinalized
    Submitted = {}
    Genesis = "g"
    MaxHeight = 3
    Addresses <- PayAddresses
    Outpoints = {}
    Dids = {"did"}
    NoHash = "none"
    Peers = {"main"}
    ValidatorPeers = {"main"}
    PeerChain <- PayPeerChain
    PeerProofs <- PayPeerProofs
    PageSize = 2
    WrongChainLimit = 2
CONSTRAINT FewFaults
ACTION_CONSTRAINT TaskStepsBetweenBlocks
INVARIANT SovAccounted
