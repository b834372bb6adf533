CONSTANTS
    na = na
    nb = nb
    nc = nc
    Node = {na, nb, nc}
    Peers <- SeedPeers
    Mortal = {nc}
    Silent = {nc}
    Interval = 1
    Timeout = 1
    Ttl = 4
    MaxBusy = 1
    MaxUpsets = 1
SPECIFICATION FairSpec
INVARIANTS
    TypeOK
    OwnEntryHeld
PROPERTIES
    LiveNodesFound
    DeadNodesForgotten
