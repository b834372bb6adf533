CONSTANTS
    wa = wa
    wb = wb
    wc = wc
    greedy = greedy
    sampled = sampled
    other = other
    NoJob = NoJob
    Request = {greedy}
    Conn = {wa, wb, wc}
    JobId = {1}
    NumLayers = 2
    Stages <- SplitStages
    Fused = {wb, wc}
    MaxNew <- ThreeNew
    StopAt <- StopAfterTwo
    Sampled = {}
    Invalid = {}
    MaxFailovers = 2
    MaxCrashes = 0
    MaxLosses = 0
SPECIFICATION Spec
INVARIANTS
    TypeOK
    FailedNodesStayOut
    AwaitedNodesPresent
    CachesFollowPositions
    GreedyAnswerIsReference
    WinnerCachesReleased
