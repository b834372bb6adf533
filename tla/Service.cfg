CONSTANTS
    wa = wa
    wb = wb
    wc = wc
    greedy = greedy
    sampled = sampled
    other = other
    NoJob = NoJob
    Request = {greedy}
    Conn = {wa, wc}
    JobId = {1}
    NumLayers = 2
    Stages <- SplitStages
    Fused = {wc}
    MaxNew <- ThreeNew
    StopAt <- StopAfterTwo
    Sampled = {}
    Invalid = {}
    MaxFailovers = 1
    MaxCrashes = 1
    MaxLosses = 0
SPECIFICATION FairSpec
PROPERTIES
    ImplementsService
