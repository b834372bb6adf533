CONSTANTS
    wa = wa
    wb = wb
    wc = wc
    greedy = greedy
    sampled = sampled
    other = other
    NoJob = NoJob
    Request = {greedy, other}
    Conn = {wa, wb}
    JobId = {1}
    NumLayers = 1
    Stages <- WholeStages
    Fused = {wb}
    MaxNew <- ThreeNew
    StopAt <- NeverStop
    Sampled = {}
    Invalid = {other}
    MaxFailovers = 1
    MaxCrashes = 1
    MaxLosses = 1
SPECIFICATION Spec
INVARIANTS
    GreedyAnswerIsReference
    NoOrphanRow
