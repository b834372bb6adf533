CONSTANTS
    wa = wa
    wb = wb
    wc = wc
    greedy = greedy
    sampled = sampled
    other = other
    NoJob = NoJob
    Request = {greedy, sampled}
    Conn = {wa, wb}
    JobId = {1, 2}
    NumLayers = 1
    Stages <- WholeStages
    Fused = {wb}
    MaxNew <- OneNew
    StopAt <- NeverStop
    Sampled = {sampled}
    Invalid = {}
    MaxFailovers = 1
    MaxCrashes = 0
    MaxLosses = 0
SPECIFICATION Spec
INVARIANTS
    LoadAccounting
    LogTracksRequest
PROPERTIES
    TerminalRowsFrozen
