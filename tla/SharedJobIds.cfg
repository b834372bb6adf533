CONSTANTS
    na = na
    nb = nb
    chat = chat
    first = first
    second = second
    Client = {first, second}
    Entry = {}
    Home <- AtFirstNode
    Node = {na, nb}
    NumLayers = 1
    Stages <- TwoHolders
    MaxNew <- ChatShort
    StopAt <- ClientStops
    MaxFailovers = 0
    MaxStops = 0
    MaxUpsets = 1
    MaxLosses = 0
SPECIFICATION Spec
INVARIANTS
    JobIdsAreFresh
