CONSTANTS
    na = na
    nb = nb
    chat = chat
    first = first
    second = second
    Client = {chat, first}
    Entry = {chat}
    Home <- AtFirstNode
    Node = {na, nb}
    NumLayers = 1
    Stages <- TwoHolders
    MaxNew <- ChatShort
    StopAt <- ClientStops
    MaxFailovers = 1
    MaxStops = 1
    MaxUpsets = 1
    MaxLosses = 1
SPECIFICATION FairSpec
INVARIANTS
    TypeOK
    AnswerIsReference
    FailedPeersStayOut
    LogTellsOutcome
    AnsweredLeaveNoCache
PROPERTIES
    RequestsAdvance
    EveryRequestEnds
