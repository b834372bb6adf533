CONSTANTS
    ma = ma
    mb = mb
    mc = mc
    md = md
    Node = {ma, mb, mc, md}
    NumLayers = 4
    Fits <- MixedFits
    Target = 1
SPECIFICATION Spec
INVARIANTS
    TypeOK
    OrderlyJoinsServe
    ChainsRunWholeModel
PROPERTIES
    TurnedAwayOnlyIfOperational
