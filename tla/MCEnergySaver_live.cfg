SPECIFICATION FairSpec
CONSTANTS
    a1 = a1
    u1 = u1
    u2 = u2
    Apps = {a1}
    Units = {u1}
    AppOf <- OneWindow
    Terminals = {}
    Self = {}
    EaseAfter = 2
    RestoreAfter = 2
    AudioEvery = 2
    Intervals = {1}
    OthersWeights = {300}
    Permitted = {"sound", "settings"}
INVARIANTS
    NothingIsStranded
PROPERTIES
    PutBackInTheEnd
