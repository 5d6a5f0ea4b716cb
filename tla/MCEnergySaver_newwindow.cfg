SPECIFICATION Spec
CONSTANTS
    a1 = a1
    u1 = u1
    u2 = u2
    Apps = {a1}
    Units = {u1, u2}
    AppOf <- TwoWindows
    Terminals = {}
    Self = {}
    EaseAfter = 1
    RestoreAfter = 1
    AudioEvery = 1
    Intervals = {1}
    OthersWeights = {300}
    Permitted = {}
INVARIANTS
    ClosingPutsBack
