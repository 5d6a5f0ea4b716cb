SPECIFICATION Spec
CONSTANTS
    a1 = a1
    u1 = u1
    u2 = u2
    Apps = {a1}
    Units = {u1}
    AppOf <- OneWindow
    Terminals = {}
    Self = {}
    EaseAfter = 2
    RestoreAfter = 2
    AudioEvery = 2
    Intervals = {1}
    OthersWeights = {300, 10001}
    Permitted = {"hidden", "sound", "settings", "crash", "restart", "mute", "overtake"}
INVARIANTS
    PutsBack
    HeldIsListed
PROPERTIES
    NeverEasesSound
    HandEasesStay
    OthersWeightStands
