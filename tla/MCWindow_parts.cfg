CONSTANTS
    u1 = u1
    d1 = d1
    Problems <- OneProblem
    Disks = {}
    Units = {u1}
    Conditions <- QuietOrWorn
    Drives = {d1}
    Nets <- WiredAndWireless
    Wireless = {"wireless"}
    MaxPolls = 2
    MaxKeys = 2
    Permitted = {}
    StartupPermitted = {}

SPECIFICATION MCSpec

INVARIANTS
    TickIsShown
    OnePage
    ShownIsTrue

PROPERTIES
    BadgeCatchesUp
