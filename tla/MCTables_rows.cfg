SPECIFICATION MCSpec
CONSTANTS
    p1 = p1
    p2 = p2
    p3 = p3
    first = first
    second = second
    Pids = {p1, p2, p3}
    Names = {1, 2}
    Programs <- TwoPrograms
    Searched = {1}
    MaxProcs = 2
    Units <- ThreeUnits
    ServiceUnits <- TwoServices
    Changing <- LastService
    Searches <- AnySearch
    Jobs <- TwoJobs
SYMMETRY MCSymmetry
INVARIANTS
    RowsAreTheSnapshot
    GtkOrderHolds
    RowsAreTheList
PROPERTIES
    CatchesUp
    SelectionFollowsUnit
