\* The window shown, hidden, paged and closed while samplers and scans run.
CONSTANTS
    cpu = cpu
    mem = mem
    scan1 = scan1
    scan2 = scan2
    apps = apps
    memory = memory
    Samplers <- TwoSamplers
    Scanners <- TwoScanners
    Pages <- TwoPages
    NeedsProcs <- ProcessPages

SPECIFICATION Spec

INVARIANTS
    ScansWhereUsed
    ScanHasItsDescriptor

PROPERTIES
    GatePromise
    NobodyWaitsForEver

\* The process ends.
CHECK_DEADLOCK FALSE
