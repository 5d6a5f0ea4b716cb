\* Scans that fail, figures that are wanted or not, processes that come, go and move.
SPECIFICATION MCSpec
CONSTANTS
    p1 = p1
    d1 = d1
    app = app
    shell = shell
    PIDs <- OneNumber
    Units <- TwoUnits
    Cores = 1
    Word = 16
    RescanTicks = 3
    MaxWork = 2
    MaxGap = 2
    DeviceNames <- OneDevice
    SpaceEvery = 3
    MaxBytes = 2
    CoreNumbers <- TwoCores
    MaxTime = 2
    HistLen = 3
    Values <- ThreeSamples
    Numbers <- TwoNumbers
    Programs <- OneProgram
    MaxStart = 3
    Permitted <- ScansFailAndWantsChange
INVARIANTS
    WorkIsShownOnce
    SweepsFindAll
    GraphIsTraffic
    FiguresCatchUp
    RingIsLastSamples
    SignalsWhatWasMeant
PROPERTIES
    UsageIsTime
