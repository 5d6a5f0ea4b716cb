\* From the check to the restart, with nothing going wrong but checks, clones and builds.
CONSTANTS
    main = main
    minimal = minimal
    job1 = job1
    job2 = job2
    Channels <- TwoChannels
    Minimal = minimal
    Jobs <- TwoJobs
    MaxVersion = 1
    Permitted <- Nothing

SPECIFICATION FairSpec

INVARIANTS
    OneBuildAtATime
    RecordedIsWhole
    TakenIsInstalled

PROPERTIES
    RestartComesBack
