SPECIFICATION WorkSpec
CONSTANTS
    Guests = {g1}
    FileStarts = {3}
    SnapshotStarts = {1}
    Lag = 1
    MaxChanges = 3
    VmidFrom = 1
    VmidTo = 7
    VlanFrom = 1
    VlanTo = 4
    IpFrom = 1
    IpTo = 3
    Marks = {0, 5, 50, 100}
    Factor = 6
    Floor = 1
    Appear = 1
    MaxClock = 6
    MaxOutages = 1
    Disks = 3
    Leftover = TRUE
    MaxFaults = 1
    Storages = {s1}
    NoStorage = NoStorage
    Requests = {q1, q2}
    MaxCrashes = 1
    MgmtAddresses = {1, 2, 5}
    MaxImages = 2
    MaxRestartsOfApp = 2
    MaxMishaps = 1
INVARIANTS AllocatesRight BootsIsolated AllOrNothing HelperServes
PROPERTIES StallsToldApart CancelEnds TestsOrderly PruneExact CompleteSyncIsTrue
CHECK_DEADLOCK FALSE
