SPECIFICATION DecideSpec
CONSTANTS
    VMs = {v1}
    Runs = {r1, r2}
    Slot = slot
    Operators = {o1}
    Cadence = 2
    Retry = 1
    Null = Null
    MaxDay = 3
    MaxRestarts = 1
    Storages = 2
    MaxSpace = 4
    MaxDisks = 3
    Reserve = 1
    Clients = {c1, c2}
    Addresses = {h1, h2}
    None = None
    MaxActs = 3
    MaxKeys = 2
    Warn = 1
    Critical = 2
    CopyWindow = 0
    SlowWindow = 1
    FailedWindow = 1
    VerifyAge = 1
    Interval = 2
    Lead = 1
    MaxDays = 3
    MaxBackups = 2
    Guests = {1, 2}
    Deleted = {3}
    MaxBackupJobs = 2
    MaxRules = 3
    MaxStores = 3
    Names = {"a"}
    MaxNsDepth = 3
    NsJobs = 2
    MaxJobs = 3
INVARIANTS TargetSound ViewsAgree GuestAsConfigured TokenWorks PinnedUntilCleared WalkFollowsData ColumnsInOrder
PROPERTIES BetterForCause CadenceKept FailedBacksOff OverdueIsQueued
CHECK_DEADLOCK FALSE
