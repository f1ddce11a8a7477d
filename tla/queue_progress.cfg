SPECIFICATION FairSpec
CONSTANTS
    Runs = {r1, r2}
    NoRun = NoRun
    VmidFrom = 1
    VmidTo = 3
    VlanFrom = 1
    VlanTo = 2
    IpFrom = 1
    IpTo = 1
    Hold = {r1}
    Distributed = {}
    Healers = {"watchdog"}
    Operators = {}
    MaxJobs = 1
    MaxFaults = 0
    MaxRestarts = 0
INVARIANTS TypeOK EnvironmentsInOrder
PROPERTIES QueueProgress
