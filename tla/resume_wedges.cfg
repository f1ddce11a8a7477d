SPECIFICATION FairSpec
CONSTANTS
    Runs = {r1}
    NoRun = NoRun
    VmidFrom = 1
    VmidTo = 2
    VlanFrom = 1
    VlanTo = 1
    IpFrom = 1
    IpTo = 1
    Hold = {}
    Distributed = {}
    Healers = {"watchdog"}
    Operators = {}
    MaxJobs = 1
    MaxFaults = 1
    MaxRestarts = 1
PROPERTIES RunEnds
