SPECIFICATION Spec
CONSTANTS
    Runs = {r1, r2}
    NoRun = NoRun
    VmidFrom = 1
    VmidTo = 4
    VlanFrom = 1
    VlanTo = 2
    IpFrom = 1
    IpTo = 2
    Hold = {r1}
    Distributed = {r2}
    Healers = {"autosync"}
    Operators = {}
    MaxJobs = 1
    MaxFaults = 1
    MaxRestarts = 1
PROPERTIES ExecutorSparesHeld Lifecycle
