SPECIFICATION Spec
CONSTANTS
    Runs = {r1, r2}
    NoRun = NoRun
    VmidFrom = 1
    VmidTo = 4
    VlanFrom = 1
    VlanTo = 2
    IpFrom = 1
    IpTo = 2
    Hold = {r1}
    Distributed = {}
    Healers = {}
    Operators = {op}
    MaxJobs = 1
    MaxFaults = 0
    MaxRestarts = 0
INVARIANTS SandboxesDistinct ErrorHasNoEvidence
