SPECIFICATION Spec
CONSTANTS
    VMs = {v1}
    Runs = {r1, r2}
    Slot = slot
    Operators = {o1}
    Cadence = 2
    Retry = 1
    Null = Null
    MaxDay = 3
    MaxRestarts = 0
PROPERTY RetryHonoured
