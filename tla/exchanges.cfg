SPECIFICATION ExchangeSpec
CONSTANTS
    Keys = {k1}
    Rounds = 3
    Callers = {a1, a2}
    Timers = {t1, t2, t3}
    NoMessage = NoMessage
    NoTimer = NoTimer
    MaxRestarts = 1
    MaxRetries = 2
    MaxTroubles = 3
    MaxCalls = 2
    Watched = {c1, c2}
    Askers = {w1, w2}
    FetchThreads = 1
    NodeThreads = 1
    MaxAge = 1
    PeekAge = 2
    MaxSeconds = 3
    LogPage = 2
    MaxLines = 7
    MaxLooks = 3
INVARIANTS AlertsKept RepeatsWell SectionIsCurrent
PROPERTIES HandedOverOnce QueueFlushed CallersServed
CHECK_DEADLOCK FALSE
