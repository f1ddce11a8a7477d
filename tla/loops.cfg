SPECIFICATION RoundSpec
CONSTANTS
    Backups = 2
    Period = 2
    StaleHours = 1
    JoinHours = 3
    RetryHours = 1
    MaxHour = 4
    Pollers = {p1, p2}
    MaxRuns = 1
    Every = 2
    MaxClicks = 6
    WeekTicks = 3
    MonthTicks = 4
    Overdue = 1
    MaxTicks = 4
    MaxFaults = 2
    Hosts = 3
    Ports = {"p1", "p2"}
    MaxPasses = 2
    MaxGuestChanges = 2
PROPERTIES RowsEndTrue DiagramFollows OutageTold ArrivesOnce VerdictTrue
CHECK_DEADLOCK FALSE
