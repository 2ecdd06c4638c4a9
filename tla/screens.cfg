SPECIFICATION ScreensSpec
CONSTANTS
    None = None
    ann = ann
    bob = bob
    n1 = n1
    n2 = n2
    cara = cara
    dan = dan
    Customers = {ann, bob}
    Numbers = {n1}
    Sales <- MCSales
    Registered <- MCRegistered
    Times <- MCTimes
    Zone <- MCZone
    ReportDays <- MCReportDays
    MonthStarts <- MCMonthStarts
    NamedPeriods = {"week"}
    MinimumMinutes = 30
    RequestMinutes = 5
    MaxChanges = 4
    NewDays = 1
    RegularDays = 2
    RegularVisits = 2
    AtRiskDays = 2
    LostDays = 3
    Interval = 2
INVARIANTS IncomeAddsUp ScreensAgree ReprintExplained VisitsAgree
PROPERTY VisitIsTheOneAnnounced
CHECK_DEADLOCK FALSE
