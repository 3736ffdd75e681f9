\* Two overlapping timesheet requests and one payroll request: long enough for a
\* timesheet that was marked as processed to be approved once more.
CONSTANTS
    Sheets = {s1}
    Keys = {k1}
    Requests = {r1, r2}
    Payrolls = {p1}
    NoPayroll = NoPayroll
    NoKey = NoKey
    EntryKinds <- OneEntryKind
    MaxEntries = 2
    MaxWrites <- Six
    Periods <- OneWeek
    HourTotals <- MorningTotals
    WeekStarts <- Mondays
    Week <- EveryMonday
    Reasons = {bounced}
    PayrollRequests = {q1}
    MaxSaves = 5
SPECIFICATION SystemSpec
INVARIANTS
    ItemsExplained
PROPERTIES
    PayrollImplementsStrictLifecycle
    ProcessedNotCollected
