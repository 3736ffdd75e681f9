\* One request at a time, long enough for a timesheet to go through payroll twice,
\* and a second timesheet of the same week.
CONSTANTS
    Sheets = {s1, s2}
    Keys = {k1}
    Requests = {r1}
    Payrolls = {p1}
    NoPayroll = NoPayroll
    NoKey = NoKey
    EntryKinds <- MixedEntryKinds
    MaxEntries = 2
    MaxWrites <- TenAndOne
    First = s1
SPECIFICATION Spec
INVARIANTS
    TotalIsSum
    RepaidOnlyAfterRestore
    OneLiveUnlessRestored
PROPERTIES
    ImplementsStrictLifecycle
