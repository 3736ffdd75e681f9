\* Two workers' entries overlap.
CONSTANTS
    Sheets = {s1}
    Keys = {k1}
    Requests = {r1, r2}
    Payrolls = {p1}
    NoPayroll = NoPayroll
    NoKey = NoKey
    EntryKinds <- OneEntryKind
    MaxEntries = 2
    MaxWrites <- Four
    First = s1
SPECIFICATION Spec
INVARIANT
    TotalIsSum
