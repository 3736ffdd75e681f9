\* Two overlapping requests on one timesheet.
CONSTANTS
    Sheets = {s1}
    Keys = {k1}
    Requests = {r1, r2}
    Payrolls = {p1}
    NoPayroll = NoPayroll
    NoKey = NoKey
    EntryKinds <- OneEntryKind
    MaxEntries = 2
    MaxWrites <- Seven
    First = s1
SPECIFICATION Spec
INVARIANTS
    DeletedFlag
    StatusIsAudited
    PaidAfterApproval
    PayrollMarkKept
    TotalOfKnownEntries
    DraftWorkEnds
PROPERTIES
    ImplementsLifecycle
