\* Two payments of one payroll overlap.
CONSTANTS
    Offers = {o1, o2}
    Pairs = {k1}
    NoPair = NoPair
    FirstStatuses <- PendingOrAccepted
    Responses <- Answers
    MaxHistory = 3
    Payrolls = {p1}
    Sheets = {s1}
    TaxCodes = {c1, c2}
    NoTaxCode = NoTaxCode
    Reasons = {bounced, closed}
    Requests = {r1, r2}
    Nothing = Nothing
    MaxSaves = 3
    Users = {u1}
    Reactions = {a, b}
    Codes = {t1, t2}
    Names = {n1}
    Methods = {m1, m2}
    OfCompany = {m1}
    Cards = {m1}
    Periods <- WeekAndLess
    HourTotals = {8}
    WeekStarts = {0}
    MaxPayrollSaves = 7
    ScoreLists <- TwoScoreLists
    LastDay = 1
    Reminder = 1
    Total = 5
    Amounts = {2, 5}
    Channels = {"IN_APP", "EMAIL"}
    FewSaves = 2
    ManySaves = 4
    TaxValues = {1}
    LastMonth = 2
    Plans <- ThreePlans
    Given <- DueOrPaid
    Contacts = {"first", "second"}
    MaxMarkSaves = 6
    MaxMessageSaves = 5
    Keys = {"key", "other"}
    PreferenceValues = {1, 2}
    Durations = {0, 2}
    Ticks = {"tick", "next tick"}
    MaxReports = 3
    MaxChanges = 2
    Sockets = {"first", "second", "third"}
    OtherUsers = {"user", "other"}
    RoomNames = {"room", "other"}
SPECIFICATION PayrollSpec
INVARIANT
    PaidOnce
