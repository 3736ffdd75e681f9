\* One availability of every kind, two overlapping requests.
CONSTANTS
    MonthLength <- Year2025
    FirstWeekday <- Wednesday
    Plans <- SmallPlans
    SlotLists <- SmallSlotLists
    FirstExceptions <- OneOrNone
    ExceptionDays = {31, 44}
    Dates <- RangeEnds
    Requests = {r1, r2}
    LastDay = 1
    MaxVersion = 2
SYMMETRY Interchangeable
SPECIFICATION Spec
INVARIANTS
    DateRangeQueryExact
    OccurrenceFound
PROPERTIES
    ExceptionsKept
    NoRevivalAfterEnd
