\* The same; ranges that start on the last of a month.
CONSTANTS
    MonthLength <- Year2025
    FirstWeekday <- Wednesday
    Plans <- SmallPlans
    SlotLists <- SmallSlotLists
    FirstExceptions <- OneOrNone
    ExceptionDays = {31, 44}
    Dates <- RangeEnds
    Requests = {r1, r2}
    LastDay = 1
    MaxVersion = 2
SPECIFICATION Spec
INVARIANT
    MonthlyOccurrenceFound
