\* Logs of up to five events, recorded and verified by two overlapping requests
\* while other operations save the timesheet.
CONSTANTS
    Events <- Day
    Requests = {r1, r2}
    MaxEvents = 5
    MaxVersion = 5
SYMMETRY RequestSymmetry
SPECIFICATION Spec
INVARIANTS
    TypeOK
    DurationOfEvents
    VerifiesWhatWasSeen
    DurationCountsMinutes
    NegativeOnlyByMistake
