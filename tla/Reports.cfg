\* One report, one callback of the interval at a time.
CONSTANTS
    Requests = {r1}
    Ticks = {k1}
    MaxReports = 1
    MaxRuns = 4
SPECIFICATION Spec
INVARIANT
    ThreeAttempts
