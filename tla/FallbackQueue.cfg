\* Three tasks, three callbacks of the interval side by side.
CONSTANTS
    Ticks = {k1, k2, k3}
    MaxTasks = 3
SPECIFICATION Spec
INVARIANTS
    LeavesForAReason
    ToldOncePerCallback
PROPERTIES
    EveryTaskEnds
