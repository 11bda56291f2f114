\* Scheduler: two tasks of equal priority.  Delivery: both host programs; two
\* tasks that nest Disable() two deep and sleep.  No symmetry, because of the
\* liveness properties.
SPECIFICATION LiveSpec
CONSTANTS
    Tasks = {t1, t2}
    NoTask = NoTask
    Signals = {s1}
    ExceptSignals = {}
    Priorities = {0}
    Quantum = 1
    MaxForbid = 1
    Drivers = {"loop", "api"}
    MaxNest = 2
INVARIANTS
    NestingKept
PROPERTIES
    NoVBlankLost
    VBlankServed
    ReadyEventuallyRuns
