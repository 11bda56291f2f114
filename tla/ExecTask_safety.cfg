\* Three tasks on two priorities, one signal, no exceptions.
SPECIFICATION Spec
CONSTANTS
    Tasks = {t1, t2, t3}
    NoTask = NoTask
    Signals = {s1}
    ExceptSignals = {}
    Priorities = {0, 1}
    Quantum = 1
    MaxNest = 0
SYMMETRY TaskSymmetry
INVARIANTS
    TypeOK
    QueueConsistent
    ReadySorted
    HaltOnlyWhenAllGone
PROPERTIES
    HighestPriorityRuns
    ReadyFifo
