\* A task removes another one while signals are sent.
SPECIFICATION SpecRemOther
CONSTANTS
    Tasks = {t1, t2, t3}
    NoTask = NoTask
    Signals = {s1}
    ExceptSignals = {}
    Priorities = {0}
    Quantum = 0
    MaxNest = 0
SYMMETRY TaskSymmetry
INVARIANTS
    RemovedStaysOut
