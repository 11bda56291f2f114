\* Two tasks that take exceptions, nest Forbid() and Disable() and sleep in between.
SPECIFICATION Spec
CONSTANTS
    Tasks = {t1, t2}
    NoTask = NoTask
    Signals = {s1, s2}
    ExceptSignals = {s2}
    Priorities = {0}
    Quantum = 0
    MaxNest = 1
SYMMETRY TaskSymmetry
INVARIANTS
    NoLostWakeup
    

    
