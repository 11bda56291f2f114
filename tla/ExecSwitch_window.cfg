\* The same; the window of Dispatch() interrupted.
SPECIFICATION SwitchSpec
CONSTANTS
    SwitchTasks = {t1, t2, t3}
    Priorities = {0, 1}
    Quantum = 1
SYMMETRY TaskSymmetry
PROPERTIES
    RteReturnsToThisTask
