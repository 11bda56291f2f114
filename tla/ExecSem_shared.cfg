\* A task asks in shared mode for a semaphore that another task holds.
SPECIFICATION Spec
CONSTANTS
    Tasks = {t1, t2}
    Nobody = Nobody
    Odd = Odd
    Sems = {s1}
    MaxNest = 1
    Careful = TRUE
    SharedMayWait = TRUE
SYMMETRY SemSymmetry
INVARIANTS
    NoRequestForgotten
