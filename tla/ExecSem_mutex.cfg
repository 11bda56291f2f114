\* Programs that call for semaphores again after they slept for one.
SPECIFICATION Spec
CONSTANTS
    Tasks = {t1, t2, t3}
    Nobody = Nobody
    Odd = Odd
    Sems = {s1}
    MaxNest = 1
    Careful = FALSE
    SharedMayWait = FALSE
SYMMETRY SemSymmetry
INVARIANTS
    MutualExclusion
