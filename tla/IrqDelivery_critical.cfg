\* A task that is preempted half way through Disable().
SPECIFICATION Spec
CONSTANTS
    Tasks = {t1, t2}
    Drivers = {"loop"}
    MaxNest = 1
INVARIANTS
    DisableKeepsIntenaOff
