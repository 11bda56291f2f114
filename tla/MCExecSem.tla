----------------------------- MODULE MCExecSem ------------------------------
(* Model checking of ExecSem: tasks and semaphores are interchangeable.    *)
EXTENDS ExecSem, TLC

SemSymmetry == Permutations(Tasks) \cup Permutations(Sems)
=============================================================================
