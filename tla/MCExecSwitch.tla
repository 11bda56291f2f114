---------------------------- MODULE MCExecSwitch ----------------------------
(* Model checking of ExecSwitch: the tasks are interchangeable.            *)
EXTENDS ExecSwitch, TLC

TaskSymmetry == Permutations(SwitchTasks)
=============================================================================
