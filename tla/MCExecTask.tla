----------------------------- MODULE MCExecTask -----------------------------
(* Model checking of ExecTask: the task structures are interchangeable.    *)
EXTENDS ExecTask, TLC

TaskSymmetry == Permutations(Tasks)
=============================================================================
