------------------------------- MODULE MCLive -------------------------------
(* Model checking of what must happen in the end: every vertical blank is  *)
(* served (IrqDelivery), every ready task runs (ExecTask).  The two look   *)
(* at the same tasks at different depths and share no variable.  In a      *)
(* behaviour one of them moves, under its own fairness; the other stands   *)
(* still.                                                                  *)
EXTENDS IrqDelivery

CONSTANTS NoTask, Signals, ExceptSignals, Priorities, Quantum,  \* ExecTask's
          MaxForbid     \* ExecTask's bound on nested Forbid() and Disable() calls

VARIABLES
    moving,     \* "scheduler" or "delivery"
    execTask, TaskReady, TaskWait, Elapsed, QuantumOver, execIDNest, TDNestCnt,
    tc_State, ln_Pri, tc_SigRecvd, tc_SigWait, tc_SigExcept, tc_Except,
    execSavedIDNest, tc_TDNestCnt, cpu, execIrqFrom,
    execPc, target, sigArg, forbids, execDisables

scheduler == <<execTask, TaskReady, TaskWait, Elapsed, QuantumOver, execIDNest, TDNestCnt,
               tc_State, ln_Pri, tc_SigRecvd, tc_SigWait, tc_SigExcept, tc_Except,
               execSavedIDNest, tc_TDNestCnt, cpu, execIrqFrom,
               execPc, target, sigArg, forbids, execDisables>>

Exec == INSTANCE ExecTask WITH
    MaxNest <- MaxForbid, ThisTask <- execTask, IDNestCnt <- execIDNest,
    tc_IDNestCnt <- execSavedIDNest, irqFrom <- execIrqFrom, pc <- execPc,
    disables <- execDisables

LiveInit ==
    /\ moving \in {"scheduler", "delivery"}
    /\ Init /\ Exec!Init
    /\ moving # "scheduler" => execTask = CHOOSE t \in Tasks : TRUE
    /\ moving # "delivery" => /\ driver = CHOOSE d \in Drivers : TRUE
                              /\ ThisTask = CHOOSE t \in Tasks : TRUE

LiveNext ==
    \/ moving = "scheduler" /\ Exec!Next /\ UNCHANGED <<vars, moving>>
    \/ moving = "delivery" /\ Next /\ UNCHANGED <<scheduler, moving>>

LiveFairness ==
    \/ moving = "scheduler" /\ Exec!KernelFairness /\ Exec!ProgramFairness
    \/ moving = "delivery" /\ Fairness

LiveSpec == LiveInit /\ [][LiveNext]_<<vars, scheduler, moving>> /\ LiveFairness

\* With priorities equal every ready task gets the CPU: the property of ExecTask.
ReadyEventuallyRuns == Exec!ReadyEventuallyRuns
=============================================================================
