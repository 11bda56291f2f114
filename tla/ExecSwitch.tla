----------------------------- MODULE ExecSwitch -----------------------------
(***************************************************************************)
(* What Switch() and Dispatch() do with the context of a task              *)
(* (src/rom/exceptions.s): Switch() pushes it on the stack the user stack  *)
(* pointer points to and remembers the address in tc_SPReg of ThisTask;    *)
(* Dispatch() sets the user stack pointer and loads the context back.      *)
(*                                                                         *)
(* Dispatch() makes a task ThisTask, in state TS_RUN, and unmasks the CPU  *)
(* before the user stack pointer is that task's: in this window it runs    *)
(* tc_Launch and Exception() with interrupts on.  Module ExecTask takes    *)
(* Dispatch() as one step; this module shows when it is not.               *)
(***************************************************************************)
EXTENDS ExecLists, FiniteSets

CONSTANTS
    SwitchTasks,    \* the tasks
    Priorities,     \* the values of ln_Pri in use
    Quantum         \* SysBase->Quantum, in vertical blanks

ASSUME PrioritiesAssumption == Priorities \subseteq Int
ASSUME QuantumAssumption == Quantum \in Nat

VARIABLES
    ln_Pri,     \* the tasks' priorities, fixed at start
    exceptions, \* whether signals are exceptions for some task, fixed at start
    ThisTask, TaskReady, tc_State, tc_Except, Elapsed,
    USP,        \* the task on whose stack the user stack pointer is
    Frame,      \* each stack: the context in the frame below its top
    tc_SPReg,   \* each task: the stack that holds its frame
    cpu,        \* what is executed: task code, Dispatch() up to the choice of a
                \* task, its window, the interrupt handler
    context,    \* the task whose registers the CPU has (a3 of Dispatch())
    irqFrom,    \* what the handler interrupted
    windowHit   \* bound: at most one interrupt falls into one window

switchVars == <<ln_Pri, exceptions, ThisTask, TaskReady, tc_State, tc_Except, Elapsed, USP, Frame,
          tc_SPReg, cpu, context, irqFrom, windowHit>>
frameVars == <<USP, Frame, tc_SPReg>>

\* A context is what a task executes when it is frozen: its own code, or the
\* window of Dispatch() on its behalf.
Contexts == [task : SwitchTasks, at : {"task", "window"}]

\* Every task but the running one has been started by AddTask(), which builds
\* its first frame.
SwitchInit ==
    \E boot \in SwitchTasks :
        /\ ln_Pri \in [SwitchTasks -> Priorities] /\ exceptions \in BOOLEAN
        /\ ThisTask = boot /\ context = boot /\ USP = boot
        /\ TaskReady = <<>>
        /\ tc_State = [t \in SwitchTasks |-> IF t = boot THEN "TS_RUN" ELSE "TS_WAIT"]
        /\ tc_Except = [t \in SwitchTasks |-> FALSE]
        /\ Elapsed = Quantum
        /\ Frame = [t \in SwitchTasks |-> [task |-> t, at |-> "task"]]
        /\ tc_SPReg = [t \in SwitchTasks |-> t]
        /\ cpu = "task" /\ irqFrom = "task" /\ windowHit = FALSE

-----------------------------------------------------------------------------
\* Switch(): the context that was interrupted goes on the user stack, wherever
\* that is.
Switch(from) ==
    /\ Frame' = [Frame EXCEPT ![USP] = [task |-> context, at |-> from]]
    /\ tc_SPReg' = [tc_SPReg EXCEPT ![ThisTask] = USP]
    /\ cpu' = "dispatch"
    /\ UNCHANGED <<ThisTask, USP>>

\* Wait() of the running task.
Wait ==
    /\ cpu = "task"
    /\ tc_State' = [tc_State EXCEPT ![ThisTask] = "TS_WAIT"]
    /\ Switch("task")
    /\ UNCHANGED <<TaskReady, tc_Except, Elapsed, context, irqFrom, windowHit>>

\* Signal(), by the running task or by a hook of the handler.
Signal(t) ==
    /\ cpu \in {"task", "irq"} /\ tc_State[t] = "TS_WAIT"
    /\ tc_State' = [tc_State EXCEPT ![t] = "TS_READY"]
    /\ TaskReady' = Enqueue(TaskReady, ln_Pri, t)
    /\ UNCHANGED <<ThisTask, tc_Except, Elapsed, frameVars, cpu, context, irqFrom,
                   windowHit>>

\* A signal in tc_SigExcept of a task that runs or is ready.
SignalExcept(t) ==
    /\ exceptions /\ cpu \in {"task", "irq"} /\ tc_State[t] \in {"TS_RUN", "TS_READY"}
    /\ ~tc_Except[t]
    /\ tc_Except' = [tc_Except EXCEPT ![t] = TRUE]
    /\ UNCHANGED <<ThisTask, TaskReady, tc_State, Elapsed, frameVars, cpu, context, irqFrom,
                   windowHit>>

-----------------------------------------------------------------------------
\* Dispatch() up to the instruction that unmasks the CPU.
\* Mutant: the quantum is not started again.
DispatchOldQuantum ==
    /\ cpu = "dispatch" /\ TaskReady # <<>>
    /\ LET t == Head(TaskReady)
       IN  /\ ThisTask' = t /\ context' = t
           /\ tc_State' = [tc_State EXCEPT ![t] = "TS_RUN"]
    /\ TaskReady' = Tail(TaskReady)
    /\ cpu' = "window" /\ windowHit' = FALSE
    /\ UNCHANGED <<tc_Except, Elapsed, frameVars, irqFrom>>

Dispatch ==
    /\ cpu = "dispatch" /\ TaskReady # <<>>
    /\ LET t == Head(TaskReady)
       IN  /\ ThisTask' = t /\ context' = t
           /\ tc_State' = [tc_State EXCEPT ![t] = "TS_RUN"]
    /\ TaskReady' = Tail(TaskReady)
    /\ Elapsed' = Quantum
    /\ cpu' = "window" /\ windowHit' = FALSE
    /\ UNCHANGED <<tc_Except, frameVars, irqFrom>>

\* The window: Exception(), with the registers of the task in context.
Exception ==
    /\ cpu = "window" /\ tc_Except[context]
    /\ tc_Except' = [tc_Except EXCEPT ![context] = FALSE]
    /\ UNCHANGED <<ThisTask, TaskReady, tc_State, Elapsed, frameVars, cpu, context, irqFrom,
                   windowHit>>

\* The end of Dispatch(): the user stack pointer, the registers and the program
\* counter come from the frame that tc_SPReg points to.
Launch ==
    /\ cpu = "window" /\ ~tc_Except[context]
    /\ USP' = tc_SPReg[context]
    /\ context' = Frame[USP'].task
    /\ cpu' = Frame[USP'].at /\ windowHit' = FALSE
    /\ UNCHANGED <<ThisTask, TaskReady, tc_State, tc_Except, Elapsed, Frame,
                   tc_SPReg, irqFrom>>

\* The level 3 interrupt is taken in a task, in the idle loop, in the window.
IrqEnter ==
    /\ cpu \in {"task", "dispatch", "window"}
    /\ cpu = "window" => ~windowHit
    /\ windowHit' = (windowHit \/ cpu = "window")
    /\ irqFrom' = cpu /\ cpu' = "irq"
    /\ UNCHANGED <<ThisTask, TaskReady, tc_State, tc_Except, Elapsed, frameVars, context>>

\* Mutant: without the test of tc_State.
MustSwitchAnyState ==
    \/ tc_Except[ThisTask]
    \/ /\ TaskReady # <<>>
       /\ ln_Pri[Head(TaskReady)] > ln_Pri[ThisTask] \/ Elapsed = 0

\* Schedule()'s decision; SFF_QuantumOver is set when Elapsed was 0 already.
MustSwitch ==
    /\ tc_State[ThisTask] = "TS_RUN"
    /\ \/ tc_Except[ThisTask]
       \/ /\ TaskReady # <<>>
          /\ ln_Pri[Head(TaskReady)] > ln_Pri[ThisTask] \/ Elapsed = 0

\* Mutant: the counter is not tested for zero.
IrqExitWraps ==
    /\ cpu = "irq"
    /\ Elapsed' = Elapsed - 1
    /\ IF MustSwitch
       THEN /\ tc_State' = [tc_State EXCEPT ![ThisTask] = "TS_READY"]
            /\ TaskReady' = Enqueue(TaskReady, ln_Pri, ThisTask)
            /\ Switch(irqFrom)
       ELSE cpu' = irqFrom /\ UNCHANGED <<ThisTask, TaskReady, tc_State, frameVars>>
    /\ UNCHANGED <<tc_Except, context, irqFrom, windowHit>>

IrqExit ==
    /\ cpu = "irq"
    /\ Elapsed' = IF Elapsed = 0 THEN 0 ELSE Elapsed - 1
    /\ IF MustSwitch
       THEN /\ tc_State' = [tc_State EXCEPT ![ThisTask] = "TS_READY"]
            /\ TaskReady' = Enqueue(TaskReady, ln_Pri, ThisTask)
            /\ Switch(irqFrom)
       ELSE cpu' = irqFrom /\ UNCHANGED <<ThisTask, TaskReady, tc_State, frameVars>>
    /\ UNCHANGED <<tc_Except, context, irqFrom, windowHit>>

-----------------------------------------------------------------------------
SwitchNext ==
    /\ \/ Wait \/ Dispatch \/ Exception \/ Launch \/ IrqEnter \/ IrqExit
       \/ \E t \in SwitchTasks : Signal(t) \/ SignalExcept(t)
    /\ UNCHANGED <<ln_Pri, exceptions>>

SwitchSpec == SwitchInit /\ [][SwitchNext]_switchVars

-----------------------------------------------------------------------------
(* Properties.                                                             *)

\* Every variable has its type.
SwitchTypeOK ==
    /\ ln_Pri \in [SwitchTasks -> Priorities] /\ exceptions \in BOOLEAN
    /\ ThisTask \in SwitchTasks /\ TaskReady \in Seq(SwitchTasks)
    /\ tc_State \in [SwitchTasks -> {"TS_RUN", "TS_READY", "TS_WAIT"}]
    /\ tc_Except \in [SwitchTasks -> BOOLEAN] /\ Elapsed \in 0 .. Quantum
    /\ USP \in SwitchTasks /\ Frame \in [SwitchTasks -> Contexts] /\ tc_SPReg \in [SwitchTasks -> SwitchTasks]
    /\ cpu \in {"task", "dispatch", "window", "irq"} /\ context \in SwitchTasks
    /\ irqFrom \in {"task", "dispatch", "window"} /\ windowHit \in BOOLEAN

\* "This should return to ThisTask now": the last instruction of Dispatch() goes
\* to the code of ThisTask, with the user stack pointer on its stack.
RteReturnsToThisTask ==
    [][ Launch => cpu' = "task" /\ context' = ThisTask /\ USP' = ThisTask ]_switchVars

\* Whatever interrupts the window, the ready queue holds exactly the ready
\* tasks, once each, and only ThisTask is running.
QueueMatchesStates ==
    /\ \A i, j \in 1 .. Len(TaskReady) : TaskReady[i] = TaskReady[j] => i = j
    /\ \A t \in SwitchTasks :
          /\ tc_State[t] = "TS_READY" <=> \E i \in 1 .. Len(TaskReady) : TaskReady[i] = t
          /\ tc_State[t] = "TS_RUN" => t = ThisTask

\* Nothing in the window of Dispatch() can make Schedule() switch: no task is
\* preempted by priority or for an exception, and the quantum is fresh.
WindowProtected == ~exceptions /\ Quantum > 0 /\ \A t, u \in SwitchTasks : ln_Pri[t] = ln_Pri[u]

\* With priorities equal and no exceptions every task that is not running can
\* be resumed where it was: its frame is on its own stack and holds its own
\* code.  (RteReturnsToThisTask shows what happens otherwise.)
FramesKept ==
    WindowProtected => \A t \in SwitchTasks : tc_State[t] # "TS_RUN" =>
        /\ tc_SPReg[t] = t
        /\ Frame[t] = [task |-> t, at |-> "task"]

=============================================================================
