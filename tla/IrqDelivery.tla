---------------------------- MODULE IrqDelivery -----------------------------
(***************************************************************************)
(* How the vertical blank interrupt gets from the host to the Amiga code.  *)
(*                                                                         *)
(* SIGALRM sets a pending bit.  The host loop between two m68k_execute()   *)
(* calls, a write to INTENA that turns interrupts on, and EMU_CALL_WAIT    *)
(* turn it into the CPU's interrupt level, if INTENA allows; the emulated  *)
(* CPU looks at the level only when m68k_execute() starts and when an      *)
(* instruction loads SR.  Against this run the ROM's Disable() and         *)
(* Enable(), two memory writes each, and its task switch, which saves and  *)
(* restores the nesting counter.  Module ExecTask takes a stretch between  *)
(* Disable() and Enable() as one step; this module shows when it is not.   *)
(***************************************************************************)
EXTENDS Integers, FiniteSets

CONSTANTS
    Tasks,      \* the tasks; each may be preempted, sleep and be woken
    Drivers,    \* who may call m68k_execute(): "loop" (lxa) or "api" (liblxa)
    MaxNest     \* bound: how deep a task nests Disable()

VARIABLES
    driver,     \* the host program: lxa's loop or a program that uses liblxa
    pending,    \* bit 3 of g_pending_irq
    intena,     \* INTENA_MASTER in g_intena
    level,      \* CPU_INT_LEVEL is 3 (an armed interrupt) or 0
    mask,       \* FLAG_INT_MASK
    executing,  \* inside m68k_execute(), or in the host's loop
    mode,       \* the Amiga code: a task's, the handler, Switch(), Dispatch()
    irqFrom,    \* what the handler interrupted
    ThisTask, IDNestCnt, tc_IDNestCnt,
    asleep,     \* the tasks in TaskWait; the others are ready
    pc,         \* each task: "run", or half way through Disable() or Enable()
    disables    \* each task's Disable() calls in effect

irqVars == <<pending, intena, level, mask, executing>>
taskVars == <<ThisTask, IDNestCnt, tc_IDNestCnt, asleep, pc, disables>>
vars == <<driver, irqVars, mode, irqFrom, taskVars>>

Init ==
    /\ driver \in Drivers
    /\ pending = FALSE /\ intena = TRUE /\ level = FALSE /\ mask = 0
    /\ executing = FALSE /\ mode = "task" /\ irqFrom = "task"
    /\ ThisTask \in Tasks /\ IDNestCnt = -1
    /\ tc_IDNestCnt = [t \in Tasks |-> -1]
    /\ asleep = {}
    /\ pc = [t \in Tasks |-> "run"] /\ disables = [t \in Tasks |-> 0]

-----------------------------------------------------------------------------
(* The emulated CPU.                                                       *)

\* m68ki_check_interrupts(), with the level and the mask an instruction or the
\* host has just set, in code of mode m.  Taking an interrupt clears the level.
CheckInterrupts(lvl, msk, m) ==
    IF lvl /\ msk < 3
    THEN level' = FALSE /\ mask' = 3 /\ mode' = "irq" /\ irqFrom' = m
    ELSE level' = lvl /\ mask' = msk /\ mode' = m /\ UNCHANGED irqFrom

\* Mutant: the write does not look at the pending bit.
EnableIntenaOnly ==
    /\ intena' = TRUE
    /\ UNCHANGED <<pending, level>>

\* A write that sets INTENA_MASTER arms a pending interrupt; the CPU does not
\* look at the level until later.
EnableIntena ==
    /\ intena' = TRUE
    /\ pending' = FALSE
    /\ level' = (level \/ pending)

\* The cycles given to m68k_execute() are used up.
SliceEnds ==
    /\ executing /\ executing' = FALSE
    /\ UNCHANGED <<pending, intena, level, mask, mode, irqFrom, taskVars>>

-----------------------------------------------------------------------------
(* The host.                                                               *)

SigAlrm ==
    /\ ~pending /\ pending' = TRUE
    /\ UNCHANGED <<intena, level, mask, executing, mode, irqFrom, taskVars>>

\* Mutant: the pending bit is cleared whether INTENA allows interrupts or not.
LoopRunForgets ==
    /\ driver = "loop" /\ ~executing
    /\ pending' = FALSE
    /\ CheckInterrupts(level \/ (pending /\ intena), mask, mode)
    /\ executing' = TRUE
    /\ UNCHANGED <<intena, taskVars>>

\* One round of the loop of lxa: arm a pending interrupt, run the CPU.
LoopRun ==
    /\ driver = "loop" /\ ~executing
    /\ pending' = (pending /\ ~intena)
    /\ CheckInterrupts(level \/ (pending /\ intena), mask, mode)
    /\ executing' = TRUE
    /\ UNCHANGED <<intena, taskVars>>

\* lxa_run_cycles(): the same, but with nothing pending the level is cleared.
ApiRun ==
    /\ driver = "api" /\ ~executing
    /\ pending' = (pending /\ ~intena)
    /\ CheckInterrupts(pending /\ (level \/ intena), mask, mode)
    /\ executing' = TRUE
    /\ UNCHANGED <<intena, taskVars>>

-----------------------------------------------------------------------------
(* A task's code.                                                          *)

InTaskCode(t, where) == executing /\ mode = "task" /\ ThisTask = t /\ pc[t] = where

\* Disable(): INTENA first, then the counter.
DisableIntena(t) ==
    /\ InTaskCode(t, "run") /\ disables[t] < MaxNest
    /\ intena' = FALSE
    /\ pc' = [pc EXCEPT ![t] = "disabling"]
    /\ UNCHANGED <<pending, level, mask, executing, mode, irqFrom, ThisTask,
                   IDNestCnt, tc_IDNestCnt, asleep, disables>>

DisableCount(t) ==
    /\ InTaskCode(t, "disabling")
    /\ IDNestCnt' = IDNestCnt + 1
    /\ disables' = [disables EXCEPT ![t] = @ + 1]
    /\ pc' = [pc EXCEPT ![t] = "run"]
    /\ UNCHANGED <<irqVars, mode, irqFrom, ThisTask, tc_IDNestCnt, asleep>>

\* Enable(): the counter first, then, when it is negative, INTENA.
EnableCount(t) ==
    /\ InTaskCode(t, "run") /\ disables[t] > 0
    /\ IDNestCnt' = IDNestCnt - 1
    /\ disables' = [disables EXCEPT ![t] = @ - 1]
    /\ pc' = [pc EXCEPT ![t] = IF IDNestCnt' < 0 THEN "enabling" ELSE "run"]
    /\ UNCHANGED <<irqVars, mode, irqFrom, ThisTask, tc_IDNestCnt, asleep>>

EnableWrite(t) ==
    /\ InTaskCode(t, "enabling")
    /\ EnableIntena
    /\ pc' = [pc EXCEPT ![t] = "run"]
    /\ UNCHANGED <<mask, executing, mode, irqFrom, ThisTask, IDNestCnt,
                   tc_IDNestCnt, asleep, disables>>

\* Wait() calls Disable(), joins TaskWait and enters Switch(); it calls
\* Enable() when it is dispatched again.
Sleep(t) ==
    /\ InTaskCode(t, "run") /\ disables[t] > 0
    /\ asleep' = asleep \cup {t}
    /\ mode' = "switch"
    /\ UNCHANGED <<irqVars, irqFrom, ThisTask, IDNestCnt, tc_IDNestCnt, pc, disables>>

-----------------------------------------------------------------------------
(* The handler, Switch() and Dispatch().                                   *)

\* A hook of the handler signals a task.  Signal() calls Disable() and
\* Enable() on the counter of the task that was interrupted.
IrqSignal(t) ==
    /\ executing /\ mode = "irq"
    /\ asleep' = asleep \ {t}
    /\ IF IDNestCnt < 0
       THEN EnableIntena
       ELSE intena' = FALSE /\ UNCHANGED <<pending, level>>
    /\ UNCHANGED <<mask, executing, mode, irqFrom, ThisTask, IDNestCnt, tc_IDNestCnt,
                   pc, disables>>

\* rte: SR is loaded, so a level armed in the meantime interrupts at once.
IrqReturn ==
    /\ executing /\ mode = "irq"
    /\ CheckInterrupts(level, 0, irqFrom)
    /\ UNCHANGED <<pending, intena, executing, taskVars>>

\* Schedule() preempts the running task.
IrqSwitch ==
    /\ executing /\ mode = "irq" /\ irqFrom = "task"
    /\ CheckInterrupts(level, 0, "switch")
    /\ UNCHANGED <<pending, intena, executing, taskVars>>

Switch ==
    /\ executing /\ mode = "switch"
    /\ tc_IDNestCnt' = [tc_IDNestCnt EXCEPT ![ThisTask] = IDNestCnt]
    /\ IDNestCnt' = -1
    /\ EnableIntena
    /\ mode' = "dispatch"
    /\ UNCHANGED <<mask, executing, irqFrom, ThisTask, asleep, pc, disables>>

\* Mutant: the counter of the task is not restored.
DispatchKeepsCount(t) ==
    /\ executing /\ mode = "dispatch" /\ t \notin asleep
    /\ ThisTask' = t
    /\ UNCHANGED <<IDNestCnt, intena>>
    /\ CheckInterrupts(level, 0, "task")
    /\ UNCHANGED <<pending, executing, tc_IDNestCnt, asleep, pc, disables>>

\* Dispatch() turns INTENA off again for a task that runs disabled, then
\* unmasks the CPU.
Dispatch(t) ==
    /\ executing /\ mode = "dispatch" /\ t \notin asleep
    /\ ThisTask' = t
    /\ IDNestCnt' = tc_IDNestCnt[t]
    /\ intena' = (intena /\ tc_IDNestCnt[t] < 0)
    /\ CheckInterrupts(level, 0, "task")
    /\ UNCHANGED <<pending, executing, tc_IDNestCnt, asleep, pc, disables>>

\* No task is ready: the loop of Dispatch() unmasks the CPU, calls the host,
\* which arms a pending interrupt, and masks it again.
EmuWait ==
    /\ executing /\ mode = "dispatch" /\ asleep = Tasks
    /\ IF level
       THEN CheckInterrupts(level, 0, "dispatch") /\ UNCHANGED pending
       ELSE /\ pending' = (pending /\ ~intena)
            /\ level' = (pending /\ intena)
            /\ UNCHANGED <<mask, mode, irqFrom>>
    /\ UNCHANGED <<intena, executing, taskVars>>

-----------------------------------------------------------------------------
Host == SigAlrm \/ LoopRun \/ ApiRun
TaskStep(t) ==
    \/ DisableIntena(t) \/ DisableCount(t) \/ EnableCount(t) \/ EnableWrite(t)
    \/ Sleep(t)
Kernel ==
    \/ \E t \in Tasks : IrqSignal(t) \/ Dispatch(t)
    \/ IrqReturn \/ IrqSwitch \/ Switch \/ EmuWait

Next ==
    /\ Host \/ SliceEnds \/ Kernel \/ \E t \in Tasks : TaskStep(t)
    /\ UNCHANGED driver

Spec == Init /\ [][Next]_vars

\* Slices end, the host keeps running the CPU, the ROM's code makes progress,
\* and a task that can call the Enable() of its outermost Disable() again and
\* again does call it.
RomStep ==
    \/ IrqReturn \/ Switch \/ EmuWait
    \/ \E t \in Tasks : Dispatch(t) \/ DisableCount(t) \/ EnableCount(t) \/ EnableWrite(t)

Fairness ==
    /\ WF_vars(LoopRun /\ UNCHANGED driver)
    /\ WF_vars(SliceEnds /\ UNCHANGED driver)
    /\ SF_vars(RomStep /\ UNCHANGED driver)
    /\ \A t \in Tasks : SF_vars(EnableCount(t) /\ disables[t] = 1 /\ UNCHANGED driver)

-----------------------------------------------------------------------------
(* Properties.                                                             *)

\* The task whose counter is in ExecBase.
Current == mode \in {"task", "switch"} \/ (mode = "irq" /\ irqFrom # "dispatch")

\* Wherever the interrupt falls in Disable(), Enable() and Wait(), the counter
\* that a task finds is the one it left.
NestingKept ==
    \A t \in Tasks : IF Current /\ t = ThisTask
                     THEN IDNestCnt = disables[t] - 1
                     ELSE tc_IDNestCnt[t] = disables[t] - 1

\* With lxa's loop a vertical blank that SIGALRM announced stays pending or armed until the
\* handler runs: INTENA, masks and slices delay it, nothing drops it.
NoVBlankLost ==
    [][ driver = "loop" /\ (pending \/ level) /\ ~(pending' \/ level')
          => mode' = "irq" ]_vars

\* With the interactive loop a pending vertical blank reaches the handler.
VBlankServed == driver = "loop" /\ pending ~> mode = "irq"

\* Between Disable() and Enable() of the running task interrupts are off.
DisableKeepsIntenaOff ==
    \A t \in Tasks : mode = "task" /\ ThisTask = t /\ pc[t] = "run" /\ disables[t] > 0
                        => ~intena

=============================================================================
