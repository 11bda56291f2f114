------------------------------ MODULE ExecTask ------------------------------
(***************************************************************************)
(* The multitasking kernel of exec.library as the ROM implements it        *)
(* (src/rom/exec.c, src/rom/exceptions.s): task states, the two task       *)
(* queues, signals, the nesting counters of Forbid() and Disable(), the    *)
(* level 3 (vertical blank) interrupt and the scheduler behind it.         *)
(*                                                                         *)
(* There is one CPU.  It is in a task's code, in the dispatch loop, or in  *)
(* the interrupt handler; an exec call is one action, or several where the *)
(* code leaves a gap an interrupt can fall into.  A stretch of code        *)
(* between Disable() and Enable() is one action: module IrqDelivery looks  *)
(* at how far the emulator honours that.  Dispatch() up to its rte is one  *)
(* action too: module ExecSwitch looks inside it.                          *)
(***************************************************************************)
EXTENDS ExecLists, FiniteSets

CONSTANTS
    Tasks,          \* task structures
    NoTask,         \* the NULL pointer in SysBase->ThisTask
    Signals,        \* signal bits
    ExceptSignals,  \* the signals programs pass to SetExcept()
    Priorities,     \* the values of ln_Pri in use
    Quantum,        \* SysBase->Quantum, in vertical blanks
    MaxNest         \* bound: how deep a program nests Forbid() and Disable(), both together

ASSUME TasksAssumption == NoTask \notin Tasks
ASSUME SignalsAssumption == ExceptSignals \subseteq Signals
ASSUME PrioritiesAssumption == Priorities \subseteq Int
ASSUME QuantumAssumption == Quantum \in Nat
ASSUME MaxNestAssumption == MaxNest \in Nat

VARIABLES
    \* struct ExecBase
    ThisTask, TaskReady, TaskWait, Elapsed, QuantumOver, IDNestCnt, TDNestCnt,
    \* struct Task
    tc_State, ln_Pri, tc_SigRecvd, tc_SigWait, tc_SigExcept, tc_Except,
    tc_IDNestCnt, tc_TDNestCnt,
    \* the CPU: what it executes, what the interrupt handler interrupted
    cpu, irqFrom,
    \* each program: where it is inside an exec call, the arguments of a
    \* Signal() or RemTask() in progress, its calls of Forbid() and Disable()
    \* that wait for their Permit() and Enable()
    pc, target, sigArg, forbids, disables

execVars == <<ThisTask, TaskReady, TaskWait, Elapsed, QuantumOver,
              IDNestCnt, TDNestCnt>>
queueVars == <<ThisTask, TaskReady, TaskWait, tc_State>>
quantumVars == <<Elapsed, QuantumOver>>
nestVars == <<IDNestCnt, TDNestCnt, tc_IDNestCnt, tc_TDNestCnt>>
signalVars == <<tc_SigRecvd, tc_SigWait, tc_SigExcept, tc_Except>>
cpuVars == <<cpu, irqFrom>>
callVars == <<pc, target, sigArg>>
ghostVars == <<forbids, disables>>
vars == <<queueVars, quantumVars, nestVars, signalVars, ln_Pri, cpuVars,
          callVars, ghostVars>>

States == {"TS_INVALID", "TS_RUN", "TS_READY", "TS_WAIT", "TS_REMOVED"}

-----------------------------------------------------------------------------
\* coldstart(): the bootstrap process is running, nothing else exists.
Init ==
    \E boot \in Tasks, p \in Priorities :
        /\ ThisTask = boot
        /\ TaskReady = <<>> /\ TaskWait = {}
        /\ Elapsed = Quantum /\ QuantumOver = FALSE
        /\ IDNestCnt = -1 /\ TDNestCnt = -1
        /\ tc_State = [t \in Tasks |-> IF t = boot THEN "TS_RUN" ELSE "TS_INVALID"]
        /\ ln_Pri = [t \in Tasks |-> p]
        /\ tc_SigRecvd = [t \in Tasks |-> {}] /\ tc_SigWait = [t \in Tasks |-> {}]
        /\ tc_SigExcept = [t \in Tasks |-> {}] /\ tc_Except = [t \in Tasks |-> FALSE]
        /\ tc_IDNestCnt = [t \in Tasks |-> -1] /\ tc_TDNestCnt = [t \in Tasks |-> -1]
        /\ cpu = "task" /\ irqFrom = "task"
        /\ pc = [t \in Tasks |-> "run"]
        /\ target = [t \in Tasks |-> t] /\ sigArg = [t \in Tasks |-> {}]
        /\ forbids = [t \in Tasks |-> 0] /\ disables = [t \in Tasks |-> 0]

\* t executes its own code and is about to call exec.
Running(t) == cpu = "task" /\ ThisTask = t /\ pc[t] = "run"

-----------------------------------------------------------------------------
(* Nesting counters.  Permit() and Enable() never reschedule.              *)

Forbid(t) ==
    /\ Running(t) /\ forbids[t] + disables[t] < MaxNest
    /\ TDNestCnt' = TDNestCnt + 1
    /\ forbids' = [forbids EXCEPT ![t] = @ + 1]
    /\ UNCHANGED <<queueVars, quantumVars, IDNestCnt, tc_IDNestCnt, tc_TDNestCnt,
                   signalVars, ln_Pri, cpuVars, callVars, disables>>

Permit(t) ==
    /\ Running(t) /\ forbids[t] > 0
    /\ TDNestCnt' = TDNestCnt - 1
    /\ forbids' = [forbids EXCEPT ![t] = @ - 1]
    /\ UNCHANGED <<queueVars, quantumVars, IDNestCnt, tc_IDNestCnt, tc_TDNestCnt,
                   signalVars, ln_Pri, cpuVars, callVars, disables>>

Disable(t) ==
    /\ Running(t) /\ forbids[t] + disables[t] < MaxNest
    /\ IDNestCnt' = IDNestCnt + 1
    /\ disables' = [disables EXCEPT ![t] = @ + 1]
    /\ UNCHANGED <<queueVars, quantumVars, TDNestCnt, tc_IDNestCnt, tc_TDNestCnt,
                   signalVars, ln_Pri, cpuVars, callVars, forbids>>

Enable(t) ==
    /\ Running(t) /\ disables[t] > 0
    /\ IDNestCnt' = IDNestCnt - 1
    /\ disables' = [disables EXCEPT ![t] = @ - 1]
    /\ UNCHANGED <<queueVars, quantumVars, TDNestCnt, tc_IDNestCnt, tc_TDNestCnt,
                   signalVars, ln_Pri, cpuVars, callVars, forbids>>

\* Enable() turns the master bit of INTENA on when the counter goes negative.
InterruptsEnabled == IDNestCnt < 0

-----------------------------------------------------------------------------
(* Switch(): freeze ThisTask.  One word move saves both counters over      *)
(* tc_IDNestCnt and tc_TDNestCnt, then both are reset to -1.               *)

\* Mutant: only tc_TDNestCnt is saved.
SwitchLosesIDNest(t, idNest, tdNest) ==
    /\ tc_TDNestCnt' = [tc_TDNestCnt EXCEPT ![t] = tdNest]
    /\ IDNestCnt' = -1 /\ TDNestCnt' = -1
    /\ cpu' = "dispatch"
    /\ UNCHANGED tc_IDNestCnt

Switch(t, idNest, tdNest) ==
    /\ tc_IDNestCnt' = [tc_IDNestCnt EXCEPT ![t] = idNest]
    /\ tc_TDNestCnt' = [tc_TDNestCnt EXCEPT ![t] = tdNest]
    /\ IDNestCnt' = -1 /\ TDNestCnt' = -1
    /\ cpu' = "dispatch"

\* Exception(): the handler sees the pending exception signals once and
\* returns those it wants enabled again; a NULL tc_ExceptCode returns none.
\* Mutant: the flag stays set.
ExceptionKeepsFlag(t) ==
    LET flags == tc_SigRecvd[t] \cap tc_SigExcept[t]
    IN  /\ tc_SigRecvd' = [tc_SigRecvd EXCEPT ![t] = @ \ flags]
        /\ tc_SigExcept' = [tc_SigExcept EXCEPT ![t] = @ \ flags]
        /\ UNCHANGED tc_Except

Exception(t) ==
    LET flags == tc_SigRecvd[t] \cap tc_SigExcept[t]
    IN  /\ tc_Except' = [tc_Except EXCEPT ![t] = FALSE]
        /\ tc_SigRecvd' = [tc_SigRecvd EXCEPT ![t] = @ \ flags]
        /\ \E again \in SUBSET flags :
              tc_SigExcept' = [tc_SigExcept EXCEPT ![t] = (@ \ flags) \cup again]

\* Dispatch(): the first ready task becomes ThisTask and runs.
Dispatch ==
    /\ cpu = "dispatch" /\ TaskReady # <<>>
    /\ LET t == Head(TaskReady)
       IN  /\ TaskReady' = Tail(TaskReady)
           /\ ThisTask' = t
           /\ tc_State' = [tc_State EXCEPT ![t] = "TS_RUN"]
           /\ IDNestCnt' = tc_IDNestCnt[t] /\ TDNestCnt' = tc_TDNestCnt[t]
           /\ IF tc_Except[t]
              THEN Exception(t)
              ELSE UNCHANGED <<tc_Except, tc_SigRecvd, tc_SigExcept>>
    /\ Elapsed' = Quantum /\ QuantumOver' = FALSE
    /\ cpu' = "task"
    /\ UNCHANGED <<TaskWait, tc_IDNestCnt, tc_TDNestCnt, tc_SigWait, ln_Pri,
                   irqFrom, callVars, ghostVars>>

\* The dispatch loop calls the host, which stops the emulator when no task is
\* left: both queues empty and ThisTask NULL.
\* Mutant: the host looks at TaskReady only.
EmuWaitIgnoresWaiting ==
    /\ cpu = "dispatch" /\ TaskReady = <<>> /\ ThisTask = NoTask
    /\ cpu' = "halted"
    /\ UNCHANGED <<queueVars, quantumVars, nestVars, signalVars, ln_Pri,
                   irqFrom, callVars, ghostVars>>

EmuWait ==
    /\ cpu = "dispatch" /\ TaskReady = <<>>
    /\ TaskWait = {} /\ ThisTask = NoTask
    /\ cpu' = "halted"
    /\ UNCHANGED <<queueVars, quantumVars, nestVars, signalVars, ln_Pri,
                   irqFrom, callVars, ghostVars>>

-----------------------------------------------------------------------------
(* Wait().  The code from Disable() to the Supervisor() call is one        *)
(* action; the task goes on at WaitResume when Dispatch() returns to it.   *)
(* Wait() stores TDNestCnt in the task and sets it to -1 before Switch()   *)
(* saves it once more.                                                     *)

Sleep(t, set) ==
    /\ tc_SigWait' = [tc_SigWait EXCEPT ![t] = set]
    /\ tc_State' = [tc_State EXCEPT ![t] = "TS_WAIT"]
    /\ TaskWait' = TaskWait \cup {t}
    /\ pc' = [pc EXCEPT ![t] = "wait"]
    /\ UNCHANGED <<ThisTask, TaskReady, tc_SigRecvd>>

TakeSignals(t, set) ==
    /\ tc_SigRecvd' = [tc_SigRecvd EXCEPT ![t] = @ \ set]
    /\ tc_SigWait' = [tc_SigWait EXCEPT ![t] = {}]
    /\ pc' = [pc EXCEPT ![t] = "run"]
    /\ UNCHANGED <<queueVars, tc_IDNestCnt, tc_TDNestCnt, cpu>>

\* Mutant: Wait() sleeps without testing the signals it has received.
WaitWithoutTest(t, set) ==
    /\ Running(t)
    /\ Sleep(t, set) /\ Switch(t, IDNestCnt + 1, -1)
    /\ UNCHANGED <<quantumVars, tc_SigExcept, tc_Except, ln_Pri, irqFrom,
                   target, sigArg, ghostVars>>

Wait(t, set) ==
    /\ Running(t)
    /\ IF tc_SigRecvd[t] \cap set = {}
       THEN Sleep(t, set) /\ Switch(t, IDNestCnt + 1, -1)
       ELSE TakeSignals(t, set) /\ UNCHANGED <<IDNestCnt, TDNestCnt>>
    /\ UNCHANGED <<quantumVars, tc_SigExcept, tc_Except, ln_Pri, irqFrom,
                   target, sigArg, ghostVars>>

\* After Supervisor(): restore TDNestCnt and test the signals again.
WaitResume(t) ==
    /\ cpu = "task" /\ ThisTask = t /\ pc[t] = "wait"
    /\ IF tc_SigRecvd[t] \cap tc_SigWait[t] = {}
       THEN Sleep(t, tc_SigWait[t]) /\ Switch(t, IDNestCnt, -1)
       ELSE /\ TakeSignals(t, tc_SigWait[t])
            /\ TDNestCnt' = tc_TDNestCnt[t]
            /\ IDNestCnt' = IDNestCnt - 1
    /\ UNCHANGED <<quantumVars, tc_SigExcept, tc_Except, ln_Pri, irqFrom,
                   target, sigArg, ghostVars>>

-----------------------------------------------------------------------------
(* Signal().  The checks on the task structure come before Disable().      *)

Signallable(u) == tc_State[u] \in {"TS_RUN", "TS_READY", "TS_WAIT"}

\* From Disable() to Enable().  A running target that gets an exception
\* signal leaves early; a waiting one is made ready; the quantum is declared
\* over when the scheduler should look.
SignalBody(u, sigs) ==
    LET recvd   == tc_SigRecvd[u] \cup sigs
        excepts == recvd \cap tc_SigExcept[u] # {}
        early   == excepts /\ tc_State[u] = "TS_RUN"
        matches == ~early /\ recvd \cap (tc_SigWait[u] \cup tc_SigExcept[u]) # {}
        wakes   == matches /\ tc_State[u] = "TS_WAIT"
        ready   == wakes \/ (matches /\ tc_State[u] = "TS_READY")
        preempt == IF ThisTask = NoTask THEN TRUE
                   ELSE \/ ln_Pri[u] > ln_Pri[ThisTask]
                        \/ tc_State'[ThisTask] # "TS_RUN"
    IN  /\ tc_SigRecvd' = [tc_SigRecvd EXCEPT ![u] = recvd]
        /\ tc_Except' = [tc_Except EXCEPT ![u] = @ \/ excepts]
        /\ tc_State' = IF wakes THEN [tc_State EXCEPT ![u] = "TS_READY"] ELSE tc_State
        /\ TaskWait' = IF wakes THEN TaskWait \ {u} ELSE TaskWait
        /\ TaskReady' = IF wakes THEN Enqueue(TaskReady, ln_Pri, u) ELSE TaskReady
        /\ QuantumOver' = (QuantumOver \/ early \/ (ready /\ preempt))
        /\ UNCHANGED <<ThisTask, Elapsed, nestVars, tc_SigWait, tc_SigExcept, ln_Pri>>

SignalCheck(t, u, sigs) ==
    /\ Running(t) /\ Signallable(u)
    /\ pc' = [pc EXCEPT ![t] = "signal"]
    /\ target' = [target EXCEPT ![t] = u]
    /\ sigArg' = [sigArg EXCEPT ![t] = sigs]
    /\ UNCHANGED <<queueVars, quantumVars, nestVars, signalVars, ln_Pri, cpuVars,
                   ghostVars>>

Signal(t) ==
    /\ cpu = "task" /\ ThisTask = t /\ pc[t] = "signal"
    /\ SignalBody(target[t], sigArg[t])
    /\ pc' = [pc EXCEPT ![t] = "run"]
    /\ target' = [target EXCEPT ![t] = t]
    /\ sigArg' = [sigArg EXCEPT ![t] = {}]
    /\ UNCHANGED <<cpuVars, ghostVars>>

SetSignal(t, new, set) ==
    /\ Running(t)
    /\ tc_SigRecvd' = [tc_SigRecvd EXCEPT ![t] = (@ \ set) \cup (new \cap set)]
    /\ UNCHANGED <<queueVars, quantumVars, nestVars, tc_SigWait, tc_SigExcept,
                   tc_Except, ln_Pri, cpuVars, callVars, ghostVars>>

SetExcept(t, new, set) ==
    /\ Running(t)
    /\ tc_SigExcept' = [tc_SigExcept EXCEPT ![t] = (@ \ set) \cup (new \cap set)]
    /\ tc_Except' = [tc_Except EXCEPT
                        ![t] = @ \/ tc_SigExcept'[t] \cap tc_SigRecvd[t] # {}]
    /\ UNCHANGED <<queueVars, quantumVars, nestVars, tc_SigRecvd, tc_SigWait,
                   ln_Pri, cpuVars, callVars, ghostVars>>

-----------------------------------------------------------------------------
(* Task creation, priority and removal.                                    *)

\* AddTask(): U_prepareTask() resets the structure, which may be one that a
\* removed task left behind; then the task is enqueued.
AddTask(t, u, pri) ==
    /\ Running(t) /\ tc_State[u] \in {"TS_INVALID", "TS_REMOVED"}
    /\ ln_Pri' = [ln_Pri EXCEPT ![u] = pri]
    /\ tc_IDNestCnt' = [tc_IDNestCnt EXCEPT ![u] = -1]
    /\ tc_TDNestCnt' = [tc_TDNestCnt EXCEPT ![u] = -1]
    /\ tc_SigRecvd' = [tc_SigRecvd EXCEPT ![u] = {}]
    /\ tc_SigWait' = [tc_SigWait EXCEPT ![u] = {}]
    /\ tc_SigExcept' = [tc_SigExcept EXCEPT ![u] = {}]
    /\ tc_Except' = [tc_Except EXCEPT ![u] = FALSE]
    /\ tc_State' = [tc_State EXCEPT ![u] = "TS_READY"]
    /\ TaskReady' = Enqueue(TaskReady, ln_Pri', u)
    /\ pc' = [pc EXCEPT ![u] = "run"]
    /\ target' = [target EXCEPT ![u] = u] /\ sigArg' = [sigArg EXCEPT ![u] = {}]
    /\ forbids' = [forbids EXCEPT ![u] = 0] /\ disables' = [disables EXCEPT ![u] = 0]
    /\ UNCHANGED <<ThisTask, TaskWait, quantumVars, IDNestCnt, TDNestCnt, cpuVars>>

\* SetTaskPri(): a ready task is queued again; a running one that steps down
\* below the head of the queue has its quantum declared over.
SetTaskPri(t, u, pri) ==
    /\ Running(t) /\ tc_State[u] \in {"TS_RUN", "TS_READY", "TS_WAIT"}
    /\ ln_Pri' = [ln_Pri EXCEPT ![u] = pri]
    /\ TaskReady' = IF tc_State[u] = "TS_READY"
                    THEN Enqueue(Unlink(TaskReady, u), ln_Pri', u)
                    ELSE TaskReady
    /\ QuantumOver' = \/ QuantumOver
                      \/ /\ tc_State[u] = "TS_RUN" /\ pri < ln_Pri[u]
                         /\ TaskReady # <<>>
                         /\ ln_Pri[Head(TaskReady)] > pri
    /\ UNCHANGED <<ThisTask, TaskWait, tc_State, Elapsed, nestVars, signalVars,
                   cpuVars, callVars, ghostVars>>

\* RemTask(NULL), first part: the caller marks itself removed.  Interrupts
\* still come until ThisTask is cleared.
RemTaskSelf(t) ==
    /\ Running(t)
    /\ tc_State' = [tc_State EXCEPT ![t] = "TS_REMOVED"]
    /\ pc' = [pc EXCEPT ![t] = "removed"]
    /\ UNCHANGED <<ThisTask, TaskReady, TaskWait, quantumVars, nestVars, signalVars,
                   ln_Pri, cpuVars, target, sigArg, ghostVars>>

\* Second part: Forbid(), the memory is freed, ThisTask becomes NULL, and
\* Dispatch() resets the counters.
RemTaskDispatch(t) ==
    /\ cpu = "task" /\ ThisTask = t /\ pc[t] = "removed"
    /\ ThisTask' = NoTask
    /\ IDNestCnt' = -1 /\ TDNestCnt' = -1
    /\ cpu' = "dispatch"
    /\ forbids' = [forbids EXCEPT ![t] = 0] /\ disables' = [disables EXCEPT ![t] = 0]
    /\ UNCHANGED <<TaskReady, TaskWait, tc_State, quantumVars, tc_IDNestCnt,
                   tc_TDNestCnt, signalVars, ln_Pri, irqFrom, callVars>>

\* RemTask(other), first part: between Disable() and Enable() the task is
\* unlinked from the queue it is in.
RemTaskUnlink(t, u) ==
    /\ Running(t) /\ u # t /\ tc_State[u] \in {"TS_READY", "TS_WAIT"}
    /\ TaskReady' = Unlink(TaskReady, u)
    /\ TaskWait' = TaskWait \ {u}
    /\ pc' = [pc EXCEPT ![t] = "unlinked"]
    /\ target' = [target EXCEPT ![t] = u]
    /\ UNCHANGED <<ThisTask, tc_State, quantumVars, nestVars, signalVars, ln_Pri,
                   cpuVars, sigArg, ghostVars>>

\* Second part: after Enable() the state is set and the memory freed.
RemTaskMark(t) ==
    /\ cpu = "task" /\ ThisTask = t /\ pc[t] = "unlinked"
    /\ tc_State' = [tc_State EXCEPT ![target[t]] = "TS_REMOVED"]
    /\ pc' = [pc EXCEPT ![t] = "run"]
    /\ target' = [target EXCEPT ![t] = t]
    /\ UNCHANGED <<ThisTask, TaskReady, TaskWait, quantumVars, nestVars, signalVars,
                   ln_Pri, cpuVars, sigArg, ghostVars>>

-----------------------------------------------------------------------------
(* The level 3 interrupt.  Its hooks (intuition, timer, audio, console,    *)
(* dos notify) signal tasks; then the time slice is counted down and, with *)
(* multitasking enabled, Schedule() decides.                               *)

IrqEnter ==
    /\ cpu \in {"task", "dispatch"} /\ InterruptsEnabled
    /\ irqFrom' = cpu
    /\ cpu' = "irq"
    /\ UNCHANGED <<queueVars, quantumVars, nestVars, signalVars, ln_Pri, callVars,
                   ghostVars>>

IrqSignal(u, sigs) ==
    /\ cpu = "irq" /\ Signallable(u)
    /\ SignalBody(u, sigs)
    /\ UNCHANGED <<cpuVars, callVars, ghostVars>>

\* Mutants: the counter is not tested for zero; the flag is never set.
ElapsedWraps == Elapsed - 1
QuantumNever == QuantumOver

\* The countdown of the time slice, and the flag it sets when it is at zero.
ElapsedNext == IF Elapsed = 0 THEN 0 ELSE Elapsed - 1
QuantumNext == QuantumOver \/ Elapsed = 0

\* Mutants: Schedule() without its test of tc_State; without its comparison of
\* priorities.
MustSwitchAnyState(over) ==
    /\ TDNestCnt < 0
    /\ ThisTask # NoTask
    /\ \/ tc_Except[ThisTask]
       \/ /\ TaskReady # <<>>
          /\ ln_Pri[Head(TaskReady)] > ln_Pri[ThisTask] \/ over
MustSwitchOnQuantum(over) ==
    /\ TDNestCnt < 0
    /\ ThisTask # NoTask
    /\ tc_State[ThisTask] = "TS_RUN"
    /\ tc_Except[ThisTask] \/ (TaskReady # <<>> /\ over)

\* Schedule()'s decision, with the quantum flag as the countdown leaves it.
MustSwitch(over) ==
    /\ TDNestCnt < 0
    /\ ThisTask # NoTask
    /\ tc_State[ThisTask] = "TS_RUN"
    /\ \/ tc_Except[ThisTask]
       \/ /\ TaskReady # <<>>
          /\ ln_Pri[Head(TaskReady)] > ln_Pri[ThisTask] \/ over

IrqExit ==
    /\ cpu = "irq"
    /\ Elapsed' = ElapsedNext
    /\ QuantumOver' = QuantumNext
    /\ IF MustSwitch(QuantumOver')
       THEN /\ tc_State' = [tc_State EXCEPT ![ThisTask] = "TS_READY"]
            /\ TaskReady' = Enqueue(TaskReady, ln_Pri, ThisTask)
            /\ Switch(ThisTask, IDNestCnt, TDNestCnt)
       ELSE /\ cpu' = irqFrom
            /\ UNCHANGED <<tc_State, TaskReady, nestVars>>
    /\ irqFrom' = "task"
    /\ UNCHANGED <<ThisTask, TaskWait, signalVars, ln_Pri, callVars, ghostVars>>

-----------------------------------------------------------------------------
\* The calls of the program that t runs.
Call(t) ==
    \/ Forbid(t) \/ Permit(t) \/ Disable(t) \/ Enable(t)
    \/ \E set \in SUBSET Signals : set # {} /\ Wait(t, set)
    \/ WaitResume(t)
    \/ \E u \in Tasks, s \in Signals : SignalCheck(t, u, {s})
    \/ Signal(t)
    \/ \E s \in Signals : SetSignal(t, {}, {s}) \/ SetSignal(t, {s}, {s})
    \/ \E s \in ExceptSignals : SetExcept(t, {s}, {s}) \/ SetExcept(t, {}, {s})
    \/ \E u \in Tasks, p \in Priorities : AddTask(t, u, p) \/ SetTaskPri(t, u, p)
    \/ RemTaskSelf(t) \/ RemTaskDispatch(t)

Interrupt ==
    \/ IrqEnter \/ IrqExit
    \/ \E u \in Tasks, s \in Signals : IrqSignal(u, {s})

\* The emulator has stopped.
Halted == cpu = "halted" /\ UNCHANGED vars

Next == (\E t \in Tasks : Call(t)) \/ Dispatch \/ EmuWait \/ Interrupt \/ Halted

Spec == Init /\ [][Next]_vars

\* Programs that also remove other tasks.
NextRemOther ==
    Next \/ \E t \in Tasks : RemTaskMark(t) \/ \E u \in Tasks : RemTaskUnlink(t, u)

SpecRemOther == Init /\ [][NextRemOther]_vars

-----------------------------------------------------------------------------
(* Properties.                                                             *)

\* Every variable has its type; the counters stay within what the programs'
\* nesting allows.
TypeOK ==
    /\ ThisTask \in Tasks \cup {NoTask}
    /\ TaskReady \in Seq(Tasks) /\ TaskWait \subseteq Tasks
    /\ Elapsed \in 0 .. Quantum /\ QuantumOver \in BOOLEAN
    /\ IDNestCnt \in Int /\ TDNestCnt \in Int
    /\ tc_State \in [Tasks -> States] /\ ln_Pri \in [Tasks -> Priorities]
    /\ tc_SigRecvd \in [Tasks -> SUBSET Signals]
    /\ tc_SigWait \in [Tasks -> SUBSET Signals]
    /\ tc_SigExcept \in [Tasks -> SUBSET Signals]
    /\ tc_Except \in [Tasks -> BOOLEAN]
    /\ tc_IDNestCnt \in [Tasks -> Int] /\ tc_TDNestCnt \in [Tasks -> Int]
    /\ cpu \in {"task", "dispatch", "irq", "halted"}
    /\ irqFrom \in {"task", "dispatch"}
    /\ pc \in [Tasks -> {"run", "wait", "signal", "removed", "unlinked"}]
    /\ target \in [Tasks -> Tasks] /\ sigArg \in [Tasks -> SUBSET Signals]
    /\ forbids \in [Tasks -> 0 .. MaxNest] /\ disables \in [Tasks -> 0 .. MaxNest]

\* Where a program's instructions are executed or interrupted.
InTask == cpu = "task" \/ (cpu = "irq" /\ irqFrom = "task")

\* No task is in two places or in none: exactly the ready tasks are in
\* TaskReady, once each, exactly the waiting ones in TaskWait, at most the
\* current task is in state TS_RUN, and a task's code is executed only by the
\* running task or by one on its way out of RemTask(NULL).  A removed task is
\* in no queue.
QueueConsistent ==
    /\ \A i, j \in 1 .. Len(TaskReady) : TaskReady[i] = TaskReady[j] => i = j
    /\ \A t \in Tasks :
          /\ tc_State[t] = "TS_READY" <=> \E i \in 1 .. Len(TaskReady) : TaskReady[i] = t
          /\ tc_State[t] = "TS_WAIT" <=> t \in TaskWait
          /\ tc_State[t] = "TS_RUN" => ThisTask = t /\ InTask
    /\ InTask => /\ ThisTask \in Tasks
                 /\ tc_State[ThisTask] = IF pc[ThisTask] = "removed"
                                         THEN "TS_REMOVED" ELSE "TS_RUN"

\* TaskReady is in order of priority at every instant, whatever SetTaskPri()
\* does to queued tasks: Schedule() and Dispatch() look at its head only.
ReadySorted ==
    \A i, j \in 1 .. Len(TaskReady) :
        i < j => ln_Pri[TaskReady[i]] >= ln_Pri[TaskReady[j]]

\* No wakeup is lost: a task that sleeps in Wait() has received none of the
\* signals it waits for, and it does wait for some.  Wait()'s test and
\* Signal()'s update cannot miss each other.
NoLostWakeup ==
    \A t \in Tasks : tc_State[t] = "TS_WAIT" =>
        /\ tc_SigWait[t] # {} /\ pc[t] = "wait"
        /\ tc_SigRecvd[t] \cap tc_SigWait[t] = {}

\* The value IDNestCnt has while t runs: its Disable() calls without Enable(),
\* plus the one Wait() itself makes.
DisableDepth(t) == disables[t] - 1 + (IF pc[t] = "wait" THEN 1 ELSE 0)

\* A task's Disable() nesting survives every sleep and every preemption: the
\* counter of ExecBase is right for the task that runs, and the saved one is
\* right for every task that will run again.  In particular interrupts are
\* never on inside a Disable() of the running task.
DisableBalanced ==
    /\ \A t \in Tasks :
          /\ tc_State[t] = "TS_RUN" => IDNestCnt = DisableDepth(t)
          /\ tc_State[t] \in {"TS_READY", "TS_WAIT"} => tc_IDNestCnt[t] = DisableDepth(t)
    /\ cpu = "dispatch" \/ (cpu = "irq" /\ irqFrom = "dispatch") => IDNestCnt = -1

\* The emulator stops only when every task has been removed.
HaltOnlyWhenAllGone ==
    cpu = "halted" => \A t \in Tasks : tc_State[t] \in {"TS_INVALID", "TS_REMOVED"}

\* When the CPU goes from the kernel back to a task and multitasking is
\* enabled, no ready task has a higher priority than that task.
HighestPriorityRuns ==
    [][ cpu # "task" /\ cpu' = "task" /\ TDNestCnt' < 0 /\ tc_State'[ThisTask'] = "TS_RUN"
          => \A i \in 1 .. Len(TaskReady') :
                ln_Pri'[TaskReady'[i]] <= ln_Pri'[ThisTask'] ]_vars

Before(q, t, u) == \E i, j \in 1 .. Len(q) : i < j /\ q[i] = t /\ q[j] = u

\* Ready tasks of equal priority keep their order, and one that becomes ready
\* goes behind those that are ready already: none is overtaken, unless
\* SetTaskPri() is called for it, which puts it last even at its old priority.
ReadyFifo ==
    [][ \A t, u \in Tasks :
          ( /\ ~\E r \in Tasks, p \in Priorities : SetTaskPri(r, t, p)
            /\ tc_State[t] = "TS_READY" /\ tc_State'[t] = "TS_READY"
            /\ tc_State'[u] = "TS_READY"
            /\ ln_Pri'[t] = ln_Pri[t] /\ ln_Pri'[u] = ln_Pri[t]
            /\ \/ Before(TaskReady, t, u) /\ ln_Pri[u] = ln_Pri[t]
               \/ tc_State[u] # "TS_READY" )
          => Before(TaskReady', t, u) ]_vars

\* An exception never waits behind a context switch: whoever gets the CPU from
\* Dispatch() has had its flagged exceptions handled.
ExceptionsServed ==
    [][ cpu = "dispatch" /\ cpu' = "task"
          => /\ ~tc_Except'[ThisTask']
             /\ tc_Except[ThisTask']
                  => tc_SigRecvd'[ThisTask'] \cap tc_SigExcept'[ThisTask'] = {} ]_vars

\* A task that RemTask() has marked as removed, and freed, is in neither
\* queue: Signal() ignores it, so it can never be dispatched again.
RemovedStaysOut ==
    \A t \in Tasks : tc_State[t] = "TS_REMOVED" =>
        /\ t \notin TaskWait
        /\ \A i \in 1 .. Len(TaskReady) : TaskReady[i] # t

-----------------------------------------------------------------------------
(* Liveness.  The host raises the interrupt again and again and its handler *)
(* ends; a frame of 20 ms leaves the ROM's own code time to make progress   *)
(* between two interrupts.  Programs are assumed not to keep multitasking   *)
(* or interrupts disabled for ever.                                         *)

KernelFairness ==
    /\ SF_vars(Dispatch)
    /\ WF_vars(IrqExit)
    /\ SF_vars(IrqEnter /\ TDNestCnt < 0)
    /\ \A t \in Tasks : WF_vars(WaitResume(t)) /\ SF_vars(RemTaskDispatch(t))

ProgramFairness == []<>(InterruptsEnabled /\ TDNestCnt < 0)

FairSpec == Spec /\ KernelFairness /\ ProgramFairness

\* Round robin: with priorities equal, every ready task gets the CPU.
ReadyEventuallyRuns ==
    \A t \in Tasks : tc_State[t] = "TS_READY" ~> tc_State[t] # "TS_READY"

=============================================================================
