-------------------------- MODULE ExecSwitchProofs --------------------------
(***************************************************************************)
(* What ExecSwitch promises for any tasks, priorities and quantum.         *)
(*                                                                         *)
(* The ready queue and the task states agree whatever interrupts           *)
(* Dispatch(); this rests on which task may be TS_RUN at each point of the *)
(* code (Running).  The frames are kept, and Dispatch() returns to         *)
(* ThisTask, when nothing can make Schedule() switch in the window of      *)
(* Dispatch(); this rests on the time slice being fresh there and on the   *)
(* task code that runs being that of ThisTask, on its own stack            *)
(* (Protected).                                                            *)
(***************************************************************************)
EXTENDS ExecSwitch, ExecListLemmas

\* What is executed, or what the interrupt handler goes back to.
Executes(c) == cpu = c \/ (cpu = "irq" /\ irqFrom = c)

\* ThisTask is TS_RUN from the moment Dispatch() has chosen it until Switch().
Running == tc_State[ThisTask] = "TS_RUN" <=> Executes("task") \/ Executes("window")

Matches ==
    /\ Distinct(TaskReady)
    /\ \A t \in SwitchTasks :
          /\ tc_State[t] = "TS_READY" <=> Holds(TaskReady, t)
          /\ tc_State[t] = "TS_RUN" => t = ThisTask

\* Every stack holds the frame of its own task; the code that runs is that of
\* ThisTask, and the time slice is fresh while the window can be interrupted.
Protected ==
    /\ \A t \in SwitchTasks : tc_SPReg[t] = t /\ Frame[t] = [task |-> t, at |-> "task"]
    /\ \A t \in SwitchTasks : ~tc_Except[t]
    /\ Executes("task") => context = ThisTask /\ USP = ThisTask
    /\ Executes("window") => context = ThisTask
    /\ cpu = "irq" /\ irqFrom = "window" => windowHit
    /\ Executes("window") /\ (cpu = "window" => ~windowHit) => Elapsed = Quantum

QueueInv == SwitchTypeOK /\ Running /\ Matches
SwitchInv == QueueInv /\ (WindowProtected => Protected)

-----------------------------------------------------------------------------
\* A priority is an integer.
LEMMA SwitchPriorityType ==
  ASSUME SwitchTypeOK PROVE ln_Pri \in [SwitchTasks -> Int]
  BY PrioritiesAssumption DEF SwitchTypeOK

\* Enqueue() of a task that is not in the ready queue, as the states see it.
LEMMA EnqueueReady ==
  ASSUME QueueInv, NEW t \in SwitchTasks, tc_State[t] # "TS_READY",
         TaskReady' = Enqueue(TaskReady, ln_Pri, t),
         tc_State' = [tc_State EXCEPT ![t] = "TS_READY"],
         ThisTask' = ThisTask
  PROVE  /\ TaskReady' \in Seq(SwitchTasks)
         /\ tc_State' \in [SwitchTasks -> {"TS_RUN", "TS_READY", "TS_WAIT"}]
         /\ Matches'
<1>1. ~Holds(TaskReady, t) /\ Distinct(TaskReady) /\ TaskReady \in Seq(SwitchTasks)
  BY DEF QueueInv, Matches, SwitchTypeOK
<1>2. /\ TaskReady' \in Seq(SwitchTasks)
      /\ Distinct(TaskReady')
      /\ \A x \in SwitchTasks : Holds(TaskReady', x) <=> Holds(TaskReady, x) \/ x = t
  BY <1>1, EnqueueKeepsOrder, SwitchPriorityType DEF QueueInv
<1>3. tc_State' \in [SwitchTasks -> {"TS_RUN", "TS_READY", "TS_WAIT"}]
  BY DEF QueueInv, SwitchTypeOK
<1>4. \A x \in SwitchTasks : /\ tc_State'[x] = "TS_READY" <=> tc_State[x] = "TS_READY" \/ x = t
                             /\ tc_State'[x] = "TS_RUN" => tc_State[x] = "TS_RUN"
  BY DEF QueueInv, SwitchTypeOK
<1>5. Matches'
  BY <1>2, <1>4 DEF QueueInv, Matches
<1> QED BY <1>2, <1>3, <1>5

-----------------------------------------------------------------------------
\* The state after AddTask() of every task satisfies the invariant.
LEMMA InitSwitchInv == SwitchInit => SwitchInv
<1> SUFFICES ASSUME SwitchInit PROVE SwitchInv
  OBVIOUS
<1>1. PICK boot \in SwitchTasks :
        /\ ln_Pri \in [SwitchTasks -> Priorities] /\ exceptions \in BOOLEAN
        /\ ThisTask = boot /\ context = boot /\ USP = boot
        /\ TaskReady = <<>>
        /\ tc_State = [t \in SwitchTasks |-> IF t = boot THEN "TS_RUN" ELSE "TS_WAIT"]
        /\ tc_Except = [t \in SwitchTasks |-> FALSE]
        /\ Elapsed = Quantum
        /\ Frame = [t \in SwitchTasks |-> [task |-> t, at |-> "task"]]
        /\ tc_SPReg = [t \in SwitchTasks |-> t]
        /\ cpu = "task" /\ irqFrom = "task" /\ windowHit = FALSE
  BY Zenon DEF SwitchInit
<1>2. SwitchTypeOK
  <2>1. /\ ThisTask \in SwitchTasks /\ TaskReady \in Seq(SwitchTasks)
        /\ tc_State \in [SwitchTasks -> {"TS_RUN", "TS_READY", "TS_WAIT"}]
        /\ Elapsed \in 0 .. Quantum /\ USP \in SwitchTasks
        /\ tc_SPReg \in [SwitchTasks -> SwitchTasks]
        /\ cpu \in {"task", "dispatch", "window", "irq"} /\ context \in SwitchTasks
        /\ irqFrom \in {"task", "dispatch", "window"}
    BY <1>1, QuantumAssumption
  <2>2. windowHit \in BOOLEAN /\ exceptions \in BOOLEAN /\ tc_Except \in [SwitchTasks -> BOOLEAN]
    BY <1>1, Zenon
  <2>3. Frame \in [SwitchTasks -> Contexts]
    BY <1>1 DEF Contexts
  <2> QED BY <1>1, <2>1, <2>2, <2>3 DEF SwitchTypeOK
<1>3. Running /\ Matches
  BY <1>1 DEF Running, Executes, Matches, Distinct, Holds
<1>4. Protected
  BY <1>1 DEF Protected, Executes
<1> QED BY <1>2, <1>3, <1>4 DEF SwitchInv, QueueInv

-----------------------------------------------------------------------------
\* Whether the window is protected is fixed at the start.
LEMMA ProtectionFixed ==
  ASSUME UNCHANGED <<ln_Pri, exceptions>> PROVE WindowProtected' <=> WindowProtected
  BY DEF WindowProtected

\* Wait() of the running task.
LEMMA WaitStep ==
  ASSUME SwitchInv, Wait, UNCHANGED <<ln_Pri, exceptions>> PROVE SwitchInv'
<1>1. /\ cpu = "task" /\ cpu' = "dispatch"
      /\ tc_State' = [tc_State EXCEPT ![ThisTask] = "TS_WAIT"]
      /\ Frame' = [Frame EXCEPT ![USP] = [task |-> context, at |-> "task"]]
      /\ tc_SPReg' = [tc_SPReg EXCEPT ![ThisTask] = USP]
      /\ UNCHANGED <<ThisTask, USP, TaskReady, tc_Except, Elapsed, context, irqFrom, windowHit>>
  BY DEF Wait, Switch
<1>2. tc_State[ThisTask] = "TS_RUN" /\ SwitchTypeOK
  BY <1>1 DEF SwitchInv, QueueInv, Running, Executes
<1>3. SwitchTypeOK'
  <2>1. Frame' \in [SwitchTasks -> Contexts]
    BY <1>1, <1>2 DEF SwitchTypeOK, Contexts
  <2>2. /\ tc_State' \in [SwitchTasks -> {"TS_RUN", "TS_READY", "TS_WAIT"}]
        /\ tc_SPReg' \in [SwitchTasks -> SwitchTasks]
        /\ cpu' \in {"task", "dispatch", "window", "irq"}
    BY <1>1, <1>2 DEF SwitchTypeOK
  <2> QED BY <1>1, <1>2, <2>1, <2>2 DEF SwitchTypeOK
<1>4. Running' /\ Matches'
  BY <1>1, <1>2 DEF SwitchInv, QueueInv, SwitchTypeOK, Running, Executes, Matches
<1>5. ASSUME Protected PROVE Protected'
  BY <1>1, <1>2, <1>5 DEF SwitchTypeOK, Protected, Executes
<1> QED BY <1>3, <1>4, <1>5, ProtectionFixed DEF SwitchInv, QueueInv

\* Signal() wakes a task that is in no queue.
LEMMA SignalStep ==
  ASSUME SwitchInv, NEW t \in SwitchTasks, Signal(t), UNCHANGED <<ln_Pri, exceptions>>
  PROVE  SwitchInv'
<1>1. /\ tc_State[t] = "TS_WAIT"
      /\ tc_State' = [tc_State EXCEPT ![t] = "TS_READY"]
      /\ TaskReady' = Enqueue(TaskReady, ln_Pri, t)
      /\ UNCHANGED <<ThisTask, tc_Except, Elapsed, frameVars, cpu, context, irqFrom, windowHit>>
  BY DEF Signal
<1>2. /\ TaskReady' \in Seq(SwitchTasks)
      /\ tc_State' \in [SwitchTasks -> {"TS_RUN", "TS_READY", "TS_WAIT"}]
      /\ Matches'
  BY <1>1, EnqueueReady DEF SwitchInv
<1>3. SwitchTypeOK'
  BY <1>1, <1>2 DEF SwitchInv, QueueInv, SwitchTypeOK, frameVars
<1>4. Running'
  BY <1>1 DEF SwitchInv, QueueInv, SwitchTypeOK, Running, Executes
<1>5. Protected => Protected'
  BY <1>1 DEF Protected, Executes, frameVars
<1> QED BY <1>2, <1>3, <1>4, <1>5, ProtectionFixed DEF SwitchInv, QueueInv

\* A signal that is an exception, and Exception() itself, touch only the flag;
\* neither happens where the window is protected.
LEMMA ExceptionSteps ==
  ASSUME SwitchInv, NEW t \in SwitchTasks, SignalExcept(t) \/ Exception,
         UNCHANGED <<ln_Pri, exceptions>>
  PROVE  SwitchInv'
<1>1. /\ UNCHANGED <<ThisTask, TaskReady, tc_State, Elapsed, frameVars, cpu, context, irqFrom,
                     windowHit>>
      /\ \E u \in SwitchTasks, b \in BOOLEAN : tc_Except' = [tc_Except EXCEPT ![u] = b]
  BY DEF SignalExcept, Exception, SwitchInv, QueueInv, SwitchTypeOK
<1>2. tc_Except' \in [SwitchTasks -> BOOLEAN]
  <2>1. PICK u \in SwitchTasks, b \in BOOLEAN : tc_Except' = [tc_Except EXCEPT ![u] = b]
    BY <1>1
  <2> QED BY <2>1, Zenon DEF SwitchInv, QueueInv, SwitchTypeOK
<1>3. SwitchTypeOK'
  BY <1>1, <1>2 DEF SwitchInv, QueueInv, SwitchTypeOK, frameVars
<1>4. Running' /\ Matches'
  BY <1>1 DEF SwitchInv, QueueInv, Running, Executes, Matches
<1>5. ASSUME WindowProtected PROVE FALSE
  BY <1>5 DEF SwitchInv, QueueInv, SwitchTypeOK, Protected, WindowProtected, SignalExcept, Exception
<1> QED BY <1>3, <1>4, <1>5, ProtectionFixed DEF SwitchInv, QueueInv

\* Dispatch() takes the first task off the ready queue.
LEMMA DispatchStep ==
  ASSUME SwitchInv, Dispatch, UNCHANGED <<ln_Pri, exceptions>> PROVE SwitchInv'
<1> DEFINE t == Head(TaskReady)
<1>1. /\ cpu = "dispatch" /\ TaskReady # <<>>
      /\ ThisTask' = t /\ context' = t
      /\ tc_State' = [tc_State EXCEPT ![t] = "TS_RUN"]
      /\ TaskReady' = Tail(TaskReady)
      /\ Elapsed' = Quantum
      /\ cpu' = "window" /\ windowHit' = FALSE
      /\ UNCHANGED <<tc_Except, frameVars, irqFrom>>
  BY DEF Dispatch
<1> HIDE DEF t
<1>2. SwitchTypeOK /\ Running /\ Matches
  BY DEF SwitchInv, QueueInv
<1>3. /\ t \in SwitchTasks /\ Holds(TaskReady, t)
      /\ TaskReady' \in Seq(SwitchTasks) /\ Distinct(TaskReady')
      /\ \A x \in SwitchTasks : Holds(TaskReady', x) <=> Holds(TaskReady, x) /\ x # t
  BY <1>1, <1>2, TailKeepsOrder DEF SwitchTypeOK, Matches, t
<1>4. tc_State[ThisTask] # "TS_RUN"
  BY <1>1, <1>2 DEF Running, Executes
<1>5. SwitchTypeOK'
  <2>1. /\ tc_State' \in [SwitchTasks -> {"TS_RUN", "TS_READY", "TS_WAIT"}]
        /\ Elapsed' \in 0 .. Quantum /\ cpu' \in {"task", "dispatch", "window", "irq"}
    BY <1>1, <1>2, <1>3, QuantumAssumption DEF SwitchTypeOK
  <2> QED BY <1>1, <1>2, <1>3, <2>1, Zenon DEF SwitchTypeOK, frameVars
<1>6. Running'
  BY <1>1, <1>2, <1>3 DEF SwitchTypeOK, Running, Executes
<1>7. Matches'
  <2>1. \A x \in SwitchTasks : tc_State[x] # "TS_RUN"
    BY <1>2, <1>4 DEF Matches
  <2>2. \A x \in SwitchTasks : tc_State'[x] = IF x = t THEN "TS_RUN" ELSE tc_State[x]
    BY <1>1, <1>2, <1>3 DEF SwitchTypeOK
  <2> QED BY <1>1, <1>2, <1>3, <2>1, <2>2 DEF Matches
<1>8. Protected => Protected'
  BY <1>1 DEF Protected, Executes, frameVars
<1> QED BY <1>5, <1>6, <1>7, <1>8, ProtectionFixed DEF SwitchInv, QueueInv

\* Launch loads the frame that tc_SPReg points to.
LEMMA LaunchStep ==
  ASSUME SwitchInv, Launch, UNCHANGED <<ln_Pri, exceptions>> PROVE SwitchInv'
<1>1. /\ cpu = "window" /\ USP' = tc_SPReg[context]
      /\ context' = Frame[USP'].task /\ cpu' = Frame[USP'].at /\ windowHit' = FALSE
      /\ UNCHANGED <<ThisTask, TaskReady, tc_State, tc_Except, Elapsed, Frame, tc_SPReg, irqFrom>>
  BY DEF Launch
<1>2. SwitchTypeOK
  BY DEF SwitchInv, QueueInv
<1>3. USP' \in SwitchTasks /\ context' \in SwitchTasks /\ cpu' \in {"task", "window"}
  <2>1. USP' \in SwitchTasks
    BY <1>1, <1>2 DEF SwitchTypeOK
  <2>2. Frame[USP'] \in Contexts
    BY <1>2, <2>1 DEF SwitchTypeOK
  <2> QED BY <1>1, <2>1, <2>2 DEF Contexts
<1>4. SwitchTypeOK'
  BY <1>1, <1>2, <1>3 DEF SwitchTypeOK
<1>5. Running' /\ Matches'
  BY <1>1, <1>3 DEF SwitchInv, QueueInv, Running, Executes, Matches
<1>6. ASSUME Protected PROVE Protected'
  <2>1. context = ThisTask /\ context \in SwitchTasks
    BY <1>1, <1>2, <1>6 DEF SwitchTypeOK, Protected, Executes
  <2>2. tc_SPReg[ThisTask] = ThisTask /\ Frame[ThisTask] = [task |-> ThisTask, at |-> "task"]
    BY <1>6, <2>1, Zenon DEF Protected
  <2>3. USP' = ThisTask /\ context' = ThisTask /\ cpu' = "task"
    BY <1>1, <2>1, <2>2
  <2> QED BY <1>1, <1>6, <2>3 DEF Protected, Executes
<1> QED BY <1>4, <1>5, <1>6, ProtectionFixed DEF SwitchInv, QueueInv

\* The interrupt handler starts.
LEMMA IrqEnterStep ==
  ASSUME SwitchInv, IrqEnter, UNCHANGED <<ln_Pri, exceptions>> PROVE SwitchInv'
<1>1. /\ cpu \in {"task", "dispatch", "window"}
      /\ cpu = "window" => ~windowHit
      /\ irqFrom' = cpu /\ cpu' = "irq"
      /\ UNCHANGED <<ThisTask, TaskReady, tc_State, tc_Except, Elapsed, frameVars, context>>
      /\ cpu = "window" => windowHit'
  BY DEF IrqEnter
<1>2. windowHit' \in BOOLEAN
  BY Zenon DEF IrqEnter
<1>3. SwitchTypeOK'
  BY <1>1, <1>2 DEF SwitchInv, QueueInv, SwitchTypeOK, frameVars
<1>4. Running' /\ Matches'
  BY <1>1 DEF SwitchInv, QueueInv, Running, Executes, Matches
<1>5. Protected => Protected'
  BY <1>1 DEF Protected, Executes, frameVars
<1> QED BY <1>3, <1>4, <1>5, ProtectionFixed DEF SwitchInv, QueueInv

\* The way out of the handler, with or without a switch.
LEMMA IrqExitStep ==
  ASSUME SwitchInv, IrqExit, UNCHANGED <<ln_Pri, exceptions>> PROVE SwitchInv'
<1>1. /\ cpu = "irq"
      /\ Elapsed' = IF Elapsed = 0 THEN 0 ELSE Elapsed - 1
      /\ UNCHANGED <<tc_Except, context, irqFrom, windowHit>>
  BY DEF IrqExit
<1>2. SwitchTypeOK /\ Running /\ Matches
  BY DEF SwitchInv, QueueInv
<1>3. Elapsed' \in 0 .. Quantum
  BY <1>1, <1>2, QuantumAssumption DEF SwitchTypeOK
<1>4. CASE ~MustSwitch
  <2>1. cpu' = irqFrom /\ UNCHANGED <<ThisTask, TaskReady, tc_State, frameVars>>
    BY <1>4 DEF IrqExit
  <2>2. SwitchTypeOK'
    BY <1>1, <1>2, <1>3, <2>1 DEF SwitchTypeOK, frameVars
  <2>3. Running' /\ Matches'
    BY <1>1, <1>2, <2>1 DEF SwitchTypeOK, Running, Executes, Matches
  <2>4. ASSUME Protected PROVE Protected'
    BY <1>1, <1>2, <2>1, <2>4 DEF SwitchTypeOK, Protected, Executes, frameVars
  <2> QED BY <2>2, <2>3, <2>4, ProtectionFixed DEF SwitchInv, QueueInv
<1>5. CASE MustSwitch
  <2>1. /\ tc_State[ThisTask] = "TS_RUN"
        /\ tc_State' = [tc_State EXCEPT ![ThisTask] = "TS_READY"]
        /\ TaskReady' = Enqueue(TaskReady, ln_Pri, ThisTask)
        /\ Frame' = [Frame EXCEPT ![USP] = [task |-> context, at |-> irqFrom]]
        /\ tc_SPReg' = [tc_SPReg EXCEPT ![ThisTask] = USP]
        /\ cpu' = "dispatch" /\ UNCHANGED <<ThisTask, USP>>
    BY <1>5 DEF IrqExit, Switch, MustSwitch
  <2>2. irqFrom \in {"task", "window"} /\ Executes(irqFrom)
    BY <1>1, <1>2, <2>1 DEF Running, Executes
  <2>3. /\ TaskReady' \in Seq(SwitchTasks)
        /\ tc_State' \in [SwitchTasks -> {"TS_RUN", "TS_READY", "TS_WAIT"}]
        /\ Matches'
    BY <1>2, <2>1, EnqueueReady DEF SwitchInv, SwitchTypeOK
  <2>4. SwitchTypeOK'
    <3>1. Frame' \in [SwitchTasks -> Contexts]
      BY <1>2, <2>1, <2>2 DEF SwitchTypeOK, Contexts
    <3>2. tc_SPReg' \in [SwitchTasks -> SwitchTasks] /\ cpu' \in {"task", "dispatch", "window", "irq"}
      BY <1>2, <2>1 DEF SwitchTypeOK
    <3> QED BY <1>1, <1>2, <1>3, <2>1, <2>3, <3>1, <3>2 DEF SwitchTypeOK
  <2>5. Running'
    BY <1>2, <2>1 DEF SwitchTypeOK, Running, Executes
  <2>6. ASSUME WindowProtected PROVE Protected'
    <3>1. Protected
      BY <2>6 DEF SwitchInv
    <3>2. irqFrom # "window"
      <4>1. SUFFICES ASSUME irqFrom = "window" PROVE FALSE
        OBVIOUS
      <4>2. Elapsed = Quantum /\ Quantum > 0
        BY <1>1, <2>6, <3>1, <4>1 DEF Protected, Executes, WindowProtected
      <4>3. ~tc_Except[ThisTask]
        BY <1>2, <3>1 DEF Protected, SwitchTypeOK
      <4>4. TaskReady # <<>> => Head(TaskReady) \in SwitchTasks
        BY <1>2 DEF SwitchTypeOK
      <4>5. TaskReady # <<>> => ~(ln_Pri[Head(TaskReady)] > ln_Pri[ThisTask])
        BY <1>2, <2>6, <4>4, SwitchPriorityType DEF SwitchTypeOK, WindowProtected
      <4> QED BY <1>5, <4>2, <4>3, <4>5, QuantumAssumption DEF MustSwitch
    <3>3. irqFrom = "task" /\ context = ThisTask /\ USP = ThisTask
      BY <1>1, <2>2, <3>1, <3>2 DEF Protected, Executes
    <3> QED BY <1>1, <1>2, <2>1, <3>1, <3>3 DEF SwitchTypeOK, Protected, Executes
  <2> QED BY <2>3, <2>4, <2>5, <2>6, ProtectionFixed DEF SwitchInv, QueueInv
<1> QED BY <1>4, <1>5

-----------------------------------------------------------------------------
\* Every step keeps the invariant.
LEMMA NextSwitchInv == SwitchInv /\ [SwitchNext]_switchVars => SwitchInv'
<1> SUFFICES ASSUME SwitchInv, [SwitchNext]_switchVars PROVE SwitchInv'
  OBVIOUS
<1>1. CASE SwitchNext
  <2>1. CASE \E t \in SwitchTasks : Signal(t) \/ SignalExcept(t)
    BY <1>1, <2>1, SignalStep, ExceptionSteps DEF SwitchNext
  <2>2. CASE Exception
    <3>1. ThisTask \in SwitchTasks
      BY DEF SwitchInv, QueueInv, SwitchTypeOK
    <3> QED BY <1>1, <2>2, <3>1, ExceptionSteps DEF SwitchNext
  <2> QED BY <1>1, <2>1, <2>2, WaitStep, DispatchStep, LaunchStep, IrqEnterStep, IrqExitStep
          DEF SwitchNext
<1>2. CASE UNCHANGED switchVars
  <2>1. QueueInv'
    BY <1>2 DEF switchVars, SwitchInv, QueueInv, SwitchTypeOK, Running, Executes, Matches
  <2>2. Protected => Protected'
    BY <1>2 DEF switchVars, Protected, Executes
  <2>3. WindowProtected' <=> WindowProtected
    BY <1>2, ProtectionFixed DEF switchVars
  <2> QED BY <2>1, <2>2, <2>3 DEF SwitchInv
<1> QED BY <1>1, <1>2

\* The invariant holds in every reachable state.
LEMMA AlwaysSwitchInv == SwitchSpec => []SwitchInv
  BY InitSwitchInv, NextSwitchInv, PTL DEF SwitchSpec

\* Every variable of the context switch stays in its type.
THEOREM SwitchTypeCorrect == SwitchSpec => []SwitchTypeOK
<1>1. SwitchInv => SwitchTypeOK
  BY DEF SwitchInv, QueueInv
<1> QED BY <1>1, AlwaysSwitchInv, PTL

\* Whatever interrupts the window of Dispatch(), the ready queue holds exactly
\* the ready tasks, once each, and only ThisTask is running.
THEOREM SwitchQueueAgrees == SwitchSpec => []QueueMatchesStates
<1>1. SwitchInv => QueueMatchesStates
  BY DEF SwitchInv, QueueInv, Matches, Distinct, Holds, QueueMatchesStates
<1> QED BY <1>1, AlwaysSwitchInv, PTL

\* With nothing that can make Schedule() switch in the window, every task that
\* is not running has its own frame on its own stack.
THEOREM FramesSurvive == SwitchSpec => []FramesKept
<1>1. SwitchInv => FramesKept
  BY DEF SwitchInv, Protected, FramesKept
<1> QED BY <1>1, AlwaysSwitchInv, PTL

\* And then the last instruction of Dispatch() does return to ThisTask, on its
\* stack, as the comment in Dispatch() says; the run ExecSwitch_window shows
\* what happens when it can switch.
THEOREM RteReturnsWhenProtected ==
  SwitchSpec /\ WindowProtected => RteReturnsToThisTask
<1>1. ASSUME SwitchInv, WindowProtected, Launch
      PROVE  cpu' = "task" /\ context' = ThisTask /\ USP' = ThisTask
  <2>1. Protected /\ SwitchTypeOK
    BY <1>1 DEF SwitchInv, QueueInv
  <2>2. context = ThisTask /\ context \in SwitchTasks
    BY <1>1, <2>1 DEF Protected, SwitchTypeOK, Launch, Executes
  <2>3. tc_SPReg[ThisTask] = ThisTask /\ Frame[ThisTask] = [task |-> ThisTask, at |-> "task"]
    BY <2>1, <2>2, Zenon DEF Protected
  <2> QED BY <1>1, <2>2, <2>3 DEF Launch
<1>2. WindowProtected /\ [SwitchNext]_switchVars => WindowProtected'
  BY ProtectionFixed DEF SwitchNext, switchVars
<1>3. ASSUME SwitchInv, WindowProtected, [SwitchNext]_switchVars
      PROVE  [Launch => cpu' = "task" /\ context' = ThisTask /\ USP' = ThisTask]_switchVars
  BY <1>1, <1>3
<1> QED BY <1>2, <1>3, AlwaysSwitchInv, PTL DEF SwitchSpec, RteReturnsToThisTask
=============================================================================
