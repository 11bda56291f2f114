------------------------- MODULE IrqDeliveryProofs --------------------------
(***************************************************************************)
(* Two promises of IrqDelivery for any set of tasks, any host program and  *)
(* any nesting of Disable(): a task finds the IDNestCnt it left wherever   *)
(* the interrupt falls, and with lxa's loop no vertical blank is dropped.  *)
(*                                                                         *)
(* The first is inductive only together with what the CPU's mask says of   *)
(* the code that runs: the handler is not interrupted, so what it goes     *)
(* back to is what it came from.                                           *)
(***************************************************************************)
EXTENDS IrqDelivery, TLAPS

\* The types the argument needs.
IrqTypeOK ==
    /\ pending \in BOOLEAN /\ intena \in BOOLEAN /\ level \in BOOLEAN
    /\ mask \in {0, 3}
    /\ mode \in {"task", "irq", "switch", "dispatch"}
    /\ irqFrom \in {"task", "switch", "dispatch"}
    /\ ThisTask \in Tasks
    /\ IDNestCnt \in Int /\ tc_IDNestCnt \in [Tasks -> Int]
    /\ pc \in [Tasks -> {"run", "disabling", "enabling"}]
    /\ disables \in [Tasks -> Nat]

\* The handler runs with the level 3 interrupt masked.
HandlerMasked == mode = "irq" => mask = 3

IrqInv == IrqTypeOK /\ HandlerMasked /\ NestingKept

-----------------------------------------------------------------------------
\* Whatever the CPU finds when it looks at the level, it goes on with the code
\* it was in, or with the handler, which remembers that code.
LEMMA CheckKeepsCode ==
  ASSUME NEW lvl \in BOOLEAN, NEW msk \in {0, 3}, NEW m \in {"task", "switch", "dispatch"},
         CheckInterrupts(lvl, msk, m)
  PROVE  \/ mode' = m /\ irqFrom' = irqFrom /\ mask' = msk /\ level' = lvl
         \/ mode' = "irq" /\ irqFrom' = m /\ mask' = 3 /\ level' = FALSE /\ lvl
  BY DEF CheckInterrupts

\* In the handler it goes on with the handler.
LEMMA CheckKeepsHandler ==
  ASSUME NEW lvl \in BOOLEAN, CheckInterrupts(lvl, 3, "irq")
  PROVE  mode' = "irq" /\ irqFrom' = irqFrom /\ mask' = 3 /\ level' = lvl
  BY DEF CheckInterrupts

\* A step after which the same code of the same task runs, or the handler that
\* interrupted it, and which leaves the counters alone keeps the nesting.
LEMMA SameCodeKeepsNesting ==
  ASSUME IrqInv,
         UNCHANGED <<ThisTask, IDNestCnt, tc_IDNestCnt, disables>>,
         Current' <=> Current
  PROVE  NestingKept'
  BY DEF IrqInv, NestingKept

-----------------------------------------------------------------------------
\* The state at the start satisfies the invariant.
LEMMA InitIrqInv == Init => IrqInv
<1> SUFFICES ASSUME Init PROVE IrqInv
  OBVIOUS
<1>1. IrqTypeOK
  <2>1. pending \in BOOLEAN /\ intena \in BOOLEAN /\ level \in BOOLEAN
    BY Zenon DEF Init
  <2>2. /\ mask \in {0, 3} /\ mode \in {"task", "irq", "switch", "dispatch"}
        /\ irqFrom \in {"task", "switch", "dispatch"}
        /\ ThisTask \in Tasks /\ IDNestCnt \in Int
    BY DEF Init
  <2>3. /\ tc_IDNestCnt \in [Tasks -> Int] /\ disables \in [Tasks -> Nat]
        /\ pc \in [Tasks -> {"run", "disabling", "enabling"}]
    BY DEF Init
  <2> QED BY <2>1, <2>2, <2>3 DEF IrqTypeOK
<1>2. NestingKept
  BY DEF Init, NestingKept
<1> QED BY <1>1, <1>2 DEF Init, IrqInv, HandlerMasked

\* A round of either host loop keeps it.
LEMMA RunStep ==
  ASSUME IrqInv, LoopRun \/ ApiRun PROVE IrqInv'
<1>1. PICK lvl \in BOOLEAN : CheckInterrupts(lvl, mask, mode)
  BY DEF LoopRun, ApiRun, IrqInv, IrqTypeOK
<1>2. /\ UNCHANGED <<intena, ThisTask, IDNestCnt, tc_IDNestCnt, asleep, pc, disables>>
      /\ pending' \in BOOLEAN
  BY DEF LoopRun, ApiRun, IrqInv, IrqTypeOK, taskVars
<1>3. CASE mode = "irq"
  <2>1. mode' = "irq" /\ irqFrom' = irqFrom /\ mask' = 3 /\ level' \in BOOLEAN
    BY <1>1, <1>3, CheckKeepsHandler DEF IrqInv, HandlerMasked
  <2>2. NestingKept'
    BY <1>2, <1>3, <2>1, SameCodeKeepsNesting DEF Current
  <2> QED BY <1>2, <2>1, <2>2 DEF IrqInv, IrqTypeOK, HandlerMasked
<1>4. CASE mode # "irq"
  <2>1. mode \in {"task", "switch", "dispatch"} /\ mask \in {0, 3}
    BY <1>4 DEF IrqInv, IrqTypeOK
  <2>2. /\ \/ mode' = mode /\ irqFrom' = irqFrom /\ mask' = mask
           \/ mode' = "irq" /\ irqFrom' = mode /\ mask' = 3
        /\ level' \in BOOLEAN
    BY <1>1, <2>1, CheckKeepsCode
  <2>3. NestingKept'
    BY <1>2, <1>4, <2>1, <2>2, SameCodeKeepsNesting DEF Current
  <2> QED BY <1>2, <1>4, <2>1, <2>2, <2>3 DEF IrqInv, IrqTypeOK, HandlerMasked
<1> QED BY <1>3, <1>4

\* SIGALRM and the end of a slice keep it.
LEMMA HostStep ==
  ASSUME IrqInv, SigAlrm \/ SliceEnds PROVE IrqInv'
<1>1. UNCHANGED <<intena, level, mask, mode, irqFrom, taskVars>> /\ pending' \in BOOLEAN
  BY DEF SigAlrm, SliceEnds, IrqInv, IrqTypeOK
<1>2. NestingKept'
  BY <1>1, SameCodeKeepsNesting DEF Current, taskVars
<1> QED BY <1>1, <1>2 DEF IrqInv, IrqTypeOK, HandlerMasked, taskVars

-----------------------------------------------------------------------------
\* A memory write that turns interrupts on or off leaves the counters alone.
LEMMA IntenaStep ==
  ASSUME IrqInv, NEW t \in Tasks, DisableIntena(t) \/ EnableWrite(t) PROVE IrqInv'
<1>1. /\ UNCHANGED <<mask, mode, irqFrom, ThisTask, IDNestCnt, tc_IDNestCnt, disables>>
      /\ pending' \in BOOLEAN /\ intena' \in BOOLEAN /\ level' \in BOOLEAN
      /\ pc' \in [Tasks -> {"run", "disabling", "enabling"}]
  BY DEF DisableIntena, EnableWrite, EnableIntena, IrqInv, IrqTypeOK
<1>2. NestingKept'
  BY <1>1, SameCodeKeepsNesting DEF Current
<1> QED BY <1>1, <1>2 DEF IrqInv, IrqTypeOK, HandlerMasked

\* Counting up or down changes the counter in ExecBase and that of the program
\* alike: the task is the one whose counter is there.
LEMMA CountStep ==
  ASSUME IrqInv, NEW t \in Tasks, DisableCount(t) \/ EnableCount(t) PROVE IrqInv'
<1>1. /\ UNCHANGED <<pending, intena, level, mask, mode, irqFrom, ThisTask, tc_IDNestCnt>>
      /\ mode = "task" /\ ThisTask = t
  BY DEF DisableCount, EnableCount, InTaskCode, irqVars
<1>2. /\ disables' \in [Tasks -> Nat] /\ IDNestCnt' \in Int
      /\ IDNestCnt' - IDNestCnt = disables'[t] - disables[t]
      /\ \A u \in Tasks \ {t} : disables'[u] = disables[u]
      /\ pc' \in [Tasks -> {"run", "disabling", "enabling"}]
  <2>1. disables[t] \in Nat /\ IDNestCnt \in Int
    BY DEF IrqInv, IrqTypeOK
  <2>2. CASE DisableCount(t)
    BY <2>1, <2>2 DEF DisableCount, IrqInv, IrqTypeOK
  <2>3. CASE EnableCount(t)
    BY <2>1, <2>3 DEF EnableCount, IrqInv, IrqTypeOK
  <2> QED BY <2>2, <2>3
<1>3. NestingKept'
  <2>1. Current /\ Current'
    BY <1>1 DEF Current
  <2>2. \A u \in Tasks : disables[u] \in Nat /\ disables'[u] \in Nat
    BY <1>2 DEF IrqInv, IrqTypeOK
  <2> QED BY <1>1, <1>2, <2>1, <2>2 DEF IrqInv, IrqTypeOK, NestingKept
<1> QED BY <1>1, <1>2, <1>3 DEF IrqInv, IrqTypeOK, HandlerMasked

\* Wait() keeps it: the counter stays in ExecBase until Switch() saves it.
LEMMA SleepStep ==
  ASSUME IrqInv, NEW t \in Tasks, Sleep(t) PROVE IrqInv'
<1>1. /\ UNCHANGED <<irqVars, irqFrom, ThisTask, IDNestCnt, tc_IDNestCnt, pc, disables>>
      /\ mode = "task" /\ mode' = "switch"
  BY DEF Sleep, InTaskCode
<1>2. NestingKept'
  BY <1>1, SameCodeKeepsNesting DEF Current
<1> QED BY <1>1, <1>2 DEF IrqInv, IrqTypeOK, HandlerMasked, irqVars

-----------------------------------------------------------------------------
\* Signal() called from the handler keeps it.
LEMMA IrqSignalStep ==
  ASSUME IrqInv, NEW t \in Tasks, IrqSignal(t) PROVE IrqInv'
<1>1. /\ UNCHANGED <<mask, mode, irqFrom, ThisTask, IDNestCnt, tc_IDNestCnt, pc, disables>>
      /\ pending' \in BOOLEAN /\ intena' \in BOOLEAN /\ level' \in BOOLEAN
  BY DEF IrqSignal, EnableIntena, IrqInv, IrqTypeOK
<1>2. NestingKept'
  BY <1>1, SameCodeKeepsNesting DEF Current
<1> QED BY <1>1, <1>2 DEF IrqInv, IrqTypeOK, HandlerMasked

\* The way out of the handler keeps it: to the code that was interrupted, to
\* Switch() when that was a task's, or to the handler again.
LEMMA IrqExitStep ==
  ASSUME IrqInv, IrqReturn \/ IrqSwitch PROVE IrqInv'
<1>1. PICK m \in {"task", "switch", "dispatch"} :
         /\ CheckInterrupts(level, 0, m)
         /\ m = irqFrom \/ (m = "switch" /\ irqFrom = "task")
  BY DEF IrqReturn, IrqSwitch, IrqInv, IrqTypeOK
<1>2. mode = "irq" /\ UNCHANGED <<pending, intena, taskVars>>
  BY DEF IrqReturn, IrqSwitch
<1>3. level \in BOOLEAN
  BY DEF IrqInv, IrqTypeOK
<1>4. /\ \/ mode' = m /\ irqFrom' = irqFrom /\ mask' = 0
         \/ mode' = "irq" /\ irqFrom' = m /\ mask' = 3
      /\ level' \in BOOLEAN
  BY <1>1, <1>3, CheckKeepsCode
<1>5. NestingKept'
  BY <1>1, <1>2, <1>4, SameCodeKeepsNesting DEF Current, taskVars, IrqInv, IrqTypeOK
<1> QED BY <1>1, <1>2, <1>4, <1>5 DEF IrqInv, IrqTypeOK, HandlerMasked, taskVars

\* Switch() saves the counter of the task that leaves the CPU.
LEMMA SwitchStep ==
  ASSUME IrqInv, Switch PROVE IrqInv'
<1>1. /\ UNCHANGED <<mask, irqFrom, ThisTask, pc, disables>>
      /\ mode = "switch" /\ mode' = "dispatch" /\ IDNestCnt' = -1
      /\ tc_IDNestCnt' = [tc_IDNestCnt EXCEPT ![ThisTask] = IDNestCnt]
      /\ pending' \in BOOLEAN /\ intena' \in BOOLEAN /\ level' \in BOOLEAN
  BY DEF Switch, EnableIntena, IrqInv, IrqTypeOK
<1>2. Current /\ ~Current'
  BY <1>1 DEF Current
<1>3. NestingKept'
  BY <1>1, <1>2 DEF IrqInv, IrqTypeOK, NestingKept
<1> QED BY <1>1, <1>3 DEF IrqInv, IrqTypeOK, HandlerMasked

\* Dispatch() takes the counter of the task that gets the CPU from where
\* Switch() has saved it.
LEMMA DispatchStep ==
  ASSUME IrqInv, NEW t \in Tasks, Dispatch(t) PROVE IrqInv'
<1>1. /\ mode = "dispatch" /\ ThisTask' = t /\ IDNestCnt' = tc_IDNestCnt[t]
      /\ UNCHANGED <<pending, tc_IDNestCnt, pc, disables>>
      /\ intena' = (intena /\ tc_IDNestCnt[t] < 0)
      /\ CheckInterrupts(level, 0, "task")
  BY DEF Dispatch
<1>2. level \in BOOLEAN /\ intena' \in BOOLEAN
  BY <1>1 DEF IrqInv, IrqTypeOK
<1>3. /\ \/ mode' = "task" /\ irqFrom' = irqFrom /\ mask' = 0
         \/ mode' = "irq" /\ irqFrom' = "task" /\ mask' = 3
      /\ level' \in BOOLEAN
  BY <1>1, <1>2, CheckKeepsCode
<1>4. NestingKept'
  BY <1>1, <1>3 DEF IrqInv, NestingKept, Current
<1> QED BY <1>1, <1>2, <1>3, <1>4 DEF IrqInv, IrqTypeOK, HandlerMasked

\* The idle loop of Dispatch() keeps it, interrupted or not.
LEMMA EmuWaitStep ==
  ASSUME IrqInv, EmuWait PROVE IrqInv'
<1>1. mode = "dispatch" /\ UNCHANGED <<intena, taskVars>> /\ pending' \in BOOLEAN
  BY DEF EmuWait, IrqInv, IrqTypeOK
<1>2. /\ \/ mode' = "dispatch" /\ irqFrom' = irqFrom /\ mask' \in {0, 3}
         \/ mode' = "irq" /\ irqFrom' = "dispatch" /\ mask' = 3
      /\ level' \in BOOLEAN
  <2>1. CASE level
    BY <2>1, CheckKeepsCode DEF EmuWait, IrqInv, IrqTypeOK
  <2>2. CASE ~level
    BY <1>1, <2>2 DEF EmuWait, IrqInv, IrqTypeOK
  <2> QED BY <2>1, <2>2
<1>3. NestingKept'
  BY <1>1, <1>2, SameCodeKeepsNesting DEF Current, taskVars
<1> QED BY <1>1, <1>2, <1>3 DEF IrqInv, IrqTypeOK, HandlerMasked, taskVars

-----------------------------------------------------------------------------
\* Every step keeps the invariant.
LEMMA NextIrqInv == IrqInv /\ [Next]_vars => IrqInv'
<1> SUFFICES ASSUME IrqInv, [Next]_vars PROVE IrqInv'
  OBVIOUS
<1>1. CASE Host \/ SliceEnds
  BY <1>1, RunStep, HostStep DEF Host
<1>2. CASE Kernel
  BY <1>2, IrqSignalStep, IrqExitStep, SwitchStep, DispatchStep, EmuWaitStep DEF Kernel
<1>3. CASE \E t \in Tasks : TaskStep(t)
  BY <1>3, IntenaStep, CountStep, SleepStep DEF TaskStep
<1>4. CASE UNCHANGED vars
  <2>1. NestingKept'
    BY <1>4, SameCodeKeepsNesting DEF vars, taskVars, Current
  <2> QED BY <1>4, <2>1 DEF vars, irqVars, taskVars, IrqInv, IrqTypeOK, HandlerMasked
<1> QED BY <1>1, <1>2, <1>3, <1>4 DEF Next

\* The invariant holds in every reachable state.
LEMMA AlwaysIrqInv == Spec => []IrqInv
  BY InitIrqInv, NextIrqInv, PTL DEF Spec

\* Wherever the interrupt falls in Disable(), Enable() and Wait(), a task finds
\* the IDNestCnt that it left.
THEOREM NestingSurvives == Spec => []NestingKept
<1>1. IrqInv => NestingKept
  BY DEF IrqInv
<1> QED BY <1>1, AlwaysIrqInv, PTL

-----------------------------------------------------------------------------
\* An armed interrupt stays armed or is taken when the CPU looks at it.
LEMMA CheckTakesOrKeeps ==
  ASSUME NEW lvl, NEW msk, NEW m, lvl, CheckInterrupts(lvl, msk, m)
  PROVE  level' \/ mode' = "irq"
  BY DEF CheckInterrupts

\* One step of the system with lxa's loop does not drop a vertical blank.
LEMMA StepKeepsVBlank ==
  ASSUME IrqTypeOK, Next, driver = "loop", pending \/ level
  PROVE  pending' \/ level' \/ mode' = "irq"
<1>1. CASE SigAlrm \/ SliceEnds
  BY <1>1 DEF SigAlrm, SliceEnds
<1>2. CASE LoopRun
  <2>1. CASE level \/ (pending /\ intena)
    BY <1>2, <2>1, CheckTakesOrKeeps DEF LoopRun
  <2>2. CASE ~(level \/ (pending /\ intena))
    BY <1>2, <2>2 DEF LoopRun
  <2> QED BY <2>1, <2>2
<1>3. CASE ApiRun
  BY <1>3 DEF ApiRun
<1>4. CASE Kernel
  <2>1. CASE \E t \in Tasks : IrqSignal(t)
    BY <2>1 DEF IrqSignal, EnableIntena
  <2>2. CASE IrqReturn \/ IrqSwitch \/ \E t \in Tasks : Dispatch(t)
    <3>1. PICK m : /\ CheckInterrupts(level, 0, m)
                   /\ pending' = pending
      BY <2>2 DEF IrqReturn, IrqSwitch, Dispatch
    <3> QED BY <3>1, CheckTakesOrKeeps
  <2>3. CASE Switch
    BY <2>3 DEF Switch, EnableIntena
  <2>4. CASE EmuWait
    BY <2>4, CheckTakesOrKeeps DEF EmuWait
  <2> QED BY <1>4, <2>1, <2>2, <2>3, <2>4 DEF Kernel
<1>5. CASE \E t \in Tasks : TaskStep(t)
  <2>1. PICK t \in Tasks : TaskStep(t)
    BY <1>5
  <2>2. CASE EnableWrite(t)
    BY <2>2 DEF EnableWrite, EnableIntena
  <2>3. CASE ~EnableWrite(t)
    <3>1. UNCHANGED <<pending, level>>
      BY <2>1, <2>3 DEF TaskStep, DisableIntena, DisableCount, EnableCount, Sleep, irqVars
    <3> QED BY <3>1
  <2> QED BY <2>2, <2>3
<1> QED BY <1>1, <1>2, <1>3, <1>4, <1>5 DEF Next, Host

\* With lxa's loop, masks, INTENA and the ends of slices delay a vertical blank
\* that SIGALRM announced; nothing drops it before the handler runs.
THEOREM VBlanksKept == Spec => NoVBlankLost
<1>1. ASSUME IrqInv, [Next]_vars
      PROVE  [driver = "loop" /\ (pending \/ level) /\ ~(pending' \/ level')
                => mode' = "irq"]_vars
  <2>1. CASE Next
    BY <1>1, <2>1, StepKeepsVBlank DEF IrqInv
  <2>2. CASE UNCHANGED vars
    BY <2>2
  <2> QED BY <1>1, <2>1, <2>2
<1> QED BY <1>1, AlwaysIrqInv, PTL DEF Spec, NoVBlankLost
=============================================================================
