--------------------------- MODULE ExecTaskProofs ---------------------------
(***************************************************************************)
(* The safety properties of ExecTask hold for any number of tasks,         *)
(* signals and priorities, any quantum and any nesting of Forbid() and     *)
(* Disable().                                                              *)
(*                                                                         *)
(* None of them is inductive alone: that no wakeup is lost rests on the    *)
(* queues agreeing with the task states, that the queue stays sorted on no *)
(* task being enqueued twice, that Disable() nesting is restored on only   *)
(* the running task reaching Switch().  IInv is their conjunction, with    *)
(* what a task inside an exec call may be.                                 *)
(***************************************************************************)
EXTENDS ExecTask, ExecListLemmas

Queues ==
    /\ Distinct(TaskReady)
    /\ Sorted(TaskReady, ln_Pri)
    /\ \A t \in Tasks :
          /\ tc_State[t] = "TS_READY" <=> Holds(TaskReady, t)
          /\ tc_State[t] = "TS_WAIT" <=> t \in TaskWait
          /\ tc_State[t] = "TS_RUN" => ThisTask = t /\ InTask
    /\ InTask => /\ ThisTask \in Tasks
                 /\ tc_State[ThisTask] = IF pc[ThisTask] = "removed"
                                         THEN "TS_REMOVED" ELSE "TS_RUN"

\* A task that will run again is not half removed; one inside Wait() waits for
\* something.
Sleepers ==
    \A t \in Tasks :
        /\ Signallable(t) => pc[t] \notin {"removed", "unlinked"}
        /\ Signallable(t) /\ pc[t] = "wait" => tc_SigWait[t] # {}
        /\ tc_State[t] = "TS_WAIT" => /\ pc[t] = "wait"
                                      /\ tc_SigRecvd[t] \cap tc_SigWait[t] = {}
        /\ pc[t] # "unlinked"

IInv == TypeOK /\ Queues /\ Sleepers /\ DisableBalanced

-----------------------------------------------------------------------------
(* What IInv says is what the model checker checks.                        *)

\* Queues is the two queue invariants of ExecTask, element by element.
LEMMA QueuesMeaning == Queues <=> QueueConsistent /\ ReadySorted
  BY DEF Queues, QueueConsistent, ReadySorted, Distinct, Sorted, Holds

\* Sleepers strengthens NoLostWakeup with what holds between the steps of Wait().
LEMMA SleepersMeaning == Sleepers => NoLostWakeup
  BY DEF Sleepers, NoLostWakeup, Signallable

-----------------------------------------------------------------------------
(* Steps that leave a part of IInv alone.                                  *)

\* Queues depends on the queues, the states and the priorities only.
LEMMA QueuesFrame ==
  ASSUME Queues, UNCHANGED <<queueVars, ln_Pri, cpuVars, pc>>
  PROVE  Queues'
  BY DEF Queues, InTask, queueVars, cpuVars

\* Sleepers depends on the states, the signals and the program counters only.
LEMMA SleepersFrame ==
  ASSUME Sleepers, UNCHANGED <<tc_State, pc, tc_SigRecvd, tc_SigWait>>
  PROVE  Sleepers'
  BY DEF Sleepers, Signallable

\* DisableBalanced depends on the counters, the current task and its calls only.
LEMMA NestingFrame ==
  ASSUME DisableBalanced, UNCHANGED <<tc_State, IDNestCnt, tc_IDNestCnt, cpuVars, pc, disables>>
  PROVE  DisableBalanced'
  BY DEF DisableBalanced, DisableDepth, cpuVars

\* The task that executes its own code.
LEMMA RunningFacts ==
  ASSUME IInv, NEW t \in Tasks, cpu = "task", ThisTask = t
  PROVE  /\ InTask
         /\ pc[t] # "removed" => tc_State[t] = "TS_RUN" /\ IDNestCnt = DisableDepth(t)
         /\ \A u \in Tasks : tc_State[u] = "TS_RUN" => u = t
  BY DEF IInv, Queues, DisableBalanced, InTask

\* A priority is an integer.
LEMMA PriorityType ==
  ASSUME TypeOK PROVE ln_Pri \in [Tasks -> Int]
  BY PrioritiesAssumption DEF TypeOK

-----------------------------------------------------------------------------
\* The state coldstart() leaves satisfies the invariant.
LEMMA InitIInv == Init => IInv
<1> SUFFICES ASSUME Init PROVE IInv
  OBVIOUS
<1>1. TypeOK
  <2>1. PICK boot \in Tasks, p \in Priorities :
           /\ ThisTask = boot
           /\ TaskReady = <<>> /\ TaskWait = {}
           /\ tc_State = [t \in Tasks |-> IF t = boot THEN "TS_RUN" ELSE "TS_INVALID"]
           /\ ln_Pri = [t \in Tasks |-> p]
    BY DEF Init
  <2>2. /\ ThisTask \in Tasks /\ TaskReady \in Seq(Tasks) /\ TaskWait \subseteq Tasks
        /\ tc_State \in [Tasks -> States] /\ ln_Pri \in [Tasks -> Priorities]
    BY <2>1 DEF States
  <2>6. QuantumOver \in BOOLEAN
    BY Zenon DEF Init
  <2>3. /\ Elapsed \in 0 .. Quantum
        /\ IDNestCnt \in Int /\ TDNestCnt \in Int
        /\ cpu \in {"task", "dispatch", "irq", "halted"} /\ irqFrom \in {"task", "dispatch"}
    BY QuantumAssumption DEF Init
  <2>4. /\ tc_SigRecvd \in [Tasks -> SUBSET Signals] /\ tc_SigWait \in [Tasks -> SUBSET Signals]
        /\ tc_SigExcept \in [Tasks -> SUBSET Signals] /\ tc_Except \in [Tasks -> BOOLEAN]
        /\ tc_IDNestCnt \in [Tasks -> Int] /\ tc_TDNestCnt \in [Tasks -> Int]
    BY DEF Init
  <2>5. /\ pc \in [Tasks -> {"run", "wait", "signal", "removed", "unlinked"}]
        /\ target \in [Tasks -> Tasks] /\ sigArg \in [Tasks -> SUBSET Signals]
        /\ forbids \in [Tasks -> 0 .. MaxNest] /\ disables \in [Tasks -> 0 .. MaxNest]
    BY MaxNestAssumption DEF Init
  <2> QED BY <2>2, <2>3, <2>4, <2>5, <2>6 DEF TypeOK
<1>2. Queues
  BY DEF Init, Queues, Distinct, Sorted, Holds, InTask
<1>3. Sleepers
  BY DEF Init, Sleepers, Signallable
<1>4. DisableBalanced
  BY DEF Init, DisableBalanced, DisableDepth
<1> QED BY <1>1, <1>2, <1>3, <1>4 DEF IInv

-----------------------------------------------------------------------------
(* The nesting counters.                                                   *)

\* Forbid() keeps the invariant.
LEMMA ForbidStep ==
  ASSUME IInv, NEW t \in Tasks, Forbid(t) \/ Permit(t) PROVE IInv'
<1>1. TypeOK'
  <2>1. TDNestCnt' \in Int /\ forbids' \in [Tasks -> 0 .. MaxNest]
    <3>1. forbids[t] \in 0 .. MaxNest /\ TDNestCnt \in Int
      BY DEF IInv, TypeOK
    <3>2. CASE Forbid(t)
      BY <3>1, <3>2, MaxNestAssumption DEF IInv, TypeOK, Forbid
    <3>3. CASE Permit(t)
      BY <3>1, <3>3, MaxNestAssumption DEF IInv, TypeOK, Permit
    <3> QED BY <3>2, <3>3
  <2> QED BY <2>1, SMTT(30) DEF IInv, TypeOK, Forbid, Permit, queueVars, quantumVars, signalVars, cpuVars, callVars
<1>2. Queues'
  BY QueuesFrame DEF IInv, Forbid, Permit, callVars
<1>3. Sleepers'
  BY SleepersFrame DEF IInv, Forbid, Permit, callVars, queueVars, signalVars
<1>4. DisableBalanced'
  BY NestingFrame DEF IInv, Forbid, Permit, callVars, queueVars
<1> QED BY <1>1, <1>2, <1>3, <1>4 DEF IInv

\* Disable() keeps the invariant.
LEMMA DisableStep ==
  ASSUME IInv, NEW t \in Tasks, Disable(t) \/ Enable(t) PROVE IInv'
<1>1. TypeOK'
  <2>1. IDNestCnt' \in Int /\ disables' \in [Tasks -> 0 .. MaxNest]
    <3>1. disables[t] \in 0 .. MaxNest /\ IDNestCnt \in Int
      BY DEF IInv, TypeOK
    <3>2. CASE Disable(t)
      BY <3>1, <3>2, MaxNestAssumption DEF IInv, TypeOK, Disable
    <3>3. CASE Enable(t)
      BY <3>1, <3>3, MaxNestAssumption DEF IInv, TypeOK, Enable
    <3> QED BY <3>2, <3>3
  <2> QED BY <2>1, SMTT(30) DEF IInv, TypeOK, Disable, Enable, queueVars, quantumVars, signalVars, cpuVars, callVars
<1>2. Queues'
  BY QueuesFrame DEF IInv, Disable, Enable, callVars
<1>3. Sleepers'
  BY SleepersFrame DEF IInv, Disable, Enable, callVars, queueVars, signalVars
<1>4. DisableBalanced'
  <2>1. /\ cpu = "task" /\ ThisTask = t /\ pc[t] = "run" /\ tc_State[t] = "TS_RUN"
        /\ \A u \in Tasks : tc_State[u] = "TS_RUN" => u = t
    BY RunningFacts DEF Disable, Enable, Running
  <2>2. /\ UNCHANGED <<tc_State, tc_IDNestCnt, cpu, irqFrom, pc>>
        /\ IDNestCnt \in Int /\ disables \in [Tasks -> 0 .. MaxNest]
        /\ \/ IDNestCnt' = IDNestCnt + 1 /\ disables' = [disables EXCEPT ![t] = @ + 1]
           \/ IDNestCnt' = IDNestCnt - 1 /\ disables' = [disables EXCEPT ![t] = @ - 1]
    BY DEF IInv, TypeOK, Disable, Enable, queueVars, callVars, cpuVars
  <2>3. IDNestCnt' = DisableDepth(t)'
    BY <2>1, <2>2, RunningFacts, MaxNestAssumption DEF DisableDepth
  <2>4. \A u \in Tasks : u # t => DisableDepth(u)' = DisableDepth(u)
    BY <2>2 DEF DisableDepth
  <2> QED BY <2>1, <2>2, <2>3, <2>4 DEF IInv, DisableBalanced
<1> QED BY <1>1, <1>2, <1>3, <1>4 DEF IInv

-----------------------------------------------------------------------------
(* Wait().                                                                 *)

\* Sleep() keeps the invariant.
LEMMA SleepStep ==
  ASSUME IInv, NEW t \in Tasks, cpu = "task", ThisTask = t,
         NEW set \in SUBSET Signals, set # {}, tc_SigRecvd[t] \cap set = {},
         NEW d, \/ pc[t] = "run" /\ d = IDNestCnt + 1
                \/ pc[t] = "wait" /\ d = IDNestCnt,
         Sleep(t, set), Switch(t, d, -1),
         UNCHANGED <<quantumVars, tc_SigExcept, tc_Except, ln_Pri, irqFrom,
                     target, sigArg, ghostVars>>
  PROVE  IInv'
<1>1. /\ InTask /\ tc_State[t] = "TS_RUN" /\ IDNestCnt = DisableDepth(t)
      /\ \A u \in Tasks : tc_State[u] = "TS_RUN" => u = t
      /\ disables[t] \in 0 .. MaxNest /\ tc_State \in [Tasks -> States]
      /\ pc \in [Tasks -> {"run", "wait", "signal", "removed", "unlinked"}]
      /\ tc_SigWait \in [Tasks -> SUBSET Signals] /\ tc_IDNestCnt \in [Tasks -> Int]
  BY RunningFacts DEF IInv, TypeOK
<1>2. /\ tc_State' = [tc_State EXCEPT ![t] = "TS_WAIT"]
      /\ pc' = [pc EXCEPT ![t] = "wait"]
      /\ tc_SigWait' = [tc_SigWait EXCEPT ![t] = set]
      /\ TaskWait' = TaskWait \cup {t}
      /\ tc_IDNestCnt' = [tc_IDNestCnt EXCEPT ![t] = d]
      /\ IDNestCnt' = -1 /\ TDNestCnt' = -1 /\ cpu' = "dispatch"
      /\ tc_TDNestCnt' = [tc_TDNestCnt EXCEPT ![t] = -1]
      /\ UNCHANGED <<ThisTask, TaskReady, tc_SigRecvd, ln_Pri, irqFrom, disables>>
  BY DEF Sleep, Switch, ghostVars
<1>3. d \in Int /\ d = disables[t]
  BY <1>1, MaxNestAssumption DEF DisableDepth
<1>4. TypeOK'
  BY <1>2, <1>3 DEF IInv, TypeOK, States, quantumVars, ghostVars
<1>5. Queues'
  BY <1>1, <1>2 DEF IInv, Queues, InTask
<1>6. Sleepers'
  BY <1>1, <1>2 DEF IInv, Sleepers, Signallable
<1>7. DisableBalanced'
  <2>1. \A u \in Tasks : u # t => DisableDepth(u)' = DisableDepth(u)
    BY <1>1, <1>2 DEF DisableDepth
  <2>2. DisableDepth(t)' = d
    BY <1>1, <1>2, <1>3 DEF DisableDepth
  <2> QED BY <1>1, <1>2, <2>1, <2>2 DEF IInv, DisableBalanced
<1> QED BY <1>4, <1>5, <1>6, <1>7 DEF IInv

\* TakeSignals() keeps the invariant.
LEMMA TakeSignalsStep ==
  ASSUME IInv, NEW t \in Tasks, cpu = "task", ThisTask = t, NEW set \in SUBSET Signals,
         TakeSignals(t, set), TDNestCnt' \in Int,
         \/ pc[t] = "run" /\ IDNestCnt' = IDNestCnt
         \/ pc[t] = "wait" /\ IDNestCnt' = IDNestCnt - 1,
         UNCHANGED <<quantumVars, tc_SigExcept, tc_Except, ln_Pri, irqFrom,
                     target, sigArg, ghostVars>>
  PROVE  IInv'
<1>1. /\ InTask /\ tc_State[t] = "TS_RUN" /\ IDNestCnt = DisableDepth(t)
      /\ \A u \in Tasks : tc_State[u] = "TS_RUN" => u = t
      /\ disables[t] \in 0 .. MaxNest
      /\ pc \in [Tasks -> {"run", "wait", "signal", "removed", "unlinked"}]
      /\ tc_SigWait \in [Tasks -> SUBSET Signals] /\ IDNestCnt \in Int
      /\ tc_SigRecvd \in [Tasks -> SUBSET Signals]
  BY RunningFacts DEF IInv, TypeOK
<1>2. /\ pc' = [pc EXCEPT ![t] = "run"]
      /\ tc_SigWait' = [tc_SigWait EXCEPT ![t] = {}]
      /\ tc_SigRecvd' = [tc_SigRecvd EXCEPT ![t] = @ \ set]
      /\ UNCHANGED <<queueVars, tc_IDNestCnt, tc_TDNestCnt, cpu, irqFrom, ln_Pri,
                     disables, forbids>>
  BY DEF TakeSignals, ghostVars
<1>3. TypeOK'
  <2>1. tc_SigRecvd' \in [Tasks -> SUBSET Signals] /\ tc_SigWait' \in [Tasks -> SUBSET Signals]
    BY <1>1, <1>2
  <2> QED BY <1>1, <1>2, <2>1 DEF IInv, TypeOK, quantumVars, queueVars
<1>4. Queues'
  BY <1>1, <1>2 DEF IInv, Queues, InTask, queueVars
<1>5. Sleepers'
  BY <1>1, <1>2 DEF IInv, Sleepers, Signallable, queueVars
<1>6. DisableBalanced'
  <2>1. \A u \in Tasks : u # t => DisableDepth(u)' = DisableDepth(u)
    BY <1>1, <1>2 DEF DisableDepth
  <2>2. DisableDepth(t)' = IDNestCnt'
    BY <1>1, <1>2, MaxNestAssumption DEF DisableDepth
  <2> QED BY <1>1, <1>2, <2>1, <2>2 DEF IInv, DisableBalanced, queueVars
<1> QED BY <1>3, <1>4, <1>5, <1>6 DEF IInv

\* Wait() keeps the invariant.
LEMMA WaitStep ==
  ASSUME IInv, NEW t \in Tasks, NEW set \in SUBSET Signals, set # {}, Wait(t, set)
  PROVE  IInv'
<1>1. cpu = "task" /\ ThisTask = t /\ pc[t] = "run"
  BY DEF Wait, Running
<1>2. CASE tc_SigRecvd[t] \cap set = {}
  BY <1>1, <1>2, SleepStep DEF Wait
<1>3. CASE tc_SigRecvd[t] \cap set # {}
  <2>1. TDNestCnt' \in Int /\ IDNestCnt' = IDNestCnt
    BY <1>3 DEF Wait, IInv, TypeOK
  <2> QED BY <1>1, <1>3, <2>1, TakeSignalsStep DEF Wait
<1> QED BY <1>2, <1>3

\* WaitResume() keeps the invariant.
LEMMA WaitResumeStep ==
  ASSUME IInv, NEW t \in Tasks, WaitResume(t) PROVE IInv'
<1>1. cpu = "task" /\ ThisTask = t /\ pc[t] = "wait"
  BY DEF WaitResume
<1>2. tc_SigWait[t] \in SUBSET Signals /\ tc_SigWait[t] # {}
  <2>1. Signallable(t)
    BY <1>1, RunningFacts DEF Signallable
  <2> QED BY <1>1, <2>1 DEF IInv, TypeOK, Sleepers
<1>3. CASE tc_SigRecvd[t] \cap tc_SigWait[t] = {}
  BY <1>1, <1>2, <1>3, SleepStep DEF WaitResume
<1>4. CASE tc_SigRecvd[t] \cap tc_SigWait[t] # {}
  <2>1. TDNestCnt' \in Int /\ IDNestCnt' = IDNestCnt - 1
    BY <1>4 DEF WaitResume, IInv, TypeOK
  <2> QED BY <1>1, <1>2, <1>4, <2>1, TakeSignalsStep DEF WaitResume
<1> QED BY <1>3, <1>4

-----------------------------------------------------------------------------
(* Signal(), SetSignal(), SetExcept().                                     *)

\* The part of SignalBody() that matters here: the target receives more
\* signals, and if it slept it may become ready.
LEMMA SignalBodyEffect ==
  ASSUME IInv, NEW u \in Tasks, NEW sigs \in SUBSET Signals, SignalBody(u, sigs)
  PROVE  /\ tc_SigRecvd' = [tc_SigRecvd EXCEPT ![u] = @ \cup sigs]
         /\ QuantumOver' \in BOOLEAN /\ tc_Except' \in [Tasks -> BOOLEAN]
         /\ \/ /\ UNCHANGED <<tc_State, TaskWait, TaskReady>>
               /\ tc_State[u] = "TS_WAIT" => (tc_SigRecvd[u] \cup sigs) \cap tc_SigWait[u] = {}
            \/ /\ tc_State[u] = "TS_WAIT"
               /\ tc_State' = [tc_State EXCEPT ![u] = "TS_READY"]
               /\ TaskWait' = TaskWait \ {u}
               /\ TaskReady' = Enqueue(TaskReady, ln_Pri, u)
         /\ UNCHANGED <<ThisTask, Elapsed, nestVars, tc_SigWait, tc_SigExcept, ln_Pri>>
<1> DEFINE recvd   == tc_SigRecvd[u] \cup sigs
           excepts == recvd \cap tc_SigExcept[u] # {}
           early   == excepts /\ tc_State[u] = "TS_RUN"
           matches == ~early /\ recvd \cap (tc_SigWait[u] \cup tc_SigExcept[u]) # {}
           wakes   == matches /\ tc_State[u] = "TS_WAIT"
<1>1. /\ tc_SigRecvd' = [tc_SigRecvd EXCEPT ![u] = recvd]
      /\ tc_Except' = [tc_Except EXCEPT ![u] = @ \/ excepts]
      /\ tc_State' = IF wakes THEN [tc_State EXCEPT ![u] = "TS_READY"] ELSE tc_State
      /\ TaskWait' = IF wakes THEN TaskWait \ {u} ELSE TaskWait
      /\ TaskReady' = IF wakes THEN Enqueue(TaskReady, ln_Pri, u) ELSE TaskReady
      /\ UNCHANGED <<ThisTask, Elapsed, nestVars, tc_SigWait, tc_SigExcept, ln_Pri>>
  BY Zenon DEF SignalBody
<1>2. QuantumOver' \in BOOLEAN
  BY Zenon DEF SignalBody
<1>3. tc_Except' \in [Tasks -> BOOLEAN]
  BY <1>1, Zenon DEF IInv, TypeOK
<1>4. ~wakes /\ tc_State[u] = "TS_WAIT" => recvd \cap tc_SigWait[u] = {}
  OBVIOUS
<1> HIDE DEF wakes
<1>5. CASE wakes
  <2>1. tc_State[u] = "TS_WAIT"
    BY <1>5 DEF wakes
  <2> QED BY <1>1, <1>2, <1>3, <1>5, <2>1
<1>6. CASE ~wakes
  BY <1>1, <1>2, <1>3, <1>4, <1>6
<1> QED BY <1>5, <1>6

\* SignalBody() keeps the invariant.
LEMMA SignalBodyStep ==
  ASSUME IInv, NEW u \in Tasks, NEW sigs \in SUBSET Signals, SignalBody(u, sigs),
         UNCHANGED cpuVars, UNCHANGED ghostVars,
         pc' \in [Tasks -> {"run", "wait", "signal", "removed", "unlinked"}],
         \A t \in Tasks : pc'[t] = pc[t] \/ (pc[t] = "signal" /\ pc'[t] = "run"),
         target' \in [Tasks -> Tasks], sigArg' \in [Tasks -> SUBSET Signals]
  PROVE  IInv'
<1>1. /\ tc_SigRecvd' = [tc_SigRecvd EXCEPT ![u] = @ \cup sigs]
      /\ QuantumOver' \in BOOLEAN /\ tc_Except' \in [Tasks -> BOOLEAN]
      /\ UNCHANGED <<ThisTask, Elapsed, nestVars, tc_SigWait, tc_SigExcept, ln_Pri>>
  BY SignalBodyEffect
<1>2. /\ tc_SigRecvd \in [Tasks -> SUBSET Signals]
      /\ tc_State \in [Tasks -> States] /\ TaskReady \in Seq(Tasks)
      /\ ln_Pri \in [Tasks -> Int]
  BY PriorityType DEF IInv, TypeOK
<1>3. UNCHANGED <<IDNestCnt, TDNestCnt, tc_IDNestCnt, tc_TDNestCnt, cpu, irqFrom, disables, forbids>>
  BY <1>1 DEF nestVars, cpuVars, ghostVars
<1>4. tc_SigRecvd' \in [Tasks -> SUBSET Signals]
  BY <1>1, <1>2
<1>5. CASE /\ UNCHANGED <<tc_State, TaskWait, TaskReady>>
           /\ tc_State[u] = "TS_WAIT" => (tc_SigRecvd[u] \cup sigs) \cap tc_SigWait[u] = {}
  <2>1. TypeOK'
    BY <1>1, <1>2, <1>3, <1>4, <1>5 DEF IInv, TypeOK
  <2>2. Queues'
    BY <1>1, <1>2, <1>3, <1>5 DEF IInv, Queues, InTask
  <2>3. Sleepers'
    BY <1>1, <1>2, <1>3, <1>5 DEF IInv, Sleepers, Signallable
  <2>4. DisableBalanced'
    BY <1>1, <1>2, <1>3, <1>5 DEF IInv, DisableBalanced, DisableDepth
  <2> QED BY <2>1, <2>2, <2>3, <2>4 DEF IInv
<1>6. CASE /\ tc_State[u] = "TS_WAIT"
           /\ tc_State' = [tc_State EXCEPT ![u] = "TS_READY"]
           /\ TaskWait' = TaskWait \ {u}
           /\ TaskReady' = Enqueue(TaskReady, ln_Pri, u)
  <2>1. Distinct(TaskReady) /\ ~Holds(TaskReady, u) /\ Sorted(TaskReady, ln_Pri)
    BY <1>6 DEF IInv, Queues
  <2>2. /\ TaskReady' \in Seq(Tasks) /\ Distinct(TaskReady')
        /\ \A x \in Tasks : Holds(TaskReady', x) <=> Holds(TaskReady, x) \/ x = u
        /\ Sorted(TaskReady', ln_Pri)
    BY <1>2, <1>6, <2>1, EnqueueKeepsOrder, Zenon
  <2>3. TypeOK'
    BY <1>1, <1>2, <1>3, <1>4, <1>6, <2>2 DEF IInv, TypeOK, States
  <2>4. Queues'
    BY <1>1, <1>2, <1>3, <1>6, <2>2 DEF IInv, Queues, InTask
  <2>5. Sleepers'
    BY <1>1, <1>2, <1>3, <1>6 DEF IInv, Sleepers, Signallable
  <2>6. DisableBalanced'
    BY <1>1, <1>2, <1>3, <1>6 DEF IInv, DisableBalanced, DisableDepth
  <2> QED BY <2>3, <2>4, <2>5, <2>6 DEF IInv
<1> QED BY <1>5, <1>6, SignalBodyEffect

\* Signal() keeps the invariant.
LEMMA SignalStep ==
  ASSUME IInv, NEW t \in Tasks, Signal(t) PROVE IInv'
<1>1. target[t] \in Tasks /\ sigArg[t] \in SUBSET Signals
  BY DEF IInv, TypeOK
<1>2. /\ pc' \in [Tasks -> {"run", "wait", "signal", "removed", "unlinked"}]
      /\ \A u \in Tasks : pc'[u] = pc[u] \/ (pc[u] = "signal" /\ pc'[u] = "run")
      /\ target' \in [Tasks -> Tasks] /\ sigArg' \in [Tasks -> SUBSET Signals]
  BY DEF IInv, TypeOK, Signal
<1> QED BY <1>1, <1>2, SignalBodyStep DEF Signal

\* IrqSignal() keeps the invariant.
LEMMA IrqSignalStep ==
  ASSUME IInv, NEW u \in Tasks, NEW s \in Signals, IrqSignal(u, {s}) PROVE IInv'
<1>1. /\ pc' \in [Tasks -> {"run", "wait", "signal", "removed", "unlinked"}]
      /\ \A t \in Tasks : pc'[t] = pc[t]
      /\ target' \in [Tasks -> Tasks] /\ sigArg' \in [Tasks -> SUBSET Signals]
  BY DEF IInv, TypeOK, IrqSignal, callVars
<1> QED BY <1>1, SignalBodyStep DEF IrqSignal

\* SignalCheck() keeps the invariant.
LEMMA SignalCheckStep ==
  ASSUME IInv, NEW t \in Tasks, NEW u \in Tasks, NEW s \in Signals, SignalCheck(t, u, {s})
  PROVE  IInv'
<1>1. /\ pc[t] = "run" /\ pc' = [pc EXCEPT ![t] = "signal"]
      /\ ThisTask = t /\ cpu = "task" /\ tc_State[t] = "TS_RUN"
      /\ pc \in [Tasks -> {"run", "wait", "signal", "removed", "unlinked"}]
  BY RunningFacts DEF SignalCheck, Running, IInv, TypeOK
<1>2. TypeOK'
  BY <1>1, SMTT(30) DEF IInv, TypeOK, SignalCheck, queueVars, quantumVars, nestVars, signalVars,
              cpuVars, ghostVars
<1>3. Queues'
  BY <1>1 DEF IInv, Queues, InTask, SignalCheck, queueVars, cpuVars
<1>4. Sleepers'
  BY <1>1 DEF IInv, Sleepers, Signallable, SignalCheck, queueVars, signalVars
<1>5. DisableBalanced'
  <2>1. \A v \in Tasks : DisableDepth(v)' = DisableDepth(v)
    BY <1>1 DEF DisableDepth, SignalCheck, ghostVars
  <2> QED BY <2>1 DEF IInv, DisableBalanced, SignalCheck, queueVars, nestVars, cpuVars
<1> QED BY <1>2, <1>3, <1>4, <1>5 DEF IInv

\* SetSignal() keeps the invariant.
LEMMA SetSignalStep ==
  ASSUME IInv, NEW t \in Tasks, NEW s \in Signals,
         SetSignal(t, {}, {s}) \/ SetSignal(t, {s}, {s})
  PROVE  IInv'
<1>1. /\ ThisTask = t /\ cpu = "task" /\ pc[t] = "run" /\ tc_State[t] = "TS_RUN"
      /\ UNCHANGED <<queueVars, quantumVars, nestVars, tc_SigWait, tc_SigExcept,
                     tc_Except, ln_Pri, cpuVars, callVars, ghostVars>>
  BY RunningFacts DEF SetSignal, Running
<1>2. /\ tc_SigRecvd' \in [Tasks -> SUBSET Signals]
      /\ \A u \in Tasks : u # t => tc_SigRecvd'[u] = tc_SigRecvd[u]
  <2>1. PICK new \in SUBSET {s} : SetSignal(t, new, {s})
    OBVIOUS
  <2>2. (tc_SigRecvd[t] \ {s}) \cup (new \cap {s}) \in SUBSET Signals
    BY DEF IInv, TypeOK
  <2>3. tc_SigRecvd' = [tc_SigRecvd EXCEPT ![t] = (@ \ {s}) \cup (new \cap {s})]
    BY <2>1 DEF SetSignal
  <2> QED BY <2>2, <2>3 DEF IInv, TypeOK
<1>3. TypeOK'
  BY <1>1, <1>2 DEF IInv, TypeOK, queueVars, quantumVars, nestVars, cpuVars, callVars, ghostVars
<1>4. Queues'
  BY <1>1, QueuesFrame DEF IInv, callVars
<1>5. Sleepers'
  BY <1>1, <1>2 DEF IInv, Sleepers, Signallable, queueVars, callVars
<1>6. DisableBalanced'
  BY <1>1, NestingFrame DEF IInv, queueVars, nestVars, callVars, ghostVars
<1> QED BY <1>3, <1>4, <1>5, <1>6 DEF IInv

\* SetExcept() keeps the invariant.
LEMMA SetExceptStep ==
  ASSUME IInv, NEW t \in Tasks, NEW s \in ExceptSignals,
         SetExcept(t, {s}, {s}) \/ SetExcept(t, {}, {s})
  PROVE  IInv'
<1>1. UNCHANGED <<queueVars, quantumVars, nestVars, tc_SigRecvd, tc_SigWait,
                   ln_Pri, cpuVars, callVars, ghostVars>>
  BY DEF SetExcept
<1>2. tc_SigExcept' \in [Tasks -> SUBSET Signals]
  <2>1. PICK new \in SUBSET {s} : SetExcept(t, new, {s})
    OBVIOUS
  <2>2. (tc_SigExcept[t] \ {s}) \cup (new \cap {s}) \in SUBSET Signals
    BY SignalsAssumption DEF IInv, TypeOK
  <2>3. tc_SigExcept' = [tc_SigExcept EXCEPT ![t] = (@ \ {s}) \cup (new \cap {s})]
    BY <2>1 DEF SetExcept
  <2> QED BY <2>2, <2>3 DEF IInv, TypeOK
<1>3. tc_Except' \in [Tasks -> BOOLEAN]
  BY Zenon DEF IInv, TypeOK, SetExcept
<1>4. TypeOK'
  BY <1>1, <1>2, <1>3 DEF IInv, TypeOK, queueVars, quantumVars, nestVars, cpuVars, callVars, ghostVars
<1>5. Queues'
  BY <1>1, QueuesFrame DEF IInv, callVars
<1>6. Sleepers'
  BY <1>1, SleepersFrame DEF IInv, queueVars, callVars
<1>7. DisableBalanced'
  BY <1>1, NestingFrame DEF IInv, queueVars, nestVars, callVars, ghostVars
<1> QED BY <1>4, <1>5, <1>6, <1>7 DEF IInv

-----------------------------------------------------------------------------
(* AddTask(), SetTaskPri(), RemTask(NULL).                                 *)

\* AddTask() keeps the invariant.
LEMMA AddTaskStep ==
  ASSUME IInv, NEW t \in Tasks, NEW u \in Tasks, NEW pri \in Priorities, AddTask(t, u, pri)
  PROVE  IInv'
<1>1. /\ ThisTask = t /\ cpu = "task" /\ tc_State[t] = "TS_RUN" /\ u # t
      /\ tc_State[u] \in {"TS_INVALID", "TS_REMOVED"}
      /\ \A v \in Tasks : tc_State[v] = "TS_RUN" => v = t
  BY RunningFacts DEF AddTask, Running
<1>2. /\ ln_Pri' = [ln_Pri EXCEPT ![u] = pri]
      /\ tc_IDNestCnt' = [tc_IDNestCnt EXCEPT ![u] = -1]
      /\ tc_TDNestCnt' = [tc_TDNestCnt EXCEPT ![u] = -1]
      /\ tc_SigRecvd' = [tc_SigRecvd EXCEPT ![u] = {}]
      /\ tc_SigWait' = [tc_SigWait EXCEPT ![u] = {}]
      /\ tc_SigExcept' = [tc_SigExcept EXCEPT ![u] = {}]
      /\ tc_Except' = [tc_Except EXCEPT ![u] = FALSE]
      /\ tc_State' = [tc_State EXCEPT ![u] = "TS_READY"]
      /\ TaskReady' = Enqueue(TaskReady, ln_Pri', u)
      /\ pc' = [pc EXCEPT ![u] = "run"]
      /\ target' = [target EXCEPT ![u] = u] /\ sigArg' = [sigArg EXCEPT ![u] = {}]
      /\ forbids' = [forbids EXCEPT ![u] = 0] /\ disables' = [disables EXCEPT ![u] = 0]
      /\ UNCHANGED <<ThisTask, TaskWait, Elapsed, QuantumOver, IDNestCnt, TDNestCnt, cpu, irqFrom>>
  BY DEF AddTask, quantumVars, cpuVars
<1>3. ln_Pri' \in [Tasks -> Priorities] /\ ln_Pri' \in [Tasks -> Int]
  BY <1>2, PrioritiesAssumption DEF IInv, TypeOK
<1>4. /\ Distinct(TaskReady) /\ ~Holds(TaskReady, u) /\ TaskReady \in Seq(Tasks)
      /\ Sorted(TaskReady, ln_Pri')
  <2>1. Distinct(TaskReady) /\ ~Holds(TaskReady, u) /\ TaskReady \in Seq(Tasks)
    BY <1>1 DEF IInv, Queues, TypeOK
  <2>2. \A i \in 1 .. Len(TaskReady) : ln_Pri'[TaskReady[i]] = ln_Pri[TaskReady[i]]
    <3> TAKE i \in 1 .. Len(TaskReady)
    <3>1. TaskReady[i] \in Tasks /\ TaskReady[i] # u
      BY <2>1 DEF Holds
    <3> QED BY <1>2, <3>1 DEF IInv, TypeOK
  <2>3. Sorted(TaskReady, ln_Pri')
    BY <2>2 DEF IInv, Queues, Sorted
  <2> QED BY <2>1, <2>3
<1>5. /\ TaskReady' \in Seq(Tasks) /\ Distinct(TaskReady')
      /\ \A x \in Tasks : Holds(TaskReady', x) <=> Holds(TaskReady, x) \/ x = u
      /\ Sorted(TaskReady', ln_Pri')
  <2>1. TaskReady' = Enqueue(TaskReady, ln_Pri', u)
    BY <1>2
  <2> QED BY <1>3, <1>4, <2>1, EnqueueKeepsOrder, Zenon
<1>6. TypeOK'
  <2>1. tc_Except' \in [Tasks -> BOOLEAN]
    BY <1>2, Zenon DEF IInv, TypeOK
  <2>2. /\ forbids' \in [Tasks -> 0 .. MaxNest] /\ disables' \in [Tasks -> 0 .. MaxNest]
        /\ tc_IDNestCnt' \in [Tasks -> Int] /\ tc_TDNestCnt' \in [Tasks -> Int]
    BY <1>2, MaxNestAssumption, SMTT(30) DEF IInv, TypeOK
  <2>3. /\ tc_SigRecvd' \in [Tasks -> SUBSET Signals]
        /\ tc_SigWait' \in [Tasks -> SUBSET Signals]
        /\ tc_SigExcept' \in [Tasks -> SUBSET Signals]
        /\ sigArg' \in [Tasks -> SUBSET Signals]
    BY <1>2 DEF IInv, TypeOK
  <2>4. /\ tc_State' \in [Tasks -> States] /\ target' \in [Tasks -> Tasks]
        /\ pc' \in [Tasks -> {"run", "wait", "signal", "removed", "unlinked"}]
    BY <1>2 DEF IInv, TypeOK, States
  <2> QED BY <1>2, <1>3, <1>5, <2>1, <2>2, <2>3, <2>4 DEF IInv, TypeOK
<1>7. Queues'
  BY <1>1, <1>2, <1>5 DEF IInv, TypeOK, Queues, InTask
<1>8. Sleepers'
  BY <1>1, <1>2 DEF IInv, TypeOK, Sleepers, Signallable
<1>9. DisableBalanced'
  <2>1. \A v \in Tasks : v # u => DisableDepth(v)' = DisableDepth(v)
    BY <1>2 DEF DisableDepth, IInv, TypeOK
  <2>2. DisableDepth(u)' = -1
    BY <1>2 DEF DisableDepth, IInv, TypeOK
  <2> QED BY <1>1, <1>2, <2>1, <2>2 DEF IInv, TypeOK, DisableBalanced
<1> QED BY <1>6, <1>7, <1>8, <1>9 DEF IInv

\* SetTaskPri() keeps the invariant.
LEMMA SetTaskPriStep ==
  ASSUME IInv, NEW t \in Tasks, NEW u \in Tasks, NEW pri \in Priorities, SetTaskPri(t, u, pri)
  PROVE  IInv'
<1>1. /\ ln_Pri' = [ln_Pri EXCEPT ![u] = pri]
      /\ TaskReady' = IF tc_State[u] = "TS_READY"
                      THEN Enqueue(Unlink(TaskReady, u), ln_Pri', u) ELSE TaskReady
      /\ UNCHANGED <<ThisTask, TaskWait, tc_State, Elapsed, nestVars, signalVars,
                     cpuVars, callVars, ghostVars>>
  BY DEF SetTaskPri
<1>2. ln_Pri' \in [Tasks -> Priorities] /\ ln_Pri' \in [Tasks -> Int]
  BY <1>1, PrioritiesAssumption DEF IInv, TypeOK
<1>3. QuantumOver' \in BOOLEAN
  BY Zenon DEF SetTaskPri
<1>4. \A x \in Tasks : x # u => ln_Pri'[x] = ln_Pri[x]
  BY <1>1 DEF IInv, TypeOK
<1>5. TaskReady \in Seq(Tasks) /\ Distinct(TaskReady)
  BY DEF IInv, TypeOK, Queues
<1>6. /\ TaskReady' \in Seq(Tasks) /\ Distinct(TaskReady')
      /\ \A x \in Tasks : Holds(TaskReady', x) <=> Holds(TaskReady, x)
      /\ Sorted(TaskReady', ln_Pri')
  <2>1. \A i, j \in 1 .. Len(TaskReady) :
           i < j /\ TaskReady[i] # u /\ TaskReady[j] # u
             => ln_Pri'[TaskReady[i]] >= ln_Pri'[TaskReady[j]]
    <3> SUFFICES ASSUME NEW i \in 1 .. Len(TaskReady), NEW j \in 1 .. Len(TaskReady),
                        i < j, TaskReady[i] # u, TaskReady[j] # u
                 PROVE  ln_Pri'[TaskReady[i]] >= ln_Pri'[TaskReady[j]]
      OBVIOUS
    <3>1. ln_Pri[TaskReady[i]] >= ln_Pri[TaskReady[j]]
      BY DEF IInv, Queues, Sorted
    <3>2. TaskReady[i] \in Tasks /\ TaskReady[j] \in Tasks
      BY <1>5
    <3> QED BY <1>4, <3>1, <3>2
  <2>2. CASE tc_State[u] = "TS_READY"
    <3> DEFINE q == Unlink(TaskReady, u)
    <3>1. /\ q \in Seq(Tasks) /\ Distinct(q)
          /\ \A x \in Tasks : Holds(q, x) <=> Holds(TaskReady, x) /\ x # u
          /\ Sorted(q, ln_Pri')
      BY <1>2, <1>5, <2>1, UnlinkKeepsOrder, Zenon
    <3>2. ~Holds(q, u) /\ Holds(TaskReady, u)
      BY <2>2, <3>1 DEF IInv, Queues
    <3>3. TaskReady' = Enqueue(q, ln_Pri', u)
      BY <1>1, <2>2
    <3> HIDE DEF q
    <3>4. /\ TaskReady' \in Seq(Tasks) /\ Distinct(TaskReady')
          /\ \A x \in Tasks : Holds(TaskReady', x) <=> Holds(q, x) \/ x = u
          /\ Sorted(TaskReady', ln_Pri')
      BY <1>2, <3>1, <3>2, <3>3, EnqueueKeepsOrder, Zenon
    <3> QED BY <3>1, <3>2, <3>4
  <2>3. CASE tc_State[u] # "TS_READY"
    <3>1. TaskReady' = TaskReady /\ ~Holds(TaskReady, u)
      BY <1>1, <2>3 DEF IInv, Queues
    <3>2. Sorted(TaskReady, ln_Pri')
      BY <2>1, <3>1 DEF Sorted, Holds
    <3> QED BY <1>5, <3>1, <3>2
  <2> QED BY <2>2, <2>3
<1>7. TypeOK'
  BY <1>1, <1>2, <1>3, <1>6 DEF IInv, TypeOK, nestVars, signalVars, cpuVars, callVars, ghostVars
<1>8. Queues'
  BY <1>1, <1>6 DEF IInv, Queues, InTask, cpuVars, callVars
<1>9. Sleepers'
  BY <1>1, SleepersFrame DEF IInv, signalVars, callVars
<1>10. DisableBalanced'
  BY <1>1, NestingFrame DEF IInv, nestVars, callVars, ghostVars
<1> QED BY <1>7, <1>8, <1>9, <1>10 DEF IInv

\* RemTaskSelf() keeps the invariant.
LEMMA RemTaskSelfStep ==
  ASSUME IInv, NEW t \in Tasks, RemTaskSelf(t) PROVE IInv'
<1>1. /\ ThisTask = t /\ cpu = "task" /\ tc_State[t] = "TS_RUN"
      /\ \A v \in Tasks : tc_State[v] = "TS_RUN" => v = t
      /\ tc_State' = [tc_State EXCEPT ![t] = "TS_REMOVED"]
      /\ pc' = [pc EXCEPT ![t] = "removed"]
      /\ UNCHANGED <<ThisTask, TaskReady, TaskWait, quantumVars, nestVars, signalVars,
                     ln_Pri, cpuVars, target, sigArg, ghostVars>>
  BY RunningFacts DEF RemTaskSelf, Running
<1>2. TypeOK'
  BY <1>1 DEF IInv, TypeOK, States, quantumVars, nestVars, signalVars, cpuVars, ghostVars
<1>3. Queues'
  BY <1>1 DEF IInv, TypeOK, Queues, InTask, cpuVars
<1>4. Sleepers'
  BY <1>1 DEF IInv, TypeOK, Sleepers, Signallable, signalVars
<1>5. DisableBalanced'
  <2>1. \A v \in Tasks : v # t => DisableDepth(v)' = DisableDepth(v)
    BY <1>1 DEF DisableDepth, ghostVars, IInv, TypeOK
  <2> QED BY <1>1, <2>1 DEF IInv, TypeOK, DisableBalanced, nestVars, cpuVars
<1> QED BY <1>2, <1>3, <1>4, <1>5 DEF IInv

\* RemTaskDispatch() keeps the invariant.
LEMMA RemTaskDispatchStep ==
  ASSUME IInv, NEW t \in Tasks, RemTaskDispatch(t) PROVE IInv'
<1>1. /\ ThisTask = t /\ cpu = "task" /\ pc[t] = "removed" /\ tc_State[t] = "TS_REMOVED"
      /\ \A v \in Tasks : tc_State[v] # "TS_RUN"
      /\ ThisTask' = NoTask /\ IDNestCnt' = -1 /\ TDNestCnt' = -1 /\ cpu' = "dispatch"
      /\ forbids' = [forbids EXCEPT ![t] = 0] /\ disables' = [disables EXCEPT ![t] = 0]
      /\ UNCHANGED <<TaskReady, TaskWait, tc_State, quantumVars, tc_IDNestCnt,
                     tc_TDNestCnt, signalVars, ln_Pri, irqFrom, callVars>>
  BY DEF RemTaskDispatch, IInv, Queues, InTask
<1>2. TypeOK'
  BY <1>1, MaxNestAssumption DEF IInv, TypeOK, quantumVars, signalVars, callVars
<1>3. Queues'
  BY <1>1 DEF IInv, Queues, InTask
<1>4. Sleepers'
  BY <1>1, SleepersFrame DEF IInv, signalVars, callVars
<1>5. DisableBalanced'
  <2>1. \A v \in Tasks : v # t => DisableDepth(v)' = DisableDepth(v)
    BY <1>1 DEF DisableDepth, callVars, IInv, TypeOK
  <2> QED BY <1>1, <2>1 DEF IInv, DisableBalanced
<1> QED BY <1>2, <1>3, <1>4, <1>5 DEF IInv

-----------------------------------------------------------------------------
(* The dispatcher and the interrupt.                                       *)

\* Dispatch() keeps the invariant.
LEMMA DispatchStep ==
  ASSUME IInv, Dispatch PROVE IInv'
<1> DEFINE t == Head(TaskReady)
<1>1. /\ cpu = "dispatch" /\ TaskReady # <<>>
      /\ TaskReady' = Tail(TaskReady) /\ ThisTask' = t
      /\ tc_State' = [tc_State EXCEPT ![t] = "TS_RUN"]
      /\ IDNestCnt' = tc_IDNestCnt[t] /\ TDNestCnt' = tc_TDNestCnt[t]
      /\ Elapsed' = Quantum /\ cpu' = "task"
      /\ UNCHANGED <<TaskWait, tc_IDNestCnt, tc_TDNestCnt, tc_SigWait, ln_Pri,
                     irqFrom, callVars, ghostVars>>
  BY DEF Dispatch
<1>2. TaskReady \in Seq(Tasks) /\ Distinct(TaskReady) /\ ln_Pri \in [Tasks -> Int]
      /\ Sorted(TaskReady, ln_Pri)
  BY PriorityType DEF IInv, TypeOK, Queues
<1>3. /\ t \in Tasks /\ Holds(TaskReady, t)
      /\ TaskReady' \in Seq(Tasks) /\ Distinct(TaskReady') /\ Sorted(TaskReady', ln_Pri)
      /\ \A x \in Tasks : Holds(TaskReady', x) <=> Holds(TaskReady, x) /\ x # t
  BY <1>1, <1>2, TailKeepsOrder
<1>4. /\ tc_State[t] = "TS_READY" /\ t \notin TaskWait
      /\ \A x \in Tasks : tc_State[x] # "TS_RUN"
  BY <1>1, <1>3 DEF IInv, Queues, InTask
<1>5. QuantumOver' \in BOOLEAN
  BY Zenon DEF Dispatch
<1>6. /\ tc_SigRecvd' \in [Tasks -> SUBSET Signals]
      /\ tc_SigExcept' \in [Tasks -> SUBSET Signals]
      /\ tc_Except' \in [Tasks -> BOOLEAN]
      /\ \A x \in Tasks : x # t => tc_SigRecvd'[x] = tc_SigRecvd[x]
  <2> HIDE DEF t
  <2>1. CASE tc_Except[t]
    <3>1. Exception(t)
      BY <2>1, Zenon DEF Dispatch, t
    <3> DEFINE flags == tc_SigRecvd[t] \cap tc_SigExcept[t]
    <3>2. PICK again \in SUBSET flags :
             tc_SigExcept' = [tc_SigExcept EXCEPT ![t] = (@ \ flags) \cup again]
      BY <3>1 DEF Exception
    <3>3. (tc_SigExcept[t] \ flags) \cup again \in SUBSET Signals
      BY <1>3 DEF IInv, TypeOK
    <3>4. tc_SigRecvd' = [tc_SigRecvd EXCEPT ![t] = @ \ flags]
      BY <3>1 DEF Exception
    <3>5. tc_Except' \in [Tasks -> BOOLEAN]
      BY <3>1, Zenon DEF Exception, IInv, TypeOK
    <3> HIDE DEF flags
    <3>6. /\ tc_SigExcept' \in [Tasks -> SUBSET Signals]
          /\ tc_SigRecvd' \in [Tasks -> SUBSET Signals]
          /\ \A x \in Tasks : x # t => tc_SigRecvd'[x] = tc_SigRecvd[x]
      BY <1>3, <3>2, <3>3, <3>4 DEF IInv, TypeOK
    <3> QED BY <3>5, <3>6
  <2>2. CASE ~tc_Except[t]
    <3>1. UNCHANGED <<tc_Except, tc_SigRecvd, tc_SigExcept>>
      BY <2>2, Zenon DEF Dispatch, t
    <3> QED BY <3>1 DEF IInv, TypeOK
  <2> QED BY <2>1, <2>2
<1> HIDE DEF t
<1>7. TypeOK'
  <2>1. tc_State' \in [Tasks -> States] /\ Elapsed' \in 0 .. Quantum
    BY <1>1, <1>3, QuantumAssumption DEF IInv, TypeOK, States
  <2>2. IDNestCnt' \in Int /\ TDNestCnt' \in Int
    BY <1>1, <1>3 DEF IInv, TypeOK
  <2> QED BY <1>1, <1>3, <1>5, <1>6, <2>1, <2>2 DEF IInv, TypeOK, callVars, ghostVars
<1>8. Queues'
  BY <1>1, <1>3, <1>4 DEF IInv, TypeOK, Queues, Sleepers, Signallable, InTask, callVars
<1>9. Sleepers'
  BY <1>1, <1>3, <1>4, <1>6 DEF IInv, TypeOK, Sleepers, Signallable, callVars
<1>10. DisableBalanced'
  <2>1. \A v \in Tasks : DisableDepth(v)' = DisableDepth(v)
    BY <1>1 DEF DisableDepth, callVars, ghostVars
  <2> QED BY <1>1, <1>3, <1>4, <2>1 DEF IInv, TypeOK, DisableBalanced
<1> QED BY <1>7, <1>8, <1>9, <1>10 DEF IInv

\* EmuWait() keeps the invariant.
LEMMA EmuWaitStep ==
  ASSUME IInv, EmuWait PROVE IInv'
<1>1. /\ cpu = "dispatch" /\ cpu' = "halted"
      /\ UNCHANGED <<queueVars, quantumVars, nestVars, signalVars, ln_Pri,
                     irqFrom, callVars, ghostVars>>
  BY DEF EmuWait
<1>2. TypeOK'
  BY <1>1 DEF IInv, TypeOK, queueVars, quantumVars, nestVars, signalVars, callVars, ghostVars
<1>3. Queues'
  BY <1>1 DEF IInv, Queues, InTask, queueVars, callVars
<1>4. Sleepers'
  BY <1>1, SleepersFrame DEF IInv, queueVars, signalVars, callVars
<1>5. DisableBalanced'
  BY <1>1 DEF IInv, DisableBalanced, DisableDepth, queueVars, nestVars, callVars, ghostVars
<1> QED BY <1>2, <1>3, <1>4, <1>5 DEF IInv

\* IrqEnter() keeps the invariant.
LEMMA IrqEnterStep ==
  ASSUME IInv, IrqEnter PROVE IInv'
<1>1. /\ cpu \in {"task", "dispatch"} /\ irqFrom' = cpu /\ cpu' = "irq"
      /\ UNCHANGED <<queueVars, quantumVars, nestVars, signalVars, ln_Pri, callVars, ghostVars>>
  BY DEF IrqEnter
<1>2. TypeOK'
  BY <1>1 DEF IInv, TypeOK, queueVars, quantumVars, nestVars, signalVars, callVars, ghostVars
<1>3. Queues'
  BY <1>1 DEF IInv, Queues, InTask, queueVars, callVars
<1>4. Sleepers'
  BY <1>1, SleepersFrame DEF IInv, queueVars, signalVars, callVars
<1>5. DisableBalanced'
  BY <1>1 DEF IInv, DisableBalanced, DisableDepth, queueVars, nestVars, callVars, ghostVars
<1> QED BY <1>2, <1>3, <1>4, <1>5 DEF IInv

\* The handler ends: either it goes back to where it came from, or the running
\* task, whose counters are those of ExecBase, is preempted.
LEMMA IrqExitStep ==
  ASSUME IInv, IrqExit PROVE IInv'
<1>1. /\ cpu = "irq" /\ irqFrom' = "task"
      /\ UNCHANGED <<ThisTask, TaskWait, signalVars, ln_Pri, callVars, ghostVars>>
  BY DEF IrqExit
<1>2. Elapsed' \in 0 .. Quantum
  BY QuantumAssumption DEF IrqExit, ElapsedNext, IInv, TypeOK
<1>3. QuantumOver' \in BOOLEAN
  BY Zenon DEF IrqExit, QuantumNext
<1>4. CASE ~MustSwitch(QuantumOver')
  <2>1. cpu' = irqFrom /\ UNCHANGED <<tc_State, TaskReady, nestVars>>
    BY <1>4 DEF IrqExit
  <2>2. TypeOK'
    BY <1>1, <1>2, <1>3, <2>1 DEF IInv, TypeOK, nestVars, signalVars, callVars, ghostVars
  <2>3. Queues'
    BY <1>1, <2>1 DEF IInv, TypeOK, Queues, InTask, callVars
  <2>4. Sleepers'
    BY <1>1, <2>1, SleepersFrame DEF IInv, signalVars, callVars
  <2>5. DisableBalanced'
    BY <1>1, <2>1 DEF IInv, DisableBalanced, DisableDepth, nestVars, callVars, ghostVars
  <2> QED BY <2>2, <2>3, <2>4, <2>5 DEF IInv
<1>5. CASE MustSwitch(QuantumOver')
  <2>1. ThisTask \in Tasks /\ tc_State[ThisTask] = "TS_RUN"
    BY <1>5 DEF MustSwitch, IInv, TypeOK
  <2>2. /\ tc_State' = [tc_State EXCEPT ![ThisTask] = "TS_READY"]
        /\ TaskReady' = Enqueue(TaskReady, ln_Pri, ThisTask)
        /\ tc_IDNestCnt' = [tc_IDNestCnt EXCEPT ![ThisTask] = IDNestCnt]
        /\ tc_TDNestCnt' = [tc_TDNestCnt EXCEPT ![ThisTask] = TDNestCnt]
        /\ IDNestCnt' = -1 /\ TDNestCnt' = -1 /\ cpu' = "dispatch"
    BY <1>5 DEF IrqExit, Switch
  <2>3. /\ ~Holds(TaskReady, ThisTask) /\ Distinct(TaskReady) /\ TaskReady \in Seq(Tasks)
        /\ ln_Pri \in [Tasks -> Int] /\ Sorted(TaskReady, ln_Pri)
        /\ IDNestCnt = DisableDepth(ThisTask)
    BY <2>1, PriorityType DEF IInv, Queues, TypeOK, DisableBalanced
  <2>4. /\ TaskReady' \in Seq(Tasks) /\ Distinct(TaskReady')
        /\ \A x \in Tasks : Holds(TaskReady', x) <=> Holds(TaskReady, x) \/ x = ThisTask
        /\ Sorted(TaskReady', ln_Pri)
    <3>1. TaskReady' = Enqueue(TaskReady, ln_Pri, ThisTask)
      BY <2>2
    <3> QED BY <2>1, <2>3, <3>1, EnqueueKeepsOrder, Zenon
  <2>5. TypeOK'
    BY <1>1, <1>2, <1>3, <2>1, <2>2, <2>4 DEF IInv, TypeOK, States, signalVars, callVars, ghostVars
  <2>6. Queues'
    BY <1>1, <2>1, <2>2, <2>4 DEF IInv, TypeOK, Queues, InTask, callVars
  <2>7. Sleepers'
    BY <1>1, <2>1, <2>2 DEF IInv, TypeOK, Sleepers, Signallable, signalVars, callVars
  <2>8. DisableBalanced'
    <3>1. \A v \in Tasks : DisableDepth(v)' = DisableDepth(v)
      BY <1>1 DEF DisableDepth, callVars, ghostVars
    <3> QED BY <1>1, <2>1, <2>2, <2>3, <3>1 DEF IInv, TypeOK, Queues, DisableBalanced
  <2> QED BY <2>5, <2>6, <2>7, <2>8 DEF IInv
<1> QED BY <1>4, <1>5

-----------------------------------------------------------------------------
\* Every step keeps the invariant.
LEMMA NextIInv == IInv /\ [Next]_vars => IInv'
<1> SUFFICES ASSUME IInv, [Next]_vars PROVE IInv'
  OBVIOUS
<1>1. CASE \E t \in Tasks : Call(t)
  <2>1. PICK t \in Tasks : Call(t)
    BY <1>1
  <2>2. CASE Forbid(t) \/ Permit(t)
    BY <2>2, ForbidStep
  <2>3. CASE Disable(t) \/ Enable(t)
    BY <2>3, DisableStep
  <2>4. CASE \E set \in SUBSET Signals : set # {} /\ Wait(t, set)
    BY <2>4, WaitStep
  <2>5. CASE WaitResume(t)
    BY <2>5, WaitResumeStep
  <2>6. CASE \E u \in Tasks, s \in Signals : SignalCheck(t, u, {s})
    BY <2>6, SignalCheckStep
  <2>7. CASE Signal(t)
    BY <2>7, SignalStep
  <2>8. CASE \E s \in Signals : SetSignal(t, {}, {s}) \/ SetSignal(t, {s}, {s})
    BY <2>8, SetSignalStep
  <2>9. CASE \E s \in ExceptSignals : SetExcept(t, {s}, {s}) \/ SetExcept(t, {}, {s})
    BY <2>9, SetExceptStep
  <2>10. CASE \E u \in Tasks, p \in Priorities : AddTask(t, u, p) \/ SetTaskPri(t, u, p)
    BY <2>10, AddTaskStep, SetTaskPriStep
  <2>11. CASE RemTaskSelf(t) \/ RemTaskDispatch(t)
    BY <2>11, RemTaskSelfStep, RemTaskDispatchStep
  <2> QED BY <2>1, <2>2, <2>3, <2>4, <2>5, <2>6, <2>7, <2>8, <2>9, <2>10, <2>11 DEF Call
<1>2. CASE Dispatch \/ EmuWait
  BY <1>2, DispatchStep, EmuWaitStep
<1>3. CASE Interrupt
  BY <1>3, IrqEnterStep, IrqExitStep, IrqSignalStep DEF Interrupt
<1>4. CASE UNCHANGED vars
  <2>1. UNCHANGED <<queueVars, quantumVars, nestVars, signalVars, ln_Pri, cpuVars,
                    callVars, ghostVars>>
    BY <1>4 DEF vars
  <2>2. TypeOK'
    BY <2>1 DEF IInv, TypeOK, queueVars, quantumVars, nestVars, signalVars, cpuVars,
                callVars, ghostVars
  <2>3. Queues'
    BY <2>1, QueuesFrame DEF IInv, callVars
  <2>4. Sleepers'
    BY <2>1, SleepersFrame DEF IInv, queueVars, signalVars, callVars
  <2>5. DisableBalanced'
    BY <2>1, NestingFrame DEF IInv, queueVars, nestVars, callVars, ghostVars
  <2> QED BY <2>2, <2>3, <2>4, <2>5 DEF IInv
<1> QED BY <1>1, <1>2, <1>3, <1>4 DEF Next, Halted

\* The invariant holds in every state of every behaviour.
THEOREM Invariance == Spec => []IInv
<1>1. Init => IInv
  BY InitIInv
<1>2. IInv /\ [Next]_vars => IInv'
  BY NextIInv
<1> QED BY <1>1, <1>2, PTL DEF Spec

\* Type correctness, for any number of tasks and any constants.
THEOREM TypeCorrect == Spec => []TypeOK
<1>1. IInv => TypeOK
  BY DEF IInv
<1> QED BY <1>1, Invariance, PTL

\* A task is in exactly the queue its state says, once; only the task that has
\* the CPU is in state TS_RUN.
THEOREM QueuesAgree == Spec => []QueueConsistent
<1>1. IInv => QueueConsistent
  BY QueuesMeaning DEF IInv
<1> QED BY <1>1, Invariance, PTL

\* The ready queue is sorted at every instant, so that its head is a ready task
\* of the highest priority whenever the scheduler looks at it.
THEOREM ReadyQueueSorted == Spec => []ReadySorted
<1>1. IInv => ReadySorted
  BY QueuesMeaning DEF IInv
<1> QED BY <1>1, Invariance, PTL

\* No Signal() is missed by a task in Wait(), whatever the interleaving.
THEOREM WakeupsKept == Spec => []NoLostWakeup
<1>1. IInv => NoLostWakeup
  BY SleepersMeaning DEF IInv
<1> QED BY <1>1, Invariance, PTL

\* Disable() nesting survives every sleep and preemption, at any depth.
THEOREM DisableNesting == Spec => []DisableBalanced
<1>1. IInv => DisableBalanced
  BY DEF IInv
<1> QED BY <1>1, Invariance, PTL

-----------------------------------------------------------------------------
(* What a step back to a task's code may not do.                           *)

\* In a sorted queue nothing is ahead of the head.
LEMMA HeadIsHighest ==
  ASSUME IInv, TaskReady # <<>>
  PROVE  /\ Head(TaskReady) \in Tasks
         /\ \A i \in 1 .. Len(TaskReady) : ln_Pri[TaskReady[i]] <= ln_Pri[Head(TaskReady)]
<1>1. /\ TaskReady \in Seq(Tasks) /\ ln_Pri \in [Tasks -> Int]
      /\ Sorted(TaskReady, ln_Pri)
  BY PriorityType DEF IInv, TypeOK, Queues
<1>6. Head(TaskReady) = TaskReady[1] /\ Len(TaskReady) \in Nat \ {0}
  BY <1>1, HeadTailProperties
<1>2. \A i \in 1 .. Len(TaskReady) : TaskReady[i] \in Tasks /\ ln_Pri[TaskReady[i]] \in Int
  BY <1>1
<1>3. 1 \in 1 .. Len(TaskReady)
  BY <1>6
<1>4. \A i \in 1 .. Len(TaskReady) : i = 1 \/ 1 < i
  OBVIOUS
<1>5. \A i \in 1 .. Len(TaskReady) : 1 < i => ln_Pri[TaskReady[1]] >= ln_Pri[TaskReady[i]]
  BY <1>1, <1>3 DEF Sorted
<1> QED BY <1>2, <1>3, <1>4, <1>5, <1>6

\* Only the dispatcher and the end of the interrupt handler give the CPU to a
\* task.
LEMMA BackToTask ==
  ASSUME IInv, Next, cpu # "task", cpu' = "task" PROVE Dispatch \/ IrqExit
<1>1. \A t \in Tasks : ~Call(t)
  BY ZenonT(30) DEF Call, Forbid, Permit, Disable, Enable, Wait, WaitResume, SignalCheck, Signal,
         SetSignal, SetExcept, AddTask, SetTaskPri, RemTaskSelf, RemTaskDispatch, Running
<1>2. ~EmuWait /\ ~IrqEnter
  BY DEF EmuWait, IrqEnter
<1>3. \A u \in Tasks, s \in Signals : ~IrqSignal(u, {s})
  BY DEF IrqSignal, cpuVars
<1>4. ~Halted
  BY DEF Halted, vars, cpuVars
<1> QED BY <1>1, <1>2, <1>3, <1>4 DEF Next, Interrupt

\* The CPU goes back to a task of the highest priority that is ready, unless
\* that task has multitasking disabled.
THEOREM HighestPriority == Spec => HighestPriorityRuns
<1>1. ASSUME IInv, IInv', [Next]_vars,
             cpu # "task", cpu' = "task", TDNestCnt' < 0, tc_State'[ThisTask'] = "TS_RUN",
             NEW i \in 1 .. Len(TaskReady')
      PROVE  ln_Pri'[TaskReady'[i]] <= ln_Pri'[ThisTask']
  <2>1. CASE Dispatch
    <3>1. /\ TaskReady # <<>> /\ TaskReady' = Tail(TaskReady) /\ ThisTask' = Head(TaskReady)
          /\ ln_Pri' = ln_Pri
      BY <2>1 DEF Dispatch
    <3>2. i + 1 \in 1 .. Len(TaskReady) /\ TaskReady'[i] = TaskReady[i+1]
      <4>1. TaskReady \in Seq(Tasks)
        BY <1>1 DEF IInv, TypeOK
      <4> QED BY <1>1, <3>1, <4>1, HeadTailProperties
    <3> QED BY <1>1, <3>1, <3>2, HeadIsHighest
  <2>2. CASE IrqExit
    <3>1. ~MustSwitch(QuantumOver')
      BY <1>1, <2>2 DEF IrqExit, Switch
    <3>2. UNCHANGED <<ThisTask, TaskReady, tc_State, TDNestCnt, ln_Pri>>
      BY <2>2, <3>1 DEF IrqExit, nestVars
    <3>3. ThisTask \in Tasks
      BY <1>1, <2>2, <3>1, <3>2 DEF IrqExit, IInv, Queues, InTask
    <3>4. TaskReady # <<>>
      BY <1>1, <3>2
    <3>5. ~(ln_Pri[Head(TaskReady)] > ln_Pri[ThisTask])
      BY <1>1, <3>1, <3>2, <3>3, <3>4, TasksAssumption DEF MustSwitch
    <3>6. /\ Head(TaskReady) \in Tasks /\ TaskReady[i] \in Tasks
          /\ ln_Pri[TaskReady[i]] <= ln_Pri[Head(TaskReady)]
      <4>1. TaskReady \in Seq(Tasks) /\ i \in 1 .. Len(TaskReady)
        BY <1>1, <3>2 DEF IInv, TypeOK
      <4> QED BY <1>1, <3>4, <4>1, HeadIsHighest
    <3>7. ln_Pri \in [Tasks -> Int]
      BY <1>1, PriorityType DEF IInv
    <3> QED BY <3>2, <3>3, <3>5, <3>6, <3>7
  <2>3. ~UNCHANGED vars
    BY <1>1 DEF vars, cpuVars
  <2> QED BY <1>1, <2>1, <2>2, <2>3, BackToTask
<1>2. IInv /\ IInv' /\ [Next]_vars =>
        [ cpu # "task" /\ cpu' = "task" /\ TDNestCnt' < 0 /\ tc_State'[ThisTask'] = "TS_RUN"
          => \A i \in 1 .. Len(TaskReady') :
                ln_Pri'[TaskReady'[i]] <= ln_Pri'[ThisTask'] ]_vars
  BY <1>1
<1> QED BY <1>2, Invariance, PTL DEF Spec, HighestPriorityRuns

\* Whoever gets the CPU from Dispatch() has had its exceptions handled.
THEOREM ExceptionsHandled == Spec => ExceptionsServed
<1>1. ASSUME IInv, IInv', [Next]_vars, cpu = "dispatch", cpu' = "task"
      PROVE  /\ ~tc_Except'[ThisTask']
             /\ tc_Except[ThisTask']
                  => tc_SigRecvd'[ThisTask'] \cap tc_SigExcept'[ThisTask'] = {}
  <2>1. Dispatch
    <3>1. ~UNCHANGED vars
      BY <1>1 DEF vars, cpuVars
    <3>2. ~IrqExit
      BY <1>1 DEF IrqExit
    <3> QED BY <1>1, <3>1, <3>2, BackToTask
  <2> DEFINE t == ThisTask'
  <2>2. t \in Tasks /\ t = Head(TaskReady)
    BY <1>1, <2>1, HeadIsHighest DEF Dispatch
  <2>3. CASE ~tc_Except[t]
    <3>1. tc_Except' = tc_Except
      BY <2>1, <2>2, <2>3, Zenon DEF Dispatch
    <3> QED BY <2>3, <3>1
  <2>4. CASE tc_Except[t]
    <3>1. Exception(t)
      BY <2>1, <2>2, <2>4, Zenon DEF Dispatch
    <3>2. ~tc_Except'[t]
      BY <1>1, <2>2, <3>1, Zenon DEF Exception, IInv, TypeOK
    <3>3. tc_SigRecvd'[t] \cap tc_SigExcept'[t] = {}
      <4> HIDE DEF t
      <4> DEFINE flags == tc_SigRecvd[t] \cap tc_SigExcept[t]
      <4>1. PICK again \in SUBSET flags :
               tc_SigExcept' = [tc_SigExcept EXCEPT ![t] = (@ \ flags) \cup again]
        BY <3>1 DEF Exception
      <4>2. tc_SigRecvd' = [tc_SigRecvd EXCEPT ![t] = @ \ flags]
        BY <3>1 DEF Exception
      <4>3. /\ tc_SigExcept'[t] = (tc_SigExcept[t] \ flags) \cup again
            /\ tc_SigRecvd'[t] = tc_SigRecvd[t] \ flags
        BY <1>1, <2>2, <4>1, <4>2 DEF IInv, TypeOK
      <4> QED BY <4>3
    <3> QED BY <3>2, <3>3
  <2> QED BY <2>3, <2>4
<1>2. IInv /\ IInv' /\ [Next]_vars =>
        [ cpu = "dispatch" /\ cpu' = "task"
          => /\ ~tc_Except'[ThisTask']
             /\ tc_Except[ThisTask']
                  => tc_SigRecvd'[ThisTask'] \cap tc_SigExcept'[ThisTask'] = {} ]_vars
  BY <1>1
<1> QED BY <1>2, Invariance, PTL DEF Spec, ExceptionsServed

-----------------------------------------------------------------------------
(* The emulator stops only when nothing is left to run.                    *)

Halting == cpu = "halted" => TaskReady = <<>> /\ TaskWait = {} /\ ThisTask = NoTask

\* A halted emulator stays as it is, and only EmuWait() halts it.
LEMMA HaltingStep ==
  ASSUME IInv, Halting, Next PROVE Halting'
<1>1. CASE cpu = "halted"
  <2>1. UNCHANGED vars
    BY <1>1 DEF Next, Call, Forbid, Permit, Disable, Enable, Wait, WaitResume, SignalCheck,
                Signal, SetSignal, SetExcept, AddTask, SetTaskPri, RemTaskSelf,
                RemTaskDispatch, Running, Dispatch, EmuWait, Interrupt, IrqEnter,
                IrqExit, IrqSignal, Halted
  <2> QED BY <2>1 DEF Halting, vars, queueVars, cpuVars
<1>2. CASE cpu # "halted" /\ cpu' = "halted"
  <2>1. EmuWait \/ IrqExit
    BY <1>2, ZenonT(30) DEF Next, Call, Forbid, Permit, Disable, Enable, Wait, WaitResume, Sleep,
                TakeSignals, Switch, SignalCheck, Signal, SetSignal, SetExcept, AddTask,
                SetTaskPri, RemTaskSelf, RemTaskDispatch, Dispatch, Interrupt, IrqEnter,
                IrqSignal, Halted, vars, cpuVars
  <2>2. ~IrqExit
    BY <1>2 DEF IrqExit, Switch, IInv, TypeOK
  <2> QED BY <2>1, <2>2 DEF EmuWait, queueVars, Halting
<1>3. CASE cpu' # "halted"
  BY <1>3 DEF Halting
<1> QED BY <1>1, <1>2, <1>3

\* The emulator stops only when every task has been removed.
THEOREM HaltsLast == Spec => []HaltOnlyWhenAllGone
<1>1. Init => Halting
  BY DEF Init, Halting
<1>2. IInv /\ Halting /\ [Next]_vars => Halting'
  <2>1. Halting /\ UNCHANGED vars => Halting'
    BY DEF Halting, vars, queueVars, cpuVars
  <2> QED BY <2>1, HaltingStep
<1>3. IInv /\ Halting => HaltOnlyWhenAllGone
  <2> SUFFICES ASSUME IInv, Halting, cpu = "halted", NEW t \in Tasks
               PROVE  tc_State[t] \in {"TS_INVALID", "TS_REMOVED"}
    BY DEF HaltOnlyWhenAllGone
  <2>1. TaskReady = <<>> /\ TaskWait = {} /\ ThisTask # t
    BY TasksAssumption DEF Halting
  <2>2. tc_State[t] \notin {"TS_READY", "TS_WAIT", "TS_RUN"}
    BY <2>1 DEF IInv, Queues, Holds
  <2> QED BY <2>2 DEF IInv, TypeOK, States
<1> QED BY <1>1, <1>2, <1>3, Invariance, PTL DEF Spec

-----------------------------------------------------------------------------
(* The order of the ready queue.  A step leaves it alone, takes its head,  *)
(* adds a task that was not ready, or moves the one that SetTaskPri() is   *)
(* called for.                                                             *)

NobodyReadied == \A v \in Tasks : tc_State'[v] = "TS_READY" => tc_State[v] = "TS_READY"
QueueSame == TaskReady' = TaskReady /\ NobodyReadied
QueueShorter ==
    /\ TaskReady # <<>> /\ TaskReady' = Tail(TaskReady)
    /\ tc_State'[Head(TaskReady)] # "TS_READY" /\ NobodyReadied
OthersSame(n) ==
    \A v \in Tasks : v # n => tc_State'[v] = tc_State[v] /\ ln_Pri'[v] = ln_Pri[v]
QueueLonger(n) ==
    /\ tc_State[n] # "TS_READY" /\ OthersSame(n)
    /\ TaskReady' = Enqueue(TaskReady, ln_Pri', n)
QueueMoves(n) ==
    /\ tc_State' = tc_State /\ OthersSame(n)
    /\ TaskReady' = Enqueue(Unlink(TaskReady, n), ln_Pri', n)

\* Which calls do which.
LEMMA QueueChanges ==
  ASSUME IInv, [Next]_vars
  PROVE  \/ QueueSame \/ QueueShorter
         \/ \E n \in Tasks :
               \/ QueueLonger(n)
               \/ QueueMoves(n) /\ \E r \in Tasks, p \in Priorities : SetTaskPri(r, n, p)
<1>1. /\ tc_State \in [Tasks -> States] /\ ln_Pri \in [Tasks -> Priorities]
      /\ TaskReady \in Seq(Tasks)
  BY DEF IInv, TypeOK
<1>2. ASSUME UNCHANGED <<TaskReady, tc_State>> PROVE QueueSame
  BY <1>2 DEF QueueSame, NobodyReadied
<1>3. ASSUME NEW u \in Tasks, NEW sigs \in SUBSET Signals, SignalBody(u, sigs)
      PROVE  QueueSame \/ \E n \in Tasks : QueueLonger(n)
  <2>1. \/ UNCHANGED <<tc_State, TaskReady>>
        \/ /\ tc_State[u] = "TS_WAIT" /\ tc_State' = [tc_State EXCEPT ![u] = "TS_READY"]
           /\ TaskReady' = Enqueue(TaskReady, ln_Pri, u) /\ ln_Pri' = ln_Pri
    BY <1>3, SignalBodyEffect, Zenon
  <2>2. ASSUME tc_State[u] = "TS_WAIT", tc_State' = [tc_State EXCEPT ![u] = "TS_READY"],
               TaskReady' = Enqueue(TaskReady, ln_Pri, u), ln_Pri' = ln_Pri
        PROVE  QueueLonger(u)
    BY <1>1, <2>2 DEF QueueLonger, OthersSame
  <2> QED BY <1>2, <2>1, <2>2
<1>4. ASSUME NEW t \in Tasks, Call(t)
      PROVE  \/ QueueSame
             \/ \E n \in Tasks :
                   \/ QueueLonger(n)
                   \/ QueueMoves(n) /\ \E r \in Tasks, p \in Priorities : SetTaskPri(r, n, p)
  <2>1. CASE Forbid(t) \/ Permit(t) \/ Disable(t) \/ Enable(t)
    BY <1>2, <2>1 DEF Forbid, Permit, Disable, Enable, queueVars
  <2>2. CASE \E set \in SUBSET Signals : (set # {} /\ Wait(t, set)) \/ WaitResume(t)
    <3>1. \/ UNCHANGED <<TaskReady, tc_State>>
          \/ TaskReady' = TaskReady /\ tc_State' = [tc_State EXCEPT ![t] = "TS_WAIT"]
      BY <2>2, Zenon DEF Wait, WaitResume, Sleep, TakeSignals, queueVars
    <3>2. ASSUME TaskReady' = TaskReady, tc_State' = [tc_State EXCEPT ![t] = "TS_WAIT"]
          PROVE  QueueSame
      BY <1>1, <3>2 DEF QueueSame, NobodyReadied
    <3> QED BY <1>2, <3>1, <3>2
  <2>3. CASE \E u \in Tasks, s \in Signals : SignalCheck(t, u, {s})
    BY <1>2, <2>3 DEF SignalCheck, queueVars
  <2>4. CASE Signal(t)
    <3>1. target[t] \in Tasks /\ sigArg[t] \in SUBSET Signals
      BY DEF IInv, TypeOK
    <3> QED BY <1>3, <2>4, <3>1 DEF Signal
  <2>5. CASE \/ \E s \in Signals : SetSignal(t, {}, {s}) \/ SetSignal(t, {s}, {s})
             \/ \E s \in ExceptSignals : SetExcept(t, {s}, {s}) \/ SetExcept(t, {}, {s})
    BY <1>2, <2>5 DEF SetSignal, SetExcept, queueVars
  <2>6. ASSUME NEW u \in Tasks, NEW p \in Priorities, AddTask(t, u, p) PROVE QueueLonger(u)
    <3>1. /\ tc_State[u] # "TS_READY" /\ TaskReady' = Enqueue(TaskReady, ln_Pri', u)
          /\ tc_State' = [tc_State EXCEPT ![u] = "TS_READY"] /\ ln_Pri' = [ln_Pri EXCEPT ![u] = p]
      BY <2>6 DEF AddTask
    <3> QED BY <1>1, <3>1 DEF QueueLonger, OthersSame
  <2>7. ASSUME NEW u \in Tasks, NEW p \in Priorities, SetTaskPri(t, u, p)
        PROVE  QueueSame \/ QueueMoves(u)
    <3>1. /\ tc_State' = tc_State /\ ln_Pri' = [ln_Pri EXCEPT ![u] = p]
          /\ TaskReady' = IF tc_State[u] = "TS_READY"
                          THEN Enqueue(Unlink(TaskReady, u), ln_Pri', u) ELSE TaskReady
      BY <2>7 DEF SetTaskPri
    <3> QED BY <1>1, <1>2, <3>1 DEF QueueMoves, OthersSame
  <2>8. CASE RemTaskSelf(t) \/ RemTaskDispatch(t)
    <3>1. \/ UNCHANGED <<TaskReady, tc_State>>
          \/ TaskReady' = TaskReady /\ tc_State' = [tc_State EXCEPT ![t] = "TS_REMOVED"]
      BY <2>8, Zenon DEF RemTaskSelf, RemTaskDispatch
    <3>2. ASSUME TaskReady' = TaskReady, tc_State' = [tc_State EXCEPT ![t] = "TS_REMOVED"]
          PROVE  QueueSame
      BY <1>1, <3>2 DEF QueueSame, NobodyReadied
    <3> QED BY <1>2, <3>1, <3>2
  <2> QED BY <1>4, <2>1, <2>2, <2>3, <2>4, <2>5, <2>6, <2>7, <2>8 DEF Call
<1>5. ASSUME Dispatch PROVE QueueShorter
  <2>1. /\ TaskReady # <<>> /\ TaskReady' = Tail(TaskReady)
        /\ tc_State' = [tc_State EXCEPT ![Head(TaskReady)] = "TS_RUN"]
    BY <1>5 DEF Dispatch
  <2>2. Head(TaskReady) \in Tasks
    BY <2>1, HeadIsHighest
  <2> QED BY <1>1, <2>1, <2>2 DEF QueueShorter, NobodyReadied
<1>6. ASSUME IrqExit PROVE QueueSame \/ \E n \in Tasks : QueueLonger(n)
  <2>1. CASE ~MustSwitch(QuantumOver')
    BY <1>2, <1>6, <2>1 DEF IrqExit
  <2>2. CASE MustSwitch(QuantumOver')
    <3>1. ThisTask \in Tasks /\ tc_State[ThisTask] = "TS_RUN"
      BY <2>2 DEF MustSwitch, IInv, TypeOK
    <3>2. /\ tc_State' = [tc_State EXCEPT ![ThisTask] = "TS_READY"]
          /\ TaskReady' = Enqueue(TaskReady, ln_Pri, ThisTask) /\ ln_Pri' = ln_Pri
      BY <1>6, <2>2 DEF IrqExit
    <3> QED BY <1>1, <3>1, <3>2 DEF QueueLonger, OthersSame
  <2> QED BY <2>1, <2>2
<1>7. ASSUME NEW u \in Tasks, NEW s \in Signals, IrqSignal(u, {s})
      PROVE  QueueSame \/ \E n \in Tasks : QueueLonger(n)
  <2>1. SignalBody(u, {s}) /\ {s} \in SUBSET Signals
    BY <1>7 DEF IrqSignal
  <2> QED BY <1>3, <2>1
<1>8. EmuWait \/ IrqEnter \/ UNCHANGED vars => QueueSame
  BY <1>2 DEF EmuWait, IrqEnter, vars, queueVars
<1> QED BY <1>4, <1>5, <1>6, <1>7, <1>8 DEF Next, Interrupt, Halted

\* No ready task is overtaken by one of its own priority, whatever happens in
\* between, and one that becomes ready goes behind it.
THEOREM NobodyOvertaken == Spec => ReadyFifo
<1>1. ASSUME IInv, IInv', [Next]_vars, NEW t \in Tasks, NEW u \in Tasks,
             ~\E r \in Tasks, p \in Priorities : SetTaskPri(r, t, p),
             tc_State[t] = "TS_READY", tc_State'[t] = "TS_READY", tc_State'[u] = "TS_READY",
             ln_Pri'[t] = ln_Pri[t], ln_Pri'[u] = ln_Pri[t],
             \/ Before(TaskReady, t, u) /\ ln_Pri[u] = ln_Pri[t]
             \/ tc_State[u] # "TS_READY"
      PROVE  Before(TaskReady', t, u)
  <2>1. \A q, x, y : Before(q, x, y) <=> Ahead(q, x, y)
    BY DEF Before, Ahead
  <2>2. /\ TaskReady \in Seq(Tasks) /\ Distinct(TaskReady) /\ Sorted(TaskReady, ln_Pri)
        /\ Holds(TaskReady, t) /\ ln_Pri \in [Tasks -> Int] /\ ln_Pri' \in [Tasks -> Int]
    BY <1>1, PriorityType, PrioritiesAssumption DEF IInv, TypeOK, Queues
  <2>3. CASE QueueSame
    BY <1>1, <2>3 DEF QueueSame, NobodyReadied
  <2>4. CASE QueueShorter
    <3>1. t # Head(TaskReady) /\ Ahead(TaskReady, t, u)
      BY <1>1, <2>1, <2>4 DEF QueueShorter, NobodyReadied
    <3>2. Ahead(Tail(TaskReady), t, u)
      BY <2>2, <2>4, <3>1, TailOvertakesNone DEF QueueShorter
    <3> QED BY <2>1, <2>4, <3>2 DEF QueueShorter
  <2>5. ASSUME NEW n \in Tasks, QueueLonger(n) PROVE Ahead(TaskReady', t, u)
    <3>1. TaskReady' = Enqueue(TaskReady, ln_Pri', n) /\ ~Holds(TaskReady, n)
      BY <1>1, <2>5 DEF QueueLonger, IInv, Queues
    <3>2. CASE Ahead(TaskReady, t, u)
      BY <2>2, <3>1, <3>2, EnqueueOvertakesNone
    <3>3. CASE tc_State[u] # "TS_READY"
      <4>1. u = n
        BY <1>1, <2>5, <3>3 DEF QueueLonger, OthersSame
      <4>2. \A i \in 1 .. Len(TaskReady) : ln_Pri'[TaskReady[i]] = ln_Pri[TaskReady[i]]
        BY <2>2, <2>5, <3>1, SMTT(30) DEF QueueLonger, OthersSame, Holds
      <4>3. Sorted(TaskReady, ln_Pri')
        BY <2>2, <4>2 DEF Sorted
      <4>4. ln_Pri'[t] >= ln_Pri'[n]
        BY <1>1, <2>2, <4>1
      <4> QED BY <2>2, <3>1, <4>1, <4>3, <4>4, EnqueueOvertakesNone
    <3> QED BY <1>1, <2>1, <3>2, <3>3
  <2>6. ASSUME NEW n \in Tasks, QueueMoves(n),
               \E r \in Tasks, p \in Priorities : SetTaskPri(r, n, p)
        PROVE  Ahead(TaskReady', t, u)
    <3> DEFINE q == Unlink(TaskReady, n)
    <3>1. n # t /\ Ahead(TaskReady, t, u) /\ TaskReady' = Enqueue(q, ln_Pri', n)
      BY <1>1, <2>1, <2>6 DEF QueueMoves
    <3>2. \A i, j \in 1 .. Len(TaskReady) :
             i < j /\ TaskReady[i] # n /\ TaskReady[j] # n
               => ln_Pri'[TaskReady[i]] >= ln_Pri'[TaskReady[j]]
      <4>1. \A i \in 1 .. Len(TaskReady) :
               TaskReady[i] # n => ln_Pri'[TaskReady[i]] = ln_Pri[TaskReady[i]]
        BY <2>2, <2>6 DEF QueueMoves, OthersSame
      <4>2. \A i, j \in 1 .. Len(TaskReady) :
               i < j => ln_Pri[TaskReady[i]] >= ln_Pri[TaskReady[j]]
        BY <2>2 DEF Sorted
      <4> HIDE DEF q
      <4> QED BY <4>1, <4>2, Zenon
    <3>3. /\ q \in Seq(Tasks) /\ Sorted(q, ln_Pri')
          /\ \A x \in Tasks : Holds(q, x) <=> Holds(TaskReady, x) /\ x # n
      BY <2>2, <3>2, UnlinkKeepsOrder, Zenon
    <3>4. CASE u = n
      <4>1. Holds(q, t) /\ ln_Pri'[t] >= ln_Pri'[n]
        BY <1>1, <2>2, <3>1, <3>3, <3>4
      <4> HIDE DEF q
      <4> QED BY <2>2, <3>1, <3>3, <3>4, <4>1, EnqueueOvertakesNone
    <3>5. CASE u # n
      <4>1. Ahead(q, t, u)
        BY <2>2, <3>1, <3>5, UnlinkOvertakesNone
      <4> HIDE DEF q
      <4> QED BY <2>2, <3>1, <3>3, <4>1, EnqueueOvertakesNone
    <3> QED BY <3>4, <3>5
  <2> QED BY <1>1, <2>1, <2>3, <2>4, <2>5, <2>6, QueueChanges
<1>2. IInv /\ IInv' /\ [Next]_vars =>
        [ \A t, u \in Tasks :
            ( /\ ~\E r \in Tasks, p \in Priorities : SetTaskPri(r, t, p)
              /\ tc_State[t] = "TS_READY" /\ tc_State'[t] = "TS_READY"
              /\ tc_State'[u] = "TS_READY"
              /\ ln_Pri'[t] = ln_Pri[t] /\ ln_Pri'[u] = ln_Pri[t]
              /\ \/ Before(TaskReady, t, u) /\ ln_Pri[u] = ln_Pri[t]
                 \/ tc_State[u] # "TS_READY" )
            => Before(TaskReady', t, u) ]_vars
  BY <1>1
<1> QED BY <1>2, Invariance, PTL DEF Spec, ReadyFifo

=============================================================================
