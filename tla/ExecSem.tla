------------------------------- MODULE ExecSem ------------------------------
(***************************************************************************)
(* The signal semaphores of exec.library (src/rom/exec.c): counters, owner *)
(* and wait queue, protected by Forbid() and Permit().                     *)
(*                                                                         *)
(* A task that slept in Wait() comes back with TDNestCnt = -1 whatever it  *)
(* was before (see Wait and Switch in ExecTask), so the Permit() after a   *)
(* contended ObtainSemaphore() leaves the task with TDNestCnt = -2, and    *)
(* its next Forbid() only raises that to -1: multitasking stays enabled.   *)
(* A call is therefore split at the points where its task can be preempted *)
(* and another task can find the semaphore in between.                     *)
(***************************************************************************)
EXTENDS Integers, Sequences, FiniteSets

CONSTANTS
    Tasks,          \* the tasks
    Nobody,         \* the NULL pointer in ss_Owner
    Odd,            \* a task pointer with bit 0 (SM_SHARED) set
    Sems,           \* the semaphores
    MaxNest,        \* bound: how often a task holds one semaphore
    Careful,        \* programs Wait() for something else after each call that
                    \* slept, before they call for a semaphore again
    SharedMayWait   \* programs call ObtainSemaphoreShared() for semaphores that
                    \* others hold exclusively

ASSUME TasksAssumption == Nobody \notin Tasks /\ Odd \notin Tasks /\ Nobody # Odd
ASSUME MaxNestAssumption == MaxNest \in Nat \ {0}
ASSUME ProgramsAssumption == Careful \in BOOLEAN /\ SharedMayWait \in BOOLEAN

VARIABLES
    \* struct SignalSemaphore; a request holds sr_Waiter
    ss_Owner, ss_NestCount, ss_QueueCount, ss_WaitQueue,
    tdNest,         \* TDNestCnt while the task runs, saved over preemption
    single,         \* SIGF_SINGLE in the task's tc_SigRecvd
    pc,             \* where the task is in a call, "run" in its own code
    call,           \* the call in progress
    todo,           \* the semaphores of the list that are still to be done
    excl, shared    \* the calls that succeeded and are not released yet

semVars == <<ss_Owner, ss_NestCount, ss_QueueCount, ss_WaitQueue>>
heldVars == <<excl, shared>>
vars == <<semVars, tdNest, single, pc, call, todo, heldVars>>

Calls == [sem : Sems, mode : {"exclusive", "shared"}]
NoCall == [sem |-> Nobody, mode |-> "none"]
Requests == [task : Tasks, waiter : Tasks \cup {Odd}]

\* InitSemaphore().
Init ==
    /\ ss_Owner = [s \in Sems |-> Nobody]
    /\ ss_NestCount = [s \in Sems |-> 0] /\ ss_QueueCount = [s \in Sems |-> -1]
    /\ ss_WaitQueue = [s \in Sems |-> <<>>]
    /\ tdNest = [t \in Tasks |-> -1] /\ single = [t \in Tasks |-> FALSE]
    /\ pc = [t \in Tasks |-> "run"]
    /\ call = [t \in Tasks |-> NoCall]
    /\ todo = [t \in Tasks |-> {}]
    /\ excl = [s \in Sems |-> [t \in Tasks |-> 0]]
    /\ shared = [s \in Sems |-> [t \in Tasks |-> 0]]

-----------------------------------------------------------------------------
(* Multitasking.                                                           *)

\* A task that is preempted or sleeps outside of Forbid() lets others run.
InCall(t) == pc[t] \notin {"run", "wait", "listwait"}
MayRun(t) == \A u \in Tasks \ {t} : InCall(u) => tdNest[u] < 0
At(t, where) == pc[t] = where /\ MayRun(t)

Forbid(t) == tdNest' = [tdNest EXCEPT ![t] = @ + 1]
Permit(t) == tdNest' = [tdNest EXCEPT ![t] = @ - 1]
Goto(t, where) == pc' = [pc EXCEPT ![t] = where]
Return(t) == Permit(t) /\ Goto(t, "run") /\ call' = [call EXCEPT ![t] = NoCall]

\* The program waits for some other signal.
ProgramWait(t) ==
    /\ At(t, "run")
    /\ tdNest' = [tdNest EXCEPT ![t] = -1]
    /\ UNCHANGED <<semVars, single, pc, call, todo, heldVars>>

-----------------------------------------------------------------------------
(* Programs: a task that holds a semaphore does not wait for another one.  *)

HoldsNothing(t) == \A s \in Sems : excl[s][t] = 0 /\ shared[s][t] = 0
MayCall(t) == At(t, "run") /\ (Careful => tdNest[t] = -1)
BelowBound(t, s) == excl[s][t] + shared[s][t] < MaxNest

-----------------------------------------------------------------------------
(* ObtainSemaphore(), ObtainSemaphoreShared(), AttemptSemaphore(),         *)
(* AttemptSemaphoreShared().                                               *)

\* The task nests on a semaphore it owns; in shared mode also on one that has
\* no owner.
MayNest(t, s, mode) == ss_Owner[s] = t \/ (mode = "shared" /\ ss_Owner[s] = Nobody)

Request(t, s, mode, wait) ==
    /\ MayCall(t) /\ BelowBound(t, s)
    /\ Forbid(t)
    /\ ss_QueueCount' = [ss_QueueCount EXCEPT ![s] = @ + 1]
    /\ call' = [call EXCEPT ![t] = [sem |-> s, mode |-> mode]]
    /\ Goto(t, CASE ss_QueueCount[s] = -1  -> "claim"
                 [] ss_QueueCount[s] # -1 /\ MayNest(t, s, mode) -> "nest"
                 [] OTHER -> IF wait THEN "enqueue" ELSE "undo")
    /\ UNCHANGED <<ss_Owner, ss_NestCount, ss_WaitQueue, single, todo, heldVars>>

ObtainSemaphore(t, s) ==
    /\ HoldsNothing(t) \/ excl[s][t] > 0
    /\ Request(t, s, "exclusive", TRUE)

ObtainSemaphoreShared(t, s) ==
    /\ HoldsNothing(t) \/ excl[s][t] > 0 \/ shared[s][t] > 0
    /\ SharedMayWait \/ ss_QueueCount[s] = -1 \/ MayNest(t, s, "shared")
    /\ Request(t, s, "shared", TRUE)

AttemptSemaphore(t, s) == Request(t, s, "exclusive", FALSE)
AttemptSemaphoreShared(t, s) == Request(t, s, "shared", FALSE)

\* The semaphore was free: an exclusive claim sets owner and count, a shared
\* one leaves the semaphore without an owner.
Claim(t) ==
    LET s == call[t].sem
    IN  /\ At(t, "claim")
        /\ IF call[t].mode = "exclusive"
           THEN /\ ss_Owner' = [ss_Owner EXCEPT ![s] = t]
                /\ ss_NestCount' = [ss_NestCount EXCEPT ![s] = 1]
                /\ excl' = [excl EXCEPT ![s][t] = @ + 1] /\ UNCHANGED shared
           ELSE /\ ss_Owner' = [ss_Owner EXCEPT ![s] = Nobody]
                /\ ss_NestCount' = [ss_NestCount EXCEPT ![s] = @ + 1]
                /\ shared' = [shared EXCEPT ![s][t] = @ + 1] /\ UNCHANGED excl
        /\ Return(t)
        /\ UNCHANGED <<ss_QueueCount, ss_WaitQueue, single, todo>>

Nest(t) ==
    LET s == call[t].sem
    IN  /\ At(t, "nest")
        /\ ss_NestCount' = [ss_NestCount EXCEPT ![s] = @ + 1]
        /\ IF ss_Owner[s] = t
           THEN excl' = [excl EXCEPT ![s][t] = @ + 1] /\ UNCHANGED shared
           ELSE shared' = [shared EXCEPT ![s][t] = @ + 1] /\ UNCHANGED excl
        /\ Return(t)
        /\ UNCHANGED <<ss_Owner, ss_QueueCount, ss_WaitQueue, single, todo>>

\* Mutant: a failed attempt leaves its count behind.
UndoNothing(t) ==
    /\ At(t, "undo")
    /\ Return(t)
    /\ UNCHANGED <<semVars, single, todo, heldVars>>

Undo(t) ==
    /\ At(t, "undo")
    /\ ss_QueueCount' = [ss_QueueCount EXCEPT ![call[t].sem] = @ - 1]
    /\ Return(t)
    /\ UNCHANGED <<ss_Owner, ss_NestCount, ss_WaitQueue, single, todo, heldVars>>

\* Mutant: SIGF_SINGLE is not cleared before the task waits for it.
EnterQueueKeepsSignal(t) ==
    LET s == call[t].sem
    IN  /\ At(t, "enqueue")
        /\ ss_WaitQueue' = [ss_WaitQueue EXCEPT ![s] = Append(@, [task |-> t,
                waiter |-> IF call[t].mode = "exclusive" THEN t ELSE Odd])]
        /\ Goto(t, "wait")
        /\ UNCHANGED <<ss_Owner, ss_NestCount, ss_QueueCount, single, tdNest, call, todo, heldVars>>

\* A request for shared mode is tagged in bit 0 of sr_Waiter.
EnterQueue(t) ==
    LET s == call[t].sem
    IN  /\ At(t, "enqueue")
        /\ single' = [single EXCEPT ![t] = FALSE]
        /\ ss_WaitQueue' = [ss_WaitQueue EXCEPT ![s] = Append(@, [task |-> t,
                waiter |-> IF call[t].mode = "exclusive" THEN t ELSE Odd])]
        /\ Goto(t, "wait")
        /\ UNCHANGED <<ss_Owner, ss_NestCount, ss_QueueCount, tdNest, call, todo, heldVars>>

\* Mutant: the task comes back with the TDNestCnt it went to sleep with, and
\* without Permit().
AwakeKeepsNest(t) ==
    /\ At(t, "wait") /\ single[t]
    /\ single' = [single EXCEPT ![t] = FALSE]
    /\ tdNest' = [tdNest EXCEPT ![t] = @ + 1]
    /\ Goto(t, "run") /\ call' = [call EXCEPT ![t] = NoCall]
    /\ UNCHANGED <<semVars, todo, heldVars>>

\* Wait(SIGF_SINGLE) returns with TDNestCnt = -1, then Permit().
Awake(t) ==
    /\ At(t, "wait") /\ single[t]
    /\ single' = [single EXCEPT ![t] = FALSE]
    /\ tdNest' = [tdNest EXCEPT ![t] = -2]
    /\ Goto(t, "run") /\ call' = [call EXCEPT ![t] = NoCall]
    /\ UNCHANGED <<semVars, todo, heldVars>>

-----------------------------------------------------------------------------
(* ReleaseSemaphore().                                                     *)

ReleaseSemaphore(t, s) ==
    /\ MayCall(t)
    /\ \/ excl[s][t] > 0 /\ excl' = [excl EXCEPT ![s][t] = @ - 1] /\ UNCHANGED shared
       \/ shared[s][t] > 0 /\ shared' = [shared EXCEPT ![s][t] = @ - 1] /\ UNCHANGED excl
    /\ ss_NestCount' = [ss_NestCount EXCEPT ![s] = @ - 1]
    /\ ss_QueueCount' = [ss_QueueCount EXCEPT ![s] = @ - 1]
    /\ IF ss_NestCount[s] = 1
       THEN /\ Goto(t, "release") /\ Forbid(t)
            /\ call' = [call EXCEPT ![t] = [sem |-> s, mode |-> "exclusive"]]
       ELSE UNCHANGED <<pc, tdNest, call>>
    /\ UNCHANGED <<ss_Owner, ss_WaitQueue, single, todo>>

\* Is anybody waiting?
ReleaseTest(t) ==
    LET s == call[t].sem
    IN  /\ At(t, "release")
        /\ Goto(t, IF ss_QueueCount[s] >= 0 /\ ss_WaitQueue[s] # <<>>
                   THEN "handoff" ELSE "clear")
        /\ UNCHANGED <<semVars, tdNest, single, call, todo, heldVars>>

\* Mutant: the last waiter is served first.
HandoffLast(t) ==
    LET s == call[t].sem
        q == ss_WaitQueue[s]
        w == q[Len(q)].waiter
    IN  /\ At(t, "handoff")
        /\ ss_WaitQueue' = [ss_WaitQueue EXCEPT ![s] = SubSeq(q, 1, Len(q) - 1)]
        /\ ss_NestCount' = [ss_NestCount EXCEPT ![s] = 1]
        /\ ss_Owner' = [ss_Owner EXCEPT ![s] = w]
        /\ IF w \in Tasks
           THEN /\ single' = [single EXCEPT ![w] = TRUE]
                /\ excl' = [excl EXCEPT ![s][w] = 1]
           ELSE UNCHANGED <<single, excl>>
        /\ Return(t)
        /\ UNCHANGED <<ss_QueueCount, todo, shared>>

\* Mutant: the new owner is not signalled.
HandoffSignalsNobody(t) ==
    LET s == call[t].sem
        w == Head(ss_WaitQueue[s]).waiter
    IN  /\ At(t, "handoff")
        /\ ss_WaitQueue' = [ss_WaitQueue EXCEPT ![s] = Tail(@)]
        /\ ss_NestCount' = [ss_NestCount EXCEPT ![s] = 1]
        /\ ss_Owner' = [ss_Owner EXCEPT ![s] = w]
        /\ excl' = [excl EXCEPT ![s][w] = 1]
        /\ Return(t)
        /\ UNCHANGED <<ss_QueueCount, single, todo, shared>>

\* The first waiter becomes the owner and is signalled.  Signal() finds no
\* task at an odd address (it reads ln_Pri as the node's type) and ignores it.
Handoff(t) ==
    LET s == call[t].sem
        w == Head(ss_WaitQueue[s]).waiter
    IN  /\ At(t, "handoff")
        /\ ss_WaitQueue' = [ss_WaitQueue EXCEPT ![s] = Tail(@)]
        /\ ss_NestCount' = [ss_NestCount EXCEPT ![s] = 1]
        /\ ss_Owner' = [ss_Owner EXCEPT ![s] = w]
        /\ IF w \in Tasks
           THEN /\ single' = [single EXCEPT ![w] = TRUE]
                /\ excl' = [excl EXCEPT ![s][w] = 1]
           ELSE UNCHANGED <<single, excl>>
        /\ Return(t)
        /\ UNCHANGED <<ss_QueueCount, todo, shared>>

Clear(t) ==
    LET s == call[t].sem
    IN  /\ At(t, "clear")
        /\ ss_Owner' = [ss_Owner EXCEPT ![s] = Nobody]
        /\ ss_QueueCount' = [ss_QueueCount EXCEPT ![s] = -1]
        /\ Return(t)
        /\ UNCHANGED <<ss_NestCount, ss_WaitQueue, single, todo, heldVars>>

-----------------------------------------------------------------------------
(* ObtainSemaphoreList(), ReleaseSemaphoreList(), for a list of all the     *)
(* semaphores.  There is one ss_MultipleLink in each, so only one task at a *)
(* time may ask for the list.                                              *)

ObtainSemaphoreList(t) ==
    /\ MayCall(t) /\ HoldsNothing(t)
    /\ \A u \in Tasks : pc[u] \notin {"first", "second", "listwait"}
    /\ Forbid(t) /\ Goto(t, "first")
    /\ todo' = [todo EXCEPT ![t] = Sems]
    /\ UNCHANGED <<semVars, single, call, heldVars>>

\* First pass: take each semaphore or queue for it.
ListFirst(t, s) ==
    /\ At(t, "first") /\ s \in todo[t]
    /\ ss_QueueCount' = [ss_QueueCount EXCEPT ![s] = @ + 1]
    /\ IF ss_QueueCount[s] # -1 /\ ss_Owner[s] # t
       THEN /\ ss_WaitQueue' = [ss_WaitQueue EXCEPT ![s] =
                                    Append(@, [task |-> t, waiter |-> t])]
            /\ UNCHANGED <<ss_Owner, ss_NestCount, excl>>
       ELSE /\ ss_Owner' = [ss_Owner EXCEPT ![s] = t]
            /\ ss_NestCount' = [ss_NestCount EXCEPT ![s] = @ + 1]
            /\ excl' = [excl EXCEPT ![s][t] = @ + 1]
            /\ UNCHANGED ss_WaitQueue
    /\ IF todo[t] = {s}
       THEN todo' = [todo EXCEPT ![t] = Sems] /\ Goto(t, "second")
       ELSE todo' = [todo EXCEPT ![t] = @ \ {s}] /\ UNCHANGED pc
    /\ UNCHANGED <<tdNest, single, call, shared>>

\* Second pass: the semaphores are looked at one after the other, and the task
\* waits until it owns the one it looks at.
ListSecond(t, s) ==
    /\ At(t, "second") /\ s \in todo[t] /\ ss_Owner[s] = t
    /\ IF todo[t] = {s}
       THEN Permit(t) /\ Goto(t, "run")
       ELSE UNCHANGED <<pc, tdNest>>
    /\ todo' = [todo EXCEPT ![t] = @ \ {s}]
    /\ UNCHANGED <<semVars, single, call, heldVars>>

\* Wait(SIGF_SINGLE): it returns at once when the signal is there already.
ListWait(t, s) ==
    /\ At(t, "second") /\ s \in todo[t] /\ ss_Owner[s] # t
    /\ IF single[t]
       THEN single' = [single EXCEPT ![t] = FALSE] /\ UNCHANGED pc
       ELSE Goto(t, "listwait") /\ UNCHANGED single
    /\ UNCHANGED <<semVars, tdNest, call, todo, heldVars>>

ListAwake(t) ==
    /\ At(t, "listwait") /\ single[t]
    /\ single' = [single EXCEPT ![t] = FALSE]
    /\ tdNest' = [tdNest EXCEPT ![t] = -1]
    /\ Goto(t, "second")
    /\ UNCHANGED <<semVars, call, todo, heldVars>>

-----------------------------------------------------------------------------
InExec(t) ==
    \/ Claim(t) \/ Nest(t) \/ Undo(t) \/ EnterQueue(t) \/ Awake(t)
    \/ ReleaseTest(t) \/ Handoff(t) \/ Clear(t) \/ ListAwake(t)
    \/ \E s \in Sems : ListFirst(t, s) \/ ListSecond(t, s) \/ ListWait(t, s)

Program(t) ==
    \/ ProgramWait(t) \/ ObtainSemaphoreList(t)
    \/ \E s \in Sems :
          \/ ObtainSemaphore(t, s) \/ ObtainSemaphoreShared(t, s)
          \/ AttemptSemaphore(t, s) \/ AttemptSemaphoreShared(t, s)
          \/ ReleaseSemaphore(t, s)

Next == \E t \in Tasks : InExec(t) \/ Program(t)

Spec == Init /\ [][Next]_vars

-----------------------------------------------------------------------------
(* Properties.                                                             *)

\* Every variable has its type.
TypeOK ==
    /\ ss_Owner \in [Sems -> Tasks \cup {Nobody, Odd}]
    /\ ss_NestCount \in [Sems -> Int] /\ ss_QueueCount \in [Sems -> Int]
    /\ ss_WaitQueue \in [Sems -> Seq(Requests)]
    /\ tdNest \in [Tasks -> {-2, -1, 0}] /\ single \in [Tasks -> BOOLEAN]
    /\ pc \in [Tasks -> {"run", "claim", "nest", "enqueue", "undo", "wait", "release",
                         "handoff", "clear", "first", "second", "listwait"}]
    /\ call \in [Tasks -> Calls \cup {NoCall}] /\ todo \in [Tasks -> SUBSET Sems]
    /\ excl \in [Sems -> [Tasks -> 0 .. MaxNest]]
    /\ shared \in [Sems -> [Tasks -> 0 .. MaxNest]]

\* "Multiple tasks can hold a semaphore in shared mode simultaneously, but
\* shared mode is mutually exclusive with exclusive mode", and so is exclusive
\* mode of two tasks.
MutualExclusion ==
    \A s \in Sems : \A t, u \in Tasks :
        t # u /\ excl[s][t] > 0 => excl[s][u] = 0 /\ shared[s][u] = 0

\* A semaphore that nobody works on has its owner and is counted right: every
\* task in the wait queue and every successful call is in ss_QueueCount.
Waiters(s) == { ss_WaitQueue[s][i].task : i \in 1 .. Len(ss_WaitQueue[s]) }
CountsAgree ==
    (\A t \in Tasks : ~InCall(t)) => \A s \in Sems :
        /\ ss_Owner[s] = Nobody <=> \A t \in Tasks : excl[s][t] = 0
        /\ \A t \in Tasks : ss_Owner[s] = t <=> excl[s][t] > 0
        /\ ss_Owner[s] \in Tasks => ss_NestCount[s] = excl[s][ss_Owner[s]]
        /\ ss_QueueCount[s] = ss_NestCount[s] + Len(ss_WaitQueue[s]) - 1
        /\ ss_WaitQueue[s] # <<>> => ss_NestCount[s] > 0

\* Whoever returns from ObtainSemaphore() or ObtainSemaphoreList() owns what he
\* asked for: the one signal SIGF_SINGLE, shared by all semaphores and possibly
\* left over from an earlier call, never wakes a task too early.
ObtainedIsOwned ==
    [][ \A t \in Tasks :
          /\ pc[t] = "wait" /\ pc'[t] = "run" => excl[call[t].sem][t] > 0
          /\ pc[t] = "second" /\ pc'[t] = "run" => \A s \in Sems : excl[s][t] > 0 ]_vars

\* A task that sleeps for a semaphore is still in its wait queue, or it has
\* been given the semaphore and is signalled: no request is forgotten.
NoRequestForgotten ==
    \A t \in Tasks : pc[t] = "wait" => t \in Waiters(call[t].sem) \/ single[t]

\* The semaphores implement the lock: what a call does becomes visible in one
\* step, and the wait queue is served in order.
Lock == INSTANCE SemLock WITH
    queue <- [s \in Sems |-> [i \in 1 .. Len(ss_WaitQueue[s]) |-> ss_WaitQueue[s][i].task]]
ImplementsLock == Lock!Spec

=============================================================================
