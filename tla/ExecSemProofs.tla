---------------------------- MODULE ExecSemProofs ---------------------------
(***************************************************************************)
(* The signal semaphores of exec for any number of tasks and semaphores,   *)
(* where programs stay out of the two ways in which the code breaks them:  *)
(* they wait for another signal after each call that slept (Careful), and  *)
(* they ask in shared mode only for what they get at once.                 *)
(*                                                                         *)
(* Then a task inside Forbid() is alone (Alone), and a semaphore is in     *)
(* order except for what that one task is doing to it (SemInv).            *)
(***************************************************************************)
EXTENDS ExecSem, FiniteSetTheorems, SequenceTheorems, TLAPS

\* A task in the part of a call that Forbid() protects; the tasks in a call for
\* all the semaphores.
Works(t) == pc[t] \in {"claim", "nest", "enqueue", "undo", "release", "handoff", "clear"}
Lists(t) == pc[t] \in {"first", "second", "listwait"}
Busy(t) == InCall(t) /\ tdNest[t] = 0

\* Forbid() holds: there is one task inside, and one call for all the semaphores.
Alone ==
    /\ \A t \in Tasks : pc[t] = "run" => tdNest[t] < 0
    /\ \A t \in Tasks : Works(t) \/ pc[t] = "first" => tdNest[t] = 0
    /\ \A t, u \in Tasks : Busy(t) /\ Busy(u) => t = u
    /\ \A t \in Tasks : Lists(t) => tdNest[t] >= -1
    /\ \A t, u \in Tasks : Lists(t) /\ Lists(u) => t = u

\* Who works on a semaphore, and how far the call is.
WorksOn(t, s) == Works(t) /\ call[t].sem = s
Counted(s) == \E t \in Tasks : WorksOn(t, s) /\ pc[t] \in {"claim", "nest", "enqueue", "undo"}
Releasing(s) == \E t \in Tasks : WorksOn(t, s) /\ pc[t] \in {"release", "handoff", "clear"}

\* One element for each time the semaphore is held in shared mode.
SharedHolds(s) == { h \in Tasks \X (1 .. MaxNest) : h[2] <= shared[s][h[1]] }

\* ss_Owner and ss_NestCount say who holds the semaphore.
Owned(s) ==
    /\ ss_Owner[s] # Odd
    /\ \A t \in Tasks : excl[s][t] > 0 =>
          ss_Owner[s] = t /\ ss_NestCount[s] = excl[s][t] /\ SharedHolds(s) = {}
    /\ (\A t \in Tasks : excl[s][t] = 0) => ss_NestCount[s] = Cardinality(SharedHolds(s))
    /\ IsFiniteSet(SharedHolds(s))
    /\ ss_Owner[s] \in Tasks => excl[s][ss_Owner[s]] > 0 \/ Releasing(s)
    /\ Releasing(s) => ss_NestCount[s] = 0

\* ss_QueueCount counts the holders, the waiters and the caller on its way in.
\* Nobody waits for a semaphore that nobody holds, but while it is handed on.
Queued(s) ==
    /\ ss_QueueCount[s] = ss_NestCount[s] + Len(ss_WaitQueue[s]) - 1 + (IF Counted(s) THEN 1 ELSE 0)
    /\ ss_WaitQueue[s] # <<>> => ss_NestCount[s] > 0 \/ Releasing(s)

\* A task is in the wait queue once, by its own call, and does not hold the
\* semaphore.
Waiting(s) ==
    /\ \A i \in 1 .. Len(ss_WaitQueue[s]) :
          LET r == ss_WaitQueue[s][i]
          IN  /\ r.waiter = r.task /\ excl[s][r.task] = 0
              /\ (pc[r.task] = "wait" /\ call[r.task].sem = s) \/ Lists(r.task)
    /\ \A i, j \in 1 .. Len(ss_WaitQueue[s]) :
          ss_WaitQueue[s][i].task = ss_WaitQueue[s][j].task => i = j

\* What a task inside a call knows of its semaphore.
WorksRight(t) ==
    LET s == call[t].sem
    IN  /\ Works(t) => s \in Sems
        /\ pc[t] \in {"claim", "nest"} => excl[s][t] + shared[s][t] < MaxNest
        /\ pc[t] = "claim" =>
              ss_NestCount[s] = 0 /\ ss_WaitQueue[s] = <<>> /\ ss_Owner[s] = Nobody
        /\ pc[t] = "nest" => ss_NestCount[s] > 0 /\ MayNest(t, s, call[t].mode)
        /\ pc[t] = "enqueue" =>
              call[t].mode = "exclusive" /\ ss_NestCount[s] > 0 /\ ss_Owner[s] # t
        /\ pc[t] = "handoff" => ss_WaitQueue[s] # <<>>
        /\ pc[t] = "clear" => ss_WaitQueue[s] = <<>>

\* What a task that sleeps, or calls for all semaphores, can rely on.
SleepsRight(t) ==
    pc[t] = "wait" =>
        /\ call[t].sem \in Sems
        /\ t \in Waiters(call[t].sem) \/ single[t]
        /\ single[t] => excl[call[t].sem][t] > 0
ListsRight(t) ==
    /\ pc[t] = "first" => \A s \in todo[t] :
          excl[s][t] = 0 /\ shared[s][t] = 0 /\ t \notin Waiters(s)
    /\ pc[t] \in {"second", "listwait"} => \A s \in Sems \ todo[t] : excl[s][t] > 0

Inside(t) == WorksRight(t) /\ SleepsRight(t) /\ ListsRight(t)

SemInv ==
    /\ TypeOK /\ Alone
    /\ \A s \in Sems : Owned(s) /\ Queued(s) /\ Waiting(s)
    /\ \A t \in Tasks : Inside(t)

Places == {"run", "claim", "nest", "enqueue", "undo", "wait", "release", "handoff", "clear",
           "first", "second", "listwait"}
Holds == [Sems -> [Tasks -> 0 .. MaxNest]]

\* TypeOK by these names.
Types ==
    /\ ss_Owner \in [Sems -> Tasks \cup {Nobody, Odd}]
    /\ ss_NestCount \in [Sems -> Int] /\ ss_QueueCount \in [Sems -> Int]
    /\ ss_WaitQueue \in [Sems -> Seq(Requests)]
    /\ tdNest \in [Tasks -> {-2, -1, 0}] /\ single \in [Tasks -> BOOLEAN]
    /\ pc \in [Tasks -> Places]
    /\ call \in [Tasks -> Calls \cup {NoCall}] /\ todo \in [Tasks -> SUBSET Sems]
    /\ excl \in Holds /\ shared \in Holds

\* TypeOK with its sets named.
LEMMA TypesByName ==
    /\ TypeOK <=> Types
    /\ TypeOK' <=> Types'
BY DEF TypeOK, Types, Places, Holds

\* What changes when a task's hold of one semaphore is set.
LEMMA HoldSet ==
    ASSUME NEW f \in Holds, NEW s \in Sems, NEW t \in Tasks, NEW v \in 0 .. MaxNest
    PROVE  LET g == [f EXCEPT ![s][t] = v]
           IN  /\ g \in Holds /\ g[s][t] = v
               /\ \A u \in Tasks \ {t} : g[s][u] = f[s][u]
               /\ \A r \in Sems \ {s} : g[r] = f[r]
BY DEF Holds

\* What changes in excl, or in shared.
LEMMA ExclSet ==
    ASSUME Types, NEW s \in Sems, NEW t \in Tasks, NEW n \in 0 .. MaxNest,
           excl' = [excl EXCEPT ![s][t] = n]
    PROVE  /\ excl' \in Holds /\ excl'[s][t] = n
           /\ \A u \in Tasks \ {t} : excl'[s][u] = excl[s][u]
           /\ \A r \in Sems \ {s} : excl'[r] = excl[r]
BY DEF Types, Holds

\* The same for a shared hold.
LEMMA SharedSet ==
    ASSUME Types, NEW s \in Sems, NEW t \in Tasks, NEW n \in 0 .. MaxNest,
           shared' = [shared EXCEPT ![s][t] = n]
    PROVE  /\ shared' \in Holds /\ shared'[s][t] = n
           /\ \A u \in Tasks \ {t} : shared'[s][u] = shared[s][u]
           /\ \A r \in Sems \ {s} : shared'[r] = shared[r]
BY DEF Types, Holds

\* A wait queue holds tasks.
LEMMA WaitersAreTasks ==
    ASSUME Types, NEW s \in Sems PROVE Waiters(s) \subseteq Tasks
<1> SUFFICES ASSUME NEW i \in 1 .. Len(ss_WaitQueue[s]) PROVE ss_WaitQueue[s][i].task \in Tasks
  BY DEF Waiters
<1>1. ss_WaitQueue[s] \in Seq(Requests)
  BY DEF Types
<1>2. ss_WaitQueue[s][i] \in Requests
  BY <1>1
<1> QED BY <1>2 DEF Requests

\* A task that moves has the CPU: nobody else is inside Forbid().
LEMMA Aside ==
    ASSUME SemInv, NEW t \in Tasks, MayRun(t)
    PROVE  \A u \in Tasks \ {t} : ~Works(u) /\ pc[u] # "first" /\ ~Busy(u)
<1>1. \A u \in Tasks : Works(u) \/ pc[u] = "first" => InCall(u) /\ tdNest[u] = 0
  BY DEF SemInv, Alone, Works, InCall
<1> QED BY <1>1 DEF MayRun, Busy

\* A step of one task, as the other tasks see it.
OnlyMoves(t) ==
    \A u \in Tasks \ {t} : /\ pc'[u] = pc[u] /\ call'[u] = call[u]
                           /\ todo'[u] = todo[u] /\ tdNest'[u] = tdNest[u]

\* A step of one task leaves the other tasks' places alone, and needs the CPU.
LEMMA OneMoves ==
    ASSUME Types, NEW t \in Tasks, InExec(t) \/ Program(t)
    PROVE  OnlyMoves(t) /\ MayRun(t)
<1> USE DEF OnlyMoves, Types, At, Goto, Forbid, Permit, Return
<1>1. ASSUME Claim(t) \/ Nest(t) \/ Undo(t) \/ EnterQueue(t) \/ Awake(t)
      PROVE  OnlyMoves(t) /\ MayRun(t)
  BY <1>1 DEF Claim, Nest, Undo, EnterQueue, Awake
<1>2. ASSUME ReleaseTest(t) \/ Handoff(t) \/ Clear(t) \/ ListAwake(t)
      PROVE  OnlyMoves(t) /\ MayRun(t)
  BY <1>2 DEF ReleaseTest, Handoff, Clear, ListAwake
<1>3. ASSUME NEW s \in Sems, ListFirst(t, s) \/ ListSecond(t, s) \/ ListWait(t, s)
      PROVE  OnlyMoves(t) /\ MayRun(t)
  BY <1>3 DEF ListFirst, ListSecond, ListWait
<1>4. ASSUME ProgramWait(t) \/ ObtainSemaphoreList(t)
      PROVE  OnlyMoves(t) /\ MayRun(t)
  BY <1>4 DEF ProgramWait, ObtainSemaphoreList, MayCall
<1>5. ASSUME NEW s \in Sems, NEW mode, NEW wait, Request(t, s, mode, wait)
      PROVE  OnlyMoves(t) /\ MayRun(t)
  BY <1>5 DEF Request, MayCall
<1>6. ASSUME NEW s \in Sems, ReleaseSemaphore(t, s)
      PROVE  OnlyMoves(t) /\ MayRun(t)
  BY <1>6 DEF ReleaseSemaphore, MayCall
<1> QED BY <1>1, <1>2, <1>3, <1>4, <1>5, <1>6
        DEF InExec, Program, ObtainSemaphore, ObtainSemaphoreShared, AttemptSemaphore,
            AttemptSemaphoreShared

\* Alone depends on the task that moves.
LEMMA AloneKept ==
    ASSUME SemInv, NEW t \in Tasks, MayRun(t), OnlyMoves(t),
           pc'[t] = "run" => tdNest'[t] < 0,
           Works(t)' \/ (pc[t])' = "first" => tdNest'[t] = 0,
           Lists(t)' => tdNest'[t] >= -1 /\ \A u \in Tasks \ {t} : ~Lists(u)
    PROVE  Alone'
<1>1. \A u \in Tasks \ {t} : /\ Works(u)' <=> Works(u)
                             /\ Lists(u)' <=> Lists(u)
                             /\ Busy(u)' <=> Busy(u)
  BY DEF OnlyMoves, Works, Lists, Busy, InCall
<1>2. \A u \in Tasks \ {t} : ~Busy(u)'
  BY <1>1, Aside
<1>3. \A u, v \in Tasks : Busy(u)' /\ Busy(v)' => u = v
  BY <1>2
<1>4. \A u, v \in Tasks : Lists(u)' /\ Lists(v)' => u = v
  BY <1>1 DEF SemInv, Alone
<1>5. \A u \in Tasks : pc'[u] = "run" => tdNest'[u] < 0
  BY DEF SemInv, Alone, OnlyMoves
<1>6. \A u \in Tasks : Works(u)' \/ pc'[u] = "first" => tdNest'[u] = 0
  BY <1>1 DEF SemInv, Alone, OnlyMoves
<1>7. \A u \in Tasks : Lists(u)' => tdNest'[u] >= -1
  BY <1>1 DEF SemInv, Alone, OnlyMoves
<1> QED BY <1>3, <1>4, <1>5, <1>6, <1>7, Zenon DEF Alone

\* Before and after a step of t, only t can be in the middle of a call.
LEMMA OnlyOneWorks ==
    ASSUME SemInv, NEW t \in Tasks, MayRun(t), OnlyMoves(t), NEW s \in Sems
    PROVE  /\ Counted(s) <=> call[t].sem = s /\ pc[t] \in {"claim", "nest", "enqueue", "undo"}
           /\ Releasing(s) <=> call[t].sem = s /\ pc[t] \in {"release", "handoff", "clear"}
           /\ Counted(s)' <=> call'[t].sem = s /\ pc'[t] \in {"claim", "nest", "enqueue", "undo"}
           /\ Releasing(s)' <=> call'[t].sem = s /\ pc'[t] \in {"release", "handoff", "clear"}
<1>1. \A u \in Tasks \ {t} : ~Works(u) /\ ~Works(u)'
  BY Aside DEF OnlyMoves, Works
<1>2. \A u \in Tasks \ {t} : ~WorksOn(u, s) /\ ~WorksOn(u, s)'
  BY <1>1 DEF WorksOn
<1> QED BY <1>2 DEF Counted, Releasing, WorksOn, Works

\* A semaphore that the step has nothing to do with.
LEMMA Untouched ==
    ASSUME NEW s \in Sems, Owned(s), Queued(s),
           ss_Owner'[s] = ss_Owner[s], ss_NestCount'[s] = ss_NestCount[s],
           ss_QueueCount'[s] = ss_QueueCount[s], ss_WaitQueue'[s] = ss_WaitQueue[s],
           excl'[s] = excl[s], shared'[s] = shared[s],
           Counted(s)' <=> Counted(s), Releasing(s)' <=> Releasing(s)
    PROVE  Owned(s)' /\ Queued(s)'
<1>1. SharedHolds(s)' = SharedHolds(s)
  BY DEF SharedHolds
<1>2. Owned(s)'
  BY <1>1 DEF Owned
<1>3. Queued(s)'
  BY DEF Queued
<1> QED BY <1>2, <1>3

\* A wait queue that the step leaves alone: its tasks still wait.
LEMMA WaitersKept ==
    ASSUME NEW s \in Sems, Types, Waiting(s), NEW t \in Tasks, OnlyMoves(t),
           ss_WaitQueue'[s] = ss_WaitQueue[s],
           \A u \in Waiters(s) : excl'[s][u] = excl[s][u],
           t \in Waiters(s) => (pc'[t] = "wait" /\ call'[t].sem = s) \/ Lists(t)'
    PROVE  Waiting(s)'
<1> DEFINE q == ss_WaitQueue[s]
<1>1. q \in Seq(Requests)
  BY DEF Types
<1>2. ASSUME NEW i \in 1 .. Len(q)
      PROVE  /\ q[i].waiter = q[i].task /\ excl'[s][q[i].task] = 0
             /\ (pc'[q[i].task] = "wait" /\ call'[q[i].task].sem = s)
                   \/ pc'[q[i].task] \in {"first", "second", "listwait"}
  <2>1. q[i].task \in Tasks
    <3>1. q[i] \in Requests
      BY <1>1
    <3> QED BY <3>1 DEF Requests
  <2>2. /\ q[i].waiter = q[i].task /\ excl[s][q[i].task] = 0
        /\ (pc[q[i].task] = "wait" /\ call[q[i].task].sem = s)
              \/ pc[q[i].task] \in {"first", "second", "listwait"}
    BY DEF Waiting, Lists
  <2> q[i].task \in Waiters(s)
    BY DEF Waiters
  <2>3. CASE q[i].task = t
    <3>1. t \in Waiters(s)
      BY <2>3 DEF Waiters
    <3>2. (pc'[t] = "wait" /\ call'[t].sem = s) \/ pc'[t] \in {"first", "second", "listwait"}
      BY <3>1 DEF Lists
    <3> HIDE DEF q
    <3> QED BY <2>2, <2>3, <3>2
  <2>4. CASE q[i].task # t
    BY <2>1, <2>2, <2>4 DEF OnlyMoves
  <2> QED BY <2>3, <2>4
<1>3. \A i, j \in 1 .. Len(q) : q[i].task = q[j].task => i = j
  BY DEF Waiting
<1> QED BY <1>2, <1>3 DEF Waiting, Lists

\* Waiters stay waiters when neither the queue nor the ownership changes.
LEMMA StillWaiting ==
    ASSUME NEW s \in Sems, Types, Waiting(s), NEW t \in Tasks, OnlyMoves(t),
           ss_WaitQueue'[s] = ss_WaitQueue[s], excl'[s] = excl[s],
           t \in Waiters(s) => (pc'[t] = "wait" /\ call'[t].sem = s) \/ Lists(t)'
    PROVE  Waiting(s)'
BY WaitersKept

\* What the others know of their semaphores, when the step does not take from them.
LEMMA OthersInside ==
    ASSUME SemInv, NEW t \in Tasks, MayRun(t), OnlyMoves(t), NEW u \in Tasks \ {t},
           \A s \in Sems : excl[s][u] > 0 => excl'[s][u] > 0,
           pc[u] = "wait" =>
               /\ call[u].sem \in Sems
               /\ u \in Waiters(call[u].sem) \/ single[u] => u \in Waiters(call[u].sem)' \/ single'[u]
               /\ single'[u] => excl'[call[u].sem][u] > 0
    PROVE  Inside(u)'
<1>1. ~Works(u) /\ pc[u] # "first"
  BY Aside
<1>2. pc'[u] = pc[u] /\ call'[u] = call[u] /\ todo'[u] = todo[u]
  BY DEF OnlyMoves
<1>3. Inside(u)
  BY DEF SemInv
<1>4. pc[u] = "wait" =>
        /\ call[u].sem \in Sems
        /\ u \in { ss_WaitQueue'[call[u].sem][i].task : i \in 1 .. Len(ss_WaitQueue'[call[u].sem]) }
              \/ single'[u]
        /\ single'[u] => excl'[call[u].sem][u] > 0
  <2>1. pc[u] = "wait" => u \in Waiters(call[u].sem) \/ single[u]
    BY <1>3 DEF Inside, SleepsRight
  <2> QED BY <1>2, <2>1 DEF Waiters
<1>5. pc[u] \in {"second", "listwait"} => \A s \in Sems \ todo[u] : excl'[s][u] > 0
  BY <1>3 DEF Inside, ListsRight
<1>6. pc'[u] \notin {"claim", "nest", "enqueue", "undo", "release", "handoff", "clear", "first"}
  BY <1>1, <1>2 DEF Works
<1>7. pc'[u] = "wait" =>
        /\ call'[u].sem \in Sems /\ (single'[u] => excl'[call'[u].sem][u] > 0)
        /\ u \in Waiters(call[u].sem)' \/ single'[u]
  BY <1>2, <1>4 DEF Waiters
<1>8. pc'[u] \in {"second", "listwait"} => \A s \in Sems \ todo'[u] : excl'[s][u] > 0
  BY <1>2, <1>5
<1>9. WorksRight(u)'
  BY <1>6 DEF WorksRight, Works
<1>10. SleepsRight(u)'
  BY <1>7 DEF SleepsRight
<1>11. ListsRight(u)'
  BY <1>6, <1>8 DEF ListsRight
<1> QED BY <1>9, <1>10, <1>11, Zenon DEF Inside

\* So they know the same when they keep what they have and what they wait for.
LEMMA OthersKeep ==
    ASSUME SemInv, NEW t \in Tasks, MayRun(t), OnlyMoves(t), NEW u \in Tasks \ {t},
           single'[u] = single[u],
           \A s \in Sems : excl'[s][u] = excl[s][u] /\ (u \in Waiters(s) => u \in Waiters(s)')
    PROVE  Inside(u)'
<1>1. Inside(u) /\ call'[u] = call[u]
  BY DEF SemInv, OnlyMoves
<1>2. pc[u] = "wait" =>
        /\ call[u].sem \in Sems
        /\ u \in Waiters(call[u].sem) \/ single[u] => u \in Waiters(call[u].sem)' \/ single'[u]
        /\ single'[u] => excl'[call[u].sem][u] > 0
  <2> SUFFICES ASSUME pc[u] = "wait"
               PROVE  /\ call[u].sem \in Sems
                      /\ u \in Waiters(call[u].sem) \/ single[u] =>
                            u \in Waiters(call[u].sem)' \/ single'[u]
                      /\ single'[u] => excl'[call[u].sem][u] > 0
    OBVIOUS
  <2> DEFINE s == call[u].sem
  <2>1. s \in Sems /\ (single[u] => excl[s][u] > 0)
    BY <1>1 DEF Inside, SleepsRight
  <2>2. u \in Waiters(s) => u \in { ss_WaitQueue'[s][i].task : i \in 1 .. Len(ss_WaitQueue'[s]) }
    BY <2>1 DEF Waiters
  <2>3. u \in Waiters(s) => u \in Waiters(call[u].sem)'
    BY <1>1, <2>2 DEF Waiters
  <2> QED BY <2>1, <2>3
<1> QED BY <1>2, OthersInside

\* SemInv after a step, from its parts for the task that moves and for the
\* semaphores that it works on.
LEMMA StepKeeps ==
    ASSUME SemInv, NEW t \in Tasks, MayRun(t), OnlyMoves(t), NEW S \in SUBSET Sems,
           \A r \in Sems \ S :
               /\ ss_Owner'[r] = ss_Owner[r] /\ ss_NestCount'[r] = ss_NestCount[r]
               /\ ss_QueueCount'[r] = ss_QueueCount[r] /\ ss_WaitQueue'[r] = ss_WaitQueue[r]
               /\ excl'[r] = excl[r] /\ shared'[r] = shared[r]
               /\ call[t].sem = r => ~Works(t)
               /\ call'[t].sem = r => ~Works(t)'
               /\ t \in Waiters(r) => (pc'[t] = "wait" /\ call'[t].sem = r) \/ Lists(t)',
           \A s \in S : Owned(s)' /\ Queued(s)' /\ Waiting(s)',
           \A u \in Tasks \ {t} : Inside(u)',
           Types', Alone', Inside(t)'
    PROVE  SemInv'
<1>1. ASSUME NEW r \in Sems \ S PROVE Owned(r)' /\ Queued(r)' /\ Waiting(r)'
  <2>1. Owned(r) /\ Queued(r) /\ Waiting(r) /\ Types
    BY TypesByName DEF SemInv
  <2>2. (Counted(r)' <=> Counted(r)) /\ (Releasing(r)' <=> Releasing(r))
    BY OnlyOneWorks DEF Works
  <2>3. Owned(r)' /\ Queued(r)'
    BY <2>1, <2>2, Untouched
  <2>4. Waiting(r)'
    BY <2>1, StillWaiting
  <2> QED BY <2>3, <2>4
<1>2. \A u \in Tasks : Inside(u)'
  OBVIOUS
<1>3. \A s \in Sems : Owned(s)' /\ Queued(s)' /\ Waiting(s)'
  BY <1>1
<1> QED BY <1>2, <1>3, TypesByName DEF SemInv

\* Steps that leave the semaphores alone and are outside of their calls.
LEMMA CalmStep ==
    ASSUME SemInv, NEW t \in Tasks, MayRun(t), OnlyMoves(t), UNCHANGED <<semVars, heldVars>>,
           ~Works(t), ~Works(t)', \A u \in Tasks \ {t} : single'[u] = single[u],
           \A r \in Sems : t \in Waiters(r) => (pc'[t] = "wait" /\ call'[t].sem = r) \/ Lists(t)',
           Types', Alone', Inside(t)'
    PROVE  SemInv'
<1>1. UNCHANGED <<ss_Owner, ss_NestCount, ss_QueueCount, ss_WaitQueue, excl, shared>>
  BY DEF semVars, heldVars
<1>2. ASSUME NEW u \in Tasks \ {t} PROVE Inside(u)'
  <2>1. \A s \in Sems : excl'[s][u] = excl[s][u] /\ (u \in Waiters(s) => u \in Waiters(s)')
    BY <1>1 DEF Waiters
  <2> QED BY <2>1, OthersKeep
<1> DEFINE S == {}
<1>3. S \in SUBSET Sems /\ \A s \in S : Owned(s)' /\ Queued(s)' /\ Waiting(s)'
  OBVIOUS
<1>4. \A r \in Sems \ S :
        /\ ss_Owner'[r] = ss_Owner[r] /\ ss_NestCount'[r] = ss_NestCount[r]
        /\ ss_QueueCount'[r] = ss_QueueCount[r] /\ ss_WaitQueue'[r] = ss_WaitQueue[r]
        /\ excl'[r] = excl[r] /\ shared'[r] = shared[r]
        /\ call[t].sem = r => ~Works(t)
        /\ call'[t].sem = r => ~Works(t)'
        /\ t \in Waiters(r) => (pc'[t] = "wait" /\ call'[t].sem = r) \/ Lists(t)'
  BY <1>1
<1> HIDE DEF S
<1> QED BY <1>2, <1>3, <1>4, StepKeeps

\* A task waits in one queue only, and a task in no call waits in none.
LEMMA WaitsWhere ==
    ASSUME SemInv, NEW t \in Tasks, NEW s \in Sems, t \in Waiters(s)
    PROVE  /\ (pc[t] = "wait" /\ call[t].sem = s) \/ Lists(t)
           /\ excl[s][t] = 0
BY DEF SemInv, Waiting, Waiters

\* One more, or one less, of the times that a semaphore is held in shared mode.
LEMMA SharedOneMore ==
    ASSUME Types, NEW s \in Sems, NEW t \in Tasks, IsFiniteSet(SharedHolds(s)),
           NEW n \in 0 .. MaxNest, n = shared[s][t] + 1,
           shared' = [shared EXCEPT ![s][t] = n]
    PROVE  /\ IsFiniteSet(SharedHolds(s)')
           /\ Cardinality(SharedHolds(s)') = Cardinality(SharedHolds(s)) + 1
<1>1. /\ shared \in Holds /\ shared'[s][t] = n
      /\ \A u \in Tasks \ {t} : shared'[s][u] = shared[s][u]
  <2>1. shared \in Holds
    BY DEF Types
  <2> QED BY <2>1, HoldSet
<1>2. \A u \in Tasks : shared[s][u] \in Nat
  BY <1>1, MaxNestAssumption DEF Holds
<1>3. SharedHolds(s)' = SharedHolds(s) \cup {<<t, n>>}
  BY <1>1, <1>2, MaxNestAssumption DEF SharedHolds
<1>4. <<t, n>> \notin SharedHolds(s)
  BY <1>2 DEF SharedHolds
<1> QED BY <1>3, <1>4, FS_AddElement

\* A shared hold that is given back is one less to count.
LEMMA SharedOneLess ==
    ASSUME Types, NEW s \in Sems, NEW t \in Tasks, IsFiniteSet(SharedHolds(s)),
           NEW n \in 0 .. MaxNest, n + 1 = shared[s][t],
           shared' = [shared EXCEPT ![s][t] = n]
    PROVE  /\ IsFiniteSet(SharedHolds(s)')
           /\ Cardinality(SharedHolds(s)') = Cardinality(SharedHolds(s)) - 1
<1>1. /\ shared \in Holds /\ shared'[s][t] = n
      /\ \A u \in Tasks \ {t} : shared'[s][u] = shared[s][u]
  <2>1. shared \in Holds
    BY DEF Types
  <2> QED BY <2>1, HoldSet
<1>2. \A u \in Tasks : shared[s][u] \in 0 .. MaxNest
  BY <1>1 DEF Holds
<1>3. n + 1 \in 1 .. MaxNest
  BY <1>2, MaxNestAssumption
<1>4. SharedHolds(s)' = SharedHolds(s) \ {<<t, n + 1>>}
  BY <1>1, <1>2, MaxNestAssumption DEF SharedHolds
<1>5. <<t, n + 1>> \in SharedHolds(s)
  BY <1>3 DEF SharedHolds
<1> QED BY <1>4, <1>5, FS_RemoveElement, ZenonT(40)

\* ss_NestCount of a semaphore that nobody releases counts its holders: it is 0
\* for a free one only.
LEMMA NestCounts ==
    ASSUME SemInv, NEW s \in Sems
    PROVE  /\ ss_NestCount[s] \in Nat
           /\ ss_NestCount[s] = 0 =>
                 /\ \A t \in Tasks : excl[s][t] = 0 /\ shared[s][t] = 0
                 /\ SharedHolds(s) = {}
           /\ ss_NestCount[s] = 0 /\ ~Releasing(s) => ss_Owner[s] = Nobody
           /\ ss_Owner[s] = Nobody /\ ss_NestCount[s] > 0 =>
                 \E t \in Tasks : shared[s][t] > 0
<1>1. Types /\ Owned(s)
  BY TypesByName DEF SemInv
<1>2. \A t \in Tasks : excl[s][t] \in Nat /\ shared[s][t] \in 0 .. MaxNest
  BY <1>1, MaxNestAssumption DEF Types, Holds
<1>3. IsFiniteSet(SharedHolds(s)) /\ Cardinality(SharedHolds(s)) \in Nat
  BY <1>1, FS_CardinalityType DEF Owned
<1>4. CASE \E t \in Tasks : excl[s][t] > 0
  BY <1>1, <1>2, <1>4, TasksAssumption DEF Owned
<1>5. CASE \A t \in Tasks : excl[s][t] = 0
  <2>1. ss_NestCount[s] = Cardinality(SharedHolds(s))
    BY <1>1, <1>5 DEF Owned
  <2>2. ss_NestCount[s] = 0 <=> SharedHolds(s) = {}
    BY <1>3, <2>1, FS_EmptySet
  <2>3. ASSUME SharedHolds(s) = {}, NEW t \in Tasks PROVE shared[s][t] = 0
    <3>1. <<t, 1>> \notin SharedHolds(s)
      BY <2>3
    <3> QED BY <1>2, <3>1, MaxNestAssumption DEF SharedHolds
  <2>4. SharedHolds(s) # {} => \E t \in Tasks : shared[s][t] > 0
    <3> SUFFICES ASSUME NEW h \in SharedHolds(s) PROVE \E t \in Tasks : shared[s][t] > 0
      OBVIOUS
    <3>1. h[1] \in Tasks /\ h[2] \in 1 .. MaxNest /\ h[2] <= shared[s][h[1]]
      BY DEF SharedHolds
    <3> QED BY <1>2, <3>1, MaxNestAssumption
  <2>5. ss_Owner[s] \in Tasks => Releasing(s)
    BY <1>1, <1>5 DEF Owned
  <2>6. ss_Owner[s] \in Tasks \/ ss_Owner[s] = Nobody
    BY <1>1 DEF Owned, Types
  <2> QED BY <1>3, <1>5, <2>1, <2>2, <2>3, <2>4, <2>5, <2>6
<1>6. (\E t \in Tasks : excl[s][t] > 0) \/ \A t \in Tasks : excl[s][t] = 0
  BY <1>2
<1> QED BY <1>4, <1>5, <1>6

\* SemInv after a step that works on one semaphore.
LEMMA StepOnOne ==
    ASSUME SemInv, NEW t \in Tasks, MayRun(t), OnlyMoves(t), NEW s \in Sems,
           \A r \in Sems \ {s} :
               /\ ss_Owner'[r] = ss_Owner[r] /\ ss_NestCount'[r] = ss_NestCount[r]
               /\ ss_QueueCount'[r] = ss_QueueCount[r] /\ ss_WaitQueue'[r] = ss_WaitQueue[r]
               /\ excl'[r] = excl[r] /\ shared'[r] = shared[r],
           Works(t) => call[t].sem = s, Works(t)' => call'[t].sem = s,
           \A r \in Sems : t \in Waiters(r) => Lists(t)',
           Owned(s)', Queued(s)', Waiting(s)',
           \A u \in Tasks \ {t} : Inside(u)',
           Types', Alone', Inside(t)'
    PROVE  SemInv'
<1> DEFINE S == {s}
<1>1. S \in SUBSET Sems /\ \A r \in S : Owned(r)' /\ Queued(r)' /\ Waiting(r)'
  OBVIOUS
<1>2. \A r \in Sems \ S :
        /\ ss_Owner'[r] = ss_Owner[r] /\ ss_NestCount'[r] = ss_NestCount[r]
        /\ ss_QueueCount'[r] = ss_QueueCount[r] /\ ss_WaitQueue'[r] = ss_WaitQueue[r]
        /\ excl'[r] = excl[r] /\ shared'[r] = shared[r]
        /\ call[t].sem = r => ~Works(t)
        /\ call'[t].sem = r => ~Works(t)'
        /\ t \in Waiters(r) => (pc'[t] = "wait" /\ call'[t].sem = r) \/ Lists(t)'
  OBVIOUS
<1> HIDE DEF S
<1> QED BY <1>1, <1>2, StepKeeps

-----------------------------------------------------------------------------
(* The steps, one by one.                                                  *)

\* A program waits for something else, which sets TDNestCnt right again.
LEMMA ProgramWaitStep ==
    ASSUME SemInv, NEW t \in Tasks, ProgramWait(t) PROVE SemInv'
<1>1. /\ pc[t] = "run" /\ MayRun(t) /\ tdNest' = [tdNest EXCEPT ![t] = -1]
      /\ UNCHANGED <<semVars, single, pc, call, todo, heldVars>>
  BY DEF ProgramWait, At
<1>2. Types /\ OnlyMoves(t)
  BY OneMoves, TypesByName DEF Program, SemInv
<1>3. Types'
  BY <1>1, <1>2 DEF Types, semVars, heldVars
<1>4. Alone'
  <2>1. pc'[t] = "run" /\ tdNest'[t] = -1
    BY <1>1, <1>2 DEF Types
  <2>2. ~Works(t)' /\ ~Lists(t)'
    BY <2>1 DEF Works, Lists
  <2> QED BY <1>1, <1>2, <2>1, <2>2, AloneKept
<1>5. Inside(t)'
  BY <1>1 DEF Inside, WorksRight, SleepsRight, ListsRight, Works
<1>6. \A r \in Sems : t \notin Waiters(r)
  BY <1>1, WaitsWhere DEF Lists
<1> QED BY <1>1, <1>2, <1>3, <1>4, <1>5, <1>6, CalmStep DEF Works

\* The task that wakes up has been given the semaphore.
LEMMA AwakeStep ==
    ASSUME SemInv, NEW t \in Tasks, Awake(t) PROVE SemInv'
<1>1. /\ pc[t] = "wait" /\ MayRun(t) /\ single[t]
      /\ single' = [single EXCEPT ![t] = FALSE]
      /\ tdNest' = [tdNest EXCEPT ![t] = -2]
      /\ pc' = [pc EXCEPT ![t] = "run"] /\ call' = [call EXCEPT ![t] = NoCall]
      /\ UNCHANGED <<semVars, todo, heldVars>>
  BY DEF Awake, At, Goto
<1>2. Types /\ OnlyMoves(t)
  BY OneMoves, TypesByName DEF InExec, SemInv
<1>3. Types'
  BY <1>1, <1>2 DEF Types, Places, semVars, heldVars
<1>4. pc'[t] = "run" /\ tdNest'[t] = -2
  BY <1>1, <1>2 DEF Types
<1>5. Alone'
  BY <1>1, <1>2, <1>4, AloneKept DEF Works, Lists
<1>6. Inside(t)'
  BY <1>4 DEF Inside, WorksRight, SleepsRight, ListsRight, Works
<1>7. \A r \in Sems : t \notin Waiters(r)
  <2>1. call[t].sem \in Sems /\ excl[call[t].sem][t] > 0
    BY <1>1 DEF SemInv, Inside, SleepsRight
  <2> QED BY <1>1, <2>1, WaitsWhere DEF Lists
<1>8. \A u \in Tasks \ {t} : single'[u] = single[u]
  BY <1>1, <1>2 DEF Types
<1> QED BY <1>1, <1>2, <1>3, <1>4, <1>5, <1>6, <1>7, <1>8, CalmStep DEF Works

\* ObtainSemaphoreList() begins.
LEMMA ObtainSemaphoreListStep ==
    ASSUME SemInv, Careful, NEW t \in Tasks, ObtainSemaphoreList(t) PROVE SemInv'
<1>1. /\ pc[t] = "run" /\ MayRun(t) /\ tdNest[t] = -1 /\ HoldsNothing(t)
      /\ \A u \in Tasks : ~Lists(u)
      /\ tdNest' = [tdNest EXCEPT ![t] = @ + 1] /\ pc' = [pc EXCEPT ![t] = "first"]
      /\ todo' = [todo EXCEPT ![t] = Sems]
      /\ UNCHANGED <<semVars, single, call, heldVars>>
  BY DEF ObtainSemaphoreList, MayCall, At, Goto, Forbid, Lists
<1>2. Types /\ OnlyMoves(t)
  BY OneMoves, TypesByName DEF Program, SemInv
<1>3. pc'[t] = "first" /\ tdNest'[t] = 0 /\ todo'[t] = Sems
  BY <1>1, <1>2 DEF Types
<1>4. Types'
  <2>1. tdNest' = [tdNest EXCEPT ![t] = 0]
    BY <1>1, <1>2 DEF Types
  <2> QED BY <1>1, <1>2, <2>1 DEF Types, Places, semVars, heldVars
<1>5. Alone'
  BY <1>1, <1>2, <1>3, AloneKept
<1>6. \A r \in Sems : t \notin Waiters(r)
  BY <1>1, WaitsWhere DEF Lists
<1>7. Inside(t)'
  <2>1. \A s \in Sems : excl'[s][t] = 0 /\ shared'[s][t] = 0 /\ t \notin Waiters(s)'
    BY <1>1, <1>6 DEF HoldsNothing, heldVars, semVars, Waiters
  <2>2. ListsRight(t)'
    BY <1>3, <2>1 DEF ListsRight
  <2>3. WorksRight(t)' /\ SleepsRight(t)'
    BY <1>3 DEF WorksRight, SleepsRight, Works
  <2> QED BY <2>2, <2>3 DEF Inside
<1> QED BY <1>1, <1>2, <1>3, <1>4, <1>5, <1>6, <1>7, CalmStep DEF Works

\* The task goes on to the next semaphore when it owns this one.
LEMMA ListSecondStep ==
    ASSUME SemInv, NEW t \in Tasks, NEW s \in Sems, ListSecond(t, s)
    PROVE  SemInv' /\ excl[s][t] > 0 /\ (pc'[t] = "run" => \A r \in Sems : excl[r][t] > 0)
<1>1. /\ pc[t] = "second" /\ MayRun(t) /\ s \in todo[t] /\ ss_Owner[s] = t
      /\ IF todo[t] = {s}
         THEN tdNest' = [tdNest EXCEPT ![t] = @ - 1] /\ pc' = [pc EXCEPT ![t] = "run"]
         ELSE UNCHANGED <<pc, tdNest>>
      /\ todo' = [todo EXCEPT ![t] = @ \ {s}]
      /\ UNCHANGED <<semVars, single, call, heldVars>>
  BY DEF ListSecond, At, Goto, Permit
<1>2. Types /\ OnlyMoves(t)
  BY OneMoves, TypesByName DEF InExec, SemInv
<1>3. tdNest[t] \in {-1, 0}
  BY <1>1, <1>2 DEF SemInv, Alone, Lists, Types
<1>4. excl[s][t] > 0
  <2>1. ~Releasing(s)
    BY <1>1, <1>2, OnlyOneWorks
  <2> QED BY <1>1, <2>1 DEF SemInv, Owned
<1>5. \A r \in Sems \ todo'[t] : excl[r][t] > 0
  <2>1. \A r \in Sems \ todo[t] : excl[r][t] > 0
    BY <1>1 DEF SemInv, Inside, ListsRight
  <2> QED BY <1>1, <1>2, <1>4, <2>1 DEF Types
<1>6. todo'[t] = todo[t] \ {s} /\ (todo[t] = {s} => todo'[t] = {})
  BY <1>1, <1>2 DEF Types
<1>7. \/ pc'[t] = "run" /\ tdNest'[t] < 0 /\ todo[t] = {s}
      \/ pc'[t] = "second" /\ tdNest'[t] = tdNest[t]
  BY <1>1, <1>2, <1>3 DEF Types
<1>8. Types'
  <2>1. tdNest' \in [Tasks -> {-2, -1, 0}] /\ pc' \in [Tasks -> Places]
    <3>1. CASE todo[t] = {s}
      <4>1. tdNest[t] - 1 \in {-2, -1}
        BY <1>3
      <4> QED BY <1>1, <1>2, <3>1, <4>1, ZenonT(40) DEF Types, Places
    <3>2. CASE todo[t] # {s}
      BY <1>1, <1>2, <3>2 DEF Types
    <3> QED BY <3>1, <3>2
  <2> QED BY <1>1, <1>2, <2>1 DEF Types, semVars, heldVars
<1>9. Alone'
  <2>1. \A u \in Tasks \ {t} : ~Lists(u)
    BY <1>1 DEF SemInv, Alone, Lists
  <2>2. ~Works(t)' /\ pc'[t] # "first"
    BY <1>7 DEF Works
  <2>3. Lists(t)' => tdNest'[t] >= -1
    BY <1>3, <1>7 DEF Lists
  <2> QED BY <1>1, <1>2, <1>7, <2>1, <2>2, <2>3, AloneKept
<1>10. \A r \in Sems : t \in Waiters(r) => Lists(t)'
  <2>1. \A r \in Sems : pc'[t] = "run" => excl[r][t] > 0
    BY <1>5, <1>6, <1>7
  <2>2. pc'[t] = "second" => Lists(t)'
    BY DEF Lists
  <2> QED BY <1>7, <2>1, <2>2, WaitsWhere
<1>11. Inside(t)'
  <2>1. ListsRight(t)'
    BY <1>1, <1>5, <1>7 DEF ListsRight, heldVars
  <2>2. WorksRight(t)' /\ SleepsRight(t)'
    BY <1>7 DEF WorksRight, SleepsRight, Works
  <2> QED BY <2>1, <2>2 DEF Inside
<1>12. SemInv'
  BY <1>1, <1>2, <1>7, <1>8, <1>9, <1>10, <1>11, CalmStep DEF Works
<1> QED BY <1>4, <1>5, <1>6, <1>7, <1>12

\* ObtainSemaphoreList() goes to sleep for a semaphore, or wakes up.
LEMMA ListWaitStep ==
    ASSUME SemInv, NEW t \in Tasks, (\E s \in Sems : ListWait(t, s)) \/ ListAwake(t) PROVE SemInv'
<1>1. /\ pc[t] \in {"second", "listwait"} /\ MayRun(t)
      /\ single' \in { single, [single EXCEPT ![t] = FALSE] }
      /\ pc' \in { pc, [pc EXCEPT ![t] = "listwait"], [pc EXCEPT ![t] = "second"] }
      /\ tdNest' \in { tdNest, [tdNest EXCEPT ![t] = -1] }
      /\ UNCHANGED <<semVars, call, todo, heldVars>>
  BY DEF ListWait, ListAwake, At, Goto
<1>2. Types /\ OnlyMoves(t)
  BY OneMoves, TypesByName DEF InExec, SemInv
<1>3. pc'[t] \in {"second", "listwait"} /\ tdNest[t] >= -1 /\ tdNest'[t] >= -1
  BY <1>1, <1>2 DEF SemInv, Alone, Lists, Types
<1>4. Types'
  BY <1>1, <1>2 DEF Types, Places, semVars, heldVars
<1>5. Alone'
  <2>1. \A u \in Tasks \ {t} : ~Lists(u)
    BY <1>1 DEF SemInv, Alone, Lists
  <2> QED BY <1>1, <1>2, <1>3, <2>1, AloneKept DEF Works
<1>6. Inside(t)'
  <2>1. \A r \in Sems \ todo'[t] : excl'[r][t] > 0
    BY <1>1 DEF SemInv, Inside, ListsRight, heldVars
  <2>2. ListsRight(t)'
    BY <1>3, <2>1 DEF ListsRight
  <2>3. WorksRight(t)' /\ SleepsRight(t)'
    BY <1>3 DEF WorksRight, SleepsRight, Works
  <2> QED BY <2>2, <2>3 DEF Inside
<1>7. \A u \in Tasks \ {t} : single'[u] = single[u]
  BY <1>1, <1>2 DEF Types
<1> QED BY <1>1, <1>2, <1>3, <1>4, <1>5, <1>6, <1>7, CalmStep DEF Works, Lists

\* A call for a semaphore: where it goes on is decided by ss_QueueCount, which is
\* -1 for a semaphore that nobody holds.
LEMMA RequestStep ==
    ASSUME SemInv, Careful, NEW t \in Tasks, NEW s \in Sems,
           NEW mode \in {"exclusive", "shared"}, NEW wait \in BOOLEAN, Request(t, s, mode, wait),
           InExec(t) \/ Program(t),
           mode = "shared" /\ wait => ss_QueueCount[s] = -1 \/ MayNest(t, s, mode)
    PROVE  SemInv'
<1> DEFINE place == CASE ss_QueueCount[s] = -1  -> "claim"
                      [] ss_QueueCount[s] # -1 /\ MayNest(t, s, mode) -> "nest"
                      [] OTHER -> IF wait THEN "enqueue" ELSE "undo"
           new == [sem |-> s, mode |-> mode]
<1>1. /\ pc[t] = "run" /\ MayRun(t) /\ tdNest[t] = -1 /\ BelowBound(t, s)
      /\ tdNest' = [tdNest EXCEPT ![t] = @ + 1]
      /\ ss_QueueCount' = [ss_QueueCount EXCEPT ![s] = @ + 1]
      /\ call' = [call EXCEPT ![t] = new] /\ pc' = [pc EXCEPT ![t] = place]
      /\ UNCHANGED <<ss_Owner, ss_NestCount, ss_WaitQueue, single, todo, heldVars>>
  BY DEF Request, MayCall, At, Goto, Forbid
<1>2. Types /\ OnlyMoves(t) /\ Owned(s) /\ Queued(s) /\ Waiting(s)
  BY OneMoves, TypesByName DEF SemInv
<1>3. /\ place \in {"claim", "nest", "enqueue", "undo"}
      /\ place = "claim" => ss_QueueCount[s] = -1
      /\ place = "nest" => ss_QueueCount[s] # -1 /\ MayNest(t, s, mode)
      /\ place = "enqueue" => ss_QueueCount[s] # -1 /\ ~MayNest(t, s, mode) /\ mode = "exclusive"
  OBVIOUS
<1>4. new \in Calls /\ new.sem = s /\ new.mode = mode
  BY DEF Calls
<1> HIDE DEF place, new
<1>5. pc'[t] = place /\ call'[t] = new /\ tdNest'[t] = 0
  BY <1>1, <1>2 DEF Types
<1>6. ss_QueueCount[s] = ss_NestCount[s] + Len(ss_WaitQueue[s]) - 1 /\ ~Counted(s) /\ ~Releasing(s)
  <2>1. ~Counted(s) /\ ~Releasing(s)
    BY <1>1, <1>2, OnlyOneWorks
  <2>2. (IF Counted(s) THEN 1 ELSE 0) = 0
    BY <2>1
  <2>3. ss_NestCount[s] \in Int /\ Len(ss_WaitQueue[s]) \in Nat
    BY <1>2 DEF Types
  <2> QED BY <1>2, <2>1, <2>2, <2>3 DEF Queued
<1>7. ss_NestCount[s] \in Nat /\ Len(ss_WaitQueue[s]) \in Nat /\ ss_WaitQueue[s] \in Seq(Requests)
  BY <1>2, NestCounts DEF Types
<1>8. place = "claim" => ss_NestCount[s] = 0 /\ ss_WaitQueue[s] = <<>> /\ ss_Owner[s] = Nobody
  <2> HAVE place = "claim"
  <2>1. ss_NestCount[s] = 0 /\ Len(ss_WaitQueue[s]) = 0
    BY <1>3, <1>6, <1>7
  <2> QED BY <1>6, <1>7, <2>1, NestCounts
<1>9. place \in {"nest", "enqueue"} => ss_NestCount[s] > 0
  <2> HAVE place \in {"nest", "enqueue"}
  <2>1. ss_NestCount[s] > 0 \/ Len(ss_WaitQueue[s]) > 0
    BY <1>3, <1>6, <1>7
  <2>2. Len(ss_WaitQueue[s]) > 0 => ss_NestCount[s] > 0
    BY <1>2, <1>6, <1>7 DEF Queued
  <2> QED BY <2>1, <2>2
<1>10. Types'
  <2>1. tdNest' = [tdNest EXCEPT ![t] = 0]
    BY <1>1, <1>2 DEF Types
  <2>2. ss_QueueCount' \in [Sems -> Int]
    BY <1>1, <1>2 DEF Types
  <2>3. pc' \in [Tasks -> Places] /\ call' \in [Tasks -> Calls \cup {NoCall}]
    BY <1>1, <1>2, <1>3, <1>4 DEF Types, Places
  <2> QED BY <1>1, <1>2, <2>1, <2>2, <2>3 DEF Types, heldVars
<1>11. Alone'
  <2>1. ~Lists(t)' /\ pc'[t] # "run"
    BY <1>3, <1>5 DEF Lists
  <2> QED BY <1>1, <1>2, <1>5, <2>1, AloneKept
<1>12. Counted(s)' /\ ~Releasing(s)'
  BY <1>1, <1>2, <1>3, <1>4, <1>5, OnlyOneWorks
<1>13. Owned(s)'
  <2>1. SharedHolds(s)' = SharedHolds(s)
    BY <1>1 DEF SharedHolds, heldVars
  <2> QED BY <1>1, <1>2, <1>6, <1>12, <2>1 DEF Owned, heldVars
<1>14. Queued(s)'
  BY <1>1, <1>2, <1>6, <1>7, <1>12 DEF Queued, Types
<1>15. \A r \in Sems : t \notin Waiters(r)
  BY <1>1, WaitsWhere DEF Lists
<1>16. Waiting(s)'
  BY <1>1, <1>2, <1>15, StillWaiting DEF heldVars
<1>17. ASSUME NEW u \in Tasks \ {t} PROVE Inside(u)'
  <2>1. \A r \in Sems : excl'[r][u] = excl[r][u] /\ (u \in Waiters(r) => u \in Waiters(r)')
    BY <1>1 DEF Waiters, heldVars
  <2> QED BY <1>1, <1>2, <2>1, OthersKeep
<1>18. Inside(t)'
  <2>1. WorksRight(t)'
    BY <1>1, <1>3, <1>4, <1>5, <1>8, <1>9 DEF WorksRight, Works, MayNest, BelowBound, heldVars
  <2>2. SleepsRight(t)' /\ ListsRight(t)'
    BY <1>3, <1>5 DEF SleepsRight, ListsRight
  <2> QED BY <2>1, <2>2 DEF Inside
<1>19. \A r \in Sems \ {s} :
         /\ ss_Owner'[r] = ss_Owner[r] /\ ss_NestCount'[r] = ss_NestCount[r]
         /\ ss_QueueCount'[r] = ss_QueueCount[r] /\ ss_WaitQueue'[r] = ss_WaitQueue[r]
         /\ excl'[r] = excl[r] /\ shared'[r] = shared[r]
  BY <1>1, <1>2 DEF Types, heldVars
<1>20. ~Works(t) /\ call'[t].sem = s
  BY <1>1, <1>4, <1>5 DEF Works
<1> QED BY <1>1, <1>2, <1>10, <1>11, <1>13, <1>14, <1>15, <1>16, <1>17, <1>18, <1>19, <1>20, StepOnOne

\* Permit() at the end of a call that did not sleep.
LEMMA Returns ==
    ASSUME SemInv, NEW t \in Tasks, Works(t), MayRun(t), OnlyMoves(t), Return(t)
    PROVE  /\ pc'[t] = "run" /\ ~Works(t)' /\ Alone' /\ Inside(t)'
           /\ \A r \in Sems : t \notin Waiters(r) /\ ~Counted(r)' /\ ~Releasing(r)'
           /\ tdNest' \in [Tasks -> {-2, -1, 0}] /\ pc' \in [Tasks -> Places]
           /\ call' \in [Tasks -> Calls \cup {NoCall}]
<1>1. Types /\ tdNest[t] = 0
  BY TypesByName DEF SemInv, Alone
<1>2. /\ tdNest' = [tdNest EXCEPT ![t] = -1]
      /\ pc' = [pc EXCEPT ![t] = "run"] /\ call' = [call EXCEPT ![t] = NoCall]
  BY <1>1 DEF Return, Permit, Goto, Types
<1>3. /\ tdNest' \in [Tasks -> {-2, -1, 0}] /\ pc' \in [Tasks -> Places]
      /\ call' \in [Tasks -> Calls \cup {NoCall}]
  BY <1>1, <1>2 DEF Types, Places
<1>4. pc'[t] = "run" /\ tdNest'[t] = -1
  BY <1>1, <1>2 DEF Types
<1>5. Inside(t)'
  BY <1>4 DEF Inside, WorksRight, SleepsRight, ListsRight, Works
<1>6. ~Works(t)' /\ ~Lists(t)' /\ pc'[t] # "first"
  BY <1>4 DEF Works, Lists
<1>7. Alone'
  BY <1>4, <1>6, AloneKept
<1>8. \A r \in Sems : ~Counted(r)' /\ ~Releasing(r)'
  BY <1>4, OnlyOneWorks
<1>9. \A r \in Sems : t \notin Waiters(r)
  BY WaitsWhere DEF Works, Lists
<1> QED BY <1>3, <1>4, <1>5, <1>6, <1>7, <1>8, <1>9

\* A failed attempt: only ss_QueueCount comes back.
LEMMA UndoStep ==
    ASSUME SemInv, NEW t \in Tasks, Undo(t) PROVE SemInv'
<1>1. call[t].sem \in Sems
  BY DEF SemInv, Inside, WorksRight, Undo, At, Works
<1>2. PICK s \in Sems : s = call[t].sem
  BY <1>1
<1>3. /\ pc[t] = "undo" /\ MayRun(t) /\ Return(t)
      /\ ss_QueueCount' = [ss_QueueCount EXCEPT ![s] = @ - 1]
      /\ UNCHANGED <<ss_Owner, ss_NestCount, ss_WaitQueue, single, todo, heldVars>>
  BY <1>2 DEF Undo, At
<1>4. Types /\ OnlyMoves(t) /\ Works(t)
  BY <1>3, OneMoves, TypesByName DEF InExec, SemInv, Works
<1>5. Owned(s) /\ Queued(s) /\ Waiting(s)
  BY DEF SemInv
<1>6. Counted(s) /\ ~Releasing(s)
  BY <1>2, <1>3, <1>4, OnlyOneWorks
<1>7. /\ pc'[t] = "run" /\ ~Works(t)' /\ Alone' /\ Inside(t)'
      /\ \A r \in Sems : t \notin Waiters(r) /\ ~Counted(r)' /\ ~Releasing(r)'
      /\ tdNest' \in [Tasks -> {-2, -1, 0}] /\ pc' \in [Tasks -> Places]
      /\ call' \in [Tasks -> Calls \cup {NoCall}]
  BY <1>3, <1>4, Returns
<1>8. Types'
  BY <1>3, <1>4, <1>7 DEF Types, heldVars
<1>9. Owned(s)'
  <2>1. SharedHolds(s)' = SharedHolds(s)
    BY <1>3 DEF SharedHolds, heldVars
  <2> QED BY <1>3, <1>5, <1>6, <1>7, <2>1 DEF Owned, heldVars
<1>10. Queued(s)'
  <2>1. ss_NestCount[s] \in Int /\ Len(ss_WaitQueue[s]) \in Nat
    BY <1>4 DEF Types
  <2>2. (IF Counted(s) THEN 1 ELSE 0) = 1 /\ (IF Counted(s)' THEN 1 ELSE 0) = 0
    BY <1>6, <1>7
  <2>3. ss_QueueCount[s] = ss_NestCount[s] + Len(ss_WaitQueue[s])
    BY <1>5, <2>1, <2>2 DEF Queued
  <2>4. ss_QueueCount'[s] = ss_NestCount[s] + Len(ss_WaitQueue[s]) - 1
    BY <1>3, <1>4, <2>3 DEF Types
  <2>5. ss_WaitQueue[s] # <<>> => ss_NestCount[s] > 0
    BY <1>5, <1>6 DEF Queued
  <2> QED BY <1>3, <2>1, <2>2, <2>4, <2>5 DEF Queued
<1>11. Waiting(s)'
  BY <1>3, <1>4, <1>5, <1>7, StillWaiting DEF heldVars
<1>12. ASSUME NEW u \in Tasks \ {t} PROVE Inside(u)'
  <2>1. \A r \in Sems : excl'[r][u] = excl[r][u] /\ (u \in Waiters(r) => u \in Waiters(r)')
    BY <1>3 DEF Waiters, heldVars
  <2> QED BY <1>3, <1>4, <2>1, OthersKeep
<1>13. \A r \in Sems \ {s} :
         /\ ss_Owner'[r] = ss_Owner[r] /\ ss_NestCount'[r] = ss_NestCount[r]
         /\ ss_QueueCount'[r] = ss_QueueCount[r] /\ ss_WaitQueue'[r] = ss_WaitQueue[r]
         /\ excl'[r] = excl[r] /\ shared'[r] = shared[r]
  BY <1>3, <1>4 DEF Types, heldVars
<1> QED BY <1>3, <1>4, <1>7, <1>8, <1>9, <1>10, <1>11, <1>12, <1>13, <1>2, StepOnOne

\* A free semaphore gets its first holder.
LEMMA ClaimStep ==
    ASSUME SemInv, NEW t \in Tasks, Claim(t) PROVE SemInv'
<1>1. call[t].sem \in Sems
  BY DEF SemInv, Inside, WorksRight, Claim, At, Works
<1>2. PICK s \in Sems : s = call[t].sem
  BY <1>1
<1>3. /\ pc[t] = "claim" /\ MayRun(t) /\ Return(t)
      /\ \/ /\ ss_Owner' = [ss_Owner EXCEPT ![s] = t]
            /\ ss_NestCount' = [ss_NestCount EXCEPT ![s] = 1]
            /\ excl' = [excl EXCEPT ![s][t] = @ + 1] /\ UNCHANGED shared
         \/ /\ ss_Owner' = [ss_Owner EXCEPT ![s] = Nobody]
            /\ ss_NestCount' = [ss_NestCount EXCEPT ![s] = @ + 1]
            /\ shared' = [shared EXCEPT ![s][t] = @ + 1] /\ UNCHANGED excl
      /\ UNCHANGED <<ss_QueueCount, ss_WaitQueue, single, todo>>
  BY <1>2 DEF Claim, At
<1>4. Types /\ OnlyMoves(t) /\ Works(t) /\ Owned(s) /\ Queued(s) /\ Waiting(s)
  BY <1>3, OneMoves, TypesByName DEF InExec, SemInv, Works
<1>5. Counted(s) /\ ~Releasing(s)
  BY <1>2, <1>3, <1>4, OnlyOneWorks
<1>6. /\ ss_NestCount[s] = 0 /\ ss_WaitQueue[s] = <<>> /\ ss_Owner[s] = Nobody
      /\ excl[s][t] + shared[s][t] < MaxNest
  BY <1>2, <1>3 DEF SemInv, Inside, WorksRight
<1>7. /\ \A u \in Tasks : excl[s][u] = 0 /\ shared[s][u] = 0
      /\ SharedHolds(s) = {}
  BY <1>6, NestCounts
<1>17. PICK one \in 0 .. MaxNest : one = 1
  BY MaxNestAssumption
<1>8. /\ pc'[t] = "run" /\ ~Works(t)' /\ Alone' /\ Inside(t)'
      /\ \A r \in Sems : t \notin Waiters(r) /\ ~Counted(r)' /\ ~Releasing(r)'
      /\ tdNest' \in [Tasks -> {-2, -1, 0}] /\ pc' \in [Tasks -> Places]
      /\ call' \in [Tasks -> Calls \cup {NoCall}]
  BY <1>3, <1>4, Returns
<1>9. /\ ss_NestCount' = [ss_NestCount EXCEPT ![s] = 1]
      /\ \/ /\ ss_Owner' = [ss_Owner EXCEPT ![s] = t]
            /\ excl' = [excl EXCEPT ![s][t] = one] /\ UNCHANGED shared
         \/ /\ ss_Owner' = [ss_Owner EXCEPT ![s] = Nobody]
            /\ shared' = [shared EXCEPT ![s][t] = one] /\ UNCHANGED excl
  <2>1. [excl EXCEPT ![s][t] = @ + 1] = [excl EXCEPT ![s][t] = one]
    <3>1. excl[s][t] + 1 = one
      BY <1>7, <1>17
    <3> QED BY <3>1, Zenon
  <2>2. [shared EXCEPT ![s][t] = @ + 1] = [shared EXCEPT ![s][t] = one]
    <3>1. shared[s][t] + 1 = one
      BY <1>7, <1>17
    <3> QED BY <3>1, Zenon
  <2>3. [ss_NestCount EXCEPT ![s] = @ + 1] = [ss_NestCount EXCEPT ![s] = 1]
    BY <1>6
  <2> QED BY <1>3, <2>1, <2>2, <2>3
<1>10. /\ excl' \in Holds /\ shared' \in Holds
       /\ \A r \in Sems \ {s} : excl'[r] = excl[r] /\ shared'[r] = shared[r]
       /\ \A u \in Tasks \ {t} : excl'[s][u] = 0
  <2>1. excl \in Holds /\ shared \in Holds
    BY <1>4 DEF Types
  <2>2. CASE excl' = [excl EXCEPT ![s][t] = one] /\ UNCHANGED shared
    <3>1. /\ excl' \in Holds
          /\ \A u \in Tasks \ {t} : excl'[s][u] = excl[s][u]
          /\ \A r \in Sems \ {s} : excl'[r] = excl[r]
      BY <1>4, <2>2, ExclSet
    <3> QED BY <1>7, <2>1, <2>2, <3>1
  <2>3. CASE shared' = [shared EXCEPT ![s][t] = one] /\ UNCHANGED excl
    <3>1. shared' \in Holds /\ \A r \in Sems \ {s} : shared'[r] = shared[r]
      BY <1>4, <2>3, SharedSet
    <3> QED BY <1>7, <2>1, <2>3, <3>1
  <2> QED BY <1>9, <2>2, <2>3
<1>11. Types'
  <2>1. ss_Owner' \in [Sems -> Tasks \cup {Nobody, Odd}] /\ ss_NestCount' \in [Sems -> Int]
    <3>1. ss_Owner \in [Sems -> Tasks \cup {Nobody, Odd}] /\ ss_NestCount \in [Sems -> Int]
      BY <1>4 DEF Types
    <3>2. \E w \in Tasks \cup {Nobody, Odd} : ss_Owner' = [ss_Owner EXCEPT ![s] = w]
      BY <1>9
    <3> QED BY <1>9, <3>1, <3>2
  <2> QED BY <1>3, <1>4, <1>8, <1>10, <2>1 DEF Types
<1>12. Owned(s)'
  <2>1. ss_NestCount'[s] = 1 /\ ~Releasing(s)'
    BY <1>4, <1>8, <1>9 DEF Types
  <2>2. CASE ss_Owner' = [ss_Owner EXCEPT ![s] = t] /\ excl' = [excl EXCEPT ![s][t] = one] /\ UNCHANGED shared
    <3>1. ss_Owner'[s] = t /\ excl'[s][t] = 1
      <4>1. excl \in Holds
        BY <1>4 DEF Types
      <4>2. excl'[s][t] = one
        BY <2>2, <4>1, HoldSet
      <4> QED BY <1>4, <1>17, <2>2, <4>2 DEF Types
    <3>2. SharedHolds(s)' = {}
      BY <1>7, <2>2 DEF SharedHolds
    <3> QED BY <1>10, <2>1, <3>1, <3>2, FS_EmptySet, TasksAssumption DEF Owned
  <2>3. CASE /\ ss_Owner' = [ss_Owner EXCEPT ![s] = Nobody]
             /\ shared' = [shared EXCEPT ![s][t] = one] /\ UNCHANGED excl
    <3>1. ss_Owner'[s] = Nobody /\ \A u \in Tasks : excl'[s][u] = 0
      BY <1>4, <1>7, <2>3 DEF Types
    <3>2. IsFiniteSet(SharedHolds(s)') /\ Cardinality(SharedHolds(s)') = 0 + 1
      <4>1. IsFiniteSet(SharedHolds(s)) /\ Cardinality(SharedHolds(s)) = 0
        BY <1>7, FS_EmptySet
      <4>2. one = shared[s][t] + 1
        BY <1>7, <1>17
      <4> QED BY <1>4, <2>3, <4>1, <4>2, SharedOneMore
    <3> QED BY <2>1, <3>1, <3>2, TasksAssumption DEF Owned
  <2> QED BY <1>9, <2>2, <2>3
<1>13. Queued(s)'
  <2>1. Len(ss_WaitQueue[s]) = 0
    BY <1>6
  <2>2. (IF Counted(s) THEN 1 ELSE 0) = 1 /\ (IF Counted(s)' THEN 1 ELSE 0) = 0
    BY <1>5, <1>8
  <2>3. ss_QueueCount[s] = 0
    BY <1>4, <1>6, <2>1, <2>2 DEF Queued
  <2> QED BY <1>3, <1>4, <1>6, <1>9, <2>1, <2>2, <2>3 DEF Queued, Types
<1>14. Waiting(s)'
  BY <1>3, <1>6 DEF Waiting
<1>15. ASSUME NEW u \in Tasks \ {t} PROVE Inside(u)'
  <2>1. \A r \in Sems : excl'[r][u] = excl[r][u] /\ (u \in Waiters(r) => u \in Waiters(r)')
    BY <1>3, <1>7, <1>10 DEF Waiters
  <2> QED BY <1>3, <1>4, <2>1, OthersKeep
<1>16. \A r \in Sems \ {s} :
         /\ ss_Owner'[r] = ss_Owner[r] /\ ss_NestCount'[r] = ss_NestCount[r]
         /\ ss_QueueCount'[r] = ss_QueueCount[r] /\ ss_WaitQueue'[r] = ss_WaitQueue[r]
         /\ excl'[r] = excl[r] /\ shared'[r] = shared[r]
  BY <1>3, <1>4, <1>9, <1>10 DEF Types
<1> QED BY <1>2, <1>3, <1>4, <1>8, <1>11, <1>12, <1>13, <1>14, <1>15, <1>16, StepOnOne


\* A task nests: on what it owns, or in shared mode on what nobody owns.
LEMMA NestStep ==
    ASSUME SemInv, NEW t \in Tasks, Nest(t) PROVE SemInv'
<1>1. call[t].sem \in Sems
  BY DEF SemInv, Inside, WorksRight, Nest, At, Works
<1>2. PICK s \in Sems : s = call[t].sem
  BY <1>1
<1>3. /\ pc[t] = "nest" /\ MayRun(t) /\ Return(t)
      /\ ss_NestCount' = [ss_NestCount EXCEPT ![s] = @ + 1]
      /\ \/ /\ ss_Owner[s] = t
            /\ excl' = [excl EXCEPT ![s][t] = @ + 1] /\ UNCHANGED shared
         \/ /\ ss_Owner[s] # t
            /\ shared' = [shared EXCEPT ![s][t] = @ + 1] /\ UNCHANGED excl
      /\ UNCHANGED <<ss_Owner, ss_QueueCount, ss_WaitQueue, single, todo>>
  BY <1>2 DEF Nest, At
<1>4. Types /\ OnlyMoves(t) /\ Works(t) /\ Owned(s) /\ Queued(s) /\ Waiting(s)
  BY <1>3, OneMoves, TypesByName DEF InExec, SemInv, Works
<1>5. Counted(s) /\ ~Releasing(s)
  BY <1>2, <1>3, <1>4, OnlyOneWorks
<1>6. /\ ss_NestCount[s] > 0 /\ ss_Owner[s] \in {t, Nobody}
      /\ excl[s][t] + shared[s][t] < MaxNest
  BY <1>2, <1>3 DEF SemInv, Inside, WorksRight, MayNest
<1>7. /\ pc'[t] = "run" /\ ~Works(t)' /\ Alone' /\ Inside(t)'
      /\ \A r \in Sems : t \notin Waiters(r) /\ ~Counted(r)' /\ ~Releasing(r)'
      /\ tdNest' \in [Tasks -> {-2, -1, 0}] /\ pc' \in [Tasks -> Places]
      /\ call' \in [Tasks -> Calls \cup {NoCall}]
  BY <1>3, <1>4, Returns
<1>8. /\ excl \in Holds /\ shared \in Holds /\ ss_NestCount[s] \in Int
      /\ \A u \in Tasks : excl[s][u] \in 0 .. MaxNest /\ shared[s][u] \in 0 .. MaxNest
  BY <1>4 DEF Types, Holds
<1>9. excl[s][t] + 1 \in 0 .. MaxNest /\ shared[s][t] + 1 \in 0 .. MaxNest
  BY <1>6, <1>8, MaxNestAssumption
<1>10. /\ ss_NestCount' \in [Sems -> Int] /\ ss_NestCount'[s] = ss_NestCount[s] + 1
       /\ \A r \in Sems \ {s} : ss_NestCount'[r] = ss_NestCount[r]
  BY <1>3, <1>4, <1>8 DEF Types
<1>11. /\ excl' \in Holds /\ shared' \in Holds /\ Owned(s)'
       /\ \A r \in Sems \ {s} : excl'[r] = excl[r] /\ shared'[r] = shared[r]
       /\ \A u \in Tasks \ {t} : excl'[s][u] = excl[s][u]
  <2>1. CASE ss_Owner[s] = t
    <3>1. PICK n \in 0 .. MaxNest : n = excl[s][t] + 1
      BY <1>9
    <3>2. [excl EXCEPT ![s][t] = @ + 1] = [excl EXCEPT ![s][t] = n]
      BY <3>1, Zenon
    <3>3. excl' = [excl EXCEPT ![s][t] = n] /\ shared' = shared
      BY <1>3, <2>1, <3>2
    <3>4. /\ excl' \in Holds /\ excl'[s][t] = n
          /\ \A u \in Tasks \ {t} : excl'[s][u] = excl[s][u]
          /\ \A r \in Sems \ {s} : excl'[r] = excl[r]
      BY <1>4, <3>3, ExclSet
    <3>5. excl[s][t] > 0 /\ ss_NestCount[s] = excl[s][t] /\ SharedHolds(s) = {}
      BY <1>4, <1>5, <2>1 DEF Owned
    <3>6. SharedHolds(s)' = {}
      BY <3>3, <3>5 DEF SharedHolds
    <3>7. \A u \in Tasks \ {t} : excl'[s][u] = 0
      BY <1>4, <1>8, <2>1, <3>4 DEF Owned
    <3>8. ss_Owner'[s] = t /\ ss_NestCount'[s] = n /\ n > 0
      BY <1>3, <1>8, <1>10, <2>1, <3>1, <3>5
    <3>9. Owned(s)'
      BY <1>7, <3>4, <3>6, <3>7, <3>8, FS_EmptySet, TasksAssumption DEF Owned
    <3> QED BY <1>8, <3>3, <3>4, <3>9
  <2>2. CASE ss_Owner[s] # t
    <3>1. PICK n \in 0 .. MaxNest : n = shared[s][t] + 1
      BY <1>9
    <3>2. [shared EXCEPT ![s][t] = @ + 1] = [shared EXCEPT ![s][t] = n]
      BY <3>1, Zenon
    <3>3. shared' = [shared EXCEPT ![s][t] = n] /\ excl' = excl
      BY <1>3, <2>2, <3>2
    <3>4. shared' \in Holds /\ \A r \in Sems \ {s} : shared'[r] = shared[r]
      BY <1>4, <3>3, SharedSet
    <3>5. ss_Owner[s] = Nobody /\ \A u \in Tasks : excl[s][u] = 0
      BY <1>4, <1>6, <1>8, <2>2, TasksAssumption DEF Owned
    <3>6. /\ IsFiniteSet(SharedHolds(s)')
          /\ Cardinality(SharedHolds(s)') = Cardinality(SharedHolds(s)) + 1
      BY <1>4, <3>1, <3>3, SharedOneMore DEF Owned
    <3>7. ss_NestCount'[s] = Cardinality(SharedHolds(s)')
      BY <1>4, <1>10, <3>5, <3>6 DEF Owned
    <3>8. ss_Owner'[s] = Nobody /\ \A u \in Tasks : excl'[s][u] = 0
      BY <1>3, <3>3, <3>5
    <3>9. Owned(s)'
      BY <1>7, <3>6, <3>7, <3>8, TasksAssumption DEF Owned
    <3> QED BY <1>8, <3>3, <3>4, <3>9
  <2> QED BY <2>1, <2>2
<1>12. Types'
  BY <1>3, <1>4, <1>7, <1>10, <1>11 DEF Types
<1>13. Queued(s)'
  <2>1. (IF Counted(s) THEN 1 ELSE 0) = 1 /\ (IF Counted(s)' THEN 1 ELSE 0) = 0
    BY <1>5, <1>7
  <2>2. Len(ss_WaitQueue[s]) \in Nat /\ ss_WaitQueue'[s] = ss_WaitQueue[s]
    BY <1>3, <1>4 DEF Types
  <2>3. ss_QueueCount'[s] = ss_NestCount[s] + Len(ss_WaitQueue[s])
    BY <1>3, <1>4, <1>8, <2>1, <2>2 DEF Queued
  <2> QED BY <1>6, <1>8, <1>10, <2>1, <2>2, <2>3, SMTT(30) DEF Queued
<1>14. Waiting(s)'
  <2>1. \A u \in Waiters(s) : excl'[s][u] = excl[s][u]
    <3> SUFFICES ASSUME NEW u \in Waiters(s) PROVE excl'[s][u] = excl[s][u]
      OBVIOUS
    <3>1. u \in Tasks
      BY <1>4, WaitersAreTasks
    <3> QED BY <1>7, <1>11, <3>1
  <2> QED BY <1>3, <1>4, <1>7, <2>1, WaitersKept
<1>15. ASSUME NEW u \in Tasks \ {t} PROVE Inside(u)'
  <2>1. \A r \in Sems : excl'[r][u] = excl[r][u] /\ (u \in Waiters(r) => u \in Waiters(r)')
    BY <1>3, <1>11 DEF Waiters
  <2> QED BY <1>3, <1>4, <2>1, OthersKeep
<1>16. \A r \in Sems \ {s} :
         /\ ss_Owner'[r] = ss_Owner[r] /\ ss_NestCount'[r] = ss_NestCount[r]
         /\ ss_QueueCount'[r] = ss_QueueCount[r] /\ ss_WaitQueue'[r] = ss_WaitQueue[r]
         /\ excl'[r] = excl[r] /\ shared'[r] = shared[r]
  BY <1>3, <1>10, <1>11
<1> QED BY <1>2, <1>3, <1>4, <1>7, <1>11, <1>12, <1>13, <1>14, <1>15, <1>16, StepOnOne

\* A task joins the wait queue of a semaphore that it does not hold.
LEMMA Joins ==
    ASSUME SemInv, NEW t \in Tasks, OnlyMoves(t), NEW s \in Sems,
           t \notin Waiters(s), excl[s][t] = 0, excl'[s] = excl[s],
           ss_WaitQueue' = [ss_WaitQueue EXCEPT ![s] = Append(@, [task |-> t, waiter |-> t])],
           (pc'[t] = "wait" /\ call'[t].sem = s) \/ Lists(t)'
    PROVE  /\ ss_WaitQueue' \in [Sems -> Seq(Requests)] /\ Waiting(s)'
           /\ ss_WaitQueue'[s] # <<>> /\ Len(ss_WaitQueue'[s]) = Len(ss_WaitQueue[s]) + 1
           /\ Waiters(s)' = Waiters(s) \cup {t}
           /\ \A r \in Sems \ {s} : ss_WaitQueue'[r] = ss_WaitQueue[r]
<1> DEFINE q == ss_WaitQueue[s]
           new == [task |-> t, waiter |-> t]
           p == Append(q, new)
<1>1. Types /\ Waiting(s)
  BY TypesByName DEF SemInv
<1>2. q \in Seq(Requests) /\ new \in Requests /\ new.task = t /\ new.waiter = t
  BY <1>1 DEF Types, Requests
<1>3. ss_WaitQueue' \in [Sems -> Seq(Requests)]
  <2>1. p \in Seq(Requests)
    BY <1>2
  <2>2. ss_WaitQueue' = [ss_WaitQueue EXCEPT ![s] = p]
    OBVIOUS
  <2> HIDE DEF p
  <2> QED BY <1>1, <2>1, <2>2 DEF Types
<1>4. ss_WaitQueue'[s] = p /\ \A r \in Sems \ {s} : ss_WaitQueue'[r] = ss_WaitQueue[r]
  BY <1>1 DEF Types
<1> HIDE DEF new
<1>5. /\ Len(p) = Len(q) + 1 /\ p # <<>> /\ p[Len(q) + 1] = new
      /\ \A i \in 1 .. Len(q) : p[i] = q[i]
  <2> HIDE DEF q
  <2> QED BY <1>2
<1>6. Len(q) \in Nat /\ \A i \in 1 .. Len(q) : q[i].task \in Tasks
  <2>1. \A i \in 1 .. Len(q) : q[i] \in Requests
    BY <1>2
  <2> QED BY <1>2, <2>1 DEF Requests
<1>7. \A i \in 1 .. Len(q) : q[i].task # t
  BY DEF Waiters
<1>8. \A i \in 1 .. Len(q) :
        /\ q[i].waiter = q[i].task /\ excl[s][q[i].task] = 0
        /\ (pc[q[i].task] = "wait" /\ call[q[i].task].sem = s)
              \/ pc[q[i].task] \in {"first", "second", "listwait"}
  BY <1>1 DEF Waiting, Lists
<1>9. \A i, j \in 1 .. Len(q) : q[i].task = q[j].task => i = j
  BY <1>1 DEF Waiting
<1>10. \A i \in 1 .. Len(p) : i \in 1 .. Len(q) \/ i = Len(q) + 1
  BY <1>5, <1>6
<1>11. Waiters(s)' = { p[i].task : i \in 1 .. Len(p) }
  BY <1>4 DEF Waiters
<1> HIDE DEF p
<1>12. \A i \in 1 .. Len(p) :
         /\ p[i].waiter = p[i].task /\ excl'[s][p[i].task] = 0
         /\ (pc'[p[i].task] = "wait" /\ call'[p[i].task].sem = s)
               \/ pc'[p[i].task] \in {"first", "second", "listwait"}
  <2> SUFFICES ASSUME NEW i \in 1 .. Len(p)
               PROVE  /\ p[i].waiter = p[i].task /\ excl'[s][p[i].task] = 0
                      /\ (pc'[p[i].task] = "wait" /\ call'[p[i].task].sem = s)
                            \/ pc'[p[i].task] \in {"first", "second", "listwait"}
    OBVIOUS
  <2>1. CASE i \in 1 .. Len(q)
    <3>1. p[i] = q[i] /\ q[i].task \in Tasks \ {t}
      BY <1>5, <1>6, <1>7, <2>1
    <3>2. pc'[q[i].task] = pc[q[i].task] /\ call'[q[i].task] = call[q[i].task]
      BY <3>1 DEF OnlyMoves
    <3> HIDE DEF q
    <3> QED BY <1>8, <2>1, <3>1, <3>2
  <2>2. CASE i = Len(q) + 1
    <3>1. p[i].task = t /\ p[i].waiter = t
      BY <1>2, <1>5, <2>2
    <3> QED BY <3>1 DEF Lists
  <2> QED BY <1>10, <2>1, <2>2
<1>13. \A i, j \in 1 .. Len(p) : p[i].task = p[j].task => i = j
  <2> HIDE DEF q
  <2> QED BY <1>2, <1>5, <1>7, <1>9, <1>10
<1>14. Waiting(s)'
  <2>1. \A i \in 1 .. Len(ss_WaitQueue'[s]) :
          /\ ss_WaitQueue'[s][i].waiter = ss_WaitQueue'[s][i].task
          /\ excl'[s][ss_WaitQueue'[s][i].task] = 0
          /\ \/ pc'[ss_WaitQueue'[s][i].task] = "wait" /\ call'[ss_WaitQueue'[s][i].task].sem = s
             \/ pc'[ss_WaitQueue'[s][i].task] \in {"first", "second", "listwait"}
    BY <1>4, <1>12
  <2>2. \A i, j \in 1 .. Len(ss_WaitQueue'[s]) :
          ss_WaitQueue'[s][i].task = ss_WaitQueue'[s][j].task => i = j
    BY <1>4, <1>13
  <2> QED BY <2>1, <2>2 DEF Waiting, Lists
<1>15. { p[i].task : i \in 1 .. Len(p) } = { q[i].task : i \in 1 .. Len(q) } \cup {t}
  <2> HIDE DEF q
  <2>1. \A i \in 1 .. Len(q) : i \in 1 .. Len(p)
    BY <1>5, <1>6
  <2>2. Len(q) + 1 \in 1 .. Len(p)
    BY <1>5, <1>6
  <2> QED BY <1>2, <1>5, <1>10, <2>1, <2>2
<1>16. Waiters(s)' = Waiters(s) \cup {t}
  BY <1>11, <1>15 DEF Waiters
<1> QED BY <1>3, <1>4, <1>5, <1>14, <1>16

\* The task waits for the semaphore that another task has.
LEMMA EnterQueueStep ==
    ASSUME SemInv, NEW t \in Tasks, EnterQueue(t) PROVE SemInv'
<1>1. call[t].sem \in Sems
  BY DEF SemInv, Inside, WorksRight, EnterQueue, At, Works
<1>2. PICK s \in Sems : s = call[t].sem
  BY <1>1
<1>3. /\ call[t].mode = "exclusive" /\ ss_NestCount[s] > 0 /\ ss_Owner[s] # t
      /\ pc[t] = "enqueue" /\ MayRun(t)
  BY <1>2 DEF SemInv, Inside, WorksRight, EnterQueue, At
<1>4. /\ pc' = [pc EXCEPT ![t] = "wait"] /\ single' = [single EXCEPT ![t] = FALSE]
      /\ ss_WaitQueue' = [ss_WaitQueue EXCEPT ![s] = Append(@, [task |-> t, waiter |-> t])]
      /\ UNCHANGED <<ss_Owner, ss_NestCount, ss_QueueCount, tdNest, call, todo, heldVars>>
  <2>1. ss_WaitQueue' = [ss_WaitQueue EXCEPT ![s] = Append(@, [task |-> t,
                waiter |-> IF call[t].mode = "exclusive" THEN t ELSE Odd])]
    BY <1>2 DEF EnterQueue
  <2>2. (IF call[t].mode = "exclusive" THEN t ELSE Odd) = t
    BY <1>3
  <2>3. ss_WaitQueue' = [ss_WaitQueue EXCEPT ![s] = Append(@, [task |-> t, waiter |-> t])]
    BY <2>1, <2>2, Zenon
  <2> QED BY <2>3 DEF EnterQueue, Goto
<1>5. Types /\ OnlyMoves(t) /\ Works(t) /\ Owned(s) /\ Queued(s)
  BY <1>3, OneMoves, TypesByName DEF InExec, SemInv, Works
<1>6. pc'[t] = "wait" /\ call'[t] = call[t] /\ tdNest'[t] = tdNest[t] /\ ~single'[t]
  BY <1>4, <1>5 DEF Types
<1>7. Counted(s) /\ ~Releasing(s) /\ ~Counted(s)' /\ ~Releasing(s)'
  BY <1>2, <1>3, <1>5, <1>6, OnlyOneWorks
<1>8. excl[s][t] = 0 /\ \A r \in Sems : t \notin Waiters(r)
  <2>1. excl[s][t] \in Nat
    BY <1>5, MaxNestAssumption DEF Types, Holds
  <2>2. \A r \in Sems : t \notin Waiters(r)
    BY <1>5, WaitsWhere DEF Works, Lists
  <2> QED BY <1>3, <1>5, <2>1, <2>2 DEF Owned
<1>9. /\ ss_WaitQueue' \in [Sems -> Seq(Requests)] /\ Waiting(s)'
      /\ ss_WaitQueue'[s] # <<>> /\ Len(ss_WaitQueue'[s]) = Len(ss_WaitQueue[s]) + 1
      /\ Waiters(s)' = Waiters(s) \cup {t}
      /\ \A r \in Sems \ {s} : ss_WaitQueue'[r] = ss_WaitQueue[r]
  <2>1. excl'[s] = excl[s] /\ call'[t].sem = s
    BY <1>2, <1>4, <1>6 DEF heldVars
  <2> QED BY <1>4, <1>5, <1>6, <1>8, <2>1, Joins
<1>10. Types'
  <2>1. pc' \in [Tasks -> Places] /\ single' \in [Tasks -> BOOLEAN]
    BY <1>4, <1>5 DEF Types, Places
  <2>2. UNCHANGED <<ss_Owner, ss_NestCount, ss_QueueCount, tdNest, call, todo, excl, shared>>
    BY <1>4 DEF heldVars
  <2> QED BY <1>5, <1>9, <2>1, <2>2 DEF Types
<1>11. Alone'
  BY <1>3, <1>5, <1>6, AloneKept DEF Works, Lists
<1>12. Owned(s)'
  <2>1. SharedHolds(s)' = SharedHolds(s)
    BY <1>4 DEF SharedHolds, heldVars
  <2> QED BY <1>4, <1>5, <1>7, <2>1 DEF Owned, heldVars
<1>13. Queued(s)'
  <2>1. (IF Counted(s) THEN 1 ELSE 0) = 1 /\ (IF Counted(s)' THEN 1 ELSE 0) = 0
    BY <1>7
  <2>2. Len(ss_WaitQueue[s]) \in Nat /\ ss_NestCount[s] \in Int
    BY <1>5 DEF Types
  <2>3. ss_QueueCount'[s] = ss_NestCount[s] + Len(ss_WaitQueue[s])
    BY <1>4, <1>5, <2>1, <2>2 DEF Queued
  <2> QED BY <1>3, <1>4, <1>9, <2>1, <2>2, <2>3 DEF Queued
<1>14. ASSUME NEW r \in Sems PROVE Waiters(r) \subseteq Waiters(r)'
  <2>1. CASE r = s
    <3>1. Waiters(s) \subseteq { ss_WaitQueue'[s][i].task : i \in 1 .. Len(ss_WaitQueue'[s]) }
      BY <1>9 DEF Waiters
    <3> QED BY <2>1, <3>1, ZenonT(40) DEF Waiters
  <2>2. CASE r # s
    BY <1>9, <2>2 DEF Waiters
  <2> QED BY <2>1, <2>2
<1>15. ASSUME NEW u \in Tasks \ {t} PROVE Inside(u)'
  <2>1. single'[u] = single[u]
    BY <1>4, <1>5 DEF Types
  <2>2. \A r \in Sems : excl'[r][u] = excl[r][u] /\ (u \in Waiters(r) => u \in Waiters(r)')
    BY <1>4, <1>14 DEF heldVars
  <2> QED BY <1>3, <1>5, <2>1, <2>2, OthersKeep
<1>16. Inside(t)'
  <2>1. t \in { ss_WaitQueue'[s][i].task : i \in 1 .. Len(ss_WaitQueue'[s]) }
    BY <1>9 DEF Waiters
  <2>2. t \in Waiters(call[t].sem)'
    BY <1>2, <1>6, <2>1 DEF Waiters
  <2>3. SleepsRight(t)'
    BY <1>1, <1>6, <2>2 DEF SleepsRight
  <2>4. WorksRight(t)' /\ ListsRight(t)'
    BY <1>6 DEF WorksRight, ListsRight, Works
  <2> QED BY <2>3, <2>4 DEF Inside
<1>17. \A r \in Sems \ {s} :
         /\ ss_Owner'[r] = ss_Owner[r] /\ ss_NestCount'[r] = ss_NestCount[r]
         /\ ss_QueueCount'[r] = ss_QueueCount[r] /\ ss_WaitQueue'[r] = ss_WaitQueue[r]
         /\ excl'[r] = excl[r] /\ shared'[r] = shared[r]
  BY <1>4, <1>9 DEF heldVars
<1>18. ~Works(t)'
  BY <1>6 DEF Works
<1> QED BY <1>2, <1>3, <1>5, <1>8, <1>9, <1>10, <1>11, <1>12, <1>13, <1>15, <1>16, <1>17, <1>18, StepOnOne

\* One holder less: the last one goes on to the waiters.
LEMMA ReleaseSemaphoreStep ==
    ASSUME SemInv, Careful, NEW t \in Tasks, NEW s \in Sems, ReleaseSemaphore(t, s)
    PROVE  SemInv'
<1> DEFINE new == [sem |-> s, mode |-> "exclusive"]
<1>1. /\ pc[t] = "run" /\ MayRun(t) /\ tdNest[t] = -1
      /\ \/ excl[s][t] > 0 /\ excl' = [excl EXCEPT ![s][t] = @ - 1] /\ UNCHANGED shared
         \/ shared[s][t] > 0 /\ shared' = [shared EXCEPT ![s][t] = @ - 1] /\ UNCHANGED excl
      /\ ss_NestCount' = [ss_NestCount EXCEPT ![s] = @ - 1]
      /\ ss_QueueCount' = [ss_QueueCount EXCEPT ![s] = @ - 1]
      /\ IF ss_NestCount[s] = 1
         THEN /\ pc' = [pc EXCEPT ![t] = "release"] /\ tdNest' = [tdNest EXCEPT ![t] = @ + 1]
              /\ call' = [call EXCEPT ![t] = new]
         ELSE UNCHANGED <<pc, tdNest, call>>
      /\ UNCHANGED <<ss_Owner, ss_WaitQueue, single, todo>>
  BY DEF ReleaseSemaphore, MayCall, At, Goto, Forbid
<1>2. Types /\ OnlyMoves(t) /\ Owned(s) /\ Queued(s) /\ Waiting(s)
  BY OneMoves, TypesByName DEF SemInv, Program
<1>3. new \in Calls /\ new.sem = s
  BY DEF Calls
<1> HIDE DEF new
<1>4. ~Counted(s) /\ ~Releasing(s)
  BY <1>1, <1>2, OnlyOneWorks
<1>5. /\ excl \in Holds /\ shared \in Holds /\ ss_NestCount[s] \in Nat
      /\ ss_NestCount'[s] = ss_NestCount[s] - 1 /\ ss_QueueCount'[s] = ss_QueueCount[s] - 1
      /\ ss_QueueCount[s] \in Int /\ Len(ss_WaitQueue[s]) \in Nat
      /\ \A u \in Tasks : excl[s][u] \in 0 .. MaxNest /\ shared[s][u] \in 0 .. MaxNest
  BY <1>1, <1>2, NestCounts DEF Types, Holds
<1>6. /\ excl' \in Holds /\ shared' \in Holds /\ ss_NestCount[s] > 0
      /\ \A r \in Sems \ {s} : excl'[r] = excl[r] /\ shared'[r] = shared[r]
      /\ \A u \in Tasks \ {t} : excl'[s][u] = excl[s][u]
      /\ \/ /\ ss_Owner[s] = t /\ excl'[s][t] = ss_NestCount'[s] /\ SharedHolds(s)' = {}
            /\ \A u \in Tasks \ {t} : excl'[s][u] = 0
         \/ /\ ss_Owner[s] = Nobody /\ \A u \in Tasks : excl'[s][u] = 0
            /\ IsFiniteSet(SharedHolds(s)') /\ ss_NestCount'[s] = Cardinality(SharedHolds(s)')
  <2>1. CASE excl[s][t] > 0 /\ excl' = [excl EXCEPT ![s][t] = @ - 1] /\ UNCHANGED shared
    <3>1. PICK n \in 0 .. MaxNest : n = excl[s][t] - 1
      <4>1. excl[s][t] - 1 \in 0 .. MaxNest
        BY <1>5, <2>1, MaxNestAssumption
      <4> QED BY <4>1
    <3>2. [excl EXCEPT ![s][t] = @ - 1] = [excl EXCEPT ![s][t] = n]
      BY <3>1, Zenon
    <3>3. excl' = [excl EXCEPT ![s][t] = n] /\ shared' = shared
      BY <2>1, <3>2
    <3>4. /\ excl' \in Holds /\ excl'[s][t] = n
          /\ \A u \in Tasks \ {t} : excl'[s][u] = excl[s][u]
          /\ \A r \in Sems \ {s} : excl'[r] = excl[r]
      BY <1>2, <3>3, ExclSet
    <3>5. ss_Owner[s] = t /\ ss_NestCount[s] = excl[s][t] /\ SharedHolds(s) = {}
      BY <1>2, <2>1 DEF Owned
    <3>6. SharedHolds(s)' = {}
      BY <3>3, <3>5 DEF SharedHolds
    <3>7. \A u \in Tasks \ {t} : excl'[s][u] = 0
      BY <1>2, <1>5, <3>4, <3>5 DEF Owned
    <3>8. ss_NestCount[s] > 0 /\ excl'[s][t] = ss_NestCount'[s]
      BY <1>5, <2>1, <3>1, <3>4, <3>5
    <3> QED BY <1>5, <3>3, <3>4, <3>5, <3>6, <3>7, <3>8
  <2>2. CASE shared[s][t] > 0 /\ shared' = [shared EXCEPT ![s][t] = @ - 1] /\ UNCHANGED excl
    <3>1. PICK n \in 0 .. MaxNest : n = shared[s][t] - 1
      <4>1. shared[s][t] - 1 \in 0 .. MaxNest
        BY <1>5, <2>2, MaxNestAssumption
      <4> QED BY <4>1
    <3>2. [shared EXCEPT ![s][t] = @ - 1] = [shared EXCEPT ![s][t] = n]
      BY <3>1, Zenon
    <3>3. shared' = [shared EXCEPT ![s][t] = n] /\ excl' = excl
      BY <2>2, <3>2
    <3>4. shared' \in Holds /\ \A r \in Sems \ {s} : shared'[r] = shared[r]
      BY <1>2, <3>3, SharedSet
    <3>5. <<t, 1>> \in SharedHolds(s)
      BY <1>5, <2>2, MaxNestAssumption DEF SharedHolds
    <3>6. \A u \in Tasks : excl[s][u] = 0
      BY <1>2, <1>5, <3>5 DEF Owned
    <3>7. ss_Owner[s] = Nobody
      BY <1>2, <1>4, <3>6 DEF Owned, Types
    <3>8. n + 1 = shared[s][t]
      BY <1>5, <3>1
    <3>9. /\ IsFiniteSet(SharedHolds(s)')
          /\ Cardinality(SharedHolds(s)') = Cardinality(SharedHolds(s)) - 1
      BY <1>2, <3>3, <3>8, SharedOneLess DEF Owned
    <3>10. ss_NestCount[s] = Cardinality(SharedHolds(s)) /\ ss_NestCount[s] > 0
      <4>1. ss_NestCount[s] # 0
        BY <1>5, <2>2, NestCounts
      <4> QED BY <1>2, <1>5, <3>6, <4>1 DEF Owned
    <3>11. ss_NestCount'[s] = Cardinality(SharedHolds(s)')
      BY <1>5, <3>9, <3>10
    <3> QED BY <1>5, <3>3, <3>4, <3>6, <3>7, <3>9, <3>10, <3>11
  <2> QED BY <1>1, <2>1, <2>2
<1>7. \/ /\ ss_NestCount[s] = 1 /\ pc'[t] = "release" /\ call'[t] = new /\ tdNest'[t] = 0
      \/ ss_NestCount[s] > 1 /\ pc'[t] = "run" /\ tdNest'[t] = -1 /\ UNCHANGED <<pc, tdNest, call>>
  BY <1>1, <1>2, <1>5, <1>6 DEF Types
<1>8. Types'
  <2>1. CASE ss_NestCount[s] = 1
    <3>1. tdNest' = [tdNest EXCEPT ![t] = 0]
      BY <1>1, <1>2, <2>1 DEF Types
    <3>2. tdNest' \in [Tasks -> {-2, -1, 0}] /\ pc' \in [Tasks -> Places]
      BY <1>1, <1>2, <2>1, <3>1 DEF Types, Places
    <3>3. call' \in [Tasks -> Calls \cup {NoCall}]
      BY <1>1, <1>2, <1>3, <2>1 DEF Types
    <3>4. ss_NestCount' \in [Sems -> Int] /\ ss_QueueCount' \in [Sems -> Int]
      BY <1>1, <1>2 DEF Types
    <3> QED BY <1>1, <1>2, <1>6, <3>2, <3>3, <3>4 DEF Types
  <2>2. CASE ss_NestCount[s] # 1
    <3>1. ss_NestCount' \in [Sems -> Int] /\ ss_QueueCount' \in [Sems -> Int]
      BY <1>1, <1>2 DEF Types
    <3> QED BY <1>1, <1>2, <1>6, <2>2, <3>1 DEF Types
  <2> QED BY <2>1, <2>2
<1>9. /\ ~Lists(t)' /\ (Works(t)' => call'[t].sem = s)
      /\ ~Counted(s)' /\ (Releasing(s)' <=> ss_NestCount[s] = 1)
  <2>1. ~Lists(t)' /\ (Works(t)' => call'[t].sem = s)
    BY <1>3, <1>7 DEF Lists, Works
  <2>2. Releasing(s)' <=> call'[t].sem = s /\ pc'[t] \in {"release", "handoff", "clear"}
    BY <1>1, <1>2, OnlyOneWorks
  <2>3. ~Counted(s)'
    BY <1>1, <1>2, <1>7, OnlyOneWorks
  <2> QED BY <1>3, <1>7, <2>1, <2>2, <2>3
<1>10. Alone'
  BY <1>1, <1>2, <1>7, <1>9, AloneKept DEF Works
<1>11. Owned(s)'
  <2>1. ss_Owner'[s] = ss_Owner[s] /\ ss_NestCount'[s] \in Nat
    BY <1>1, <1>5, <1>6
  <2>2. Releasing(s)' <=> ss_NestCount'[s] = 0
    BY <1>5, <1>9
  <2>3. CASE /\ ss_Owner[s] = t /\ excl'[s][t] = ss_NestCount'[s] /\ SharedHolds(s)' = {}
             /\ \A u \in Tasks \ {t} : excl'[s][u] = 0
    <3>1. IsFiniteSet(SharedHolds(s)') /\ Cardinality(SharedHolds(s)') = 0
      BY <2>3, FS_EmptySet
    <3>2. \A u \in Tasks : excl'[s][u] > 0 =>
             ss_Owner'[s] = u /\ ss_NestCount'[s] = excl'[s][u] /\ SharedHolds(s)' = {}
      BY <2>1, <2>3
    <3>3. ss_Owner'[s] \in Tasks => excl'[s][ss_Owner'[s]] > 0 \/ Releasing(s)'
      BY <2>1, <2>2, <2>3
    <3>4. (\A u \in Tasks : excl'[s][u] = 0) => ss_NestCount'[s] = Cardinality(SharedHolds(s)')
      BY <2>3, <3>1
    <3> QED BY <2>1, <2>2, <2>3, <3>1, <3>2, <3>3, <3>4, TasksAssumption DEF Owned
  <2>4. CASE /\ ss_Owner[s] = Nobody /\ \A u \in Tasks : excl'[s][u] = 0
             /\ IsFiniteSet(SharedHolds(s)') /\ ss_NestCount'[s] = Cardinality(SharedHolds(s)')
    BY <2>1, <2>2, <2>4, TasksAssumption DEF Owned
  <2> QED BY <1>6, <2>3, <2>4
<1>12. Queued(s)'
  <2>1. (IF Counted(s) THEN 1 ELSE 0) = 0 /\ (IF Counted(s)' THEN 1 ELSE 0) = 0
    BY <1>4, <1>9
  <2>2. ss_QueueCount'[s] = ss_NestCount'[s] + Len(ss_WaitQueue[s]) - 1
    BY <1>2, <1>5, <2>1 DEF Queued
  <2>3. ss_NestCount'[s] \in Int /\ (ss_NestCount'[s] > 0 \/ Releasing(s)')
    BY <1>5, <1>6, <1>9
  <2> QED BY <1>1, <1>5, <2>1, <2>2, <2>3 DEF Queued
<1>13. \A r \in Sems : t \notin Waiters(r)
  BY <1>1, WaitsWhere DEF Lists
<1>14. Waiting(s)'
  <2>1. \A u \in Waiters(s) : excl'[s][u] = excl[s][u]
    <3> SUFFICES ASSUME NEW u \in Waiters(s) PROVE excl'[s][u] = excl[s][u]
      OBVIOUS
    <3>1. u \in Tasks
      BY <1>2, WaitersAreTasks
    <3> QED BY <1>6, <1>13, <3>1
  <2> QED BY <1>1, <1>2, <1>13, <2>1, WaitersKept
<1>15. ASSUME NEW u \in Tasks \ {t} PROVE Inside(u)'
  <2>1. \A r \in Sems : excl'[r][u] = excl[r][u] /\ (u \in Waiters(r) => u \in Waiters(r)')
    BY <1>1, <1>6 DEF Waiters
  <2> QED BY <1>1, <1>2, <2>1, OthersKeep
<1>16. Inside(t)'
  BY <1>3, <1>7 DEF Inside, WorksRight, SleepsRight, ListsRight, Works
<1>17. \A r \in Sems \ {s} :
         /\ ss_Owner'[r] = ss_Owner[r] /\ ss_NestCount'[r] = ss_NestCount[r]
         /\ ss_QueueCount'[r] = ss_QueueCount[r] /\ ss_WaitQueue'[r] = ss_WaitQueue[r]
         /\ excl'[r] = excl[r] /\ shared'[r] = shared[r]
  BY <1>1, <1>2, <1>6 DEF Types
<1>18. ~Works(t)
  BY <1>1 DEF Works
<1> QED BY <1>1, <1>2, <1>8, <1>9, <1>10, <1>11, <1>12, <1>13, <1>14, <1>15, <1>16, <1>17, <1>18, StepOnOne

\* Nobody holds a semaphore while it is released: ss_QueueCount counts its queue.
LEMMA Released ==
    ASSUME SemInv, NEW t \in Tasks, MayRun(t), OnlyMoves(t), NEW s \in Sems, s = call[t].sem,
           pc[t] \in {"release", "handoff", "clear"}
    PROVE  /\ Releasing(s) /\ ~Counted(s) /\ ss_NestCount[s] = 0
           /\ ss_QueueCount[s] = Len(ss_WaitQueue[s]) - 1
           /\ \A u \in Tasks : excl[s][u] = 0 /\ shared[s][u] = 0
           /\ SharedHolds(s) = {} /\ \A r \in Sems : t \notin Waiters(r)
<1>1. Releasing(s) /\ ~Counted(s)
  BY OnlyOneWorks
<1>2. Types /\ Owned(s) /\ Queued(s)
  BY TypesByName DEF SemInv
<1>3. ss_NestCount[s] = 0
  BY <1>1, <1>2 DEF Owned
<1>4. ss_QueueCount[s] = Len(ss_WaitQueue[s]) - 1
  <2>1. (IF Counted(s) THEN 1 ELSE 0) = 0 /\ Len(ss_WaitQueue[s]) \in Nat
    BY <1>1, <1>2 DEF Types
  <2>2. ss_QueueCount[s] = ss_NestCount[s] + Len(ss_WaitQueue[s]) - 1
                              + (IF Counted(s) THEN 1 ELSE 0)
    BY <1>2, Zenon DEF Queued
  <2>3. PICK n \in Nat : n = Len(ss_WaitQueue[s])
    BY <2>1
  <2>4. ss_QueueCount[s] = 0 + n - 1 + 0
    BY <1>3, <2>1, <2>2, <2>3, Zenon
  <2>5. ss_QueueCount[s] = n - 1
    BY <2>4
  <2> QED BY <2>3, <2>5, Zenon
<1>5. (\A u \in Tasks : excl[s][u] = 0 /\ shared[s][u] = 0) /\ SharedHolds(s) = {}
  BY <1>3, NestCounts
<1>6. \A r \in Sems : t \notin Waiters(r)
  BY WaitsWhere DEF Lists
<1> QED BY <1>1, <1>3, <1>4, <1>5, <1>6

\* ReleaseSemaphore() sees whether anybody waits.
LEMMA ReleaseTestStep ==
    ASSUME SemInv, NEW t \in Tasks, ReleaseTest(t) PROVE SemInv'
<1>1. call[t].sem \in Sems
  BY DEF SemInv, Inside, WorksRight, ReleaseTest, At, Works
<1>2. PICK s \in Sems : s = call[t].sem
  BY <1>1
<1> DEFINE place == IF ss_QueueCount[s] >= 0 /\ ss_WaitQueue[s] # <<>> THEN "handoff" ELSE "clear"
<1>3. /\ pc[t] = "release" /\ MayRun(t) /\ pc' = [pc EXCEPT ![t] = place]
      /\ UNCHANGED <<semVars, tdNest, single, call, todo, heldVars>>
  BY <1>2 DEF ReleaseTest, At, Goto
<1>4. Types /\ OnlyMoves(t) /\ Owned(s) /\ Queued(s) /\ Waiting(s)
  BY OneMoves, TypesByName DEF SemInv, InExec
<1>5. /\ Releasing(s) /\ ~Counted(s)
      /\ ss_QueueCount[s] = Len(ss_WaitQueue[s]) - 1 /\ \A r \in Sems : t \notin Waiters(r)
  BY <1>2, <1>3, <1>4, Released
<1>6. /\ place \in {"handoff", "clear"}
      /\ place = "handoff" => ss_WaitQueue[s] # <<>>
      /\ place = "clear" => ss_WaitQueue[s] = <<>>
  <2>1. ss_WaitQueue[s] # <<>> => ss_QueueCount[s] >= 0
    <3>1. ss_WaitQueue[s] \in Seq(Requests)
      BY <1>4 DEF Types
    <3>2. ss_WaitQueue[s] # <<>> => Len(ss_WaitQueue[s]) > 0 /\ Len(ss_WaitQueue[s]) \in Nat
      BY <3>1
    <3> QED BY <1>5, <3>2
  <2> QED BY <2>1
<1> HIDE DEF place
<1>7. pc'[t] = place /\ UNCHANGED <<ss_Owner, ss_NestCount, ss_QueueCount, ss_WaitQueue, excl, shared>>
  BY <1>3, <1>4 DEF Types, semVars, heldVars
<1>8. Releasing(s)' /\ ~Counted(s)'
  <2>1. call'[t].sem = s
    BY <1>2, <1>3
  <2> QED BY <1>3, <1>4, <1>6, <1>7, <2>1, OnlyOneWorks
<1>9. Owned(s)' /\ Queued(s)'
  BY <1>4, <1>5, <1>7, <1>8, Untouched
<1>10. Waiting(s)'
  BY <1>4, <1>5, <1>7, StillWaiting
<1>11. ASSUME NEW u \in Tasks \ {t} PROVE Inside(u)'
  <2>1. \A r \in Sems : excl'[r][u] = excl[r][u] /\ (u \in Waiters(r) => u \in Waiters(r)')
    BY <1>7 DEF Waiters
  <2> QED BY <1>3, <1>4, <2>1, OthersKeep
<1>12. Inside(t)'
  <2>1. WorksRight(t)'
    <3>1. s = call'[t].sem /\ ss_WaitQueue'[s] = ss_WaitQueue[s]
      BY <1>2, <1>3, <1>7
    <3>2. place \notin {"claim", "nest", "enqueue"}
      BY <1>6
    <3>3. /\ pc'[t] = "handoff" => ss_WaitQueue'[call'[t].sem] # <<>>
          /\ pc'[t] = "clear" => ss_WaitQueue'[call'[t].sem] = <<>>
      BY <1>6, <1>7, <3>1
    <3>4. call'[t].sem \in Sems /\ pc'[t] \notin {"claim", "nest", "enqueue"}
      BY <1>7, <3>1, <3>2
    <3> QED BY <3>3, <3>4, Zenon DEF WorksRight
  <2>2. SleepsRight(t)' /\ ListsRight(t)'
    BY <1>6, <1>7 DEF SleepsRight, ListsRight
  <2> QED BY <2>1, <2>2 DEF Inside
<1>13. Alone'
  <2>1. tdNest'[t] = 0
    BY <1>3 DEF SemInv, Alone, Works
  <2> QED BY <1>3, <1>4, <1>6, <1>7, <2>1, AloneKept DEF Lists
<1>14. Types'
  BY <1>3, <1>4, <1>6 DEF Types, Places, semVars, heldVars
<1>15. /\ \A r \in Sems \ {s} :
            /\ ss_Owner'[r] = ss_Owner[r] /\ ss_NestCount'[r] = ss_NestCount[r]
            /\ ss_QueueCount'[r] = ss_QueueCount[r] /\ ss_WaitQueue'[r] = ss_WaitQueue[r]
            /\ excl'[r] = excl[r] /\ shared'[r] = shared[r]
       /\ call[t].sem = s /\ call'[t].sem = s
  BY <1>2, <1>3, <1>7
<1> QED BY <1>3, <1>4, <1>5, <1>9, <1>10, <1>11, <1>12, <1>13, <1>14, <1>15, StepOnOne

\* Nobody waits: the semaphore is free.
LEMMA ClearStep ==
    ASSUME SemInv, NEW t \in Tasks, Clear(t) PROVE SemInv'
<1>1. call[t].sem \in Sems
  BY DEF SemInv, Inside, WorksRight, Clear, At, Works
<1>2. PICK s \in Sems : s = call[t].sem
  BY <1>1
<1>3. /\ pc[t] = "clear" /\ MayRun(t) /\ Return(t)
      /\ ss_Owner' = [ss_Owner EXCEPT ![s] = Nobody]
      /\ ss_QueueCount' = [ss_QueueCount EXCEPT ![s] = -1]
      /\ UNCHANGED <<ss_NestCount, ss_WaitQueue, single, todo, excl, shared>>
  BY <1>2 DEF Clear, At, heldVars
<1>4. Types /\ OnlyMoves(t) /\ Works(t) /\ Owned(s) /\ Queued(s) /\ Waiting(s)
  BY <1>3, OneMoves, TypesByName DEF SemInv, InExec, Works
<1>5. /\ Releasing(s) /\ ~Counted(s) /\ ss_NestCount[s] = 0
      /\ \A u \in Tasks : excl[s][u] = 0
      /\ SharedHolds(s) = {} /\ \A r \in Sems : t \notin Waiters(r)
  BY <1>2, <1>3, <1>4, Released
<1>6. ss_WaitQueue[s] = <<>>
  BY <1>2, <1>3 DEF SemInv, Inside, WorksRight
<1>7. /\ pc'[t] = "run" /\ ~Works(t)' /\ Alone' /\ Inside(t)'
      /\ \A r \in Sems : t \notin Waiters(r) /\ ~Counted(r)' /\ ~Releasing(r)'
      /\ tdNest' \in [Tasks -> {-2, -1, 0}] /\ pc' \in [Tasks -> Places]
      /\ call' \in [Tasks -> Calls \cup {NoCall}]
  BY <1>3, <1>4, Returns
<1>8. Types'
  <2>1. ss_Owner' \in [Sems -> Tasks \cup {Nobody, Odd}] /\ ss_QueueCount' \in [Sems -> Int]
    BY <1>3, <1>4 DEF Types
  <2> QED BY <1>3, <1>4, <1>7, <2>1 DEF Types
<1>9. Owned(s)'
  <2>1. SharedHolds(s)' = {}
    BY <1>3, <1>5 DEF SharedHolds
  <2>2. ss_Owner'[s] = Nobody /\ ss_NestCount'[s] = 0 /\ \A u \in Tasks : excl'[s][u] = 0
    BY <1>3, <1>4, <1>5 DEF Types
  <2> QED BY <1>7, <2>1, <2>2, FS_EmptySet, TasksAssumption DEF Owned
<1>10. Queued(s)'
  <2>1. (IF Counted(s)' THEN 1 ELSE 0) = 0
    BY <1>7
  <2>2. ss_QueueCount'[s] = -1 /\ ss_NestCount'[s] = 0 /\ ss_WaitQueue'[s] = <<>>
    BY <1>3, <1>4, <1>5, <1>6 DEF Types
  <2>3. Len(ss_WaitQueue'[s]) = 0
    BY <2>2
  <2> QED BY <2>1, <2>2, <2>3 DEF Queued
<1>11. Waiting(s)'
  BY <1>3, <1>4, <1>5, StillWaiting
<1>12. ASSUME NEW u \in Tasks \ {t} PROVE Inside(u)'
  <2>1. \A r \in Sems : excl'[r][u] = excl[r][u] /\ (u \in Waiters(r) => u \in Waiters(r)')
    BY <1>3 DEF Waiters
  <2> QED BY <1>3, <1>4, <2>1, OthersKeep
<1>13. \A r \in Sems \ {s} :
         /\ ss_Owner'[r] = ss_Owner[r] /\ ss_NestCount'[r] = ss_NestCount[r]
         /\ ss_QueueCount'[r] = ss_QueueCount[r] /\ ss_WaitQueue'[r] = ss_WaitQueue[r]
         /\ excl'[r] = excl[r] /\ shared'[r] = shared[r]
  BY <1>3, <1>4 DEF Types
<1> QED BY <1>2, <1>3, <1>4, <1>7, <1>8, <1>9, <1>10, <1>11, <1>12, <1>13, StepOnOne

\* A semaphore that nobody holds gets an exclusive holder.
LEMMA Taken ==
    ASSUME SemInv, NEW s \in Sems, NEW w \in Tasks,
           ss_NestCount[s] = 0,
           ss_Owner' = [ss_Owner EXCEPT ![s] = w], ss_NestCount' = [ss_NestCount EXCEPT ![s] = 1],
           excl' = [excl EXCEPT ![s][w] = 1], shared' = shared, ~Releasing(s)'
    PROVE  /\ Owned(s)' /\ ss_NestCount'[s] = 1 /\ excl'[s][w] = 1
           /\ \A u \in Tasks \ {w} : excl'[s][u] = 0
           /\ \A r \in Sems \ {s} : /\ ss_Owner'[r] = ss_Owner[r]
                                    /\ ss_NestCount'[r] = ss_NestCount[r] /\ excl'[r] = excl[r]
           /\ ss_Owner' \in [Sems -> Tasks \cup {Nobody, Odd}]
           /\ ss_NestCount' \in [Sems -> Int] /\ excl' \in Holds
<1>1. Types
  BY TypesByName DEF SemInv
<1>2. (\A u \in Tasks : excl[s][u] = 0) /\ SharedHolds(s) = {}
  BY NestCounts
<1>3. /\ excl' \in Holds /\ excl'[s][w] = 1
      /\ \A u \in Tasks \ {w} : excl'[s][u] = excl[s][u]
      /\ \A r \in Sems \ {s} : excl'[r] = excl[r]
  <2>1. 1 \in 0 .. MaxNest
    BY MaxNestAssumption
  <2> QED BY <1>1, <2>1 DEF Types, Holds
<1>4. /\ ss_Owner' \in [Sems -> Tasks \cup {Nobody, Odd}] /\ ss_NestCount' \in [Sems -> Int]
      /\ ss_Owner'[s] = w /\ ss_NestCount'[s] = 1
      /\ \A r \in Sems \ {s} : ss_Owner'[r] = ss_Owner[r] /\ ss_NestCount'[r] = ss_NestCount[r]
  BY <1>1 DEF Types
<1>5. SharedHolds(s)' = {}
  BY <1>2 DEF SharedHolds
<1>6. \A u \in Tasks \ {w} : excl'[s][u] = 0
  BY <1>2, <1>3
<1>7. excl'[s][w] = 1
  BY <1>3
<1>8. Owned(s)'
  BY <1>4, <1>5, <1>6, <1>7, FS_EmptySet, TasksAssumption DEF Owned
<1> QED BY <1>3, <1>4, <1>6, <1>7, <1>8

\* The first task of the wait queue leaves it and becomes the holder.
LEMMA Leaves ==
    ASSUME SemInv, NEW t \in Tasks, OnlyMoves(t), NEW s \in Sems, NEW w,
           ss_WaitQueue[s] # <<>>, w = Head(ss_WaitQueue[s]).waiter, t \notin Waiters(s),
           \A u \in Tasks \ {w} : excl'[s][u] = 0,
           ss_WaitQueue' = [ss_WaitQueue EXCEPT ![s] = Tail(@)]
    PROVE  /\ ss_WaitQueue' \in [Sems -> Seq(Requests)] /\ Waiting(s)'
           /\ w \in Tasks \ {t} /\ w \in Waiters(s) /\ Len(ss_WaitQueue'[s]) = Len(ss_WaitQueue[s]) - 1
           /\ Waiters(s) \ {w} \subseteq Waiters(s)'
           /\ \A r \in Sems \ {s} : ss_WaitQueue'[r] = ss_WaitQueue[r]
<1> DEFINE q == ss_WaitQueue[s]
           p == Tail(q)
<1>1. Types /\ Waiting(s) /\ q \in Seq(Requests)
  BY TypesByName DEF SemInv, Types
<1>2. ss_WaitQueue' \in [Sems -> Seq(Requests)]
  <2>1. p \in Seq(Requests)
    <3>1. q # <<>>
      OBVIOUS
    <3> HIDE DEF q
    <3> QED BY <1>1, <3>1
  <2>2. ss_WaitQueue' = [ss_WaitQueue EXCEPT ![s] = p]
    OBVIOUS
  <2> HIDE DEF p
  <2> QED BY <1>1, <2>1, <2>2 DEF Types
<1>3. ss_WaitQueue'[s] = p /\ \A r \in Sems \ {s} : ss_WaitQueue'[r] = ss_WaitQueue[r]
  BY <1>1 DEF Types
<1>4. Waiters(s) = { q[i].task : i \in 1 .. Len(q) }
  BY DEF Waiters
<1>5. \A i \in 1 .. Len(q) :
        /\ q[i].waiter = q[i].task /\ q[i].task # t
        /\ (pc[q[i].task] = "wait" /\ call[q[i].task].sem = s)
              \/ pc[q[i].task] \in {"first", "second", "listwait"}
  BY <1>1 DEF Waiting, Lists, Waiters
<1>6. \A i, j \in 1 .. Len(q) : q[i].task = q[j].task => i = j
  BY <1>1 DEF Waiting
<1>7. q # <<>> /\ w = Head(q).waiter
  OBVIOUS
<1>8. Waiters(s)' = { p[i].task : i \in 1 .. Len(p) }
  BY <1>3 DEF Waiters
<1> HIDE DEF q
<1>9. /\ Len(q) \in Nat /\ Len(q) > 0 /\ Len(p) = Len(q) - 1 /\ Head(q) = q[1]
      /\ \A i \in 1 .. Len(p) : p[i] = q[i + 1]
  BY <1>1, <1>7
<1>10. \A i \in 1 .. Len(q) : q[i].task \in Tasks
  <2>1. \A i \in 1 .. Len(q) : q[i] \in Requests
    BY <1>1
  <2> QED BY <2>1 DEF Requests
<1>11. w = q[1].task /\ w \in Tasks \ {t} /\ 1 \in 1 .. Len(q)
  BY <1>5, <1>7, <1>9, <1>10
<1>12. \A i \in 1 .. Len(p) : i + 1 \in 1 .. Len(q) /\ i + 1 # 1
  BY <1>9
<1>13. \A i \in 1 .. Len(q) : i # 1 => \E j \in 1 .. Len(p) : p[j] = q[i]
  <2> HIDE DEF p
  <2> SUFFICES ASSUME NEW i \in 1 .. Len(q), i # 1 PROVE \E j \in 1 .. Len(p) : p[j] = q[i]
    OBVIOUS
  <2>1. i - 1 \in 1 .. Len(p) /\ (i - 1) + 1 = i
    BY <1>9
  <2> QED BY <1>9, <2>1
<1> HIDE DEF p
<1>14. \A i \in 1 .. Len(p) :
         /\ p[i].waiter = p[i].task /\ excl'[s][p[i].task] = 0
         /\ (pc'[p[i].task] = "wait" /\ call'[p[i].task].sem = s)
               \/ pc'[p[i].task] \in {"first", "second", "listwait"}
  <2> SUFFICES ASSUME NEW i \in 1 .. Len(p)
               PROVE  /\ p[i].waiter = p[i].task /\ excl'[s][p[i].task] = 0
                      /\ (pc'[p[i].task] = "wait" /\ call'[p[i].task].sem = s)
                            \/ pc'[p[i].task] \in {"first", "second", "listwait"}
    OBVIOUS
  <2>1. PICK j \in 1 .. Len(q) : j = i + 1 /\ j # 1
    BY <1>12
  <2>2. p[i] = q[j] /\ q[j].task # w /\ q[j].task \in Tasks \ {t}
    BY <1>5, <1>6, <1>9, <1>10, <1>11, <2>1
  <2>3. pc'[q[j].task] = pc[q[j].task] /\ call'[q[j].task] = call[q[j].task]
    BY <2>2 DEF OnlyMoves
  <2>4. excl'[s][q[j].task] = 0
    BY <2>2
  <2> QED BY <1>5, <2>2, <2>3, <2>4
<1>15. \A i, j \in 1 .. Len(p) : p[i].task = p[j].task => i = j
  <2> SUFFICES ASSUME NEW i \in 1 .. Len(p), NEW j \in 1 .. Len(p), p[i].task = p[j].task
               PROVE  i = j
    OBVIOUS
  <2>1. p[i] = q[i + 1] /\ p[j] = q[j + 1] /\ i + 1 \in 1 .. Len(q) /\ j + 1 \in 1 .. Len(q)
    BY <1>9, <1>12
  <2>2. i + 1 = j + 1
    BY <1>6, <2>1
  <2> QED BY <2>2
<1>16. Waiting(s)'
  <2>1. \A i \in 1 .. Len(ss_WaitQueue'[s]) :
          /\ ss_WaitQueue'[s][i].waiter = ss_WaitQueue'[s][i].task
          /\ excl'[s][ss_WaitQueue'[s][i].task] = 0
          /\ \/ pc'[ss_WaitQueue'[s][i].task] = "wait" /\ call'[ss_WaitQueue'[s][i].task].sem = s
             \/ pc'[ss_WaitQueue'[s][i].task] \in {"first", "second", "listwait"}
    BY <1>3, <1>14
  <2>2. \A i, j \in 1 .. Len(ss_WaitQueue'[s]) :
          ss_WaitQueue'[s][i].task = ss_WaitQueue'[s][j].task => i = j
    BY <1>3, <1>15, ZenonT(40)
  <2> QED BY <2>1, <2>2 DEF Waiting, Lists
<1>17. Waiters(s) \ {w} \subseteq Waiters(s)'
  <2> SUFFICES ASSUME NEW i \in 1 .. Len(q), q[i].task # w
               PROVE  \E j \in 1 .. Len(p) : p[j].task = q[i].task
    BY <1>4, <1>8
  <2>1. i # 1
    BY <1>11
  <2> QED BY <1>13, <2>1
<1>18. w \in Waiters(s)
  BY <1>4, <1>11
<1> QED BY <1>2, <1>3, <1>9, <1>11, <1>16, <1>17, <1>18 DEF q

\* ReleaseSemaphore() hands the semaphore to the first in its queue.
LEMMA HandoffStep ==
    ASSUME SemInv, NEW t \in Tasks, Handoff(t) PROVE SemInv'
<1>1. call[t].sem \in Sems
  BY DEF SemInv, Inside, WorksRight, Handoff, At, Works
<1>2. PICK s \in Sems : s = call[t].sem
  BY <1>1
<1>3. PICK w : w = Head(ss_WaitQueue[s]).waiter
  OBVIOUS
<1>4. /\ pc[t] = "handoff" /\ MayRun(t) /\ Return(t)
      /\ ss_WaitQueue' = [ss_WaitQueue EXCEPT ![s] = Tail(@)]
      /\ ss_NestCount' = [ss_NestCount EXCEPT ![s] = 1]
      /\ ss_Owner' = [ss_Owner EXCEPT ![s] = w]
      /\ IF w \in Tasks
         THEN /\ single' = [single EXCEPT ![w] = TRUE]
              /\ excl' = [excl EXCEPT ![s][w] = 1]
         ELSE UNCHANGED <<single, excl>>
      /\ UNCHANGED <<ss_QueueCount, todo, shared>>
  BY <1>2, <1>3 DEF Handoff, At
<1>5. Types /\ OnlyMoves(t) /\ Works(t) /\ Owned(s) /\ Queued(s) /\ Waiting(s)
  BY <1>4, OneMoves, TypesByName DEF SemInv, InExec, Works
<1>6. /\ Releasing(s) /\ ~Counted(s) /\ ss_NestCount[s] = 0
      /\ ss_QueueCount[s] = Len(ss_WaitQueue[s]) - 1 /\ \A u \in Tasks : excl[s][u] = 0
      /\ \A r \in Sems : t \notin Waiters(r)
  BY <1>2, <1>4, <1>5, Released
<1>7. ss_WaitQueue[s] # <<>>
  BY <1>2, <1>4 DEF SemInv, Inside, WorksRight
<1>8. /\ pc'[t] = "run" /\ ~Works(t)' /\ Alone' /\ Inside(t)'
      /\ \A r \in Sems : ~Counted(r)' /\ ~Releasing(r)'
      /\ tdNest' \in [Tasks -> {-2, -1, 0}] /\ pc' \in [Tasks -> Places]
      /\ call' \in [Tasks -> Calls \cup {NoCall}]
  BY <1>4, <1>5, Returns
<1>9. w \in Tasks
  <2>1. ss_WaitQueue[s] \in Seq(Requests)
    BY <1>5 DEF Types
  <2>2. 1 \in 1 .. Len(ss_WaitQueue[s]) /\ Head(ss_WaitQueue[s]) = ss_WaitQueue[s][1]
    BY <1>7, <2>1
  <2>3. w = ss_WaitQueue[s][1].task /\ ss_WaitQueue[s][1] \in Requests
    BY <1>3, <1>5, <2>1, <2>2 DEF Waiting
  <2> QED BY <2>3 DEF Requests
<1>10. /\ Owned(s)' /\ ss_NestCount'[s] = 1 /\ excl'[s][w] = 1
       /\ \A u \in Tasks \ {w} : excl'[s][u] = 0
       /\ \A r \in Sems \ {s} : /\ ss_Owner'[r] = ss_Owner[r]
                                /\ ss_NestCount'[r] = ss_NestCount[r] /\ excl'[r] = excl[r]
       /\ ss_Owner' \in [Sems -> Tasks \cup {Nobody, Odd}]
       /\ ss_NestCount' \in [Sems -> Int] /\ excl' \in Holds
  BY <1>4, <1>6, <1>8, <1>9, Taken
<1>11. /\ ss_WaitQueue' \in [Sems -> Seq(Requests)] /\ Waiting(s)'
       /\ w \in Tasks \ {t} /\ w \in Waiters(s) /\ Len(ss_WaitQueue'[s]) = Len(ss_WaitQueue[s]) - 1
       /\ Waiters(s) \ {w} \subseteq Waiters(s)'
       /\ \A r \in Sems \ {s} : ss_WaitQueue'[r] = ss_WaitQueue[r]
  BY <1>3, <1>4, <1>5, <1>6, <1>7, <1>10, Leaves, ZenonT(40)
<1>12. Types'
  <2>1. single' \in [Tasks -> BOOLEAN]
    BY <1>4, <1>5, <1>9 DEF Types
  <2> QED BY <1>4, <1>5, <1>8, <1>10, <1>11, <2>1 DEF Types
<1>13. Queued(s)'
  <2>1. (IF Counted(s)' THEN 1 ELSE 0) = 0
    BY <1>8
  <2>2. ss_QueueCount'[s] = Len(ss_WaitQueue[s]) - 1 /\ Len(ss_WaitQueue[s]) \in Nat
    BY <1>4, <1>5, <1>6 DEF Types
  <2>3. PICK n \in Nat : n = Len(ss_WaitQueue[s])
    BY <2>2
  <2>4. Len(ss_WaitQueue'[s]) = n - 1 /\ ss_QueueCount'[s] = n - 1
    BY <1>11, <2>2, <2>3
  <2> QED BY <1>10, <2>1, <2>4 DEF Queued
<1>14. single'[w] = TRUE /\ \A u \in Tasks \ {w} : single'[u] = single[u]
  BY <1>4, <1>5, <1>9 DEF Types
<1>15. ASSUME NEW u \in Tasks \ {t} PROVE Inside(u)'
  <2>1. \A r \in Sems : excl[r][u] > 0 => excl'[r][u] > 0
    BY <1>6, <1>10
  <2>2. ASSUME pc[u] = "wait"
        PROVE  /\ call[u].sem \in Sems
               /\ u \in Waiters(call[u].sem) \/ single[u] => u \in Waiters(call[u].sem)' \/ single'[u]
               /\ single'[u] => excl'[call[u].sem][u] > 0
    <3>1. call[u].sem \in Sems /\ (single[u] => excl[call[u].sem][u] > 0)
      BY <2>2 DEF SemInv, Inside, SleepsRight
    <3>2. PICK r \in Sems : r = call[u].sem
      BY <3>1
    <3>3. CASE u = w
      <4>1. r = s
        BY <1>11, <2>2, <3>2, <3>3, WaitsWhere DEF Lists
      <4> QED BY <1>10, <1>14, <3>1, <3>2, <3>3, <4>1
    <3>4. CASE u # w
      <4>1. u \in Waiters(r) => u \in { ss_WaitQueue'[r][i].task : i \in 1 .. Len(ss_WaitQueue'[r]) }
        BY <1>11, <3>4 DEF Waiters
      <4>2. call'[u] = call[u] /\ single'[u] = single[u]
        BY <1>5, <1>14, <3>4 DEF OnlyMoves
      <4>3. u \in Waiters(r) => u \in Waiters(call[u].sem)'
        BY <3>2, <4>1, <4>2 DEF Waiters
      <4> QED BY <2>1, <3>1, <3>2, <4>2, <4>3
    <3> QED BY <3>3, <3>4
  <2> QED BY <1>4, <1>5, <2>1, <2>2, OthersInside
<1>16. \A r \in Sems \ {s} :
         /\ ss_Owner'[r] = ss_Owner[r] /\ ss_NestCount'[r] = ss_NestCount[r]
         /\ ss_QueueCount'[r] = ss_QueueCount[r] /\ ss_WaitQueue'[r] = ss_WaitQueue[r]
         /\ excl'[r] = excl[r] /\ shared'[r] = shared[r]
  BY <1>4, <1>10, <1>11
<1> QED BY <1>2, <1>4, <1>5, <1>6, <1>8, <1>10, <1>11, <1>12, <1>13, <1>15, <1>16, StepOnOne

\* The first pass over all the semaphores: a free one is taken, and the task
\* joins the wait queue of any other.
LEMMA ListFirstStep ==
    ASSUME SemInv, NEW t \in Tasks, NEW s \in Sems, ListFirst(t, s) PROVE SemInv'
<1>1. /\ pc[t] = "first" /\ MayRun(t) /\ s \in todo[t]
      /\ ss_QueueCount' = [ss_QueueCount EXCEPT ![s] = @ + 1]
      /\ \/ /\ ss_QueueCount[s] # -1 /\ ss_Owner[s] # t
            /\ ss_WaitQueue' = [ss_WaitQueue EXCEPT ![s] = Append(@, [task |-> t, waiter |-> t])]
            /\ UNCHANGED <<ss_Owner, ss_NestCount, excl>>
         \/ /\ ss_QueueCount[s] = -1 \/ ss_Owner[s] = t
            /\ ss_Owner' = [ss_Owner EXCEPT ![s] = t]
            /\ ss_NestCount' = [ss_NestCount EXCEPT ![s] = @ + 1]
            /\ excl' = [excl EXCEPT ![s][t] = @ + 1]
            /\ UNCHANGED ss_WaitQueue
      /\ \/ /\ pc' = [pc EXCEPT ![t] = "second"] /\ todo' = [todo EXCEPT ![t] = Sems]
         \/ todo' = [todo EXCEPT ![t] = @ \ {s}] /\ UNCHANGED pc
      /\ UNCHANGED <<tdNest, single, call, shared>>
  BY DEF ListFirst, At, Goto
<1>2. Types /\ OnlyMoves(t) /\ Owned(s) /\ Queued(s) /\ Waiting(s)
  BY OneMoves, TypesByName DEF SemInv, InExec
<1>3. \A r \in todo[t] : excl[r][t] = 0 /\ shared[r][t] = 0 /\ t \notin Waiters(r)
  BY <1>1 DEF SemInv, Inside, ListsRight
<1>4. \/ pc'[t] = "second" /\ todo'[t] = Sems
      \/ pc'[t] = "first" /\ todo'[t] = todo[t] \ {s}
  BY <1>1, <1>2 DEF Types
<1>5. Lists(t)' /\ ~Works(t) /\ ~Works(t)' /\ tdNest[t] = 0 /\ tdNest'[t] = 0
  BY <1>1, <1>4 DEF Lists, Works, SemInv, Alone
<1>6. ~Counted(s) /\ ~Releasing(s) /\ ~Counted(s)' /\ ~Releasing(s)'
  BY <1>1, <1>2, <1>4, OnlyOneWorks
<1>7. PICK n \in Nat : n = ss_NestCount[s]
  BY NestCounts
<1>8. PICK m \in Nat : m = Len(ss_WaitQueue[s])
  BY <1>2 DEF Types
<1>9. /\ ss_QueueCount[s] = n + m - 1 /\ ss_QueueCount'[s] = n + m
      /\ m > 0 => n > 0
      /\ m = 0 => ss_WaitQueue[s] = <<>>
  <2>1. (IF Counted(s) THEN 1 ELSE 0) = 0
    BY <1>6
  <2>2. ss_QueueCount[s] = ss_NestCount[s] + Len(ss_WaitQueue[s]) - 1
                              + (IF Counted(s) THEN 1 ELSE 0)
    BY <1>2, Zenon DEF Queued
  <2>3. ss_QueueCount[s] = n + m - 1 + 0
    BY <1>7, <1>8, <2>1, <2>2, Zenon
  <2>4. ss_QueueCount'[s] = n + m
    BY <1>1, <1>2, <2>3 DEF Types
  <2>5. ss_WaitQueue[s] \in Seq(Requests)
    BY <1>2 DEF Types
  <2>6. m > 0 => n > 0
    BY <1>2, <1>6, <1>7, <1>8, <2>5 DEF Queued
  <2>7. m = 0 => ss_WaitQueue[s] = <<>>
    <3>1. Len(ss_WaitQueue[s]) = 0 => ss_WaitQueue[s] = <<>>
      BY <2>5
    <3> QED BY <1>8, <3>1
  <2> QED BY <2>3, <2>4, <2>6, <2>7
<1>10. /\ ss_Owner' \in [Sems -> Tasks \cup {Nobody, Odd}] /\ ss_NestCount' \in [Sems -> Int]
       /\ ss_WaitQueue' \in [Sems -> Seq(Requests)] /\ excl' \in Holds
       /\ Owned(s)' /\ Waiting(s)'
       /\ \A u \in Tasks \ {t} : excl'[s][u] = excl[s][u]
       /\ \A r \in Sems \ {s} :
            /\ ss_Owner'[r] = ss_Owner[r] /\ ss_NestCount'[r] = ss_NestCount[r]
            /\ ss_WaitQueue'[r] = ss_WaitQueue[r] /\ excl'[r] = excl[r]
       /\ Waiters(s) \subseteq { ss_WaitQueue'[s][i].task : i \in 1 .. Len(ss_WaitQueue'[s]) }
       /\ ss_NestCount'[s] + Len(ss_WaitQueue'[s]) = n + m + 1 /\ ss_NestCount'[s] > 0
       /\ ss_NestCount'[s] \in Nat /\ Len(ss_WaitQueue'[s]) \in Nat
  <2>1. CASE /\ ss_QueueCount[s] # -1
             /\ ss_WaitQueue' = [ss_WaitQueue EXCEPT ![s] = Append(@, [task |-> t, waiter |-> t])]
             /\ UNCHANGED <<ss_Owner, ss_NestCount, excl>>
    <3>1. n > 0
      BY <1>9, <2>1
    <3>2. /\ ss_WaitQueue' \in [Sems -> Seq(Requests)] /\ Waiting(s)'
          /\ Len(ss_WaitQueue'[s]) = Len(ss_WaitQueue[s]) + 1
          /\ Waiters(s)' = Waiters(s) \cup {t}
          /\ \A r \in Sems \ {s} : ss_WaitQueue'[r] = ss_WaitQueue[r]
      BY <1>1, <1>2, <1>3, <1>5, <2>1, Joins
    <3>3. Waiters(s) \subseteq { ss_WaitQueue'[s][i].task : i \in 1 .. Len(ss_WaitQueue'[s]) }
      BY <3>2 DEF Waiters
    <3>4. Owned(s)'
      <4>1. SharedHolds(s)' = SharedHolds(s)
        BY <1>1 DEF SharedHolds
      <4> QED BY <1>2, <1>6, <2>1, <4>1 DEF Owned
    <3>5. /\ ss_NestCount'[s] + Len(ss_WaitQueue'[s]) = n + m + 1 /\ ss_NestCount'[s] > 0
          /\ ss_NestCount'[s] \in Nat /\ Len(ss_WaitQueue'[s]) \in Nat
      <4>1. ss_NestCount'[s] = n
        BY <1>7, <2>1
      <4>2. Len(ss_WaitQueue'[s]) = m + 1
        BY <1>8, <3>2, Zenon
      <4>3. m + 1 \in Nat /\ n + (m + 1) = n + m + 1
        OBVIOUS
      <4> QED BY <3>1, <4>1, <4>2, <4>3, Zenon
    <3>6. /\ ss_Owner' \in [Sems -> Tasks \cup {Nobody, Odd}] /\ ss_NestCount' \in [Sems -> Int]
          /\ excl' \in Holds
      BY <1>2, <2>1 DEF Types
    <3> QED BY <2>1, <3>2, <3>3, <3>4, <3>5, <3>6
  <2>2. CASE /\ ss_QueueCount[s] = -1 \/ ss_Owner[s] = t
             /\ ss_Owner' = [ss_Owner EXCEPT ![s] = t]
             /\ ss_NestCount' = [ss_NestCount EXCEPT ![s] = @ + 1]
             /\ excl' = [excl EXCEPT ![s][t] = @ + 1]
             /\ UNCHANGED ss_WaitQueue
    <3>1. ss_Owner[s] # t
      BY <1>1, <1>2, <1>3, <1>6 DEF Owned
    <3>2. n = 0 /\ m = 0 /\ ss_WaitQueue[s] = <<>>
      BY <1>9, <2>2, <3>1
    <3>3. \A u \in Tasks : excl[s][u] = 0
      BY <1>7, <3>2, NestCounts
    <3>4. /\ ss_NestCount' = [ss_NestCount EXCEPT ![s] = 1]
          /\ excl' = [excl EXCEPT ![s][t] = 1]
      <4>1. ss_NestCount[s] + 1 = 1 /\ excl[s][t] + 1 = 1
        BY <1>7, <3>2, <3>3
      <4>2. [ss_NestCount EXCEPT ![s] = @ + 1] = [ss_NestCount EXCEPT ![s] = 1]
        BY <4>1, Zenon
      <4>3. [excl EXCEPT ![s][t] = @ + 1] = [excl EXCEPT ![s][t] = 1]
        BY <4>1, Zenon
      <4> QED BY <2>2, <4>2, <4>3
    <3>5. ss_NestCount[s] = 0
      BY <1>7, <3>2
    <3>6. /\ Owned(s)' /\ ss_NestCount'[s] = 1
          /\ \A u \in Tasks \ {t} : excl'[s][u] = 0
          /\ \A r \in Sems \ {s} : /\ ss_Owner'[r] = ss_Owner[r]
                                   /\ ss_NestCount'[r] = ss_NestCount[r] /\ excl'[r] = excl[r]
          /\ ss_Owner' \in [Sems -> Tasks \cup {Nobody, Odd}]
          /\ ss_NestCount' \in [Sems -> Int] /\ excl' \in Holds
      BY <1>1, <1>6, <2>2, <3>4, <3>5, Taken
    <3>7. ss_WaitQueue'[s] = <<>> /\ Len(ss_WaitQueue'[s]) = 0
      BY <2>2, <3>2
    <3>8. Waiting(s)' /\ Waiters(s) = {}
      BY <3>2, <3>7 DEF Waiting, Waiters
    <3>9. ss_WaitQueue' \in [Sems -> Seq(Requests)]
      BY <1>2, <2>2 DEF Types
    <3> QED BY <2>2, <3>2, <3>3, <3>6, <3>7, <3>8, <3>9
  <2> QED BY <1>1, <2>1, <2>2
<1>11. Types'
  <2>1. ss_QueueCount' \in [Sems -> Int]
    BY <1>1, <1>2 DEF Types
  <2>2. pc' \in [Tasks -> Places] /\ todo' \in [Tasks -> SUBSET Sems]
    <3>1. "second" \in Places /\ pc \in [Tasks -> Places] /\ todo \in [Tasks -> SUBSET Sems]
      BY <1>2 DEF Types, Places
    <3>2. \E T \in SUBSET Sems : todo' = [todo EXCEPT ![t] = T]
      <4>1. Sems \in SUBSET Sems /\ todo[t] \ {s} \in SUBSET Sems
        BY <3>1
      <4> QED BY <1>1, <4>1
    <3> QED BY <1>1, <3>1, <3>2
  <2> QED BY <1>1, <1>2, <1>10, <2>1, <2>2 DEF Types
<1>12. Alone'
  <2>1. \A u \in Tasks \ {t} : ~Lists(u)
    BY <1>1 DEF SemInv, Alone, Lists
  <2>2. pc'[t] # "run"
    BY <1>4
  <2> QED BY <1>1, <1>2, <1>5, <2>1, <2>2, AloneKept
<1>13. Queued(s)'
  <2>1. (IF Counted(s)' THEN 1 ELSE 0) = 0
    BY <1>6
  <2>2. PICK k \in Nat : k = ss_NestCount'[s]
    BY <1>10
  <2>3. PICK l \in Nat : l = Len(ss_WaitQueue'[s])
    BY <1>10
  <2>4. k + l = n + m + 1 /\ k > 0 /\ ss_QueueCount'[s] = k + l - 1
    <3>1. k + l = n + m + 1 /\ k > 0 /\ ss_QueueCount'[s] = n + m
      BY <1>9, <1>10, <2>2, <2>3, Zenon
    <3> QED BY <3>1
  <2> QED BY <2>1, <2>2, <2>3, <2>4 DEF Queued
<1>14. ASSUME NEW u \in Tasks \ {t} PROVE Inside(u)'
  <2>1. \A r \in Sems : excl'[r][u] = excl[r][u] /\ (u \in Waiters(r) => u \in Waiters(r)')
    <3> SUFFICES ASSUME NEW r \in Sems
                 PROVE  excl'[r][u] = excl[r][u] /\ (u \in Waiters(r) => u \in Waiters(r)')
      OBVIOUS
    <3>1. CASE r = s
      BY <1>10, <3>1, ZenonT(40) DEF Waiters
    <3>2. CASE r # s
      BY <1>10, <3>2 DEF Waiters
    <3> QED BY <3>1, <3>2
  <2> QED BY <1>1, <1>2, <2>1, OthersKeep
<1>15. Inside(t)'
  <2>1. pc'[t] = "first" => \A r \in todo'[t] :
           excl'[r][t] = 0 /\ shared'[r][t] = 0 /\ t \notin Waiters(r)'
    <3> SUFFICES ASSUME pc'[t] = "first", NEW r \in todo'[t]
                 PROVE  excl'[r][t] = 0 /\ shared'[r][t] = 0 /\ t \notin Waiters(r)'
      OBVIOUS
    <3>1. r \in todo[t] /\ r \in Sems \ {s}
      BY <1>2, <1>4 DEF Types
    <3> QED BY <1>1, <1>3, <1>10, <3>1 DEF Waiters
  <2>2. ListsRight(t)'
    BY <1>4, <2>1 DEF ListsRight
  <2>3. WorksRight(t)' /\ SleepsRight(t)'
    BY <1>4 DEF WorksRight, SleepsRight, Works
  <2> QED BY <2>2, <2>3 DEF Inside
<1>16. \A r \in Sems \ {s} :
         /\ ss_Owner'[r] = ss_Owner[r] /\ ss_NestCount'[r] = ss_NestCount[r]
         /\ ss_QueueCount'[r] = ss_QueueCount[r] /\ ss_WaitQueue'[r] = ss_WaitQueue[r]
         /\ excl'[r] = excl[r] /\ shared'[r] = shared[r]
  BY <1>1, <1>2, <1>10 DEF Types
<1> QED BY <1>1, <1>2, <1>5, <1>10, <1>11, <1>12, <1>13, <1>14, <1>15, <1>16, StepOnOne

-----------------------------------------------------------------------------
(* The invariant and the theorems.                                         *)

\* All semaphores are free at first.
LEMMA InitSemInv == Init => SemInv
<1> SUFFICES ASSUME Init PROVE SemInv
  OBVIOUS
<1>1. TypeOK
  BY MaxNestAssumption DEF Init, TypeOK
<1>2. \A t \in Tasks : pc[t] = "run" /\ tdNest[t] = -1
  BY DEF Init
<1>3. Alone
  BY <1>2 DEF Alone, Works, Lists, Busy, InCall
<1>4. \A t \in Tasks : Inside(t)
  BY <1>2 DEF Inside, WorksRight, SleepsRight, ListsRight, Works
<1>5. ASSUME NEW s \in Sems PROVE Owned(s) /\ Queued(s) /\ Waiting(s)
  <2>1. /\ ss_Owner[s] = Nobody /\ ss_NestCount[s] = 0 /\ ss_QueueCount[s] = -1
        /\ ss_WaitQueue[s] = <<>> /\ \A t \in Tasks : excl[s][t] = 0 /\ shared[s][t] = 0
    BY DEF Init
  <2>2. ~Counted(s) /\ ~Releasing(s)
    BY <1>2 DEF Counted, Releasing, WorksOn, Works
  <2>3. SharedHolds(s) = {}
    BY <2>1 DEF SharedHolds
  <2>4. Owned(s)
    BY <2>1, <2>2, <2>3, FS_EmptySet, TasksAssumption DEF Owned
  <2>5. Queued(s)
    <3>1. (IF Counted(s) THEN 1 ELSE 0) = 0 /\ Len(ss_WaitQueue[s]) = 0
      BY <2>1, <2>2
    <3> QED BY <2>1, <3>1 DEF Queued
  <2>6. Waiting(s)
    BY <2>1 DEF Waiting
  <2> QED BY <2>4, <2>5, <2>6
<1> QED BY <1>1, <1>3, <1>4, <1>5 DEF SemInv

\* A step inside a call keeps the invariant,
LEMMA InExecSemInv ==
    ASSUME SemInv, NEW t \in Tasks, InExec(t) PROVE SemInv'
<1>1. ASSUME Claim(t) \/ Nest(t) \/ Undo(t) \/ EnterQueue(t) \/ Awake(t) PROVE SemInv'
  BY <1>1, ClaimStep, NestStep, UndoStep, EnterQueueStep, AwakeStep
<1>2. ASSUME ReleaseTest(t) \/ Handoff(t) \/ Clear(t) PROVE SemInv'
  BY <1>2, ReleaseTestStep, HandoffStep, ClearStep
<1>3. ASSUME ListAwake(t) PROVE SemInv'
  BY <1>3, ListWaitStep
<1>4. ASSUME NEW s \in Sems, ListFirst(t, s) \/ ListSecond(t, s) \/ ListWait(t, s) PROVE SemInv'
  BY <1>4, ListFirstStep, ListSecondStep, ListWaitStep
<1> QED BY <1>1, <1>2, <1>3, <1>4 DEF InExec

\* so does a step of a careful program,
LEMMA ProgramSemInv ==
    ASSUME SemInv, Careful, ~SharedMayWait, NEW t \in Tasks, Program(t) PROVE SemInv'
<1>1. ASSUME ProgramWait(t) \/ ObtainSemaphoreList(t) PROVE SemInv'
  BY <1>1, ProgramWaitStep, ObtainSemaphoreListStep
<1>2. ASSUME NEW s \in Sems, ReleaseSemaphore(t, s) PROVE SemInv'
  BY <1>2, ReleaseSemaphoreStep
<1>3. ASSUME NEW s \in Sems,
             ObtainSemaphore(t, s) \/ ObtainSemaphoreShared(t, s)
                \/ AttemptSemaphore(t, s) \/ AttemptSemaphoreShared(t, s)
      PROVE  SemInv'
  <2>1. PICK mode \in {"exclusive", "shared"}, wait \in BOOLEAN :
          /\ Request(t, s, mode, wait)
          /\ mode = "shared" /\ wait => ss_QueueCount[s] = -1 \/ MayNest(t, s, mode)
    BY <1>3 DEF ObtainSemaphore, ObtainSemaphoreShared, AttemptSemaphore, AttemptSemaphoreShared
  <2> QED BY <2>1, RequestStep
<1> QED BY <1>1, <1>2, <1>3 DEF Program

\* and so does no step at all.
LEMMA StutterSemInv == ASSUME SemInv, UNCHANGED vars PROVE SemInv'
<1>1. UNCHANGED <<ss_Owner, ss_NestCount, ss_QueueCount, ss_WaitQueue, tdNest, single, pc, call,
                  todo, excl, shared>>
  BY DEF vars, semVars, heldVars
<1>2. TypeOK' /\ Alone'
  BY <1>1 DEF SemInv, TypeOK, Alone, Works, Lists, Busy, InCall
<1>3. ASSUME NEW s \in Sems PROVE Owned(s)' /\ Queued(s)' /\ Waiting(s)'
  <2>1. Owned(s) /\ Queued(s) /\ Waiting(s)
    BY DEF SemInv
  <2>2. (Counted(s)' <=> Counted(s)) /\ (Releasing(s)' <=> Releasing(s))
    BY <1>1 DEF Counted, Releasing, WorksOn, Works
  <2>3. Owned(s)' /\ Queued(s)'
    BY <1>1, <2>1, <2>2, Untouched
  <2>4. Waiting(s)'
    BY <1>1, <2>1 DEF Waiting, Lists
  <2> QED BY <2>3, <2>4
<1>4. ASSUME NEW t \in Tasks PROVE Inside(t)'
  <2>1. Inside(t)
    BY DEF SemInv
  <2> QED BY <1>1, <2>1 DEF Inside, WorksRight, SleepsRight, ListsRight, Works, Waiters, MayNest
<1> QED BY <1>2, <1>3, <1>4 DEF SemInv

\* So every step keeps it.
LEMMA NextSemInv ==
    ASSUME SemInv, Careful, ~SharedMayWait, [Next]_vars PROVE SemInv'
BY InExecSemInv, ProgramSemInv, StutterSemInv DEF Next

\* SemInv holds at every moment.
LEMMA AlwaysSemInv ==
    ASSUME Careful, ~SharedMayWait PROVE Spec => []SemInv
BY InitSemInv, NextSemInv, PTL DEF Spec

\* No two tasks hold a semaphore but in shared mode.
THEOREM SemaphoresExclude ==
    ASSUME Careful, ~SharedMayWait PROVE Spec => []MutualExclusion
<1>1. ASSUME SemInv PROVE MutualExclusion
  <2> SUFFICES ASSUME NEW s \in Sems, NEW t \in Tasks, NEW u \in Tasks, t # u, excl[s][t] > 0
               PROVE  excl[s][u] = 0 /\ shared[s][u] = 0
    BY DEF MutualExclusion
  <2>1. Types /\ Owned(s)
    BY <1>1, TypesByName DEF SemInv
  <2>2. excl[s][u] \in Nat /\ shared[s][u] \in 0 .. MaxNest
    BY <2>1, MaxNestAssumption DEF Types, Holds
  <2>3. excl[s][u] = 0
    BY <2>1, <2>2 DEF Owned
  <2>4. <<u, 1>> \notin SharedHolds(s)
    BY <2>1 DEF Owned
  <2>5. shared[s][u] = 0
    BY <2>2, <2>4, MaxNestAssumption DEF SharedHolds
  <2> QED BY <2>3, <2>5
<1> QED BY <1>1, AlwaysSemInv, PTL

\* When no call is on its way, owner, nest count and queue count of each
\* semaphore say who holds it and who waits.
THEOREM CountsRight ==
    ASSUME Careful, ~SharedMayWait PROVE Spec => []CountsAgree
<1>1. ASSUME SemInv PROVE CountsAgree
  <2> SUFFICES ASSUME \A t \in Tasks : ~InCall(t), NEW s \in Sems
               PROVE  /\ ss_Owner[s] = Nobody <=> \A t \in Tasks : excl[s][t] = 0
                      /\ \A t \in Tasks : ss_Owner[s] = t <=> excl[s][t] > 0
                      /\ ss_Owner[s] \in Tasks => ss_NestCount[s] = excl[s][ss_Owner[s]]
                      /\ ss_QueueCount[s] = ss_NestCount[s] + Len(ss_WaitQueue[s]) - 1
                      /\ ss_WaitQueue[s] # <<>> => ss_NestCount[s] > 0
    BY DEF CountsAgree
  <2>1. Types /\ Owned(s) /\ Queued(s)
    BY <1>1, TypesByName DEF SemInv
  <2>2. ~Counted(s) /\ ~Releasing(s)
    BY DEF Counted, Releasing, WorksOn, Works, InCall
  <2>3. \A t \in Tasks : excl[s][t] \in Nat
    BY <2>1, MaxNestAssumption DEF Types, Holds
  <2>4. ss_Owner[s] \in Tasks => excl[s][ss_Owner[s]] > 0
    BY <2>1, <2>2 DEF Owned
  <2>5. \A t \in Tasks : ss_Owner[s] = t <=> excl[s][t] > 0
    BY <2>1, <2>4 DEF Owned
  <2>6. ss_Owner[s] \in Tasks \/ ss_Owner[s] = Nobody
    BY <2>1 DEF Owned, Types
  <2>7. ss_Owner[s] = Nobody <=> \A t \in Tasks : excl[s][t] = 0
    BY <2>3, <2>4, <2>5, <2>6, TasksAssumption
  <2>8. ss_Owner[s] \in Tasks => ss_NestCount[s] = excl[s][ss_Owner[s]]
    BY <2>1, <2>4 DEF Owned
  <2>9. ss_QueueCount[s] = ss_NestCount[s] + Len(ss_WaitQueue[s]) - 1
    <3>1. (IF Counted(s) THEN 1 ELSE 0) = 0
      BY <2>2
    <3>2. ss_NestCount[s] \in Int /\ Len(ss_WaitQueue[s]) \in Nat
      BY <2>1 DEF Types
    <3> QED BY <2>1, <3>1, <3>2 DEF Queued
  <2>10. ss_WaitQueue[s] # <<>> => ss_NestCount[s] > 0
    BY <2>1, <2>2 DEF Queued
  <2> QED BY <2>5, <2>7, <2>8, <2>9, <2>10
<1> QED BY <1>1, AlwaysSemInv, PTL

\* A task that sleeps for a semaphore is in its wait queue or signalled.
THEOREM RequestsRemembered ==
    ASSUME Careful, ~SharedMayWait PROVE Spec => []NoRequestForgotten
<1>1. ASSUME SemInv PROVE NoRequestForgotten
  BY <1>1 DEF SemInv, Inside, SleepsRight, NoRequestForgotten
<1> QED BY <1>1, AlwaysSemInv, PTL

\* Whoever comes back from a call that waited owns what he asked for.
THEOREM ObtainedAreOwned ==
    ASSUME Careful, ~SharedMayWait PROVE Spec => ObtainedIsOwned
<1> DEFINE Obtained ==
      \A t \in Tasks :
        /\ pc[t] = "wait" /\ pc'[t] = "run" => excl[call[t].sem][t] > 0
        /\ pc[t] = "second" /\ pc'[t] = "run" => \A s \in Sems : excl[s][t] > 0
<1>1. ASSUME SemInv, Next PROVE Obtained
  <2>1. PICK u \in Tasks : InExec(u) \/ Program(u)
    BY <1>1 DEF Next
  <2>2. Types /\ OnlyMoves(u)
    BY <1>1, <2>1, OneMoves, TypesByName DEF SemInv
  <2> SUFFICES ASSUME NEW t \in Tasks
               PROVE  /\ pc[t] = "wait" /\ pc'[t] = "run" => excl[call[t].sem][t] > 0
                      /\ pc[t] = "second" /\ pc'[t] = "run" => \A s \in Sems : excl[s][t] > 0
    OBVIOUS
  <2>3. CASE t # u
    BY <2>2, <2>3 DEF OnlyMoves
  <2>4. ASSUME t = u, pc[t] = "wait", pc'[t] = "run" PROVE excl[call[t].sem][t] > 0
    <3>1. single[t]
      BY <2>1, <2>4 DEF InExec, Program, Claim, Nest, Undo, EnterQueue, Awake, ReleaseTest, Handoff,
         Clear, ListAwake, ListFirst, ListSecond, ListWait, ProgramWait, ObtainSemaphoreList,
         ObtainSemaphore, ObtainSemaphoreShared, AttemptSemaphore, AttemptSemaphoreShared,
         ReleaseSemaphore, Request, MayCall, At
    <3> QED BY <1>1, <2>4, <3>1 DEF SemInv, Inside, SleepsRight
  <2>5. ASSUME t = u, pc[t] = "second", pc'[t] = "run" PROVE \A s \in Sems : excl[s][t] > 0
    <3>1. PICK s \in Sems : ListSecond(t, s) \/ ListWait(t, s)
      BY <2>1, <2>5 DEF InExec, Program, Claim, Nest, Undo, EnterQueue, Awake, ReleaseTest, Handoff,
         Clear, ListAwake, ListFirst, ProgramWait, ObtainSemaphoreList,
         ObtainSemaphore, ObtainSemaphoreShared, AttemptSemaphore, AttemptSemaphoreShared,
         ReleaseSemaphore, Request, MayCall, At
    <3>2. ~ListWait(t, s)
      BY <2>2, <2>5 DEF ListWait, Goto, Types
    <3> QED BY <1>1, <2>5, <3>1, <3>2, ListSecondStep
  <2> QED BY <2>3, <2>4, <2>5
<1>2. ASSUME UNCHANGED vars PROVE Obtained
  BY <1>2 DEF vars
<1>3. SemInv /\ [Next]_vars => [Obtained]_vars
  BY <1>1, <1>2
<1> QED BY <1>3, AlwaysSemInv, PTL DEF Spec, ObtainedIsOwned

-----------------------------------------------------------------------------
(* The semaphores implement the lock.                                      *)

\* The tasks of a wait queue, and the wait queues of the lock.
TasksOf(q) == [i \in 1 .. Len(q) |-> q[i].task]
LockQueue == [s \in Sems |-> TasksOf(ss_WaitQueue[s])]

\* Adding to and taking from a wait queue, seen as a queue of tasks.
LEMMA TasksOfQueue ==
    ASSUME NEW q \in Seq(Requests)
    PROVE  /\ TasksOf(q) \in Seq(Tasks) /\ Len(TasksOf(q)) = Len(q)
           /\ TasksOf(q) = <<>> <=> q = <<>>
           /\ q # <<>> => Head(TasksOf(q)) = Head(q).task /\ TasksOf(Tail(q)) = Tail(TasksOf(q))
           /\ \A r \in Requests : TasksOf(Append(q, r)) = Append(TasksOf(q), r.task)
<1>1. \A p \in Seq(Requests) : TasksOf(p) \in Seq(Tasks) /\ Len(TasksOf(p)) = Len(p)
  <2> SUFFICES ASSUME NEW p \in Seq(Requests)
               PROVE  TasksOf(p) \in Seq(Tasks) /\ Len(TasksOf(p)) = Len(p)
    OBVIOUS
  <2>1. \A i \in 1 .. Len(p) : p[i].task \in Tasks
    <3>1. \A i \in 1 .. Len(p) : p[i] \in Requests
      OBVIOUS
    <3> QED BY <3>1 DEF Requests
  <2> QED BY <2>1 DEF TasksOf
<1>2. \A p \in Seq(Requests) : \A i \in 1 .. Len(p) : TasksOf(p)[i] = p[i].task
  BY DEF TasksOf
<1>3. TasksOf(q) = <<>> <=> q = <<>>
  BY <1>1
<1>4. ASSUME q # <<>> PROVE Head(TasksOf(q)) = Head(q).task /\ TasksOf(Tail(q)) = Tail(TasksOf(q))
  <2>1. /\ Tail(q) \in Seq(Requests) /\ Len(Tail(q)) = Len(q) - 1 /\ Len(q) > 0 /\ Len(q) \in Nat
        /\ \A i \in 1 .. Len(q) - 1 : Tail(q)[i] = q[i + 1]
    BY <1>4
  <2>2. TasksOf(q) # <<>> /\ TasksOf(q) \in Seq(Tasks) /\ Len(TasksOf(q)) = Len(q)
    BY <1>1, <1>3, <1>4
  <2>3. /\ Tail(TasksOf(q)) \in Seq(Tasks) /\ Len(Tail(TasksOf(q))) = Len(q) - 1
        /\ \A i \in 1 .. Len(q) - 1 : Tail(TasksOf(q))[i] = TasksOf(q)[i + 1]
    BY <2>2
  <2>4. TasksOf(Tail(q)) \in Seq(Tasks) /\ Len(TasksOf(Tail(q))) = Len(q) - 1
    BY <1>1, <2>1
  <2>5. \A i \in 1 .. Len(q) - 1 : TasksOf(Tail(q))[i] = Tail(TasksOf(q))[i]
    <3> SUFFICES ASSUME NEW i \in 1 .. Len(q) - 1 PROVE TasksOf(Tail(q))[i] = Tail(TasksOf(q))[i]
      OBVIOUS
    <3>1. i + 1 \in 1 .. Len(q)
      BY <2>1
    <3>2. TasksOf(Tail(q))[i] = Tail(q)[i].task
      BY <1>2, <2>1
    <3>3. TasksOf(q)[i + 1] = q[i + 1].task
      BY <1>2, <3>1
    <3> QED BY <2>1, <2>3, <3>2, <3>3
  <2>6. TasksOf(Tail(q)) = Tail(TasksOf(q))
    BY <2>3, <2>4, <2>5, SeqEqual
  <2>7. Head(TasksOf(q)) = TasksOf(q)[1] /\ Head(q) = q[1] /\ TasksOf(q)[1] = q[1].task
    BY <1>2, <2>1, <2>2
  <2> QED BY <2>6, <2>7
<1>5. ASSUME NEW r \in Requests PROVE TasksOf(Append(q, r)) = Append(TasksOf(q), r.task)
  <2>1. r.task \in Tasks
    BY DEF Requests
  <2>2. /\ Append(q, r) \in Seq(Requests) /\ Len(Append(q, r)) = Len(q) + 1 /\ Len(q) \in Nat
        /\ Append(q, r)[Len(q) + 1] = r /\ \A i \in 1 .. Len(q) : Append(q, r)[i] = q[i]
    OBVIOUS
  <2>3. TasksOf(q) \in Seq(Tasks) /\ Len(TasksOf(q)) = Len(q)
    BY <1>1
  <2>4. /\ Append(TasksOf(q), r.task) \in Seq(Tasks) /\ Len(Append(TasksOf(q), r.task)) = Len(q) + 1
        /\ Append(TasksOf(q), r.task)[Len(q) + 1] = r.task
        /\ \A i \in 1 .. Len(q) : Append(TasksOf(q), r.task)[i] = TasksOf(q)[i]
    BY <2>1, <2>3
  <2>5. TasksOf(Append(q, r)) \in Seq(Tasks) /\ Len(TasksOf(Append(q, r))) = Len(q) + 1
    BY <1>1, <2>2
  <2>6. \A i \in 1 .. Len(q) + 1 : TasksOf(Append(q, r))[i] = Append(TasksOf(q), r.task)[i]
    <3> SUFFICES ASSUME NEW i \in 1 .. Len(q) + 1
                 PROVE  TasksOf(Append(q, r))[i] = Append(TasksOf(q), r.task)[i]
      OBVIOUS
    <3>1. TasksOf(Append(q, r))[i] = Append(q, r)[i].task
      BY <1>2, <2>2
    <3>2. CASE i \in 1 .. Len(q)
      <4>1. TasksOf(q)[i] = q[i].task
        BY <1>2, <3>2
      <4> QED BY <2>2, <2>4, <3>1, <3>2, <4>1
    <3>3. CASE i = Len(q) + 1
      BY <2>2, <2>4, <3>1, <3>3
    <3>4. i \in 1 .. Len(q) \/ i = Len(q) + 1
      <4>1. Len(q) \in Nat
        OBVIOUS
      <4> QED BY <4>1
    <3> QED BY <3>2, <3>3, <3>4
  <2> QED BY <2>4, <2>5, <2>6, SeqEqual
<1> QED BY <1>1, <1>3, <1>4, <1>5

\* The actions of the lock, in terms of the semaphores.
LockFree(s) == \A t \in Tasks : excl[s][t] = 0 /\ shared[s][t] = 0

\* A queue without requests is one without tasks.
LEMMA EmptyQueue == TasksOf(<<>>) = <<>>
<1>1. Len(<<>>) = 0
  OBVIOUS
<1> QED BY <1>1 DEF TasksOf

\* What makes a step one of SemLock: an exclusive hold of a lock that is free or owned already,
LEMMA LockAcquires ==
    ASSUME NEW s \in Sems, NEW t \in Tasks,
           excl[s][t] > 0 \/ (LockFree(s) /\ ss_WaitQueue[s] = <<>>),
           excl' = [excl EXCEPT ![s][t] = @ + 1], UNCHANGED <<shared, ss_WaitQueue>>
    PROVE  Lock!Next
<1>1. Lock!Acquire(t, s)
  BY EmptyQueue DEF Lock!Acquire, Lock!Free, Lock!NoneExclusive, LockFree, TasksOf
<1> QED BY <1>1 DEF Lock!Next

\* a shared hold,
LEMMA LockShares ==
    ASSUME NEW s \in Sems, NEW t \in Tasks,
           \A u \in Tasks : excl[s][u] = 0, LockFree(s) => ss_WaitQueue[s] = <<>>,
           shared' = [shared EXCEPT ![s][t] = @ + 1], UNCHANGED <<excl, ss_WaitQueue>>
    PROVE  Lock!Next
<1>1. Lock!AcquireShared(t, s)
  BY EmptyQueue DEF Lock!AcquireShared, Lock!Free, Lock!NoneExclusive, LockFree, TasksOf
<1> QED BY <1>1 DEF Lock!Next

\* a place in the queue,
LEMMA LockWaits ==
    ASSUME Types, NEW s \in Sems, NEW t \in Tasks, ~LockFree(s), excl[s][t] = 0,
           ss_WaitQueue' = [ss_WaitQueue EXCEPT ![s] = Append(@, [task |-> t, waiter |-> t])],
           UNCHANGED <<excl, shared>>
    PROVE  Lock!Next
<1>1. LockQueue' = [LockQueue EXCEPT ![s] = Append(@, t)]
  <2>1. ss_WaitQueue \in [Sems -> Seq(Requests)] /\ [task |-> t, waiter |-> t] \in Requests
    BY DEF Types, Requests
  <2>2. TasksOf(Append(ss_WaitQueue[s], [task |-> t, waiter |-> t])) = Append(TasksOf(ss_WaitQueue[s]), t)
    <3> DEFINE r == [task |-> t, waiter |-> t]
    <3>1. r \in Requests /\ r.task = t
      BY <2>1
    <3> HIDE DEF r
    <3>2. TasksOf(Append(ss_WaitQueue[s], r)) = Append(TasksOf(ss_WaitQueue[s]), r.task)
      BY <2>1, <3>1, TasksOfQueue
    <3>3. TasksOf(Append(ss_WaitQueue[s], r)) = Append(TasksOf(ss_WaitQueue[s]), t)
      BY <3>1, <3>2
    <3> QED BY <3>3 DEF r
  <2>3. /\ ss_WaitQueue'[s] = Append(ss_WaitQueue[s], [task |-> t, waiter |-> t])
        /\ \A r \in Sems \ {s} : ss_WaitQueue'[r] = ss_WaitQueue[r]
    BY <2>1
  <2>4. LockQueue' = [r \in Sems |-> TasksOf(ss_WaitQueue'[r])]
    BY DEF LockQueue, TasksOf
  <2>5. LockQueue'[s] = Append(LockQueue[s], t)
    BY <2>2, <2>3, <2>4 DEF LockQueue
  <2>6. \A r \in Sems \ {s} : LockQueue'[r] = LockQueue[r]
    BY <2>3, <2>4 DEF LockQueue
  <2>7. LockQueue = [r \in Sems |-> LockQueue[r]] /\ LockQueue' = [r \in Sems |-> LockQueue'[r]]
    BY <2>4 DEF LockQueue
  <2> HIDE DEF LockQueue
  <2> QED BY <2>5, <2>6, <2>7
<1>2. Lock!Wait(t, s)
  BY <1>1 DEF Lock!Wait, Lock!Free, Lock!NoneExclusive, LockFree, LockQueue, TasksOf
<1> QED BY <1>2 DEF Lock!Next

\* a hold that is given back,
LEMMA LockReleases ==
    ASSUME NEW s \in Sems, NEW t \in Tasks,
           \/ excl[s][t] > 0 /\ excl' = [excl EXCEPT ![s][t] = @ - 1] /\ UNCHANGED shared
           \/ shared[s][t] > 0 /\ shared' = [shared EXCEPT ![s][t] = @ - 1] /\ UNCHANGED excl,
           UNCHANGED ss_WaitQueue
    PROVE  Lock!Next
<1>1. Lock!Release(t, s)
  BY DEF Lock!Release
<1> QED BY <1>1 DEF Lock!Next

\* or a free lock that goes to the first in the queue.
LEMMA LockGrants ==
    ASSUME Types, NEW s \in Sems, LockFree(s), ss_WaitQueue[s] # <<>>,
           excl' = [excl EXCEPT ![s][Head(ss_WaitQueue[s]).task] = 1],
           ss_WaitQueue' = [ss_WaitQueue EXCEPT ![s] = Tail(@)], UNCHANGED shared
    PROVE  Lock!Next
<1>1. ss_WaitQueue \in [Sems -> Seq(Requests)]
  BY DEF Types
<1>2. /\ TasksOf(ss_WaitQueue[s]) # <<>>
      /\ Head(TasksOf(ss_WaitQueue[s])) = Head(ss_WaitQueue[s]).task
      /\ TasksOf(Tail(ss_WaitQueue[s])) = Tail(TasksOf(ss_WaitQueue[s]))
  BY <1>1, TasksOfQueue
<1>3. LockQueue' = [LockQueue EXCEPT ![s] = Tail(@)]
  <2>3. /\ ss_WaitQueue'[s] = Tail(ss_WaitQueue[s])
        /\ \A r \in Sems \ {s} : ss_WaitQueue'[r] = ss_WaitQueue[r]
    BY <1>1
  <2>4. LockQueue' = [r \in Sems |-> TasksOf(ss_WaitQueue'[r])]
    BY DEF LockQueue, TasksOf
  <2>5. LockQueue'[s] = Tail(LockQueue[s])
    BY <1>2, <2>3, <2>4 DEF LockQueue
  <2>6. \A r \in Sems \ {s} : LockQueue'[r] = LockQueue[r]
    BY <2>3, <2>4 DEF LockQueue
  <2>7. LockQueue = [r \in Sems |-> LockQueue[r]] /\ LockQueue' = [r \in Sems |-> LockQueue'[r]]
    BY <2>4 DEF LockQueue
  <2> HIDE DEF LockQueue
  <2> QED BY <2>5, <2>6, <2>7
<1>4. /\ LockQueue[s] # <<>>
      /\ excl' = [excl EXCEPT ![s][Head(LockQueue[s])] = 1]
  BY <1>2 DEF LockQueue
<1>5. Lock!Grant(s)
  BY <1>3, <1>4 DEF Lock!Grant, Lock!Free, Lock!NoneExclusive, LockFree, LockQueue, TasksOf
<1> QED BY <1>5 DEF Lock!Next

\* What nobody works on is free for the lock when ss_NestCount is 0, and only then.
LEMMA FreeWhenZero ==
    ASSUME SemInv, NEW s \in Sems, ~Releasing(s)
    PROVE  LockFree(s) <=> ss_NestCount[s] = 0
<1>1. Types /\ Owned(s)
  BY TypesByName DEF SemInv
<1>2. ss_NestCount[s] \in Nat
  BY NestCounts
<1>3. ss_NestCount[s] = 0 => LockFree(s)
  BY NestCounts DEF LockFree
<1>4. ASSUME ss_NestCount[s] > 0 PROVE ~LockFree(s)
  <2>1. ss_Owner[s] \in Tasks => excl[s][ss_Owner[s]] > 0
    BY <1>1 DEF Owned
  <2>2. ss_Owner[s] = Nobody => \E t \in Tasks : shared[s][t] > 0
    BY <1>4, NestCounts
  <2>3. ss_Owner[s] \in Tasks \/ ss_Owner[s] = Nobody
    BY <1>1 DEF Owned, Types
  <2> QED BY <2>1, <2>2, <2>3 DEF LockFree
<1> QED BY <1>2, <1>3, <1>4

\* A step of the semaphores is a step of the lock, or none.
Calm == UNCHANGED <<excl, shared, ss_WaitQueue>>

\* The steps inside ObtainSemaphore() and ReleaseSemaphore() that the lock sees.
LEMMA WorkSimulated ==
    ASSUME SemInv, NEW t \in Tasks, Claim(t) \/ Nest(t) \/ EnterQueue(t) \/ Handoff(t)
    PROVE  Lock!Next
<1>1. call[t].sem \in Sems
  BY DEF SemInv, Inside, WorksRight, Claim, Nest, EnterQueue, Handoff, At, Works
<1>2. PICK s \in Sems : s = call[t].sem
  BY <1>1
<1>3. /\ Types /\ OnlyMoves(t) /\ MayRun(t) /\ Works(t) /\ Owned(s) /\ WorksRight(t)
      /\ Waiting(s)
  BY OneMoves, TypesByName
  DEF InExec, SemInv, Inside, Works, Claim, Nest, EnterQueue, Handoff, At
<1>4. CASE Claim(t)
  <2>1. ~Releasing(s)
    BY <1>2, <1>3, <1>4, OnlyOneWorks DEF Claim, At
  <2>2. ss_NestCount[s] = 0 /\ ss_WaitQueue[s] = <<>>
    BY <1>2, <1>3, <1>4 DEF Claim, At, WorksRight
  <2>3. LockFree(s)
    BY <2>1, <2>2, FreeWhenZero
  <2>4. \/ excl' = [excl EXCEPT ![s][t] = @ + 1] /\ UNCHANGED <<shared, ss_WaitQueue>>
        \/ shared' = [shared EXCEPT ![s][t] = @ + 1] /\ UNCHANGED <<excl, ss_WaitQueue>>
    BY <1>2, <1>4 DEF Claim
  <2>5. \A u \in Tasks : excl[s][u] = 0
    BY <2>3 DEF LockFree
  <2> QED BY <2>2, <2>3, <2>4, <2>5, LockAcquires, LockShares
<1>5. CASE Nest(t)
  <2>1. ~Releasing(s)
    BY <1>2, <1>3, <1>5, OnlyOneWorks DEF Nest, At
  <2>2. ss_NestCount[s] > 0 /\ MayNest(t, s, call[t].mode)
    BY <1>2, <1>3, <1>5 DEF Nest, At, WorksRight
  <2>3. ~LockFree(s)
    BY <2>1, <2>2, FreeWhenZero
  <2>4. \/ ss_Owner[s] = t /\ excl' = [excl EXCEPT ![s][t] = @ + 1] /\ UNCHANGED <<shared, ss_WaitQueue>>
        \/ ss_Owner[s] # t /\ shared' = [shared EXCEPT ![s][t] = @ + 1] /\ UNCHANGED <<excl, ss_WaitQueue>>
    BY <1>2, <1>5 DEF Nest
  <2>5. ss_Owner[s] = t => excl[s][t] > 0
    BY <1>3, <2>1 DEF Owned
  <2>6. ss_Owner[s] # t => \A u \in Tasks : excl[s][u] = 0
    <3>1. \A u \in Tasks : excl[s][u] \in Nat
      BY <1>3, MaxNestAssumption DEF Types, Holds
    <3>2. ss_Owner[s] # t => ss_Owner[s] \notin Tasks
      BY <2>2, TasksAssumption DEF MayNest
    <3> QED BY <1>3, <3>1, <3>2 DEF Owned
  <2> QED BY <2>3, <2>4, <2>5, <2>6, LockAcquires, LockShares
<1>6. CASE EnterQueue(t)
  <2>1. ~Releasing(s)
    BY <1>2, <1>3, <1>6, OnlyOneWorks DEF EnterQueue, At
  <2>2. call[t].mode = "exclusive" /\ ss_NestCount[s] > 0 /\ ss_Owner[s] # t
    BY <1>2, <1>3, <1>6 DEF EnterQueue, At, WorksRight
  <2>3. ~LockFree(s)
    BY <2>1, <2>2, FreeWhenZero
  <2>4. excl[s][t] = 0
    <3>1. excl[s][t] \in Nat
      BY <1>3, MaxNestAssumption DEF Types, Holds
    <3> QED BY <1>3, <2>2, <3>1 DEF Owned
  <2>5. ss_WaitQueue' = [ss_WaitQueue EXCEPT ![s] = Append(@, [task |-> t, waiter |-> t])]
    <3>1. ss_WaitQueue' = [ss_WaitQueue EXCEPT ![s] = Append(@, [task |-> t,
                  waiter |-> IF call[t].mode = "exclusive" THEN t ELSE Odd])]
      BY <1>2, <1>6 DEF EnterQueue
    <3>2. (IF call[t].mode = "exclusive" THEN t ELSE Odd) = t
      BY <2>2
    <3> QED BY <3>1, <3>2, Zenon
  <2>6. UNCHANGED <<excl, shared>>
    BY <1>6 DEF EnterQueue, heldVars
  <2> QED BY <1>3, <2>3, <2>4, <2>5, <2>6, LockWaits
<1>7. CASE Handoff(t)
  <2>1. ss_WaitQueue[s] # <<>>
    BY <1>2, <1>3, <1>7 DEF Handoff, At, WorksRight
  <2>2. LockFree(s)
    BY <1>2, <1>3, <1>7, Released DEF Handoff, At, LockFree
  <2>3. Head(ss_WaitQueue[s]).waiter = Head(ss_WaitQueue[s]).task /\ Head(ss_WaitQueue[s]).task \in Tasks
    <3>1. ss_WaitQueue[s] \in Seq(Requests)
      BY <1>3 DEF Types
    <3>2. /\ 1 \in 1 .. Len(ss_WaitQueue[s]) /\ Head(ss_WaitQueue[s]) = ss_WaitQueue[s][1]
          /\ ss_WaitQueue[s][1] \in Requests
      BY <2>1, <3>1
    <3>3. ss_WaitQueue[s][1].waiter = ss_WaitQueue[s][1].task
      BY <1>3, <3>2 DEF Waiting
    <3> QED BY <3>2, <3>3 DEF Requests
  <2>4. PICK w \in Tasks : w = Head(ss_WaitQueue[s]).waiter /\ w = Head(ss_WaitQueue[s]).task
    BY <2>3
  <2>5. /\ excl' = [excl EXCEPT ![s][w] = 1]
        /\ ss_WaitQueue' = [ss_WaitQueue EXCEPT ![s] = Tail(@)] /\ UNCHANGED shared
    BY <1>2, <1>7, <2>4 DEF Handoff
  <2> QED BY <1>3, <2>1, <2>2, <2>4, <2>5, LockGrants
<1> QED BY <1>4, <1>5, <1>6, <1>7

\* The first round of ObtainSemaphoreList() takes what is free and queues for the rest.
LEMMA ListFirstSimulated ==
    ASSUME SemInv, NEW t \in Tasks, NEW s \in Sems, ListFirst(t, s)
    PROVE  Lock!Next
<1>1. Types /\ OnlyMoves(t) /\ MayRun(t) /\ Owned(s) /\ Queued(s) /\ pc[t] = "first"
  BY OneMoves, TypesByName DEF InExec, SemInv, ListFirst, At
<1>2. ~Counted(s) /\ ~Releasing(s)
  BY <1>1, OnlyOneWorks
<1>3. excl[s][t] = 0
  BY DEF SemInv, Inside, ListsRight, ListFirst, At
<1>4. PICK n \in Nat, m \in Nat : n = ss_NestCount[s] /\ m = Len(ss_WaitQueue[s])
  <2>1. ss_NestCount[s] \in Nat /\ Len(ss_WaitQueue[s]) \in Nat
    BY <1>1, NestCounts DEF Types
  <2> QED BY <2>1
<1>5. /\ ss_QueueCount[s] = n + m - 1
      /\ m > 0 => n > 0
      /\ m = 0 => ss_WaitQueue[s] = <<>>
  <2>1. (IF Counted(s) THEN 1 ELSE 0) = 0
    BY <1>2
  <2>2. ss_QueueCount[s] = ss_NestCount[s] + Len(ss_WaitQueue[s]) - 1
                              + (IF Counted(s) THEN 1 ELSE 0)
    BY <1>1, Zenon DEF Queued
  <2>3. ss_QueueCount[s] = n + m - 1 + 0
    BY <1>4, <2>1, <2>2, Zenon
  <2>4. ss_WaitQueue[s] \in Seq(Requests)
    BY <1>1 DEF Types
  <2>5. m > 0 => n > 0
    BY <1>1, <1>2, <1>4, <2>4 DEF Queued
  <2>6. m = 0 => ss_WaitQueue[s] = <<>>
    <3>1. Len(ss_WaitQueue[s]) = 0 => ss_WaitQueue[s] = <<>>
      BY <2>4
    <3> QED BY <1>4, <3>1
  <2> QED BY <2>3, <2>5, <2>6
<1>6. ss_Owner[s] # t
  BY <1>1, <1>2, <1>3 DEF Owned
<1>7. CASE ss_QueueCount[s] # -1
  <2>1. n > 0
    BY <1>5, <1>7
  <2>2. ~LockFree(s)
    BY <1>2, <1>4, <2>1, FreeWhenZero
  <2>3. /\ ss_WaitQueue' = [ss_WaitQueue EXCEPT ![s] = Append(@, [task |-> t, waiter |-> t])]
        /\ UNCHANGED <<excl, shared>>
    BY <1>6, <1>7 DEF ListFirst
  <2> QED BY <1>1, <1>3, <2>2, <2>3, LockWaits
<1>8. CASE ss_QueueCount[s] = -1
  <2>1. n = 0 /\ ss_WaitQueue[s] = <<>>
    BY <1>5, <1>8
  <2>2. LockFree(s)
    BY <1>2, <1>4, <2>1, FreeWhenZero
  <2>3. excl' = [excl EXCEPT ![s][t] = @ + 1] /\ UNCHANGED <<shared, ss_WaitQueue>>
    BY <1>8 DEF ListFirst
  <2> QED BY <2>1, <2>2, <2>3, LockAcquires
<1> QED BY <1>7, <1>8

\* All other steps but those of ReleaseSemaphore() leave ownership and queues alone,
LEMMA CalmSteps ==
    ASSUME NEW t \in Tasks,
           \/ Undo(t) \/ Awake(t) \/ ReleaseTest(t) \/ Clear(t) \/ ListAwake(t)
           \/ ProgramWait(t) \/ ObtainSemaphoreList(t)
           \/ \E s \in Sems : \/ ListSecond(t, s) \/ ListWait(t, s)
                              \/ ObtainSemaphore(t, s) \/ ObtainSemaphoreShared(t, s)
                              \/ AttemptSemaphore(t, s) \/ AttemptSemaphoreShared(t, s)
    PROVE  Calm
BY DEF Calm, Undo, Awake, ReleaseTest, Clear, ListAwake, ProgramWait, ObtainSemaphoreList,
       ListSecond, ListWait, ObtainSemaphore, ObtainSemaphoreShared, AttemptSemaphore,
       AttemptSemaphoreShared, Request, semVars, heldVars

\* which is no step of the lock.
LEMMA CalmForLock == Calm => UNCHANGED Lock!vars
BY DEF Calm, Lock!vars

\* Every step of the semaphores is one of the lock, or none.
LEMMA StepSimulated ==
    ASSUME SemInv, [Next]_vars PROVE [Lock!Next]_(Lock!vars)
<1>1. ASSUME NEW t \in Tasks, InExec(t) \/ Program(t) PROVE Lock!Next \/ Calm
  <2>1. ASSUME Claim(t) \/ Nest(t) \/ EnterQueue(t) \/ Handoff(t) PROVE Lock!Next
    BY <2>1, WorkSimulated
  <2>2. ASSUME NEW s \in Sems, ListFirst(t, s) PROVE Lock!Next
    BY <2>2, ListFirstSimulated
  <2>3. ASSUME NEW s \in Sems, ReleaseSemaphore(t, s) PROVE Lock!Next
    BY <2>3, LockReleases DEF ReleaseSemaphore
  <2> QED BY <1>1, <2>1, <2>2, <2>3, CalmSteps DEF InExec, Program
<1>2. ASSUME UNCHANGED vars PROVE Calm
  BY <1>2 DEF Calm, vars, semVars, heldVars
<1> QED BY <1>1, <1>2, CalmForLock DEF Next

\* The semaphores implement the lock: what a call does becomes visible in one
\* step, and the wait queue is served in order.
THEOREM SemaphoresImplementLock ==
    ASSUME Careful, ~SharedMayWait PROVE Spec => ImplementsLock
<1>1. Init => Lock!Init
  <2> SUFFICES ASSUME Init PROVE Lock!Init
    OBVIOUS
  <2>1. LockQueue = [s \in Sems |-> <<>>]
    <3>1. \A s \in Sems : TasksOf(ss_WaitQueue[s]) = <<>>
      BY EmptyQueue DEF Init
    <3> QED BY <3>1 DEF LockQueue
  <2> QED BY <2>1 DEF Init, Lock!Init, LockQueue, TasksOf
<1>2. SemInv /\ [Next]_vars => [(Lock!vars)' # Lock!vars /\ Lock!Next]_(Lock!vars)
  BY StepSimulated
<1> QED BY <1>1, <1>2, AlwaysSemInv, PTL DEF Spec, ImplementsLock, Lock!Spec
=============================================================================
