------------------------------ MODULE SemLock -------------------------------
(***************************************************************************)
(* What exec's signal semaphores promise: a lock that one task holds       *)
(* exclusively, as often as it likes, or several tasks hold in shared      *)
(* mode.  A request that cannot be granted waits, and the lock goes to     *)
(* those that wait for it in the order of their requests.                  *)
(***************************************************************************)
EXTENDS Integers, Sequences

CONSTANTS Tasks, Sems

VARIABLES
    excl,       \* how often each task holds each semaphore exclusively
    shared,     \* how often in shared mode
    queue       \* the tasks that wait for each semaphore, in order

vars == <<excl, shared, queue>>

Init ==
    /\ excl = [s \in Sems |-> [t \in Tasks |-> 0]]
    /\ shared = [s \in Sems |-> [t \in Tasks |-> 0]]
    /\ queue = [s \in Sems |-> <<>>]

NoneExclusive(s) == \A t \in Tasks : excl[s][t] = 0
Free(s) == NoneExclusive(s) /\ \A t \in Tasks : shared[s][t] = 0

\* Again by the task that has it, or a free semaphore nobody waits for.
Acquire(t, s) ==
    /\ excl[s][t] > 0 \/ (Free(s) /\ queue[s] = <<>>)
    /\ excl' = [excl EXCEPT ![s][t] = @ + 1]
    /\ UNCHANGED <<shared, queue>>

\* Shared holders do not wait behind the queue, unless the semaphore is free.
AcquireShared(t, s) ==
    /\ NoneExclusive(s) /\ (Free(s) => queue[s] = <<>>)
    /\ shared' = [shared EXCEPT ![s][t] = @ + 1]
    /\ UNCHANGED <<excl, queue>>

Wait(t, s) ==
    /\ ~Free(s) /\ excl[s][t] = 0
    /\ queue' = [queue EXCEPT ![s] = Append(@, t)]
    /\ UNCHANGED <<excl, shared>>

Release(t, s) ==
    /\ \/ excl[s][t] > 0 /\ excl' = [excl EXCEPT ![s][t] = @ - 1] /\ UNCHANGED shared
       \/ shared[s][t] > 0 /\ shared' = [shared EXCEPT ![s][t] = @ - 1] /\ UNCHANGED excl
    /\ UNCHANGED queue

\* A free semaphore goes to the task that has waited longest.
Grant(s) ==
    /\ Free(s) /\ queue[s] # <<>>
    /\ excl' = [excl EXCEPT ![s][Head(queue[s])] = 1]
    /\ queue' = [queue EXCEPT ![s] = Tail(@)]
    /\ UNCHANGED shared

Next == \E s \in Sems :
    \/ Grant(s)
    \/ \E t \in Tasks : Acquire(t, s) \/ AcquireShared(t, s) \/ Wait(t, s) \/ Release(t, s)

\* A step changes the lock (said first, as a checker evaluates in this order).
Spec == Init /\ [][vars' # vars /\ Next]_vars

=============================================================================
