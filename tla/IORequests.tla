----------------------------- MODULE IORequests -----------------------------
(***************************************************************************)
(* What exec promises about an I/O request: once started it is completed,  *)
(* exactly once and with one result, then it is collected, and only then   *)
(* it can be started again.                                                *)
(***************************************************************************)
CONSTANTS Requests, Results

VARIABLES
    state,      \* "idle", "pending" or "done"
    result      \* how a request that is done ended, "none" for the others

vars == <<state, result>>

Init ==
    /\ state = [r \in Requests |-> "idle"]
    /\ result = [r \in Requests |-> "none"]

Start(r) ==
    /\ state[r] = "idle"
    /\ state' = [state EXCEPT ![r] = "pending"]
    /\ UNCHANGED result

\* One interrupt may complete several requests.
Complete(S) ==
    /\ S # {} /\ \A r \in S : state[r] = "pending"
    /\ state' = [r \in Requests |-> IF r \in S THEN "done" ELSE state[r]]
    /\ \E res \in [S -> Results] :
          result' = [r \in Requests |-> IF r \in S THEN res[r] ELSE result[r]]

Collect(r) ==
    /\ state[r] = "done"
    /\ state' = [state EXCEPT ![r] = "idle"]
    /\ result' = [result EXCEPT ![r] = "none"]

Next == (\E r \in Requests : Start(r) \/ Collect(r)) \/ \E S \in SUBSET Requests : Complete(S)

\* A step changes a request (said first, as a checker evaluates in this order).
Spec == Init /\ [][vars' # vars /\ Next]_vars

=============================================================================
