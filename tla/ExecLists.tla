----------------------------- MODULE ExecLists ------------------------------
(***************************************************************************)
(* The list operations of exec.library on which its queues rest            *)
(* (src/rom/exec.c).  A list is the sequence of its nodes; pri gives the   *)
(* ln_Pri of each node.                                                    *)
(***************************************************************************)
EXTENDS Integers, Sequences, SequencesExt

\* Enqueue() walks to the first node of a lower priority, or to the end.
EnqueuePos(list, pri, n) ==
    CHOOSE k \in 1 .. Len(list) + 1 :
        /\ k <= Len(list) => pri[n] > pri[list[k]]
        /\ \A i \in 1 .. k - 1 : pri[n] <= pri[list[i]]

\* Mutants of Enqueue(): equal priorities in front; AddTail() instead.
EnqueueLifo(list, pri, n) ==
    InsertAt(list, CHOOSE k \in 1 .. Len(list) + 1 :
                       /\ k <= Len(list) => pri[n] >= pri[list[k]]
                       /\ \A i \in 1 .. k - 1 : pri[n] < pri[list[i]], n)
EnqueueTail(list, pri, n) == Append(list, n)

Enqueue(list, pri, n) == InsertAt(list, EnqueuePos(list, pri, n), n)

\* Remove() unlinks a node by the node's own pointers; when the node is in no
\* list, the two nodes it was last between are linked to each other again.
Unlink(list, n) ==
    IF \E i \in 1 .. Len(list) : list[i] = n
    THEN RemoveAt(list, CHOOSE i \in 1 .. Len(list) : list[i] = n)
    ELSE list

\* The nodes of a list that are in S, in their order: SelectSeq() written as a
\* function, which proofs can unfold.
Picked(list, S) ==
    LET picked[k \in 0 .. Len(list)] ==
            IF k = 0 THEN <<>>
            ELSE IF list[k] \in S THEN Append(picked[k-1], list[k]) ELSE picked[k-1]
    IN  picked[Len(list)]

=============================================================================
