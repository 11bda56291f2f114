------------------------------ MODULE ExecPorts -----------------------------
(***************************************************************************)
(* Messages and message ports of exec.library (src/rom/exec.c).            *)
(*                                                                         *)
(* Each task has one port, whose signal is PA_SIGNAL to that task.         *)
(* PutMsg() and ReplyMsg() type a message, link it and signal the port's   *)
(* task in three steps that other tasks and the interrupt handler can      *)
(* separate.  Wait() is one step that is possible when the signal is there *)
(* and takes it: module ExecTask shows that no wakeup is lost inside it.   *)
(***************************************************************************)
EXTENDS ExecLists, FiniteSets

CONSTANTS
    Tasks,      \* the tasks, each with its port
    Nodes,      \* the messages and I/O requests
    Nobody      \* a NULL pointer

ASSUME NobodyAssumption == Nobody \notin Tasks \cup Nodes

VARIABLES
    mp_MsgList,     \* each port's list
    mp_Signal,      \* the port's signal bit in its task's tc_SigRecvd
    ln_Type,        \* each node's type
    mn_ReplyPort,   \* whose port a node is to be replied to while it is in use,
                    \* Nobody when the program may use it again
    server,         \* who has taken a message with GetMsg() and must reply it
    pc,             \* where each task is in a call, "run" in its own code
    node,           \* the node a task's call is about
    port            \* the port it is being linked to

portVars == <<mp_MsgList, mp_Signal, ln_Type, mn_ReplyPort, server, pc, node, port>>

PortInit ==
    /\ mp_MsgList = [t \in Tasks |-> <<>>] /\ mp_Signal = [t \in Tasks |-> FALSE]
    /\ ln_Type = [n \in Nodes |-> "NT_UNKNOWN"]
    /\ mn_ReplyPort = [n \in Nodes |-> Nobody] /\ server = [n \in Nodes |-> Nobody]
    /\ pc = [t \in Tasks |-> "run"]
    /\ node = [t \in Tasks |-> Nobody] /\ port = [t \in Tasks |-> Nobody]

Running(t) == pc[t] = "run"
InUse(n) == mn_ReplyPort[n] # Nobody
Goto(t, where) == pc' = [pc EXCEPT ![t] = where]
SetType(n, type) == ln_Type' = [ln_Type EXCEPT ![n] = type]

\* The call of t is over.
Return(t) ==
    /\ Goto(t, "run")
    /\ node' = [node EXCEPT ![t] = Nobody] /\ port' = [port EXCEPT ![t] = Nobody]

-----------------------------------------------------------------------------
(* PutMsg() and ReplyMsg(): type, AddTail() under Disable(), Signal().     *)

\* t goes on to link n to the port of u.
Send(t, n, type, u) ==
    /\ SetType(n, type)
    /\ Goto(t, "link")
    /\ node' = [node EXCEPT ![t] = n] /\ port' = [port EXCEPT ![t] = u]

PutMsg(t, n, u) ==
    /\ Running(t) /\ ~InUse(n)
    /\ mn_ReplyPort' = [mn_ReplyPort EXCEPT ![n] = t]
    /\ Send(t, n, "NT_MESSAGE", u)
    /\ UNCHANGED <<mp_MsgList, mp_Signal, server>>

ReplyMsg(t, n) ==
    /\ Running(t) /\ server[n] = t
    /\ server' = [server EXCEPT ![n] = Nobody]
    /\ Send(t, n, "NT_REPLYMSG", mn_ReplyPort[n])
    /\ UNCHANGED <<mp_MsgList, mp_Signal, mn_ReplyPort>>

Link(t) ==
    /\ pc[t] = "link"
    /\ mp_MsgList' = [mp_MsgList EXCEPT ![port[t]] = Append(@, node[t])]
    /\ Goto(t, "signal")
    /\ UNCHANGED <<mp_Signal, ln_Type, mn_ReplyPort, server, node, port>>

SignalPort(t) ==
    /\ pc[t] = "signal"
    /\ mp_Signal' = [mp_Signal EXCEPT ![port[t]] = TRUE]
    /\ Return(t)
    /\ UNCHANGED <<mp_MsgList, ln_Type, mn_ReplyPort, server>>

-----------------------------------------------------------------------------
(* GetMsg() and WaitPort().                                                *)

\* RemHead() under Disable().  The program answers a message; a reply has come
\* home.
GetMsg(t) ==
    /\ Running(t) /\ mp_MsgList[t] # <<>>
    /\ mp_MsgList' = [mp_MsgList EXCEPT ![t] = Tail(@)]
    /\ LET n == Head(mp_MsgList[t])
       IN  \/ /\ ln_Type[n] = "NT_MESSAGE"
              /\ server' = [server EXCEPT ![n] = t] /\ UNCHANGED mn_ReplyPort
           \/ /\ ln_Type[n] = "NT_REPLYMSG"
              /\ mn_ReplyPort' = [mn_ReplyPort EXCEPT ![n] = Nobody] /\ UNCHANGED server
    /\ UNCHANGED <<mp_Signal, ln_Type, pc, node, port>>

WaitPort(t) ==
    /\ Running(t)
    /\ Goto(t, "waitport")
    /\ UNCHANGED <<mp_MsgList, mp_Signal, ln_Type, mn_ReplyPort, server, node, port>>

\* "Signals may arrive without a message so check again."
WaitPortTest(t) ==
    /\ pc[t] = "waitport"
    /\ Goto(t, IF mp_MsgList[t] = <<>> THEN "portsleep" ELSE "run")
    /\ UNCHANGED <<mp_MsgList, mp_Signal, ln_Type, mn_ReplyPort, server, node, port>>

\* Wait() for the signal of the port, then back to where t came from.
Awake(t, from, to) ==
    /\ pc[t] = from /\ mp_Signal[t]
    /\ mp_Signal' = [mp_Signal EXCEPT ![t] = FALSE]
    /\ Goto(t, to)
    /\ UNCHANGED <<mp_MsgList, ln_Type, mn_ReplyPort, server, node, port>>

WaitPortAwake(t) == Awake(t, "portsleep", "waitport")

-----------------------------------------------------------------------------
\* The steps a task makes inside the calls.
PortStep(t) == Link(t) \/ SignalPort(t) \/ WaitPortTest(t) \/ WaitPortAwake(t)

Linked(n, t) == \E i \in 1 .. Len(mp_MsgList[t]) : mp_MsgList[t][i] = n
BeingLinked(n) == \E t \in Tasks : pc[t] = "link" /\ node[t] = n
BeingSignalled(t) == \E u \in Tasks : pc[u] = "signal" /\ port[u] = t

=============================================================================
