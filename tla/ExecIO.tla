------------------------------- MODULE ExecIO -------------------------------
(***************************************************************************)
(* I/O requests of exec.library (src/rom/exec.c) to timer.device           *)
(* (src/rom/lxa_dev_timer.c), whose pending requests are in a queue of the *)
(* host (src/lxa/lxa_dos_host.c).                                          *)
(*                                                                         *)
(* The host marks a request as expired when its time has come; the         *)
(* vertical blank interrupt replies the marked ones.  A program may wait   *)
(* for a request, abort it, or find it in its port among the messages that *)
(* other tasks send.                                                       *)
(***************************************************************************)
EXTENDS ExecPorts

CONSTANTS
    Requests,   \* the nodes that are timer requests
    Slots       \* MAX_TIMER_REQUESTS

ASSUME RequestsAssumption == Requests \subseteq Nodes
ASSUME SlotsAssumption == Slots \in Nat \ {0}

VARIABLES
    quick,          \* IOF_QUICK
    io_Error,       \* how the request ended
    timer_queue     \* g_timer_queue: a request and whether it has expired

ioVars == <<quick, io_Error, timer_queue>>
vars == <<portVars, ioVars>>

Messages == Nodes \ Requests
Errors == {"ok", "IOERR_NOCMD", "IOERR_ABORTED"}
NoEntry == [ioreq |-> Nobody, expired |-> FALSE]
Entries == [ioreq : Requests, expired : BOOLEAN] \cup {NoEntry}

Init ==
    /\ PortInit
    /\ quick = [r \in Requests |-> FALSE] /\ io_Error = [r \in Requests |-> "ok"]
    /\ timer_queue = [i \in 1 .. Slots |-> NoEntry]

Queued(r) == \E i \in 1 .. Slots : timer_queue[i].ioreq = r

-----------------------------------------------------------------------------
(* SendIO(), DoIO() and the device's BeginIO().                            *)

StartIO(t, r, isQuick) ==
    /\ Running(t) /\ ~InUse(r)
    /\ mn_ReplyPort' = [mn_ReplyPort EXCEPT ![r] = t]
    /\ quick' = [quick EXCEPT ![r] = isQuick]
    /\ Goto(t, "begin") /\ node' = [node EXCEPT ![t] = r]
    /\ UNCHANGED <<mp_MsgList, mp_Signal, server, port, io_Error, timer_queue>>

SendIO(t, r) == StartIO(t, r, FALSE) /\ SetType(r, "NT_MESSAGE")

\* Mutant: the request keeps the type its last use has left.
DoIOKeepsType(t, r) == StartIO(t, r, TRUE) /\ UNCHANGED ln_Type

DoIO(t, r) == StartIO(t, r, TRUE) /\ SetType(r, "NT_MESSAGE")

\* BeginIO() is done with the request: a quick one returns to DoIO(), the other
\* is replied.
Finish(t, r, error) ==
    /\ io_Error' = [io_Error EXCEPT ![r] = error]
    /\ IF quick[r]
       THEN Goto(t, "doio") /\ UNCHANGED <<ln_Type, node, port>>
       ELSE Send(t, r, "NT_REPLYMSG", mn_ReplyPort[r])
    /\ UNCHANGED <<mp_MsgList, mp_Signal, mn_ReplyPort, server, quick, timer_queue>>

\* A delay of zero, a command that needs no waiting, or one that is not known.
BeginIOAtOnce(t) ==
    pc[t] = "begin" /\ \E error \in {"ok", "IOERR_NOCMD"} : Finish(t, node[t], error)

FreeSlots == { i \in 1 .. Slots : timer_queue[i] = NoEntry }

\* TR_ADDREQUEST with a delay: the first free entry of the host's queue.
BeginIOQueue(t) ==
    /\ pc[t] = "begin"
    /\ \E i \in FreeSlots :
          /\ \A j \in FreeSlots : i <= j
          /\ timer_queue' = [timer_queue EXCEPT ![i] = [ioreq |-> node[t], expired |-> FALSE]]
    /\ io_Error' = [io_Error EXCEPT ![node[t]] = "ok"]
    /\ Goto(t, "queued")
    /\ UNCHANGED <<mp_MsgList, mp_Signal, ln_Type, mn_ReplyPort, server, node, port, quick>>

\* Mutant: the request is taken to be queued although the queue is full.
BeginIOFullIgnored(t) ==
    /\ pc[t] = "begin" /\ FreeSlots = {}
    /\ Goto(t, "queued")
    /\ UNCHANGED <<mp_MsgList, mp_Signal, ln_Type, mn_ReplyPort, server, node, port, ioVars>>

BeginIOFull(t) == pc[t] = "begin" /\ FreeSlots = {} /\ Finish(t, node[t], "IOERR_NOCMD")

\* The end of BeginIO() for a request that waits; it may have been replied
\* already.
BeginIOReturn(t) ==
    /\ pc[t] = "queued"
    /\ quick' = [quick EXCEPT ![node[t]] = FALSE]
    /\ IF quick[node[t]] THEN Goto(t, "doio") /\ UNCHANGED <<node, port>> ELSE Return(t)
    /\ UNCHANGED <<mp_MsgList, mp_Signal, ln_Type, mn_ReplyPort, server, io_Error, timer_queue>>

\* DoIO() returns when the request is still quick and waits for it otherwise.
DoIOReturn(t) ==
    /\ pc[t] = "doio"
    /\ IF quick[node[t]]
       THEN /\ mn_ReplyPort' = [mn_ReplyPort EXCEPT ![node[t]] = Nobody] /\ Return(t)
       ELSE Goto(t, "waitio") /\ UNCHANGED <<mn_ReplyPort, node, port>>
    /\ UNCHANGED <<mp_MsgList, mp_Signal, ln_Type, server, ioVars>>

-----------------------------------------------------------------------------
(* WaitIO() and AbortIO(), by the task that has sent the request and not   *)
(* collected it yet.                                                       *)

WaitIO(t, r) ==
    /\ Running(t) /\ mn_ReplyPort[r] = t
    /\ Goto(t, "waitio") /\ node' = [node EXCEPT ![t] = r]
    /\ UNCHANGED <<mp_MsgList, mp_Signal, ln_Type, mn_ReplyPort, server, port, ioVars>>

\* Mutant: a signal is taken for the reply.
WaitIOAwakeOnce(t) == Awake(t, "iosleep", "remove") /\ UNCHANGED ioVars

WaitIOTest(t) ==
    /\ pc[t] = "waitio"
    /\ Goto(t, IF ~quick[node[t]] /\ ln_Type[node[t]] = "NT_MESSAGE" THEN "iosleep" ELSE "remove")
    /\ UNCHANGED <<mp_MsgList, mp_Signal, ln_Type, mn_ReplyPort, server, node, port, ioVars>>

WaitIOAwake(t) == Awake(t, "iosleep", "waitio") /\ UNCHANGED ioVars

\* Remove() under Disable(); the request can be used again.
WaitIORemove(t) ==
    /\ pc[t] = "remove"
    /\ mp_MsgList' = [mp_MsgList EXCEPT ![t] = Unlink(@, node[t])]
    /\ mn_ReplyPort' = [mn_ReplyPort EXCEPT ![node[t]] = Nobody]
    /\ Return(t)
    /\ UNCHANGED <<mp_Signal, ln_Type, server, ioVars>>

\* A request that has been replied is not aborted.
AbortIO(t, r) ==
    /\ Running(t) /\ mn_ReplyPort[r] = t
    /\ ~quick[r] /\ ln_Type[r] # "NT_REPLYMSG"
    /\ Goto(t, "abort") /\ node' = [node EXCEPT ![t] = r]
    /\ UNCHANGED <<mp_MsgList, mp_Signal, ln_Type, mn_ReplyPort, server, port, ioVars>>

\* Mutant: the request is replied although it is not in the queue any more.
AbortIORepliesAlways(t) ==
    LET r == node[t]
    IN  /\ pc[t] = "abort"
        /\ timer_queue' = [i \in 1 .. Slots |-> IF timer_queue[i].ioreq = r THEN NoEntry
                                                                            ELSE timer_queue[i]]
        /\ io_Error' = [io_Error EXCEPT ![r] = "IOERR_ABORTED"]
        /\ Send(t, r, "NT_REPLYMSG", mn_ReplyPort[r])
        /\ UNCHANGED <<mp_MsgList, mp_Signal, mn_ReplyPort, server, quick>>

\* The device's AbortIO(): it replies the request if the host still had it,
\* expired or not.
AbortIODevice(t) ==
    LET r == node[t]
    IN  /\ pc[t] = "abort"
        /\ IF Queued(r)
           THEN /\ timer_queue' = [i \in 1 .. Slots |->
                        IF timer_queue[i].ioreq = r THEN NoEntry ELSE timer_queue[i]]
                /\ io_Error' = [io_Error EXCEPT ![r] = "IOERR_ABORTED"]
                /\ Send(t, r, "NT_REPLYMSG", mn_ReplyPort[r])
           ELSE Return(t) /\ UNCHANGED <<timer_queue, io_Error, ln_Type>>
        /\ UNCHANGED <<mp_MsgList, mp_Signal, mn_ReplyPort, server, quick>>

-----------------------------------------------------------------------------
(* The host's clock and the interrupt.                                     *)

\* The time of an entry has come; any entry, as its delay is the program's.
Expire(i) ==
    /\ timer_queue[i] # NoEntry /\ ~timer_queue[i].expired
    /\ timer_queue' = [timer_queue EXCEPT ![i].expired = TRUE]
    /\ UNCHANGED <<portVars, quick, io_Error>>

IsExpired(n) == \E i \in 1 .. Slots : timer_queue[i].expired /\ timer_queue[i].ioreq = n

\* The requests of the expired entries, in the order of the queue.
ExpiredSlots == Picked([i \in 1 .. Slots |-> i], { i \in 1 .. Slots : timer_queue[i].expired })
Expired ==
    LET slots == ExpiredSlots
    IN  [k \in 1 .. Len(slots) |-> timer_queue[slots[k]].ioreq]

RepliesTo(t) == Picked(Expired, { r \in Requests : mn_ReplyPort[r] = t })
GetsReply(t) == \E r \in Requests : IsExpired(r) /\ mn_ReplyPort[r] = t

\* Mutant: only a port that was empty is signalled.
SignalRepliesEmpty ==
    mp_Signal' = [t \in Tasks |->
        mp_Signal[t] \/ (GetsReply(t) /\ mp_MsgList[t] = <<>>)]

SignalReplies == mp_Signal' = [t \in Tasks |-> mp_Signal[t] \/ GetsReply(t)]

\* ReplyMsg() for each of them.
ReplyExpired ==
    /\ ln_Type' = [n \in Nodes |-> IF IsExpired(n) THEN "NT_REPLYMSG" ELSE ln_Type[n]]
    /\ io_Error' = [r \in Requests |-> IF IsExpired(r) THEN "ok" ELSE io_Error[r]]
    /\ mp_MsgList' = [t \in Tasks |-> mp_MsgList[t] \o RepliesTo(t)]
    /\ SignalReplies

\* Mutant: the entries stay in the queue.
VBlankHookKeeps ==
    /\ ReplyExpired
    /\ UNCHANGED <<mn_ReplyPort, server, pc, node, port, quick, timer_queue>>

\* _timer_VBlankHook(), in the interrupt handler: nothing comes in between.
VBlankHook ==
    /\ ReplyExpired
    /\ timer_queue' = [i \in 1 .. Slots |-> IF timer_queue[i].expired THEN NoEntry
                                                                       ELSE timer_queue[i]]
    /\ UNCHANGED <<mn_ReplyPort, server, pc, node, port, quick>>

\* With nothing expired the hook changes nothing.
AnyExpired == \E i \in 1 .. Slots : timer_queue[i].expired

-----------------------------------------------------------------------------
\* What a program may call.
Call(t) ==
    \/ /\ \/ \E m \in Messages : ReplyMsg(t, m) \/ \E u \in Tasks \ {t} : PutMsg(t, m, u)
          \/ GetMsg(t) \/ WaitPort(t)
       /\ UNCHANGED ioVars
    \/ \E r \in Requests : SendIO(t, r) \/ DoIO(t, r) \/ WaitIO(t, r) \/ AbortIO(t, r)

\* The steps of t inside exec and the device.
InExec(t) ==
    \/ PortStep(t) /\ UNCHANGED ioVars
    \/ BeginIOAtOnce(t) \/ BeginIOQueue(t) \/ BeginIOFull(t) \/ BeginIOReturn(t)
    \/ DoIOReturn(t) \/ WaitIOTest(t) \/ WaitIOAwake(t) \/ WaitIORemove(t)
    \/ AbortIODevice(t)

Next ==
    \/ \E t \in Tasks : Call(t) \/ InExec(t)
    \/ \E i \in 1 .. Slots : Expire(i)
    \/ VBlankHook

Spec == Init /\ [][Next]_vars

\* Time passes, the interrupt comes again and again, and the scheduler gives
\* each task the CPU.
FairSpec ==
    /\ Spec
    /\ \A i \in 1 .. Slots : WF_vars(Expire(i))
    /\ WF_vars(AnyExpired /\ VBlankHook)
    /\ \A t \in Tasks : WF_vars(InExec(t))

-----------------------------------------------------------------------------
(* Properties.                                                             *)

\* The places where a node can be: entries of a port's list, entries of the
\* host's queue, in a call that is about to link it.
Places(n) ==
    Cardinality({ p \in UNION { {t} \X (1 .. Len(mp_MsgList[t])) : t \in Tasks } :
                    mp_MsgList[p[1]][p[2]] = n })
    + Cardinality({ i \in 1 .. Slots : timer_queue[i].ioreq = n })
    + Cardinality({ t \in Tasks : pc[t] = "link" /\ node[t] = n })

InBeginIO(r) == \E t \in Tasks : pc[t] = "begin" /\ node[t] = r
QuickDone(r) == quick[r] /\ \E t \in Tasks : pc[t] = "doio" /\ node[t] = r

\* A node in use is in one place, one that the program may use again in none:
\* a reply is neither lost nor made twice, whatever expiry, abort and waiting do.
OnePlace ==
    /\ \A m \in Messages : Places(m) = IF InUse(m) /\ server[m] = Nobody THEN 1 ELSE 0
    /\ \A r \in Requests :
          Places(r) = IF InUse(r) /\ ~InBeginIO(r) /\ ~QuickDone(r) THEN 1 ELSE 0

\* "If ln_Type is NT_REPLYMSG, the request was replied to the port and must be
\* removed from the reply port's message list": WaitIO() removes a node that is
\* in its task's list.
WaitIORemovesLinked == \A t \in Tasks : pc[t] = "remove" => Linked(node[t], t)

\* Nobody sleeps in WaitIO() for a request that is replied, nor in WaitPort()
\* with a message in the port: the signal is there or about to be sent.
NoSleeperForgotten ==
    \A t \in Tasks :
        \/ mp_Signal[t] \/ BeingSignalled(t)
        \/ /\ pc[t] = "portsleep" => mp_MsgList[t] = <<>>
           /\ pc[t] = "iosleep" => ~Linked(node[t], t)

\* exec's requests are the abstract ones: each is completed once, with one
\* result, before it is collected, and collected before it is started again.
Done(r) == InUse(r) /\ (QuickDone(r) \/ \E t \in Tasks : Linked(r, t))
IO == INSTANCE IORequests WITH
    Results <- Errors,
    state <- [r \in Requests |-> IF ~InUse(r) THEN "idle" ELSE IF Done(r) THEN "done" ELSE "pending"],
    result <- [r \in Requests |-> IF Done(r) THEN io_Error[r] ELSE "none"]
ImplementsRequests == IO!Spec

\* A request is completed, whether it expires, is aborted or finds the queue
\* full: no BeginIO(), expiry or AbortIO() loses one.  As only a request that is
\* done stops being in use (ImplementsRequests), this says InUse(r) ~> Done(r).
RequestsComplete == \A r \in Requests : []<>(InUse(r) => Done(r))

\* A task that waits for a request in WaitIO() or DoIO() gets it, whatever other
\* messages and signals come to its port meanwhile: it does not stay in there.
WaitIOReturns == \A t \in Tasks : []<>(pc[t] \notin {"waitio", "iosleep", "remove"})

=============================================================================
