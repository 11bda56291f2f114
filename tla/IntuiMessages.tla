---------------------------- MODULE IntuiMessages ----------------------------
(***************************************************************************)
(* IDCMP messages of intuition.library (src/rom/lxa_intuition.c): posting  *)
(* them, collecting the replies, and taking the ports of a window away.    *)
(* Messages are posted by programs, by the event loop of a program that    *)
(* calls WaitTOF(), and by the VBlank interrupt, which runs the same event *)
(* loop between any two steps of a program.                                *)
(*                                                                         *)
(* A window has its own user port, or its program gives it one that it     *)
(* shares with others, as BGUI does.  Programs reply to every message they *)
(* have taken before they have the ports of the window removed.            *)
(***************************************************************************)
EXTENDS ExecLists, FiniteSets, Functions

CONSTANTS
    Windows,
    WindowTasks,
    MouseQueue,     \* mouse_queue, DEFAULT_MOUSEQUEUE
    MaxMessages     \* bound: AllocMem() has memory for so many messages

ASSUME WindowsAssumption == IsFiniteSet(Windows) /\ IsFiniteSet(WindowTasks)
ASSUME MouseQueueAssumption == MouseQueue \in Nat
ASSUME MessagesAssumption == MaxMessages \in Nat

VARIABLES
    owns,           \* the windows that a program has open
    linked,         \* the windows in the list of the screen
    userPort,       \* Window.UserPort: none, the window's own, or a shared one
    windowPort,     \* Window.WindowPort is set
    idcmp,          \* Window.IDCMPFlags asks for messages
    pending,        \* pending_mousemoves
    ports,          \* the ports of its own that a window has, on MoreFlags or not
    ownQueue,       \* the messages at a window's own user port
    sharedQueue,    \* the messages at the shared port of a program
    held,           \* the messages a program has taken: how many of each class
    replied,        \* the messages at the window port: how many of each class
    messageMem,     \* for how many messages there is memory
    processing,     \* g_processing_events
    doing,          \* where a program is, with the window and the class it is at
    overtaken       \* see Overtakes, Strays, Miscounts and Orphans

idcmpVars == <<owns, linked, userPort, windowPort, idcmp, pending, ports, ownQueue,
               sharedQueue, held, replied, messageMem, processing, doing, overtaken>>

Classes == {"move", "other"}
NoMessages == [c \in Classes |-> 0]
Running == [at |-> "program", window |-> {}, class |-> "other", then |-> "program",
            forbid |-> FALSE, saved |-> FALSE]

IdcmpInit ==
    /\ owns = [t \in WindowTasks |-> {}] /\ linked = {}
    /\ userPort = [w \in Windows |-> "none"] /\ windowPort = [w \in Windows |-> FALSE]
    /\ idcmp = [w \in Windows |-> FALSE] /\ pending = [w \in Windows |-> 0]
    /\ ports = [w \in Windows |-> {}]
    /\ ownQueue = [w \in Windows |-> <<>>] /\ sharedQueue = [t \in WindowTasks |-> <<>>]
    /\ held = [w \in Windows |-> NoMessages] /\ replied = [w \in Windows |-> NoMessages]
    /\ messageMem = MaxMessages
    /\ processing = FALSE
    /\ doing = [t \in WindowTasks |-> Running]
    /\ overtaken = FALSE

IsAt(t, place) == doing[t].at = place
Works(t, w, places) == doing[t].at \in places /\ doing[t].window = {w}
GoOn(t, place) == doing' = [doing EXCEPT ![t].at = place]

-----------------------------------------------------------------------------
(* What this code does in four cases is not modelled further, and the      *)
(* properties except it.                                                   *)

Posting == {"put", "count"}

\* The ports of a window are removed while another program posts to it.
Overtakes(t, w) == \E u \in WindowTasks \ {t} : Works(u, w, Posting)

\* The interrupt posts to a shared port that BGUI has cleared of the messages
\* of the window, under Forbid(), and has not yet taken from the window.
Strays(w) == userPort[w] = "shared" /\ \E t \in WindowTasks : Works(t, w, {"cleared"})

\* A message is collected before the program that posted it has counted it.
Miscounts(w) == replied[w]["move"] > 0 /\ \E t \in WindowTasks : Works(t, w, {"count"})

\* BGUI moves messages to a shared port and has their reply port deleted.
Orphans(w) == ownQueue[w] # <<>>

-----------------------------------------------------------------------------
(* _post_idcmp_message().                                                  *)

CanPost(w, c) ==
    /\ userPort[w] # "none" /\ windowPort[w] /\ idcmp[w]
    /\ c = "move" => pending[w] < MouseQueue

Less(a, b) == IF a > b THEN a - b ELSE 0

Count(m) == m["move"] + m["other"]

\* Mutant: the mouse moves that come back are not taken off the count.
PendingAfterReapUncounted(w) == pending[w]

\* _dispose_idcmp_message() of every message at the window port.
PendingAfterReap(w) == Less(pending[w], replied[w]["move"])
\* All of them are freed.
MemAfterReap(w) == messageMem + Count(replied[w])

\* What there is at its port with one more message of w.
Put(w, c) ==
    LET m == [window |-> w, class |-> c]
    IN  /\ ownQueue' = IF userPort[w] = "own"
                       THEN [ownQueue EXCEPT ![w] = Append(@, m)] ELSE ownQueue
        /\ sharedQueue' = IF userPort[w] = "shared"
                          THEN [t \in WindowTasks |-> IF w \in owns[t]
                                   THEN Append(sharedQueue[t], m) ELSE sharedQueue[t]]
                          ELSE sharedQueue

\* The interrupt has one event for one window, or another VBlank comes at once.
\* It resets the guard of the event loop before, and the loop does so after.
VBlankInputHook(w, c) ==
    /\ w \in linked /\ CanPost(w, c)
    /\ replied' = [replied EXCEPT ![w] = NoMessages]
    /\ IF MemAfterReap(w) > 0
       THEN /\ Put(w, c) /\ messageMem' = MemAfterReap(w) - 1
            /\ pending' = [pending EXCEPT ![w] = PendingAfterReap(w) + IF c = "move" THEN 1 ELSE 0]
       ELSE /\ messageMem' = MemAfterReap(w) /\ UNCHANGED <<ownQueue, sharedQueue>>
            /\ pending' = [pending EXCEPT ![w] = PendingAfterReap(w)]
    /\ processing' = FALSE
    /\ overtaken' = (overtaken \/ Strays(w) \/ Miscounts(w))
    /\ UNCHANGED <<owns, linked, userPort, windowPort, idcmp, ports, held, doing>>

\* An event for nobody.
VBlankNoEvent ==
    /\ processing /\ processing' = FALSE
    /\ UNCHANGED <<owns, linked, userPort, windowPort, idcmp, pending, ports, ownQueue,
                   sharedQueue, held, replied, messageMem, doing, overtaken>>

\* The same from a program: the tests, the replies collected and the new message
\* filled in.  The window is found and looked at in one step.
Post(t, w, c, then) ==
    /\ w \in linked /\ CanPost(w, c)
    /\ replied' = [replied EXCEPT ![w] = NoMessages]
    /\ pending' = [pending EXCEPT ![w] = PendingAfterReap(w)]
    /\ IF MemAfterReap(w) > 0
       THEN /\ messageMem' = MemAfterReap(w) - 1
            /\ doing' = [doing EXCEPT ![t] = [Running EXCEPT !.at = "put", !.window = {w},
                                                            !.class = c, !.then = then]]
       ELSE messageMem' = MemAfterReap(w) /\ UNCHANGED doing
    /\ overtaken' = (overtaken \/ Miscounts(w))
    /\ UNCHANGED <<owns, linked, userPort, windowPort, idcmp, ports, ownQueue, sharedQueue,
                   held, processing>>

\* The port is read again for PutMsg().
PostPut(t, w) ==
    /\ Works(t, w, {"put"}) /\ Put(w, doing[t].class)
    /\ doing' = [doing EXCEPT ![t] = IF @.class = "move" THEN [@ EXCEPT !.at = "count"]
                                     ELSE [Running EXCEPT !.at = doing[t].then]]
    /\ UNCHANGED <<owns, linked, userPort, windowPort, idcmp, pending, ports, held, replied,
                   messageMem, processing, overtaken>>

PostCount(t, w) ==
    /\ Works(t, w, {"count"})
    /\ pending' = [pending EXCEPT ![w] = @ + 1]
    /\ doing' = [doing EXCEPT ![t] = [Running EXCEPT !.at = doing[t].then]]
    /\ UNCHANGED <<owns, linked, userPort, windowPort, idcmp, ports, ownQueue, sharedQueue,
                   held, replied, messageMem, processing, overtaken>>

\* ActivateWindow(), RefreshWindowFrame(), ... of any window.
PostCall(t, w) == IsAt(t, "program") /\ Post(t, w, "other", "program")

\* ProcessInputEvents() in WaitTOF(), unless somebody is in it.
WaitTOF(t) ==
    /\ IsAt(t, "program") /\ ~processing
    /\ processing' = TRUE /\ GoOn(t, "poll")
    /\ UNCHANGED <<owns, linked, userPort, windowPort, idcmp, pending, ports, ownQueue,
                   sharedQueue, held, replied, messageMem, overtaken>>

PollInput(t, w, c) == IsAt(t, "poll") /\ Post(t, w, c, "poll")

PollEnd(t) ==
    /\ IsAt(t, "poll") /\ GoOn(t, "program") /\ processing' = FALSE
    /\ UNCHANGED <<owns, linked, userPort, windowPort, idcmp, pending, ports, ownQueue,
                   sharedQueue, held, replied, messageMem, overtaken>>

-----------------------------------------------------------------------------
(* The calls of a program about its windows and messages.                  *)

Owned(t, w) == IsAt(t, "program") /\ w \in owns[t]

\* OpenWindow() with IDCMPFlags has the ports made before anybody knows the window.
OpenWindow(t, w, flags) ==
    /\ IsAt(t, "program") /\ \A u \in WindowTasks : w \notin owns[u]
    /\ owns' = [owns EXCEPT ![t] = @ \cup {w}] /\ linked' = linked \cup {w}
    /\ userPort' = [userPort EXCEPT ![w] = IF flags THEN "own" ELSE "none"]
    /\ windowPort' = [windowPort EXCEPT ![w] = flags]
    /\ ports' = [ports EXCEPT ![w] = IF flags THEN {"user", "reply"} ELSE {}]
    /\ idcmp' = [idcmp EXCEPT ![w] = flags] /\ pending' = [pending EXCEPT ![w] = 0]
    /\ UNCHANGED <<ownQueue, sharedQueue, held, replied, messageMem, processing, doing, overtaken>>

\* w->UserPort = port, in a program that shares one between its windows.
SharePort(t, w) ==
    /\ Owned(t, w) /\ userPort[w] = "none"
    /\ userPort' = [userPort EXCEPT ![w] = "shared"]
    /\ UNCHANGED <<owns, linked, windowPort, idcmp, pending, ports, ownQueue, sharedQueue,
                   held, replied, messageMem, processing, doing, overtaken>>

\* ModifyIDCMP() with flags makes the ports that there are not, and sets the
\* flags last.
ModifyIDCMP(t, w) ==
    /\ Owned(t, w) /\ ~idcmp[w]
    /\ userPort' = [userPort EXCEPT ![w] = IF @ = "none" THEN "own" ELSE @]
    /\ ports' = [ports EXCEPT ![w] = @ \cup {"reply"} \cup
                                     IF userPort[w] = "none" THEN {"user"} ELSE {}]
    /\ windowPort' = [windowPort EXCEPT ![w] = TRUE]
    /\ idcmp' = [idcmp EXCEPT ![w] = TRUE]
    /\ UNCHANGED <<owns, linked, pending, ownQueue, sharedQueue, held, replied, messageMem,
                   processing, doing, overtaken>>

Take(m) == held' = [held EXCEPT ![m.window][m.class] = @ + 1]

GetMsg(t) ==
    /\ IsAt(t, "program")
    /\ \/ \E w \in owns[t] :
            /\ userPort[w] = "own" /\ ownQueue[w] # <<>>
            /\ Take(Head(ownQueue[w])) /\ ownQueue' = [ownQueue EXCEPT ![w] = Tail(@)]
            /\ UNCHANGED sharedQueue
       \/ /\ sharedQueue[t] # <<>>
          /\ Take(Head(sharedQueue[t])) /\ sharedQueue' = [sharedQueue EXCEPT ![t] = Tail(@)]
          /\ UNCHANGED ownQueue
    /\ UNCHANGED <<owns, linked, userPort, windowPort, idcmp, pending, ports, replied,
                   messageMem, processing, doing, overtaken>>

ReplyMsg(t, w, c) ==
    /\ Owned(t, w) /\ held[w][c] > 0
    /\ held' = [held EXCEPT ![w][c] = @ - 1]
    /\ replied' = [replied EXCEPT ![w][c] = @ + 1]
    /\ UNCHANGED <<owns, linked, userPort, windowPort, idcmp, pending, ports, ownQueue,
                   sharedQueue, messageMem, processing, doing, overtaken>>

-----------------------------------------------------------------------------
(* Removing the ports: ModifyIDCMP(w, 0) and CloseWindow(), and BGUI's     *)
(* WindowClassClose() before them.                                         *)

Of(w, c) == [window |-> w, class |-> c]
Occurrences(q, w, c) == Cardinality({ i \in 1 .. Len(q) : q[i] = Of(w, c) })

\* ClearMsgPort(), with multitasking off up to the end of ModifyIDCMP().
ClearMsgPort(t, w) ==
    /\ Owned(t, w) /\ userPort[w] = "shared" /\ held[w] = NoMessages
    /\ sharedQueue' = [sharedQueue EXCEPT ![t] = Picked(@, { Of(v, c) : v \in Windows \ {w}, c \in Classes })]
    /\ replied' = [replied EXCEPT ![w] = [c \in Classes |-> @[c] + Occurrences(sharedQueue[t], w, c)]]
    /\ doing' = [doing EXCEPT ![t] = [Running EXCEPT !.at = "cleared", !.window = {w}, !.forbid = TRUE]]
    /\ UNCHANGED <<owns, linked, userPort, windowPort, idcmp, pending, ports, ownQueue, held,
                   messageMem, processing, overtaken>>

TakeUserPort(t, w) ==
    /\ Works(t, w, {"cleared"}) /\ GoOn(t, "modify")
    /\ userPort' = [userPort EXCEPT ![w] = "none"]
    /\ overtaken' = (overtaken \/ Overtakes(t, w))
    /\ UNCHANGED <<owns, linked, windowPort, idcmp, pending, ports, ownQueue, sharedQueue, held,
                   replied, messageMem, processing>>

ModifyIDCMPZero(t, w) ==
    /\ Owned(t, w) /\ userPort[w] = "own" /\ held[w] = NoMessages
    /\ doing' = [doing EXCEPT ![t] = [Running EXCEPT !.at = "modify", !.window = {w}]]
    /\ UNCHANGED <<owns, linked, userPort, windowPort, idcmp, pending, ports, ownQueue, sharedQueue,
                   held, replied, messageMem, processing, overtaken>>

\* Before BGUI makes w use the shared port it asks for flags that do not occur,
\* and moves the messages that are there already.
MoveMessages(t, w) ==
    /\ Owned(t, w) /\ userPort[w] = "own" /\ idcmp[w] /\ held[w] = NoMessages
    /\ idcmp' = [idcmp EXCEPT ![w] = FALSE]
    /\ sharedQueue' = [sharedQueue EXCEPT ![t] = @ \o ownQueue[w]]
    /\ ownQueue' = [ownQueue EXCEPT ![w] = <<>>]
    /\ doing' = [doing EXCEPT ![t] = [Running EXCEPT !.at = "modify", !.window = {w}]]
    /\ overtaken' = (overtaken \/ Orphans(w))
    /\ UNCHANGED <<owns, linked, userPort, windowPort, pending, ports, held, replied,
                   messageMem, processing>>

CloseWindow(t, w) ==
    /\ Owned(t, w) /\ userPort[w] # "shared" /\ held[w] = NoMessages
    /\ processing' = TRUE
    /\ doing' = [doing EXCEPT ![t] = [Running EXCEPT !.at = "close", !.window = {w}, !.then = "closed",
                                                    !.saved = processing]]
    /\ UNCHANGED <<owns, linked, userPort, windowPort, idcmp, pending, ports, ownQueue, sharedQueue,
                   held, replied, messageMem, overtaken>>

\* _dispose_window_idcmp_ports(): first nobody can post any more ...
DetachUserPort(t, w) ==
    /\ Works(t, w, {"modify", "close"}) /\ GoOn(t, "detach")
    /\ userPort' = [userPort EXCEPT ![w] = "none"]
    /\ overtaken' = (overtaken \/ Overtakes(t, w))
    /\ UNCHANGED <<owns, linked, windowPort, idcmp, pending, ports, ownQueue, sharedQueue, held,
                   replied, messageMem, processing>>

DetachWindowPort(t, w) ==
    /\ Works(t, w, {"detach"}) /\ GoOn(t, "flushreply")
    /\ windowPort' = [windowPort EXCEPT ![w] = FALSE]
    /\ pending' = [pending EXCEPT ![w] = 0]
    /\ UNCHANGED <<owns, linked, userPort, idcmp, ports, ownQueue, sharedQueue, held, replied,
                   messageMem, processing, overtaken>>

\* Mutant: the port is deleted with the replies in it.
FlushReplyPortLeaks(t, w) ==
    /\ Works(t, w, {"flushreply"}) /\ GoOn(t, "flushuser")
    /\ replied' = [replied EXCEPT ![w] = NoMessages]
    /\ ports' = [ports EXCEPT ![w] = @ \ {"reply"}]
    /\ UNCHANGED <<owns, linked, userPort, windowPort, idcmp, pending, ownQueue, sharedQueue,
                   held, messageMem, processing, overtaken>>

\* ... then the replies are freed with their port, and the messages with theirs.
FlushReplyPort(t, w) ==
    /\ Works(t, w, {"flushreply"}) /\ GoOn(t, "flushuser")
    /\ replied' = [replied EXCEPT ![w] = NoMessages]
    /\ messageMem' = MemAfterReap(w)
    /\ pending' = [pending EXCEPT ![w] = PendingAfterReap(w)]
    /\ ports' = [ports EXCEPT ![w] = @ \ {"reply"}]
    /\ UNCHANGED <<owns, linked, userPort, windowPort, idcmp, ownQueue, sharedQueue, held,
                   processing, overtaken>>

\* Mutant: the port is deleted with the messages in it.
FlushUserPortLeaves(t, w) ==
    /\ Works(t, w, {"flushuser"}) /\ GoOn(t, "end")
    /\ ports' = [ports EXCEPT ![w] = @ \ {"user"}]
    /\ UNCHANGED <<owns, linked, userPort, windowPort, idcmp, pending, ownQueue, sharedQueue,
                   held, replied, messageMem, processing, overtaken>>

FlushUserPort(t, w) ==
    /\ Works(t, w, {"flushuser"}) /\ GoOn(t, "end")
    /\ ownQueue' = [ownQueue EXCEPT ![w] = <<>>]
    /\ messageMem' = messageMem + Len(ownQueue[w])
    /\ pending' = [pending EXCEPT ![w] = Less(@, Occurrences(ownQueue[w], w, "move"))]
    /\ ports' = [ports EXCEPT ![w] = @ \ {"user"}]
    /\ UNCHANGED <<owns, linked, userPort, windowPort, idcmp, sharedQueue, held, replied,
                   processing, overtaken>>

\* ModifyIDCMP() sets the flags; CloseWindow() unlinks and frees the window and
\* puts the guard back.
RemoveEnd(t, w) ==
    /\ Works(t, w, {"end"})
    /\ idcmp' = [idcmp EXCEPT ![w] = FALSE]
    /\ IF doing[t].then = "closed"
       THEN /\ owns' = [owns EXCEPT ![t] = @ \ {w}] /\ linked' = linked \ {w}
            /\ processing' = doing[t].saved
       ELSE UNCHANGED <<owns, linked, processing>>
    /\ doing' = [doing EXCEPT ![t] = Running]
    /\ UNCHANGED <<userPort, windowPort, pending, ports, ownQueue, sharedQueue, held, replied,
                   messageMem, overtaken>>

-----------------------------------------------------------------------------
IdcmpStep(t) ==
    \/ \E w \in Windows, c \in Classes : PollInput(t, w, c) \/ ReplyMsg(t, w, c)
    \/ \E w \in Windows, flags \in BOOLEAN : OpenWindow(t, w, flags)
    \/ \E w \in Windows :
          \/ PostPut(t, w) \/ PostCount(t, w) \/ PostCall(t, w)
          \/ SharePort(t, w) \/ ModifyIDCMP(t, w) \/ ModifyIDCMPZero(t, w) \/ CloseWindow(t, w)
          \/ ClearMsgPort(t, w) \/ TakeUserPort(t, w) \/ MoveMessages(t, w)
          \/ DetachUserPort(t, w) \/ DetachWindowPort(t, w)
          \/ FlushReplyPort(t, w) \/ FlushUserPort(t, w) \/ RemoveEnd(t, w)
    \/ WaitTOF(t) \/ PollEnd(t) \/ GetMsg(t)

\* Forbid() stops the other programs, and not the interrupt.
NotForbidden(t) == \A u \in WindowTasks \ {t} : ~doing[u].forbid

IdcmpNext ==
    \/ ~overtaken /\ \E t \in WindowTasks : NotForbidden(t) /\ IdcmpStep(t)
    \/ ~overtaken /\ \E w \in Windows, c \in Classes : VBlankInputHook(w, c)
    \/ ~overtaken /\ VBlankNoEvent
    \/ overtaken /\ UNCHANGED idcmpVars

IdcmpSpec == IdcmpInit /\ [][IdcmpNext]_idcmpVars

-----------------------------------------------------------------------------
(* Properties.                                                             *)

\* Every variable has its type.
IdcmpTypeOK ==
    /\ owns \in [WindowTasks -> SUBSET Windows] /\ linked \subseteq Windows
    /\ userPort \in [Windows -> {"none", "own", "shared"}] /\ windowPort \in [Windows -> BOOLEAN]
    /\ pending \in [Windows -> Nat] /\ ports \in [Windows -> SUBSET {"user", "reply"}]
    /\ messageMem \in 0 .. MaxMessages /\ processing \in BOOLEAN /\ overtaken \in BOOLEAN
    /\ \A t \in WindowTasks : Cardinality(doing[t].window) <= 1

Removes(w, places) == \E t \in WindowTasks : Works(t, w, places)
Posts(w, places) == Cardinality({ t \in WindowTasks : Works(t, w, places) })

\* The messages of one window and class that exist.
InSharedQueues(w, c) ==
    SumFunction([t \in WindowTasks |-> Occurrences(sharedQueue[t], w, c)])
Unanswered(w, c) == Occurrences(ownQueue[w], w, c) + InSharedQueues(w, c) + held[w][c]
Outstanding(w, c) == Unanswered(w, c) + replied[w][c]

\* Unless one of the four cases occurs, a message that waits for its program or that
\* the program has taken can be replied to, and the ports with messages exist:
\* none is deleted before its messages are, nor while one is on its way to it.
MessagesHavePorts ==
    overtaken \/ \A w \in Windows :
        /\ ownQueue[w] # <<>> => "user" \in ports[w]
        /\ Count(replied[w]) > 0 => "reply" \in ports[w]
        /\ \A c \in Classes : Unanswered(w, c) > 0 =>
               "reply" \in ports[w] \/ Removes(w, {"flushuser"})

\* Then no message is lost and none is freed twice: the memory is at a port, with
\* the program, with somebody who fills it in, or free.
NoMessageLeaks ==
    overtaken \/ messageMem + Cardinality({ t \in WindowTasks : IsAt(t, "put") })
        + SumFunction([w \in Windows |-> Outstanding(w, "move") + Outstanding(w, "other")])
        = MaxMessages

\* Then pending_mousemoves counts the mouse moves that are not collected yet, but
\* for those just posted, and when several post at once there are a few too many
\* at most.
MouseMovesCounted ==
    overtaken \/ \A w \in Windows :
        /\ ~Removes(w, {"flushreply", "flushuser"}) =>
               pending[w] + Posts(w, {"count"}) = Outstanding(w, "move")
        /\ Outstanding(w, "move") <= MouseQueue + Cardinality(WindowTasks)

\* "SetMouseQueue limits outstanding mouse moves": a window that asks for them
\* is refused one only when so many have not been replied to.
MovesRefusedWhenOutstanding ==
    \A w \in linked :
        CanPost(w, "other") /\ ~CanPost(w, "move") /\ ~Removes(w, {"cleared", "modify", "close"}) =>
            Unanswered(w, "move") >= MouseQueue

=============================================================================
