--------------------------- MODULE ExecIOProofs ------------------------------
(***************************************************************************)
(* What exec and timer.device promise about messages and I/O requests, for *)
(* any number of tasks, messages, requests and entries of the host's       *)
(* queue.                                                                  *)
(*                                                                         *)
(* The inductive invariant IOInv says for every request where it is: in    *)
(* its task's hand, in one entry of the host's queue, or in its task's     *)
(* port, and how IOF_QUICK and ln_Type tell these apart.  WaitIO() is      *)
(* right to Remove() what is not typed NT_MESSAGE because of that, and a   *)
(* request is completed once because each step moves it from one of these  *)
(* places to the next.                                                     *)
(***************************************************************************)
EXTENDS ExecIO, ExecListLemmas, FiniteSetTheorems

\* Where a task is when its node is a request of its own: in BeginIO(), DoIO(),
\* WaitIO() or AbortIO().
InIO == {"begin", "queued", "doio", "waitio", "iosleep", "remove", "abort"}
NodeTypes == {"NT_UNKNOWN", "NT_MESSAGE", "NT_REPLYMSG"}

IOTypes ==
    /\ mp_MsgList \in [Tasks -> Seq(Nodes)] /\ mp_Signal \in [Tasks -> BOOLEAN]
    /\ ln_Type \in [Nodes -> NodeTypes]
    /\ mn_ReplyPort \in [Nodes -> Tasks \cup {Nobody}]
    /\ server \in [Nodes -> Tasks \cup {Nobody}]
    /\ pc \in [Tasks -> {"run", "waitport", "portsleep", "link", "signal"} \cup InIO]
    /\ node \in [Tasks -> Nodes \cup {Nobody}] /\ port \in [Tasks -> Tasks \cup {Nobody}]
    /\ quick \in [Requests -> BOOLEAN] /\ io_Error \in [Requests -> Errors]
    /\ timer_queue \in [1 .. Slots -> Entries]

\* No node is twice in a list or in two lists, no request in two entries.
ListsRight ==
    /\ \A t \in Tasks : Distinct(mp_MsgList[t])
    /\ \A n \in Nodes, t, u \in Tasks : Linked(n, t) /\ Linked(n, u) => t = u
SlotsRight ==
    \A i, j \in 1 .. Slots :
        timer_queue[i].ioreq = timer_queue[j].ioreq /\ timer_queue[i] # NoEntry => i = j

\* The call t is in works on n.
On(t, n) == node[t] = n /\ pc[t] \in InIO \cup {"link"}

\* A request is in no list and no entry while t holds it in its call.
InHand(t, r) == node[t] = r /\ (pc[t] \in {"begin", "link"} \/ (pc[t] = "doio" /\ quick[r]))

RequestRight(r) ==
    /\ server[r] = Nobody
    /\ \A t \in Tasks : Linked(r, t) => mn_ReplyPort[r] = t /\ ln_Type[r] = "NT_REPLYMSG"
    /\ Queued(r) => InUse(r) /\ ln_Type[r] = "NT_MESSAGE"
    /\ InUse(r) => Queued(r) \/ \E t \in Tasks : Linked(r, t) \/ InHand(t, r)
    /\ \A t \in Tasks : InHand(t, r) => ~Queued(r) /\ \A u \in Tasks : ~Linked(r, u)
    /\ quick[r] /\ InUse(r) =>
           \E t \in Tasks : node[t] = r /\ pc[t] \in {"begin", "queued", "doio"}
    /\ \A t \in Tasks : On(t, r) =>
           /\ mn_ReplyPort[r] = t
           /\ pc[t] = "begin" => ln_Type[r] = "NT_MESSAGE"
           /\ pc[t] = "link" => ln_Type[r] = "NT_REPLYMSG" /\ port[t] = t
           /\ pc[t] = "remove" => Linked(r, t)

Sent(t, m) == pc[t] = "link" /\ node[t] = m
MessageRight(m) ==
    /\ server[m] # Nobody => InUse(m)
    /\ InUse(m) /\ server[m] = Nobody => \E t \in Tasks : Linked(m, t) \/ Sent(t, m)
    /\ \A t \in Tasks : Linked(m, t) \/ Sent(t, m) => InUse(m) /\ server[m] = Nobody
    /\ \A t, u \in Tasks : Sent(t, m) => ~Linked(m, u) /\ (Sent(u, m) => t = u)

CallRight(t) ==
    /\ pc[t] \in InIO => node[t] \in Requests
    /\ pc[t] = "link" => node[t] \in Nodes /\ port[t] \in Tasks

IOInv ==
    /\ IOTypes /\ ListsRight /\ SlotsRight
    /\ \A r \in Requests : RequestRight(r)
    /\ \A m \in Messages : MessageRight(m)
    /\ \A t \in Tasks : CallRight(t)
    /\ NoSleeperForgotten

-----------------------------------------------------------------------------
(* What a step leaves alone.                                               *)

StepOf(t) ==
    \A u \in Tasks \ {t} : pc'[u] = pc[u] /\ node'[u] = node[u] /\ port'[u] = port[u]
SameNode(n) ==
    /\ server'[n] = server[n] /\ mn_ReplyPort'[n] = mn_ReplyPort[n] /\ ln_Type'[n] = ln_Type[n]
    /\ \A t \in Tasks : Linked(n, t)' <=> Linked(n, t)
SameRequest(r) == quick'[r] = quick[r] /\ (Queued(r)' <=> Queued(r))
SameHand(n) ==
    \A t \in Tasks :
        \/ pc'[t] = pc[t] /\ node'[t] = node[t] /\ port'[t] = port[t]
        \/ ~On(t, n) /\ ~On(t, n)'

\* The constants apart from each other.
LEMMA NobodyElse == /\ Nobody \notin Tasks /\ Nobody \notin Nodes /\ Nobody \notin Requests
                    /\ Requests \subseteq Nodes /\ Messages \subseteq Nodes
BY NobodyAssumption, RequestsAssumption DEF Messages

\* A request stays right when a step does not concern it.
LEMMA RequestKept ==
    ASSUME NEW r \in Requests, RequestRight(r), SameNode(r), SameRequest(r), SameHand(r)
    PROVE  RequestRight(r)'
<1>1. \A t \in Tasks : /\ On(t, r)' <=> On(t, r)
                       /\ On(t, r) => pc'[t] = pc[t] /\ node'[t] = node[t] /\ port'[t] = port[t]
  BY DEF SameHand, On
<1>2. InUse(r)' <=> InUse(r)
  BY DEF SameNode, InUse
<1>3. \A t \in Tasks : InHand(t, r)' <=> InHand(t, r)
  <2> TAKE t \in Tasks
  <2>1. InHand(t, r) => On(t, r)
    BY DEF InHand, On, InIO
  <2>2. InHand(t, r)' => On(t, r)'
    BY DEF InHand, On, InIO
  <2> QED BY <1>1, <2>1, <2>2 DEF InHand, SameRequest
<1>4. \A t \in Tasks : (node[t] = r /\ pc[t] \in {"begin", "queued", "doio"})
                          => (node'[t] = r /\ pc'[t] \in {"begin", "queued", "doio"})
  BY <1>1 DEF On, InIO
<1> QED BY <1>1, <1>2, <1>3, <1>4 DEF RequestRight, SameNode, SameRequest

\* The same for a message.
LEMMA MessageKept ==
    ASSUME NEW m \in Messages, MessageRight(m), SameNode(m), SameHand(m)
    PROVE  MessageRight(m)'
<1>1. \A t \in Tasks : Sent(t, m)' <=> Sent(t, m)
  BY DEF SameHand, On, Sent
<1>2. InUse(m)' <=> InUse(m)
  BY DEF SameNode, InUse
<1> QED BY <1>1, <1>2 DEF MessageRight, SameNode

\* A step of t that concerns the nodes S alone.
LEMMA StepKeeps ==
    ASSUME IOInv, NEW t \in Tasks, StepOf(t), NEW S \in SUBSET Nodes,
           IOTypes', ListsRight', SlotsRight', NoSleeperForgotten', CallRight(t)',
           \A n \in Nodes \ S : SameNode(n) /\ (~On(t, n) /\ ~On(t, n)'),
           \A r \in Requests \ S : SameRequest(r),
           \A r \in Requests \cap S : RequestRight(r)',
           \A m \in Messages \cap S : MessageRight(m)'
    PROVE  IOInv'
<1>1. \A n \in Nodes \ S : SameHand(n)
  BY DEF StepOf, SameHand
<1>2. ASSUME NEW r \in Requests PROVE RequestRight(r)'
  <2>1. CASE r \in S
    BY <2>1
  <2>2. CASE r \notin S
    BY <1>1, <2>2, RequestKept, NobodyElse DEF IOInv
  <2> QED BY <2>1, <2>2
<1>3. ASSUME NEW m \in Messages PROVE MessageRight(m)'
  <2>1. CASE m \in S
    BY <2>1
  <2>2. CASE m \notin S
    BY <1>1, <2>2, MessageKept, NobodyElse DEF IOInv
  <2> QED BY <2>1, <2>2
<1>4. ASSUME NEW u \in Tasks PROVE CallRight(u)'
  BY DEF IOInv, StepOf, CallRight
<1> QED BY <1>2, <1>3, <1>4 DEF IOInv

\* A step of t that takes no signal away, fills no list and does not put t to
\* sleep forgets nobody.
LEMMA SleepersKept ==
    ASSUME NoSleeperForgotten, NEW t \in Tasks, StepOf(t), pc[t] # "signal",
           pc'[t] \notin {"portsleep", "iosleep"},
           \A u \in Tasks \ {t} : mp_MsgList'[u] = mp_MsgList[u] /\ (mp_Signal[u] => mp_Signal'[u])
    PROVE  NoSleeperForgotten'
<1> SUFFICES ASSUME NEW u \in Tasks
             PROVE  \/ mp_Signal'[u] \/ BeingSignalled(u)'
                    \/ /\ pc'[u] = "portsleep" => mp_MsgList'[u] = <<>>
                       /\ pc'[u] = "iosleep" => ~Linked(node[u], u)'
  BY DEF NoSleeperForgotten
<1>1. CASE u = t
  BY <1>1
<1>2. CASE u # t
  <2>1. pc'[u] = pc[u] /\ node'[u] = node[u] /\ mp_MsgList'[u] = mp_MsgList[u]
    BY <1>2 DEF StepOf
  <2>2. BeingSignalled(u) => BeingSignalled(u)'
    BY DEF BeingSignalled, StepOf
  <2> QED BY <1>2, <2>1, <2>2 DEF NoSleeperForgotten, Linked
<1> QED BY <1>1, <1>2

-----------------------------------------------------------------------------
(* What becomes of the lists.                                              *)

\* Linked() is what the list lemmas call Holds().
LEMMA LinkedHolds == \A n, t : Linked(n, t) <=> Holds(mp_MsgList[t], n)
BY DEF Linked, Holds

\* While no message list changes, nothing is linked or unlinked.
LEMMA ListsSame ==
    ASSUME UNCHANGED mp_MsgList
    PROVE  /\ \A n, t : Linked(n, t)' <=> Linked(n, t)
           /\ ListsRight => ListsRight'
<1>1. \A n, t : Linked(n, t)' <=> Linked(n, t)
  BY DEF Linked
<1> QED BY <1>1 DEF ListsRight

\* AddTail() of a node that is in no list.
LEMMA NodeLinked ==
    ASSUME mp_MsgList \in [Tasks -> Seq(Nodes)], ListsRight, NEW u \in Tasks, NEW n \in Nodes,
           \A v \in Tasks : ~Linked(n, v),
           mp_MsgList' = [mp_MsgList EXCEPT ![u] = Append(@, n)]
    PROVE  /\ mp_MsgList' \in [Tasks -> Seq(Nodes)] /\ ListsRight'
           /\ \A x \in Nodes, v \in Tasks :
                  Linked(x, v)' <=> Linked(x, v) \/ (x = n /\ v = u)
<1> DEFINE q == mp_MsgList[u]
<1>1. q \in Seq(Nodes) /\ Distinct(q) /\ ~Holds(q, n)
  BY LinkedHolds DEF ListsRight
<1>2. /\ Append(q, n) \in Seq(Nodes) /\ Distinct(Append(q, n))
      /\ \A x : Holds(Append(q, n), x) <=> Holds(q, x) \/ x = n
  BY <1>1, AppendKeepsOrder
<1>3. /\ mp_MsgList'[u] = Append(q, n)
      /\ \A v \in Tasks \ {u} : mp_MsgList'[v] = mp_MsgList[v]
  OBVIOUS
<1>4. ASSUME NEW x \in Nodes, NEW v \in Tasks
      PROVE  Linked(x, v)' <=> Linked(x, v) \/ (x = n /\ v = u)
  <2>1. CASE v = u
    <3>1. Linked(x, u)' <=> Holds(Append(q, n), x)
      BY <1>3 DEF Linked, Holds
    <3>2. Linked(x, u) <=> Holds(q, x)
      BY DEF Linked, Holds
    <3> HIDE DEF q
    <3> QED BY <1>2, <2>1, <3>1, <3>2
  <2>2. CASE v # u
    BY <1>3, <2>2 DEF Linked
  <2> QED BY <2>1, <2>2
<1>5. mp_MsgList' \in [Tasks -> Seq(Nodes)]
  <2> HIDE DEF q
  <2>1. mp_MsgList' = [mp_MsgList EXCEPT ![u] = Append(q, n)]
    BY DEF q
  <2> QED BY <1>2, <2>1
<1>6. \A v \in Tasks : Distinct(mp_MsgList'[v])
  <2> HIDE DEF q
  <2> QED BY <1>2, <1>3 DEF ListsRight
<1>7. ListsRight'
  <2>1. \A x \in Nodes, v, w \in Tasks : Linked(x, v)' /\ Linked(x, w)' => v = w
    BY <1>4 DEF ListsRight
  <2> QED BY <1>6, <2>1 DEF ListsRight
<1> QED BY <1>4, <1>5, <1>7

\* A node taken out of the list it is in.
LEMMA NodeTaken ==
    ASSUME mp_MsgList \in [Tasks -> Seq(Nodes)], ListsRight, NEW u \in Tasks, NEW n \in Nodes,
           Linked(n, u), NEW q \in Seq(Nodes), Distinct(q),
           \A x \in Nodes : Holds(q, x) <=> Holds(mp_MsgList[u], x) /\ x # n,
           mp_MsgList' = [mp_MsgList EXCEPT ![u] = q]
    PROVE  /\ mp_MsgList' \in [Tasks -> Seq(Nodes)] /\ ListsRight'
           /\ \A x \in Nodes, v \in Tasks : Linked(x, v)' <=> Linked(x, v) /\ x # n
<1>1. /\ mp_MsgList' \in [Tasks -> Seq(Nodes)] /\ mp_MsgList'[u] = q
      /\ \A v \in Tasks \ {u} : mp_MsgList'[v] = mp_MsgList[v]
  OBVIOUS
<1>2. ASSUME NEW x \in Nodes, NEW v \in Tasks PROVE Linked(x, v)' <=> Linked(x, v) /\ x # n
  <2>1. CASE v = u
    <3>1. Linked(x, u)' <=> Holds(q, x)
      BY <1>1 DEF Linked, Holds
    <3> QED BY <2>1, <3>1, LinkedHolds
  <2>2. CASE v # u
    <3>1. Linked(x, v)' <=> Linked(x, v)
      BY <1>1, <2>2 DEF Linked
    <3>2. ~Linked(n, v)
      BY <2>2 DEF ListsRight
    <3> QED BY <3>1, <3>2
  <2> QED BY <2>1, <2>2
<1>3. \A v \in Tasks : Distinct(mp_MsgList'[v])
  BY <1>1 DEF ListsRight
<1>4. ListsRight'
  <2>1. \A x \in Nodes, v, w \in Tasks : Linked(x, v)' /\ Linked(x, w)' => v = w
    BY <1>2 DEF ListsRight
  <2> QED BY <1>3, <2>1 DEF ListsRight
<1> QED BY <1>1, <1>2, <1>4

-----------------------------------------------------------------------------
(* The steps in which a task only waits or signals.                        *)

\* A step outside of I/O that moves neither nodes nor entries.
LEMMA QuietStep ==
    ASSUME IOInv, NEW t \in Tasks, StepOf(t), IOTypes', NoSleeperForgotten',
           UNCHANGED <<mp_MsgList, ln_Type, mn_ReplyPort, server, quick, timer_queue>>,
           pc[t] \notin InIO \cup {"link"}, pc'[t] \notin InIO \cup {"link"}
    PROVE  IOInv'
<1> DEFINE S == {}
<1>1. ListsRight' /\ SlotsRight'
  BY ListsSame DEF IOInv, SlotsRight
<1>2. \A n : SameNode(n) /\ SameRequest(n) /\ ~On(t, n) /\ ~On(t, n)'
  <2>1. \A n : Queued(n)' <=> Queued(n)
    BY DEF Queued
  <2> QED BY <2>1, ListsSame DEF SameNode, SameRequest, On
<1>3. CallRight(t)'
  BY DEF CallRight
<1>4. S \in SUBSET Nodes /\ \A n : n \notin S
  OBVIOUS
<1> HIDE DEF S
<1> QED BY <1>1, <1>2, <1>3, <1>4, StepKeeps

\* A change of the place of t alone.
LEMMA Goes ==
    ASSUME IOTypes, NEW t \in Tasks, NEW where, Goto(t, where), UNCHANGED <<node, port>>
    PROVE  StepOf(t) /\ pc'[t] = where /\ node'[t] = node[t] /\ port'[t] = port[t]
BY DEF IOTypes, Goto, StepOf

\* WaitPort() begins.
LEMMA WaitPortStep ==
    ASSUME IOInv, NEW t \in Tasks, WaitPort(t), UNCHANGED ioVars PROVE IOInv'
<1>1. StepOf(t) /\ pc'[t] = "waitport" /\ pc[t] = "run"
  BY Goes DEF WaitPort, Running, IOInv
<1>2. IOTypes'
  BY DEF IOInv, IOTypes, WaitPort, Goto, ioVars
<1>3. NoSleeperForgotten'
  BY <1>1, SleepersKept DEF IOInv, WaitPort
<1> QED BY <1>1, <1>2, <1>3, QuietStep DEF WaitPort, ioVars, InIO

\* WaitPort() looks at the list: a port that is empty has nobody to miss.
LEMMA WaitPortTestStep ==
    ASSUME IOInv, NEW t \in Tasks, WaitPortTest(t), UNCHANGED ioVars PROVE IOInv'
<1>1. /\ StepOf(t) /\ pc'[t] = (IF mp_MsgList[t] = <<>> THEN "portsleep" ELSE "run")
      /\ pc[t] = "waitport"
  BY Goes DEF WaitPortTest, IOInv
<1>2. IOTypes'
  BY DEF IOInv, IOTypes, WaitPortTest, Goto, ioVars
<1>3. NoSleeperForgotten'
  <2> SUFFICES ASSUME NEW u \in Tasks
               PROVE  \/ mp_Signal'[u] \/ BeingSignalled(u)'
                      \/ /\ pc'[u] = "portsleep" => mp_MsgList'[u] = <<>>
                         /\ pc'[u] = "iosleep" => ~Linked(node[u], u)'
    BY DEF NoSleeperForgotten
  <2>1. UNCHANGED <<mp_MsgList, mp_Signal, node, port>>
    BY DEF WaitPortTest
  <2>2. CASE u = t
    BY <1>1, <2>1, <2>2
  <2>3. CASE u # t
    <3>1. BeingSignalled(u) => BeingSignalled(u)'
      BY <1>1 DEF BeingSignalled, StepOf
    <3> QED BY <1>1, <2>1, <2>3, <3>1 DEF NoSleeperForgotten, Linked, StepOf, IOInv
  <2> QED BY <2>2, <2>3
<1> QED BY <1>1, <1>2, <1>3, QuietStep DEF WaitPortTest, ioVars, InIO

\* Wait() returns and the signal is taken.
LEMMA Awakes ==
    ASSUME IOInv, NEW t \in Tasks, NEW from, NEW to, Awake(t, from, to), UNCHANGED ioVars,
           from # "signal", to \in {"waitport", "waitio"}
    PROVE  StepOf(t) /\ pc'[t] = to /\ node'[t] = node[t] /\ port'[t] = port[t] /\ IOTypes' /\ NoSleeperForgotten'
<1>1. StepOf(t) /\ pc'[t] = to /\ pc[t] = from /\ node'[t] = node[t] /\ port'[t] = port[t]
  BY Goes DEF Awake, IOInv
<1>2. IOTypes'
  BY DEF IOInv, IOTypes, Awake, Goto, ioVars, InIO
<1>3. \A u \in Tasks \ {t} : mp_MsgList'[u] = mp_MsgList[u] /\ mp_Signal'[u] = mp_Signal[u]
  BY DEF Awake, IOInv, IOTypes
<1>4. NoSleeperForgotten'
  BY <1>1, <1>3, SleepersKept DEF IOInv
<1> QED BY <1>1, <1>2, <1>4

\* WaitPort() wakes up and looks again.
LEMMA WaitPortAwakeStep ==
    ASSUME IOInv, NEW t \in Tasks, WaitPortAwake(t), UNCHANGED ioVars PROVE IOInv'
<1>1. /\ StepOf(t) /\ pc'[t] = "waitport" /\ pc[t] = "portsleep"
      /\ IOTypes' /\ NoSleeperForgotten'
  BY Awakes DEF WaitPortAwake, Awake
<1> QED BY <1>1, QuietStep DEF WaitPortAwake, Awake, ioVars, InIO

\* The call of t ends.
LEMMA Returns ==
    ASSUME IOTypes, NEW t \in Tasks, Return(t)
    PROVE  StepOf(t) /\ pc'[t] = "run"
BY DEF IOTypes, Return, Goto, StepOf

\* The signal that follows a linked message, which may be what its owner sleeps for.
LEMMA SignalPortStep ==
    ASSUME IOInv, NEW t \in Tasks, SignalPort(t), UNCHANGED ioVars PROVE IOInv'
<1>1. StepOf(t) /\ pc'[t] = "run" /\ pc[t] = "signal"
  BY Returns DEF SignalPort, IOInv
<1>2. IOTypes'
  BY DEF IOInv, IOTypes, SignalPort, Return, Goto, ioVars
<1>3. NoSleeperForgotten'
  <2> SUFFICES ASSUME NEW u \in Tasks
               PROVE  \/ mp_Signal'[u] \/ BeingSignalled(u)'
                      \/ /\ pc'[u] = "portsleep" => mp_MsgList'[u] = <<>>
                         /\ pc'[u] = "iosleep" => ~Linked(node[u], u)'
    BY DEF NoSleeperForgotten
  <2>1. mp_MsgList' = mp_MsgList /\ mp_Signal' = [mp_Signal EXCEPT ![port[t]] = TRUE]
    BY DEF SignalPort
  <2>2. mp_Signal[u] \/ port[t] = u => mp_Signal'[u]
    BY <2>1 DEF IOInv, IOTypes
  <2>3. BeingSignalled(u) => BeingSignalled(u)' \/ port[t] = u
    BY <1>1 DEF BeingSignalled, StepOf
  <2>4. CASE u = t
    BY <1>1, <2>4
  <2>5. CASE u # t
    BY <1>1, <2>1, <2>2, <2>3, <2>5 DEF NoSleeperForgotten, Linked, StepOf, IOInv
  <2> QED BY <2>4, <2>5
<1> QED BY <1>1, <1>2, <1>3, QuietStep DEF SignalPort, ioVars, InIO

-----------------------------------------------------------------------------
(* PutMsg(), ReplyMsg(), GetMsg().                                         *)

\* t goes on to link n to the port of u.
LEMMA Sends ==
    ASSUME IOTypes, NEW t \in Tasks, NEW n \in Nodes, NEW u \in Tasks, NEW type \in NodeTypes,
           Send(t, n, type, u)
    PROVE  /\ StepOf(t) /\ pc'[t] = "link" /\ node'[t] = n /\ port'[t] = u /\ CallRight(t)'
           /\ ln_Type'[n] = type /\ \A x \in Nodes \ {n} : ln_Type'[x] = ln_Type[x]
           /\ pc' \in [Tasks -> {"run", "waitport", "portsleep", "link", "signal"} \cup InIO]
           /\ node' \in [Tasks -> Nodes \cup {Nobody}] /\ port' \in [Tasks -> Tasks \cup {Nobody}]
           /\ ln_Type' \in [Nodes -> NodeTypes]
<1>1. /\ StepOf(t) /\ pc'[t] = "link" /\ node'[t] = n /\ port'[t] = u
      /\ ln_Type'[n] = type /\ \A x \in Nodes \ {n} : ln_Type'[x] = ln_Type[x]
  BY DEF IOTypes, Send, Goto, SetType, StepOf
<1>2. /\ pc' \in [Tasks -> {"run", "waitport", "portsleep", "link", "signal"} \cup InIO]
      /\ node' \in [Tasks -> Nodes \cup {Nobody}] /\ port' \in [Tasks -> Tasks \cup {Nobody}]
      /\ ln_Type' \in [Nodes -> NodeTypes]
  BY DEF IOTypes, Send, Goto, SetType
<1>3. CallRight(t)'
  BY <1>1 DEF CallRight, InIO
<1> QED BY <1>1, <1>2, <1>3

\* A message is in one task's call at most, and a task in its own code is in none.
LEMMA PutMsgStep ==
    ASSUME IOInv, NEW t \in Tasks, NEW m \in Messages, NEW u \in Tasks, PutMsg(t, m, u),
           UNCHANGED ioVars
    PROVE  IOInv'
<1>1. /\ pc[t] = "run" /\ mn_ReplyPort[m] = Nobody /\ m \in Nodes /\ Send(t, m, "NT_MESSAGE", u)
      /\ mn_ReplyPort' = [mn_ReplyPort EXCEPT ![m] = t]
      /\ UNCHANGED <<mp_MsgList, mp_Signal, server, quick, timer_queue, io_Error>>
  BY NobodyElse DEF PutMsg, Running, InUse, ioVars
<1>2. /\ StepOf(t) /\ pc'[t] = "link" /\ node'[t] = m /\ port'[t] = u /\ CallRight(t)'
      /\ \A x \in Nodes \ {m} : ln_Type'[x] = ln_Type[x]
      /\ pc' \in [Tasks -> {"run", "waitport", "portsleep", "link", "signal"} \cup InIO]
      /\ node' \in [Tasks -> Nodes \cup {Nobody}] /\ port' \in [Tasks -> Tasks \cup {Nobody}]
      /\ ln_Type' \in [Nodes -> NodeTypes]
  BY <1>1, Sends DEF IOInv, NodeTypes
<1>3. IOTypes' /\ mn_ReplyPort'[m] = t /\ \A x \in Nodes \ {m} : mn_ReplyPort'[x] = mn_ReplyPort[x]
  BY <1>1, <1>2 DEF IOInv, IOTypes
<1>4. ListsRight' /\ SlotsRight' /\ \A n, v : Linked(n, v)' <=> Linked(n, v)
  BY <1>1, ListsSame DEF IOInv, SlotsRight
<1>5. NoSleeperForgotten'
  BY <1>1, <1>2, SleepersKept DEF IOInv
<1>6. \A n \in Nodes \ {m} : SameNode(n) /\ ~On(t, n) /\ ~On(t, n)'
  BY <1>1, <1>2, <1>3, <1>4 DEF SameNode, On, InIO
<1>7. \A r \in Requests : SameRequest(r)
  BY <1>1 DEF SameRequest, Queued
<1>8. MessageRight(m)'
  <2>1. \A v \in Tasks : ~Linked(m, v) /\ ~Sent(v, m)
    BY <1>1 DEF IOInv, MessageRight, InUse
  <2>2. server[m] = Nobody
    BY <1>1 DEF IOInv, MessageRight, InUse
  <2>3. \A v \in Tasks : Sent(v, m)' <=> v = t
    BY <1>1, <1>2, <2>1 DEF Sent, StepOf
  <2>4. InUse(m)'
    BY <1>3, NobodyElse DEF InUse
  <2> QED BY <1>1, <1>4, <2>1, <2>2, <2>3, <2>4 DEF MessageRight
<1> DEFINE S == {m}
<1>9. S \in SUBSET Nodes /\ S \cap Requests = {} /\ \A x \in Messages \cap S : x = m
  BY <1>1 DEF Messages
<1>10. \A n \in Nodes \ S : SameNode(n) /\ ~On(t, n) /\ ~On(t, n)'
  BY <1>6
<1> HIDE DEF S
<1> QED BY <1>2, <1>3, <1>4, <1>5, <1>7, <1>8, <1>9, <1>10, StepKeeps

\* ReplyMsg() of a message that a server has taken from its port.
LEMMA ReplyMsgStep ==
    ASSUME IOInv, NEW t \in Tasks, NEW m \in Messages, ReplyMsg(t, m), UNCHANGED ioVars
    PROVE  IOInv'
<1>1. /\ pc[t] = "run" /\ server[m] = t /\ m \in Nodes
      /\ server' = [server EXCEPT ![m] = Nobody]
      /\ Send(t, m, "NT_REPLYMSG", mn_ReplyPort[m])
      /\ UNCHANGED <<mp_MsgList, mp_Signal, mn_ReplyPort, quick, timer_queue, io_Error>>
  BY NobodyElse DEF ReplyMsg, Running, ioVars
<1>2. InUse(m) /\ mn_ReplyPort[m] \in Tasks
  BY <1>1, NobodyElse DEF IOInv, IOTypes, MessageRight, InUse
<1>3. PICK u \in Tasks : u = mn_ReplyPort[m]
  BY <1>2
<1>4. /\ StepOf(t) /\ pc'[t] = "link" /\ node'[t] = m /\ port'[t] = u /\ CallRight(t)'
      /\ \A x \in Nodes \ {m} : ln_Type'[x] = ln_Type[x]
      /\ pc' \in [Tasks -> {"run", "waitport", "portsleep", "link", "signal"} \cup InIO]
      /\ node' \in [Tasks -> Nodes \cup {Nobody}] /\ port' \in [Tasks -> Tasks \cup {Nobody}]
      /\ ln_Type' \in [Nodes -> NodeTypes]
  BY <1>1, <1>3, Sends DEF IOInv, NodeTypes
<1>5. IOTypes' /\ server'[m] = Nobody /\ \A x \in Nodes \ {m} : server'[x] = server[x]
  BY <1>1, <1>4 DEF IOInv, IOTypes
<1>6. ListsRight' /\ SlotsRight' /\ \A n, v : Linked(n, v)' <=> Linked(n, v)
  BY <1>1, ListsSame DEF IOInv, SlotsRight
<1>7. NoSleeperForgotten'
  BY <1>1, <1>4, SleepersKept DEF IOInv
<1>8. \A n \in Nodes \ {m} : SameNode(n) /\ ~On(t, n) /\ ~On(t, n)'
  BY <1>1, <1>4, <1>5, <1>6 DEF SameNode, On, InIO
<1>9. \A r \in Requests : SameRequest(r)
  BY <1>1 DEF SameRequest, Queued
<1>10. MessageRight(m)'
  <2>1. \A v \in Tasks : ~Linked(m, v) /\ ~Sent(v, m)
    BY <1>1, NobodyElse DEF IOInv, MessageRight
  <2>2. \A v \in Tasks : Sent(v, m)' <=> v = t
    BY <1>1, <1>4, <2>1 DEF Sent, StepOf
  <2>3. InUse(m)'
    BY <1>1, <1>2 DEF InUse
  <2> QED BY <1>5, <1>6, <2>1, <2>2, <2>3 DEF MessageRight
<1> DEFINE S == {m}
<1>11. S \in SUBSET Nodes /\ S \cap Requests = {} /\ \A x \in Messages \cap S : x = m
  BY <1>1 DEF Messages
<1>12. \A n \in Nodes \ S : SameNode(n) /\ ~On(t, n) /\ ~On(t, n)'
  BY <1>8
<1> HIDE DEF S
<1> QED BY <1>4, <1>5, <1>6, <1>7, <1>9, <1>10, <1>11, <1>12, StepKeeps

\* A request is in the hand of its own task only.
LEMMA HandOfOne ==
    ASSUME NEW r \in Requests, RequestRight(r), NEW t \in Tasks, mn_ReplyPort[r] \in {t, Nobody},
           StepOf(t)
    PROVE  \A u \in Tasks \ {t} : ~On(u, r) /\ ~On(u, r)' /\ ~InHand(u, r) /\ ~InHand(u, r)'
<1>1. \A u \in Tasks \ {t} : ~On(u, r) /\ ~On(u, r)'
  BY NobodyElse DEF RequestRight, On, StepOf
<1> QED BY <1>1 DEF On, InHand, InIO

\* GetMsg() gives the first message of the port to its caller.
LEMMA GetMsgStep ==
    ASSUME IOInv, NEW t \in Tasks, GetMsg(t), UNCHANGED ioVars
    PROVE  IOInv'
<1>1. /\ pc[t] = "run" /\ mp_MsgList[t] # <<>>
      /\ mp_MsgList' = [mp_MsgList EXCEPT ![t] = Tail(@)]
      /\ UNCHANGED <<mp_Signal, ln_Type, pc, node, port, quick, timer_queue, io_Error>>
  BY DEF GetMsg, Running, ioVars
<1>2. mp_MsgList[t] \in Seq(Nodes) /\ Distinct(mp_MsgList[t])
  BY DEF IOInv, IOTypes, ListsRight
<1>3. PICK q : q = mp_MsgList[t]
  OBVIOUS
<1>4. /\ Head(q) \in Nodes /\ Holds(q, Head(q)) /\ Tail(q) \in Seq(Nodes) /\ Distinct(Tail(q))
      /\ \A x \in Nodes : Holds(Tail(q), x) <=> Holds(q, x) /\ x # Head(q)
  BY <1>1, <1>2, <1>3, TailKeepsOrder
<1>5. PICK n \in Nodes : n = Head(q)
  BY <1>4
<1>6. PICK l \in Seq(Nodes) : l = Tail(q)
  BY <1>4
<1>7. Linked(n, t)
  BY <1>3, <1>4, <1>5, LinkedHolds
<1>8. mp_MsgList' = [mp_MsgList EXCEPT ![t] = l]
  BY <1>1, <1>3, <1>6
<1>9. /\ mp_MsgList' \in [Tasks -> Seq(Nodes)] /\ ListsRight'
      /\ \A x \in Nodes, v \in Tasks : Linked(x, v)' <=> Linked(x, v) /\ x # n
  BY <1>3, <1>4, <1>5, <1>6, <1>7, <1>8, NodeTaken DEF IOInv, IOTypes
<1>10. \/ /\ ln_Type[n] = "NT_MESSAGE"
          /\ server' = [server EXCEPT ![n] = t] /\ UNCHANGED mn_ReplyPort
       \/ /\ ln_Type[n] = "NT_REPLYMSG"
          /\ mn_ReplyPort' = [mn_ReplyPort EXCEPT ![n] = Nobody] /\ UNCHANGED server
  BY <1>3, <1>5 DEF GetMsg
<1>11. IOTypes'
  BY <1>1, <1>9, <1>10 DEF IOInv, IOTypes
<1>12. StepOf(t) /\ SlotsRight' /\ CallRight(t)'
  BY <1>1 DEF StepOf, SlotsRight, CallRight, IOInv, InIO
<1>13. NoSleeperForgotten'
  <2>1. \A u \in Tasks \ {t} : mp_MsgList'[u] = mp_MsgList[u] /\ mp_Signal'[u] = mp_Signal[u]
    BY <1>1 DEF IOInv, IOTypes
  <2> QED BY <1>1, <1>12, <2>1, SleepersKept DEF IOInv
<1>14. \A x \in Nodes \ {n} : SameNode(x) /\ ~On(t, x) /\ ~On(t, x)'
  <2>1. \A x \in Nodes \ {n} : /\ server'[x] = server[x] /\ mn_ReplyPort'[x] = mn_ReplyPort[x]
                               /\ ln_Type'[x] = ln_Type[x]
    BY <1>1, <1>10 DEF IOInv, IOTypes
  <2> QED BY <1>1, <1>9, <2>1 DEF SameNode, On, InIO
<1>15. \A r : SameRequest(r)
  BY <1>1 DEF SameRequest, Queued
<1>16. ASSUME n \in Requests PROVE RequestRight(n)'
  <2>1. RequestRight(n) /\ mn_ReplyPort[n] = t /\ ln_Type[n] = "NT_REPLYMSG"
    BY <1>7, <1>16 DEF IOInv, RequestRight
  <2>2. server'[n] = Nobody /\ mn_ReplyPort'[n] = Nobody
    BY <1>10, <1>16, <2>1 DEF IOInv, IOTypes, RequestRight
  <2>3. \A v \in Tasks : ~Linked(n, v)'
    BY <1>9
  <2>4. ~Queued(n)'
    BY <1>15, <2>1 DEF SameRequest, RequestRight
  <2>5. \A u \in Tasks : ~On(u, n)' /\ ~InHand(u, n)'
    <3>1. \A u \in Tasks \ {t} : ~On(u, n)' /\ ~InHand(u, n)'
      BY <1>12, <1>16, <2>1, HandOfOne
    <3>2. ~On(t, n)' /\ ~InHand(t, n)'
      BY <1>1 DEF On, InHand, InIO
    <3> QED BY <3>1, <3>2
  <2>6. ~InUse(n)'
    BY <2>2 DEF InUse
  <2> QED BY <2>2, <2>3, <2>4, <2>5, <2>6 DEF RequestRight
<1>17. ASSUME n \in Messages PROVE MessageRight(n)'
  <2>1. \A v \in Tasks : ~Sent(v, n)
    BY <1>7, <1>17 DEF IOInv, MessageRight
  <2>2. InUse(n) /\ server[n] = Nobody
    BY <1>7, <1>17 DEF IOInv, MessageRight
  <2>3. \A v \in Tasks : ~Sent(v, n)' /\ ~Linked(n, v)'
    BY <1>1, <1>9, <2>1 DEF Sent
  <2>4. CASE ln_Type[n] = "NT_MESSAGE"
    <3>1. server'[n] = t /\ mn_ReplyPort'[n] = mn_ReplyPort[n]
      BY <1>10, <2>4 DEF IOInv, IOTypes
    <3>2. InUse(n)' /\ server'[n] # Nobody
      BY <2>2, <3>1, NobodyElse DEF InUse
    <3> QED BY <2>3, <3>2 DEF MessageRight
  <2>5. CASE ln_Type[n] = "NT_REPLYMSG"
    <3>1. server'[n] = Nobody /\ mn_ReplyPort'[n] = Nobody
      BY <1>10, <2>2, <2>5 DEF IOInv, IOTypes
    <3>2. ~InUse(n)'
      BY <3>1 DEF InUse
    <3> QED BY <2>3, <3>1, <3>2 DEF MessageRight
  <2> QED BY <1>10, <2>4, <2>5
<1> DEFINE S == {n}
<1>18. /\ S \in SUBSET Nodes /\ \A x \in Messages \cap S : x = n /\ n \in Messages
       /\ \A x \in Requests \cap S : x = n /\ n \in Requests
       /\ \A x \in Nodes \ S : SameNode(x) /\ ~On(t, x) /\ ~On(t, x)'
  BY <1>14
<1> HIDE DEF S
<1> QED BY <1>11, <1>12, <1>9, <1>13, <1>15, <1>16, <1>17, <1>18, StepKeeps

\* AddTail() and the wake-up it owes.
LEMMA LinkStep ==
    ASSUME IOInv, NEW t \in Tasks, Link(t), UNCHANGED ioVars
    PROVE  IOInv'
<1>1. /\ pc[t] = "link" /\ pc' = [pc EXCEPT ![t] = "signal"]
      /\ mp_MsgList' = [mp_MsgList EXCEPT ![port[t]] = Append(@, node[t])]
      /\ UNCHANGED <<mp_Signal, ln_Type, mn_ReplyPort, server, node, port, quick, timer_queue, io_Error>>
  BY DEF Link, Goto, ioVars
<1>2. PICK n \in Nodes : n = node[t]
  BY <1>1 DEF IOInv, CallRight
<1>3. PICK u \in Tasks : u = port[t]
  BY <1>1 DEF IOInv, CallRight
<1>4. StepOf(t) /\ pc'[t] = "signal"
  BY <1>1 DEF StepOf, IOInv, IOTypes
<1>5. n \in Messages => Sent(t, n)
  BY <1>1, <1>2 DEF Sent
<1>6. n \in Requests => InHand(t, n) /\ On(t, n) /\ RequestRight(n)
  BY <1>1, <1>2 DEF InHand, On, IOInv
<1>7. n \in Messages \cup Requests
  BY DEF Messages
<1>8. \A v \in Tasks : ~Linked(n, v)
  BY <1>5, <1>6, <1>7 DEF IOInv, MessageRight, RequestRight
<1>9. mp_MsgList' = [mp_MsgList EXCEPT ![u] = Append(@, n)]
  BY <1>1, <1>2, <1>3
<1>10. /\ mp_MsgList' \in [Tasks -> Seq(Nodes)] /\ ListsRight'
       /\ \A x \in Nodes, v \in Tasks : Linked(x, v)' <=> Linked(x, v) \/ (x = n /\ v = u)
  BY <1>8, <1>9, NodeLinked DEF IOInv, IOTypes
<1>11. IOTypes' /\ SlotsRight' /\ CallRight(t)'
  BY <1>1, <1>4, <1>10 DEF IOInv, IOTypes, SlotsRight, CallRight, InIO
<1>12. NoSleeperForgotten'
  <2> SUFFICES ASSUME NEW v \in Tasks
               PROVE  \/ mp_Signal'[v] \/ BeingSignalled(v)'
                      \/ /\ pc'[v] = "portsleep" => mp_MsgList'[v] = <<>>
                         /\ pc'[v] = "iosleep" => ~Linked(node[v], v)'
    BY DEF NoSleeperForgotten
  <2>1. CASE v = u
    <3>1. pc'[t] = "signal" /\ port'[t] = v
      BY <1>1, <1>3, <1>4, <2>1
    <3> QED BY <3>1 DEF BeingSignalled
  <2>2. CASE v = t
    BY <1>4, <2>2
  <2>3. CASE v # u /\ v # t
    <3>1. mp_MsgList'[v] = mp_MsgList[v]
      BY <1>9, <2>3 DEF IOInv, IOTypes
    <3>2. BeingSignalled(v) => BeingSignalled(v)'
      BY <1>1, <1>4 DEF BeingSignalled, StepOf
    <3>3. /\ pc'[v] = pc[v] /\ node'[v] = node[v] /\ mp_Signal'[v] = mp_Signal[v]
          /\ NoSleeperForgotten
      BY <1>1, <1>4, <2>3 DEF StepOf, IOInv
    <3> QED BY <3>1, <3>2, <3>3 DEF NoSleeperForgotten, Linked
  <2> QED BY <2>1, <2>2, <2>3
<1>13. \A x \in Nodes \ {n} : SameNode(x) /\ ~On(t, x) /\ ~On(t, x)'
  BY <1>1, <1>2, <1>10 DEF SameNode, On
<1>14. \A r : SameRequest(r)
  BY <1>1 DEF SameRequest, Queued
<1>15. ASSUME n \in Requests PROVE RequestRight(n)'
  <2>1. mn_ReplyPort[n] = t /\ u = t /\ ln_Type[n] = "NT_REPLYMSG" /\ server[n] = Nobody
    BY <1>1, <1>3, <1>6, <1>15 DEF RequestRight
  <2>2. ~Queued(n) /\ ~Queued(n)'
    BY <1>6, <1>14, <1>15 DEF RequestRight, SameRequest
  <2>3. \A v \in Tasks : Linked(n, v)' <=> v = t
    BY <1>8, <1>10, <2>1
  <2>4. \A v \in Tasks : ~On(v, n)' /\ ~InHand(v, n)'
    <3>1. \A v \in Tasks \ {t} : ~On(v, n)' /\ ~InHand(v, n)'
      BY <1>4, <1>6, <1>15, <2>1, HandOfOne
    <3>2. ~On(t, n)' /\ ~InHand(t, n)'
      BY <1>4 DEF On, InHand, InIO
    <3> QED BY <3>1, <3>2
  <2>5. ~quick'[n]
    <3>1. ASSUME NEW v \in Tasks, node[v] = n, pc[v] \in {"begin", "queued", "doio"} PROVE FALSE
      <4>1. On(v, n)
        BY <3>1 DEF On, InIO
      <4>2. v = t
        BY <1>6, <1>15, <2>1, <4>1 DEF RequestRight
      <4> QED BY <1>1, <3>1, <4>2
    <3>2. InUse(n)
      BY <2>1, NobodyElse DEF InUse
    <3> QED BY <1>1, <1>6, <1>15, <3>1, <3>2 DEF RequestRight, IOInv, IOTypes
  <2> QED BY <1>1, <2>1, <2>2, <2>3, <2>4, <2>5 DEF RequestRight
<1>16. ASSUME n \in Messages PROVE MessageRight(n)'
  <2>1. Sent(t, n) /\ InUse(n) /\ server[n] = Nobody /\ \A v \in Tasks : Sent(v, n) => v = t
    BY <1>5, <1>16 DEF IOInv, MessageRight
  <2>2. \A v \in Tasks : ~Sent(v, n)' /\ (Linked(n, v)' <=> v = u)
    BY <1>4, <1>8, <1>10, <2>1 DEF Sent, StepOf
  <2>3. InUse(n)' /\ server'[n] = Nobody
    BY <1>1, <2>1 DEF InUse
  <2> QED BY <2>2, <2>3 DEF MessageRight
<1> DEFINE S == {n}
<1>17. /\ S \in SUBSET Nodes /\ \A x \in Messages \cap S : x = n /\ n \in Messages
       /\ \A x \in Requests \cap S : x = n /\ n \in Requests
       /\ \A x \in Nodes \ S : SameNode(x) /\ ~On(t, x) /\ ~On(t, x)'
  BY <1>13
<1> HIDE DEF S
<1> QED BY <1>4, <1>10, <1>11, <1>12, <1>14, <1>15, <1>16, <1>17, StepKeeps

-----------------------------------------------------------------------------
(* The steps of a task in a call about its request r.                      *)

\* A step of t about its own request.
LEMMA OwnStep ==
    ASSUME IOInv, NEW t \in Tasks, NEW r \in Requests, StepOf(t),
           node[t] = r \/ pc[t] = "run", node'[t] = r \/ pc'[t] = "run",
           pc'[t] = "link" => port'[t] \in Tasks,
           IOTypes', ListsRight', SlotsRight', NoSleeperForgotten',
           \A n \in Nodes \ {r} : SameNode(n), \A q \in Requests \ {r} : SameRequest(q),
           RequestRight(r)'
    PROVE  IOInv'
<1> DEFINE S == {r}
<1>1. r \in Nodes /\ \A m \in Messages : m # r
  BY NobodyElse DEF Messages
<1>2. \A n \in Nodes \ S : SameNode(n) /\ ~On(t, n) /\ ~On(t, n)'
  BY DEF On, InIO
<1>3. CallRight(t)'
  BY <1>1 DEF CallRight, InIO
<1>4. /\ S \in SUBSET Nodes /\ \A q \in Requests \ S : SameRequest(q)
      /\ \A q \in Requests \cap S : RequestRight(q)'
      /\ \A m \in Messages \cap S : MessageRight(m)'
  BY <1>1
<1> HIDE DEF S
<1> QED BY <1>2, <1>3, <1>4, StepKeeps

\* What is known of the request of a call: nobody else's call is about it.
LEMMA InCall ==
    ASSUME IOInv, NEW t \in Tasks, pc[t] \in InIO
    PROVE  /\ node[t] \in Requests /\ node[t] \in Nodes
           /\ \A r \in Requests : r = node[t] =>
                 /\ RequestRight(r) /\ On(t, r) /\ mn_ReplyPort[r] = t /\ InUse(r)
                 /\ \A u \in Tasks \ {t} : ~On(u, r) /\ ~InHand(u, r)
<1>1. node[t] \in Requests
  BY DEF IOInv, CallRight
<1>2. PICK r \in Requests : r = node[t]
  BY <1>1
<1>3. RequestRight(r) /\ On(t, r)
  BY <1>2 DEF IOInv, On
<1>4. mn_ReplyPort[r] = t
  BY <1>3 DEF RequestRight
<1>5. InUse(r)
  BY <1>4, NobodyElse DEF InUse
<1>6. \A u \in Tasks \ {t} : ~On(u, r)
  BY <1>3, <1>4 DEF RequestRight
<1>7. \A u \in Tasks \ {t} : ~InHand(u, r)
  BY <1>6 DEF On, InHand, InIO
<1> QED BY <1>1, <1>2, <1>3, <1>4, <1>5, <1>6, <1>7, NobodyElse

\* A step of t that changes nothing of a request r that is not in its hand, but
\* for where t is.
LEMMA PlaceChanged ==
    ASSUME NEW r \in Requests, RequestRight(r), NEW t \in Tasks, mn_ReplyPort[r] = t, StepOf(t),
           SameNode(r), Queued(r)' <=> Queued(r),
           ~InHand(t, r), node'[t] = r \/ pc'[t] = "run",
           pc'[t] \notin {"begin", "link"},
           quick'[r] => pc'[t] = "queued",
           pc'[t] = "remove" => Linked(r, t)
    PROVE  RequestRight(r)'
<1>1. \A u \in Tasks \ {t} : ~On(u, r) /\ ~On(u, r)' /\ ~InHand(u, r) /\ ~InHand(u, r)'
  BY HandOfOne
<1>2. ~InHand(t, r)'
  BY DEF InHand
<1>3. /\ server'[r] = Nobody /\ mn_ReplyPort'[r] = t /\ InUse(r)' /\ InUse(r)
      /\ ln_Type'[r] = ln_Type[r] /\ \A u \in Tasks : Linked(r, u)' <=> Linked(r, u)
  BY NobodyElse DEF RequestRight, SameNode, InUse
<1>4. quick'[r] => node'[t] = r /\ pc'[t] = "queued"
  OBVIOUS
<1> QED BY <1>1, <1>2, <1>3, <1>4 DEF RequestRight

\* SendIO() and DoIO() on a request that is not in use.
LEMMA StartIOStep ==
    ASSUME IOInv, NEW t \in Tasks, NEW r \in Requests, NEW isQuick \in BOOLEAN,
           StartIO(t, r, isQuick), SetType(r, "NT_MESSAGE")
    PROVE  IOInv'
<1>1. /\ pc[t] = "run" /\ mn_ReplyPort[r] = Nobody /\ r \in Nodes
      /\ mn_ReplyPort' = [mn_ReplyPort EXCEPT ![r] = t]
      /\ quick' = [quick EXCEPT ![r] = isQuick]
      /\ pc' = [pc EXCEPT ![t] = "begin"] /\ node' = [node EXCEPT ![t] = r]
      /\ ln_Type' = [ln_Type EXCEPT ![r] = "NT_MESSAGE"]
      /\ UNCHANGED <<mp_MsgList, mp_Signal, server, port, io_Error, timer_queue>>
  BY NobodyElse DEF StartIO, Running, InUse, Goto, SetType
<1>2. StepOf(t) /\ pc'[t] = "begin" /\ node'[t] = r
  BY <1>1 DEF StepOf, IOInv, IOTypes
<1>3. IOTypes'
  BY <1>1 DEF IOInv, IOTypes, InIO, NodeTypes
<1>4. /\ mn_ReplyPort'[r] = t /\ ln_Type'[r] = "NT_MESSAGE"
      /\ \A n \in Nodes \ {r} : mn_ReplyPort'[n] = mn_ReplyPort[n] /\ ln_Type'[n] = ln_Type[n]
      /\ \A q \in Requests \ {r} : quick'[q] = quick[q]
  BY <1>1 DEF IOInv, IOTypes
<1>5. /\ ListsRight' /\ SlotsRight' /\ \A n, v : Linked(n, v)' <=> Linked(n, v)
      /\ \A n : Queued(n)' <=> Queued(n)
  BY <1>1, ListsSame DEF IOInv, SlotsRight, Queued
<1>6. NoSleeperForgotten'
  BY <1>1, <1>2, SleepersKept DEF IOInv
<1>7. RequestRight(r)'
  <2>1. RequestRight(r) /\ ~InUse(r)
    BY <1>1 DEF IOInv, InUse
  <2>2. /\ server[r] = Nobody /\ ~Queued(r) /\ \A u \in Tasks : ~Linked(r, u)
    BY <1>1, <2>1, NobodyElse DEF RequestRight
  <2>3. \A u \in Tasks \ {t} : ~On(u, r)' /\ ~InHand(u, r)'
    BY <1>1, <1>2, <2>1, HandOfOne
  <2>4. InHand(t, r)'
    BY <1>2 DEF InHand
  <2> QED BY <1>1, <1>2, <1>4, <1>5, <2>2, <2>3, <2>4 DEF RequestRight
<1>8. \A n \in Nodes \ {r} : SameNode(n)
  BY <1>1, <1>4, <1>5 DEF SameNode
<1>9. \A q \in Requests \ {r} : SameRequest(q)
  BY <1>4, <1>5 DEF SameRequest
<1> QED BY <1>1, <1>2, <1>3, <1>5, <1>6, <1>7, <1>8, <1>9, OwnStep

\* BeginIO() is done with the request.
LEMMA FinishStep ==
    ASSUME IOInv, NEW t \in Tasks, pc[t] = "begin", NEW error \in Errors,
           Finish(t, node[t], error)
    PROVE  IOInv'
<1>1. PICK r \in Requests : r = node[t]
  BY InCall DEF InIO
<1>2. /\ RequestRight(r) /\ On(t, r) /\ mn_ReplyPort[r] = t /\ InUse(r) /\ r \in Nodes
      /\ \A u \in Tasks \ {t} : ~On(u, r) /\ ~InHand(u, r)
  BY <1>1, InCall, NobodyElse DEF InIO
<1>3. /\ io_Error' = [io_Error EXCEPT ![r] = error]
      /\ IF quick[r]
         THEN pc' = [pc EXCEPT ![t] = "doio"] /\ UNCHANGED <<ln_Type, node, port>>
         ELSE Send(t, r, "NT_REPLYMSG", t)
      /\ UNCHANGED <<mp_MsgList, mp_Signal, mn_ReplyPort, server, quick, timer_queue>>
  BY <1>1, <1>2 DEF Finish, Goto
<1>4. /\ StepOf(t) /\ node'[t] = r /\ IOTypes'
      /\ \A n \in Nodes \ {r} : ln_Type'[n] = ln_Type[n]
      /\ \/ quick[r] /\ pc'[t] = "doio"
         \/ ~quick[r] /\ pc'[t] = "link" /\ port'[t] = t /\ ln_Type'[r] = "NT_REPLYMSG"
  <2>1. CASE quick[r]
    <3>1. StepOf(t) /\ pc'[t] = "doio" /\ node'[t] = r
      BY <1>1, <1>3, <2>1 DEF StepOf, IOInv, IOTypes
    <3>2. IOTypes'
      BY <1>3, <2>1 DEF IOInv, IOTypes, InIO
    <3> QED BY <1>3, <2>1, <3>1, <3>2
  <2>2. CASE ~quick[r]
    <3>1. /\ StepOf(t) /\ pc'[t] = "link" /\ node'[t] = r /\ port'[t] = t
          /\ ln_Type'[r] = "NT_REPLYMSG" /\ \A x \in Nodes \ {r} : ln_Type'[x] = ln_Type[x]
          /\ pc' \in [Tasks -> {"run", "waitport", "portsleep", "link", "signal"} \cup InIO]
          /\ node' \in [Tasks -> Nodes \cup {Nobody}] /\ port' \in [Tasks -> Tasks \cup {Nobody}]
          /\ ln_Type' \in [Nodes -> NodeTypes]
      BY <1>2, <1>3, <2>2, Sends DEF IOInv, NodeTypes
    <3>2. IOTypes'
      BY <1>3, <3>1 DEF IOInv, IOTypes
    <3> QED BY <2>2, <3>1, <3>2
  <2> QED BY <2>1, <2>2
<1>5. /\ ListsRight' /\ SlotsRight' /\ \A n, v : Linked(n, v)' <=> Linked(n, v)
      /\ \A n : Queued(n)' <=> Queued(n)
  BY <1>3, ListsSame DEF IOInv, SlotsRight, Queued
<1>6. NoSleeperForgotten'
  <2>1. pc[t] # "signal" /\ pc'[t] \notin {"portsleep", "iosleep"}
    BY <1>4
  <2> QED BY <1>3, <1>4, <2>1, SleepersKept DEF IOInv
<1>7. RequestRight(r)'
  <2>1. InHand(t, r) /\ InHand(t, r)'
    BY <1>1, <1>3, <1>4 DEF InHand
  <2>2. /\ server[r] = Nobody /\ ~Queued(r) /\ \A u \in Tasks : ~Linked(r, u)
    BY <1>2, <2>1 DEF RequestRight
  <2>3. \A u \in Tasks \ {t} : ~On(u, r)' /\ ~InHand(u, r)'
    BY <1>2, <1>4, HandOfOne
  <2>4. quick[r] => node'[t] = r /\ pc'[t] = "doio"
    BY <1>4
  <2> QED BY <1>2, <1>3, <1>4, <1>5, <2>1, <2>2, <2>3, <2>4 DEF RequestRight, InUse
<1>8. \A n \in Nodes \ {r} : SameNode(n)
  BY <1>3, <1>4, <1>5 DEF SameNode
<1>9. \A q \in Requests : SameRequest(q)
  BY <1>3, <1>5 DEF SameRequest
<1> QED BY <1>1, <1>4, <1>5, <1>6, <1>7, <1>8, <1>9, OwnStep

\* The first free entry takes the request.
LEMMA BeginIOQueueStep ==
    ASSUME IOInv, NEW t \in Tasks, BeginIOQueue(t)
    PROVE  IOInv'
<1>1. PICK r \in Requests : r = node[t]
  BY InCall DEF BeginIOQueue, InIO
<1>2. /\ RequestRight(r) /\ On(t, r) /\ mn_ReplyPort[r] = t /\ InUse(r) /\ r \in Nodes
      /\ \A u \in Tasks \ {t} : ~On(u, r) /\ ~InHand(u, r)
  BY <1>1, InCall, NobodyElse DEF BeginIOQueue, InIO
<1>3. PICK i \in FreeSlots :
         timer_queue' = [timer_queue EXCEPT ![i] = [ioreq |-> r, expired |-> FALSE]]
  BY <1>1 DEF BeginIOQueue
<1>4. /\ pc[t] = "begin" /\ pc' = [pc EXCEPT ![t] = "queued"]
      /\ io_Error' = [io_Error EXCEPT ![r] = "ok"]
      /\ UNCHANGED <<mp_MsgList, mp_Signal, ln_Type, mn_ReplyPort, server, node, port, quick>>
  BY <1>1 DEF BeginIOQueue, Goto
<1>5. i \in 1 .. Slots /\ timer_queue[i] = NoEntry /\ timer_queue[i].ioreq = Nobody
  BY DEF FreeSlots, NoEntry
<1>6. StepOf(t) /\ pc'[t] = "queued" /\ node'[t] = r
  BY <1>1, <1>4 DEF StepOf, IOInv, IOTypes
<1>7. [ioreq |-> r, expired |-> FALSE] \in Entries
  BY DEF Entries
<1>8. IOTypes'
  <2>1. timer_queue' \in [1 .. Slots -> Entries]
    BY <1>3, <1>7 DEF IOInv, IOTypes
  <2> QED BY <1>4, <2>1 DEF IOInv, IOTypes, InIO, Errors
<1>9. InHand(t, r)
  BY <1>1, <1>4 DEF InHand
<1>10. server[r] = Nobody /\ ~Queued(r) /\ ln_Type[r] = "NT_MESSAGE" /\ \A u \in Tasks : ~Linked(r, u)
  BY <1>2, <1>4, <1>9 DEF RequestRight
<1>11. /\ timer_queue'[i].ioreq = r
       /\ \A j \in 1 .. Slots \ {i} : timer_queue'[j] = timer_queue[j]
  BY <1>3, <1>5 DEF IOInv, IOTypes
<1>12. ListsRight' /\ \A n, v : Linked(n, v)' <=> Linked(n, v)
  BY <1>4, ListsSame DEF IOInv
<1>13. SlotsRight'
  <2> SUFFICES ASSUME NEW j \in 1 .. Slots, NEW k \in 1 .. Slots,
                      timer_queue'[j].ioreq = timer_queue'[k].ioreq, timer_queue'[j] # NoEntry
               PROVE  j = k
    BY DEF SlotsRight
  <2>1. \A l \in 1 .. Slots : timer_queue[l].ioreq # r
    BY <1>10 DEF Queued
  <2>2. CASE j # i /\ k # i
    BY <1>11, <2>2 DEF SlotsRight, IOInv
  <2> QED BY <1>11, <2>1, <2>2
<1>14. Queued(r)' /\ \A q \in Requests \ {r} : Queued(q)' <=> Queued(q)
  <2>1. Queued(r)'
    BY <1>5, <1>11 DEF Queued
  <2>2. ASSUME NEW q \in Requests \ {r} PROVE Queued(q)' <=> Queued(q)
    BY <1>5, <1>11, NobodyElse DEF Queued
  <2> QED BY <2>1, <2>2
<1>15. NoSleeperForgotten'
  BY <1>4, <1>6, SleepersKept DEF IOInv
<1>16. RequestRight(r)'
  <2>1. \A u \in Tasks \ {t} : ~On(u, r)' /\ ~InHand(u, r)'
    BY <1>2, <1>6, HandOfOne
  <2>2. ~InHand(t, r)' /\ node'[t] = r /\ pc'[t] = "queued"
    BY <1>6 DEF InHand
  <2> QED BY <1>2, <1>4, <1>10, <1>12, <1>14, <2>1, <2>2 DEF RequestRight, InUse
<1>17. \A n \in Nodes \ {r} : SameNode(n)
  BY <1>4, <1>12 DEF SameNode
<1>18. \A q \in Requests \ {r} : SameRequest(q)
  BY <1>4, <1>14 DEF SameRequest
<1> QED BY <1>1, <1>6, <1>8, <1>12, <1>13, <1>15, <1>16, <1>17, <1>18, OwnStep

\* The end of BeginIO() for a request that waits.
LEMMA BeginIOReturnStep ==
    ASSUME IOInv, NEW t \in Tasks, BeginIOReturn(t)
    PROVE  IOInv'
<1>1. PICK r \in Requests : r = node[t]
  BY InCall DEF BeginIOReturn, InIO
<1>2. /\ RequestRight(r) /\ mn_ReplyPort[r] = t /\ r \in Nodes
  BY <1>1, InCall, NobodyElse DEF BeginIOReturn, InIO
<1>3. /\ pc[t] = "queued" /\ quick' = [quick EXCEPT ![r] = FALSE]
      /\ UNCHANGED <<mp_MsgList, mp_Signal, ln_Type, mn_ReplyPort, server, io_Error, timer_queue>>
  BY <1>1 DEF BeginIOReturn
<1>4. /\ StepOf(t)
      /\ node'[t] = r \/ pc'[t] = "run"
      /\ pc'[t] \in {"doio", "run"} /\ IOTypes'
  <2>1. CASE quick[r]
    <3>1. pc' = [pc EXCEPT ![t] = "doio"] /\ UNCHANGED <<node, port>>
      BY <1>1, <2>1 DEF BeginIOReturn, Goto
    <3>2. IOTypes'
      BY <1>3, <3>1 DEF IOInv, IOTypes, InIO
    <3> QED BY <1>1, <3>1, <3>2 DEF StepOf, IOInv, IOTypes
  <2>2. CASE ~quick[r]
    <3>1. Return(t)
      BY <1>1, <2>2 DEF BeginIOReturn
    <3>2. IOTypes'
      BY <1>3, <3>1 DEF IOInv, IOTypes, Return, Goto
    <3> QED BY <3>1, <3>2, Returns DEF IOInv
  <2> QED BY <2>1, <2>2
<1>5. StepOf(t)
  BY <1>4
<1>6. /\ ListsRight' /\ SlotsRight' /\ \A n, v : Linked(n, v)' <=> Linked(n, v)
      /\ \A n : Queued(n)' <=> Queued(n)
  BY <1>3, ListsSame DEF IOInv, SlotsRight, Queued
<1>7. NoSleeperForgotten'
  <2>1. pc[t] # "signal" /\ pc'[t] \notin {"portsleep", "iosleep"}
    BY <1>3, <1>4
  <2> QED BY <1>3, <1>5, <2>1, SleepersKept DEF IOInv
<1>8. \A n \in Nodes : SameNode(n)
  BY <1>3, <1>6 DEF SameNode
<1>9. ~quick'[r] /\ \A q \in Requests \ {r} : SameRequest(q)
  BY <1>3, <1>6 DEF SameRequest, IOInv, IOTypes
<1>10. RequestRight(r)'
  <2>1. ~InHand(t, r) /\ pc'[t] \notin {"begin", "link"} /\ pc'[t] # "remove"
    BY <1>3, <1>4 DEF InHand
  <2> QED BY <1>2, <1>4, <1>5, <1>6, <1>8, <1>9, <2>1, PlaceChanged
<1> QED BY <1>1, <1>4, <1>5, <1>6, <1>7, <1>8, <1>9, <1>10, OwnStep

\* DoIO() returns or goes on to wait.
LEMMA DoIOReturnStep ==
    ASSUME IOInv, NEW t \in Tasks, DoIOReturn(t)
    PROVE  IOInv'
<1>1. PICK r \in Requests : r = node[t]
  BY InCall DEF DoIOReturn, InIO
<1>2. /\ RequestRight(r) /\ mn_ReplyPort[r] = t /\ r \in Nodes
      /\ \A u \in Tasks \ {t} : ~On(u, r) /\ ~InHand(u, r)
  BY <1>1, InCall, NobodyElse DEF DoIOReturn, InIO
<1>3. /\ pc[t] = "doio"
      /\ UNCHANGED <<mp_MsgList, mp_Signal, ln_Type, server, quick, io_Error, timer_queue>>
  BY <1>1 DEF DoIOReturn, ioVars
<1>4. /\ ListsRight' /\ SlotsRight' /\ \A n, v : Linked(n, v)' <=> Linked(n, v)
      /\ \A n : Queued(n)' <=> Queued(n)
  BY <1>3, ListsSame DEF IOInv, SlotsRight, Queued
<1>5. \A q \in Requests : SameRequest(q)
  BY <1>3, <1>4 DEF SameRequest
<1>6. CASE quick[r]
  <2>1. mn_ReplyPort' = [mn_ReplyPort EXCEPT ![r] = Nobody] /\ Return(t)
    BY <1>1, <1>6 DEF DoIOReturn
  <2>2. StepOf(t) /\ pc'[t] = "run"
    BY <2>1, Returns DEF IOInv
  <2>3. IOTypes'
    BY <1>3, <2>1 DEF IOInv, IOTypes, Return, Goto
  <2>4. NoSleeperForgotten'
    BY <1>3, <2>2, SleepersKept DEF IOInv
  <2>5. \A n \in Nodes \ {r} : SameNode(n)
    BY <1>3, <1>4, <2>1 DEF SameNode, IOInv, IOTypes
  <2>6. RequestRight(r)'
    <3>1. InHand(t, r)
      BY <1>1, <1>3, <1>6 DEF InHand
    <3>2. /\ server[r] = Nobody /\ ~Queued(r) /\ \A u \in Tasks : ~Linked(r, u)
      BY <1>2, <3>1 DEF RequestRight
    <3>3. \A u \in Tasks : ~On(u, r)' /\ ~InHand(u, r)'
      <4>1. \A u \in Tasks \ {t} : ~On(u, r)' /\ ~InHand(u, r)'
        BY <1>2, <2>2, HandOfOne
      <4>2. ~On(t, r)' /\ ~InHand(t, r)'
        BY <2>2 DEF On, InHand, InIO
      <4> QED BY <4>1, <4>2
    <3>4. ~InUse(r)'
      BY <1>2, <2>1 DEF InUse, IOInv, IOTypes
    <3> QED BY <1>3, <1>4, <3>2, <3>3, <3>4 DEF RequestRight
  <2> QED BY <1>1, <1>4, <1>5, <2>2, <2>3, <2>4, <2>5, <2>6, OwnStep
<1>7. CASE ~quick[r]
  <2>1. pc' = [pc EXCEPT ![t] = "waitio"] /\ UNCHANGED <<mn_ReplyPort, node, port>>
    BY <1>1, <1>7 DEF DoIOReturn, Goto
  <2>2. StepOf(t) /\ pc'[t] = "waitio" /\ node'[t] = r
    BY <1>1, <2>1 DEF StepOf, IOInv, IOTypes
  <2>3. IOTypes'
    BY <1>3, <2>1 DEF IOInv, IOTypes, InIO
  <2>4. NoSleeperForgotten'
    BY <1>3, <2>2, SleepersKept DEF IOInv
  <2>5. \A n \in Nodes : SameNode(n)
    BY <1>3, <1>4, <2>1 DEF SameNode
  <2>6. RequestRight(r)'
    <3>1. ~InHand(t, r) /\ ~quick'[r]
      BY <1>1, <1>3, <1>7 DEF InHand
    <3> QED BY <1>2, <1>4, <2>2, <2>5, <3>1, PlaceChanged
  <2> QED BY <1>1, <1>4, <1>5, <2>2, <2>3, <2>4, <2>5, <2>6, OwnStep
<1> QED BY <1>6, <1>7

\* A task in its own code has no quick request in use.
LEMMA QuickInCall ==
    ASSUME IOInv, NEW t \in Tasks, NEW r \in Requests, mn_ReplyPort[r] = t,
           pc[t] \notin {"begin", "queued", "doio"}
    PROVE  ~quick[r]
<1>1. RequestRight(r) /\ InUse(r)
  BY NobodyElse DEF IOInv, InUse
<1>2. ASSUME NEW u \in Tasks, node[u] = r, pc[u] \in {"begin", "queued", "doio"} PROVE FALSE
  <2>1. On(u, r)
    BY <1>2 DEF On, InIO
  <2>2. u = t
    BY <1>1, <2>1 DEF RequestRight
  <2> QED BY <1>2, <2>2
<1> QED BY <1>1, <1>2 DEF RequestRight

\* WaitIO() and AbortIO() begin.
LEMMA EnterStep ==
    ASSUME IOInv, NEW t \in Tasks, NEW r \in Requests, NEW where \in {"waitio", "abort"},
           pc[t] = "run", mn_ReplyPort[r] = t,
           pc' = [pc EXCEPT ![t] = where], node' = [node EXCEPT ![t] = r],
           UNCHANGED <<mp_MsgList, mp_Signal, ln_Type, mn_ReplyPort, server, port, ioVars>>
    PROVE  IOInv'
<1>1. RequestRight(r) /\ r \in Nodes /\ ~quick[r]
  BY QuickInCall, NobodyElse DEF IOInv
<1>2. StepOf(t) /\ pc'[t] = where /\ node'[t] = r
  BY DEF StepOf, IOInv, IOTypes
<1>3. IOTypes'
  BY <1>1 DEF IOInv, IOTypes, InIO, ioVars
<1>4. /\ ListsRight' /\ SlotsRight' /\ \A n, v : Linked(n, v)' <=> Linked(n, v)
      /\ \A n : Queued(n)' <=> Queued(n)
  BY ListsSame DEF IOInv, SlotsRight, Queued, ioVars
<1>5. NoSleeperForgotten'
  BY <1>2, SleepersKept DEF IOInv
<1>6. (\A n \in Nodes : SameNode(n)) /\ (\A q \in Requests : SameRequest(q))
  BY <1>4 DEF SameNode, SameRequest, ioVars
<1>7. RequestRight(r)'
  <2>1. ~InHand(t, r) /\ ~quick'[r]
    BY <1>1 DEF InHand, ioVars
  <2> QED BY <1>1, <1>2, <1>4, <1>6, <2>1, PlaceChanged
<1> QED BY <1>2, <1>3, <1>4, <1>5, <1>6, <1>7, OwnStep

\* WaitIO(), from its call to the removal of the request.
LEMMA WaitIOStep ==
    ASSUME IOInv, NEW t \in Tasks, NEW r \in Requests, WaitIO(t, r)
    PROVE  IOInv'
BY EnterStep DEF WaitIO, Running, Goto

\* AbortIO(), whether the timer queue still has the request or not.
LEMMA AbortIOStep ==
    ASSUME IOInv, NEW t \in Tasks, NEW r \in Requests, AbortIO(t, r)
    PROVE  IOInv'
BY EnterStep DEF AbortIO, Running, Goto

\* A request that its task waits for has been replied, or it is queued and typed
\* NT_MESSAGE.
LEMMA WaitedFor ==
    ASSUME IOInv, NEW t \in Tasks, pc[t] \in {"waitio", "iosleep", "abort"},
           NEW r \in Requests, r = node[t]
    PROVE  /\ ~quick[r]
           /\ \/ Queued(r) /\ ln_Type[r] = "NT_MESSAGE" /\ \A u \in Tasks : ~Linked(r, u)
              \/ ~Queued(r) /\ ln_Type[r] = "NT_REPLYMSG" /\ Linked(r, t)
<1>1. /\ RequestRight(r) /\ mn_ReplyPort[r] = t /\ InUse(r)
      /\ \A u \in Tasks \ {t} : ~On(u, r) /\ ~InHand(u, r)
  BY InCall DEF InIO
<1>2. ~quick[r]
  BY <1>1, QuickInCall
<1>3. ~InHand(t, r)
  BY DEF InHand
<1>4. Queued(r) \/ Linked(r, t)
  BY <1>1, <1>3 DEF RequestRight
<1> QED BY <1>1, <1>2, <1>4 DEF RequestRight

\* "If ln_Type is NT_REPLYMSG": what is not waited for is in the list.
LEMMA WaitIOTestStep ==
    ASSUME IOInv, NEW t \in Tasks, WaitIOTest(t)
    PROVE  IOInv'
<1>1. PICK r \in Requests : r = node[t]
  BY InCall DEF WaitIOTest, InIO
<1>2. /\ RequestRight(r) /\ mn_ReplyPort[r] = t /\ r \in Nodes
  BY <1>1, InCall, NobodyElse DEF WaitIOTest, InIO
<1>3. /\ pc[t] = "waitio"
      /\ Goto(t, IF ~quick[r] /\ ln_Type[r] = "NT_MESSAGE" THEN "iosleep" ELSE "remove")
      /\ UNCHANGED <<mp_MsgList, mp_Signal, ln_Type, mn_ReplyPort, server, node, port, quick,
                     io_Error, timer_queue>>
  BY <1>1 DEF WaitIOTest, ioVars
<1>4. /\ ~quick[r]
      /\ \/ Queued(r) /\ ln_Type[r] = "NT_MESSAGE" /\ \A u \in Tasks : ~Linked(r, u)
         \/ ~Queued(r) /\ ln_Type[r] = "NT_REPLYMSG" /\ Linked(r, t)
  BY <1>1, <1>3, WaitedFor
<1>5. /\ StepOf(t) /\ node'[t] = r
      /\ \/ pc'[t] = "iosleep" /\ ~Linked(r, t)
         \/ pc'[t] = "remove" /\ Linked(r, t)
  <2>1. PICK w : w = IF ~quick[r] /\ ln_Type[r] = "NT_MESSAGE" THEN "iosleep" ELSE "remove"
    OBVIOUS
  <2>2. StepOf(t) /\ pc'[t] = w /\ node'[t] = node[t]
    BY <1>3, <2>1, Goes DEF IOInv
  <2> QED BY <1>1, <1>4, <2>1, <2>2
<1>6. IOTypes'
  BY <1>3 DEF IOInv, IOTypes, InIO, Goto
<1>7. /\ ListsRight' /\ SlotsRight' /\ \A n, v : Linked(n, v)' <=> Linked(n, v)
      /\ \A n : Queued(n)' <=> Queued(n)
  BY <1>3, ListsSame DEF IOInv, SlotsRight, Queued
<1>8. NoSleeperForgotten'
  <2> SUFFICES ASSUME NEW v \in Tasks
               PROVE  \/ mp_Signal'[v] \/ BeingSignalled(v)'
                      \/ /\ pc'[v] = "portsleep" => mp_MsgList'[v] = <<>>
                         /\ pc'[v] = "iosleep" => ~Linked(node[v], v)'
    BY DEF NoSleeperForgotten
  <2>1. CASE v = t
    <3>1. pc'[t] = "iosleep" => ~Linked(node[t], t)'
      BY <1>1, <1>3, <1>5 DEF Linked
    <3> QED BY <1>5, <2>1, <3>1
  <2>2. CASE v # t
    <3>1. /\ pc'[v] = pc[v] /\ node'[v] = node[v] /\ mp_Signal'[v] = mp_Signal[v]
          /\ mp_MsgList' = mp_MsgList /\ NoSleeperForgotten
      BY <1>3, <1>5, <2>2 DEF StepOf, IOInv
    <3>2. BeingSignalled(v) => BeingSignalled(v)'
      BY <1>3, <1>5 DEF BeingSignalled, StepOf
    <3> QED BY <3>1, <3>2 DEF NoSleeperForgotten, Linked
  <2> QED BY <2>1, <2>2
<1>9. (\A n \in Nodes : SameNode(n)) /\ (\A q \in Requests : SameRequest(q))
  BY <1>3, <1>7 DEF SameNode, SameRequest
<1>10. RequestRight(r)'
  <2>1. ~InHand(t, r) /\ ~quick'[r]
    BY <1>3, <1>4 DEF InHand
  <2>2. pc'[t] \notin {"begin", "link"} /\ (pc'[t] = "remove" => Linked(r, t))
    BY <1>5
  <2> QED BY <1>2, <1>5, <1>7, <1>9, <2>1, <2>2, PlaceChanged
<1>11. pc'[t] # "link"
  BY <1>5
<1> QED BY <1>1, <1>5, <1>6, <1>7, <1>8, <1>9, <1>10, <1>11, OwnStep

\* A signal sends WaitIO() back to its test.
LEMMA WaitIOAwakeStep ==
    ASSUME IOInv, NEW t \in Tasks, WaitIOAwake(t)
    PROVE  IOInv'
<1>1. Awake(t, "iosleep", "waitio") /\ UNCHANGED ioVars /\ pc[t] = "iosleep"
  BY DEF WaitIOAwake, Awake
<1>2. PICK r \in Requests : r = node[t]
  BY <1>1, InCall DEF InIO
<1>3. /\ RequestRight(r) /\ mn_ReplyPort[r] = t /\ r \in Nodes
  BY <1>1, <1>2, InCall, NobodyElse DEF InIO
<1>4. /\ StepOf(t) /\ pc'[t] = "waitio" /\ node'[t] = r /\ IOTypes' /\ NoSleeperForgotten'
  BY <1>1, <1>2, Awakes
<1>5. UNCHANGED <<mp_MsgList, ln_Type, mn_ReplyPort, server, quick, timer_queue>>
  BY <1>1 DEF Awake, ioVars
<1>6. /\ ListsRight' /\ SlotsRight' /\ \A n, v : Linked(n, v)' <=> Linked(n, v)
      /\ \A n : Queued(n)' <=> Queued(n)
  BY <1>5, ListsSame DEF IOInv, SlotsRight, Queued
<1>7. (\A n \in Nodes : SameNode(n)) /\ (\A q \in Requests : SameRequest(q))
  BY <1>5, <1>6 DEF SameNode, SameRequest
<1>8. RequestRight(r)'
  <2>1. ~quick[r]
    BY <1>1, <1>2, WaitedFor
  <2>2. ~InHand(t, r) /\ ~quick'[r]
    BY <1>1, <1>5, <2>1 DEF InHand
  <2> QED BY <1>3, <1>4, <1>6, <1>7, <2>2, PlaceChanged
<1> QED BY <1>2, <1>4, <1>6, <1>7, <1>8, OwnStep

\* Remove() of the reply.
LEMMA WaitIORemoveStep ==
    ASSUME IOInv, NEW t \in Tasks, WaitIORemove(t)
    PROVE  IOInv'
<1>1. PICK r \in Requests : r = node[t]
  BY InCall DEF WaitIORemove, InIO
<1>2. /\ RequestRight(r) /\ mn_ReplyPort[r] = t /\ r \in Nodes /\ On(t, r)
  BY <1>1, InCall, NobodyElse DEF WaitIORemove, InIO
<1>3. /\ pc[t] = "remove" /\ Return(t)
      /\ mp_MsgList' = [mp_MsgList EXCEPT ![t] = Unlink(@, r)]
      /\ mn_ReplyPort' = [mn_ReplyPort EXCEPT ![r] = Nobody]
      /\ UNCHANGED <<mp_Signal, ln_Type, server, quick, io_Error, timer_queue>>
  BY <1>1 DEF WaitIORemove, ioVars
<1>4. Linked(r, t) /\ ln_Type[r] = "NT_REPLYMSG"
  BY <1>2, <1>3 DEF RequestRight
<1>5. mp_MsgList[t] \in Seq(Nodes) /\ Distinct(mp_MsgList[t])
  BY DEF IOInv, IOTypes, ListsRight
<1>6. PICK l : l = mp_MsgList[t]
  OBVIOUS
<1>7. /\ Unlink(l, r) \in Seq(Nodes) /\ Distinct(Unlink(l, r))
      /\ \A x \in Nodes : Holds(Unlink(l, r), x) <=> Holds(l, x) /\ x # r
  BY <1>2, <1>5, <1>6, UnlinkKeepsOrder
<1>8. PICK q \in Seq(Nodes) : q = Unlink(l, r)
  BY <1>7
<1>9. mp_MsgList' = [mp_MsgList EXCEPT ![t] = q]
  BY <1>3, <1>6, <1>8
<1>10. /\ mp_MsgList' \in [Tasks -> Seq(Nodes)] /\ ListsRight'
       /\ \A x \in Nodes, v \in Tasks : Linked(x, v)' <=> Linked(x, v) /\ x # r
  <2>1. /\ Distinct(q)
        /\ \A x \in Nodes : Holds(q, x) <=> Holds(mp_MsgList[t], x) /\ x # r
    BY <1>6, <1>7, <1>8
  <2>2. mp_MsgList \in [Tasks -> Seq(Nodes)] /\ ListsRight
    BY DEF IOInv, IOTypes
  <2> QED BY <1>2, <1>4, <1>9, <2>1, <2>2, NodeTaken
<1>11. StepOf(t) /\ pc'[t] = "run"
  BY <1>3, Returns DEF IOInv
<1>12. IOTypes'
  BY <1>3, <1>10 DEF IOInv, IOTypes, Return, Goto
<1>13. SlotsRight' /\ \A n : Queued(n)' <=> Queued(n)
  BY <1>3 DEF IOInv, SlotsRight, Queued
<1>14. NoSleeperForgotten'
  <2>1. \A u \in Tasks \ {t} : mp_MsgList'[u] = mp_MsgList[u] /\ mp_Signal'[u] = mp_Signal[u]
    BY <1>3 DEF IOInv, IOTypes
  <2> QED BY <1>3, <1>11, <2>1, SleepersKept DEF IOInv
<1>15. \A n \in Nodes \ {r} : SameNode(n)
  <2>1. \A n \in Nodes \ {r} : mn_ReplyPort'[n] = mn_ReplyPort[n]
    BY <1>3 DEF IOInv, IOTypes
  <2> QED BY <1>3, <1>10, <2>1 DEF SameNode
<1>16. \A n \in Requests : SameRequest(n)
  BY <1>3, <1>13 DEF SameRequest
<1>17. RequestRight(r)'
  <2>1. server'[r] = Nobody /\ ~Queued(r)'
    BY <1>2, <1>3, <1>4, <1>13 DEF RequestRight
  <2>2. \A u \in Tasks : ~On(u, r)' /\ ~InHand(u, r)'
    <3>1. \A u \in Tasks \ {t} : ~On(u, r)' /\ ~InHand(u, r)'
      BY <1>2, <1>11, HandOfOne
    <3>2. ~On(t, r)' /\ ~InHand(t, r)'
      BY <1>11 DEF On, InHand, InIO
    <3> QED BY <3>1, <3>2
  <2>3. ~InUse(r)'
    BY <1>2, <1>3 DEF InUse, IOInv, IOTypes
  <2>4. \A u \in Tasks : ~Linked(r, u)'
    BY <1>2, <1>10
  <2> QED BY <2>1, <2>2, <2>3, <2>4 DEF RequestRight
<1> QED BY <1>1, <1>10, <1>11, <1>12, <1>13, <1>14, <1>15, <1>16, <1>17, OwnStep

\* An entry of the host's queue is empty or has a request.
LEMMA EntryKinds ==
    ASSUME IOTypes, NEW i \in 1 .. Slots
    PROVE  \/ timer_queue[i] = NoEntry /\ timer_queue[i].ioreq = Nobody /\ ~timer_queue[i].expired
           \/ timer_queue[i] # NoEntry /\ timer_queue[i].ioreq \in Requests
<1>1. timer_queue[i] \in [ioreq : Requests, expired : BOOLEAN] \cup {NoEntry}
  BY DEF IOTypes, Entries
<1>2. CASE timer_queue[i] = NoEntry
  BY <1>2 DEF NoEntry
<1>3. CASE timer_queue[i] # NoEntry
  BY <1>1, <1>3
<1> QED BY <1>2, <1>3

\* The device's AbortIO() replies what the host still had.
LEMMA AbortIODeviceStep ==
    ASSUME IOInv, NEW t \in Tasks, AbortIODevice(t)
    PROVE  IOInv'
<1>1. PICK r \in Requests : r = node[t]
  BY InCall DEF AbortIODevice, InIO
<1>2. /\ RequestRight(r) /\ mn_ReplyPort[r] = t /\ r \in Nodes /\ InUse(r)
  BY <1>1, InCall, NobodyElse DEF AbortIODevice, InIO
<1>3. /\ pc[t] = "abort"
      /\ UNCHANGED <<mp_MsgList, mp_Signal, mn_ReplyPort, server, quick>>
  BY DEF AbortIODevice
<1>4. /\ ~quick[r]
      /\ \/ Queued(r) /\ ln_Type[r] = "NT_MESSAGE" /\ \A u \in Tasks : ~Linked(r, u)
         \/ ~Queued(r) /\ ln_Type[r] = "NT_REPLYMSG" /\ Linked(r, t)
  BY <1>1, <1>3, WaitedFor
<1>5. ListsRight' /\ \A n, v : Linked(n, v)' <=> Linked(n, v)
  BY <1>3, ListsSame DEF IOInv
<1>6. CASE Queued(r)
  <2>1. /\ timer_queue' = [i \in 1 .. Slots |->
                 IF timer_queue[i].ioreq = r THEN NoEntry ELSE timer_queue[i]]
        /\ io_Error' = [io_Error EXCEPT ![r] = "IOERR_ABORTED"]
        /\ Send(t, r, "NT_REPLYMSG", t)
    BY <1>1, <1>2, <1>6 DEF AbortIODevice
  <2>2. /\ StepOf(t) /\ pc'[t] = "link" /\ node'[t] = r /\ port'[t] = t
        /\ ln_Type'[r] = "NT_REPLYMSG" /\ \A x \in Nodes \ {r} : ln_Type'[x] = ln_Type[x]
        /\ pc' \in [Tasks -> {"run", "waitport", "portsleep", "link", "signal"} \cup InIO]
        /\ node' \in [Tasks -> Nodes \cup {Nobody}] /\ port' \in [Tasks -> Tasks \cup {Nobody}]
        /\ ln_Type' \in [Nodes -> NodeTypes]
    BY <1>2, <2>1, Sends DEF IOInv, NodeTypes
  <2>3. /\ timer_queue' \in [1 .. Slots -> Entries]
        /\ \A i \in 1 .. Slots :
              timer_queue'[i] = IF timer_queue[i].ioreq = r THEN NoEntry ELSE timer_queue[i]
    BY <2>1 DEF IOInv, IOTypes, Entries
  <2>4. IOTypes'
    BY <1>3, <2>1, <2>2, <2>3 DEF IOInv, IOTypes, Errors
  <2>5. SlotsRight'
    <3> SUFFICES ASSUME NEW j \in 1 .. Slots, NEW k \in 1 .. Slots,
                        timer_queue'[j].ioreq = timer_queue'[k].ioreq, timer_queue'[j] # NoEntry
                 PROVE  j = k
      BY DEF SlotsRight
    <3>1. timer_queue'[j] = timer_queue[j] /\ timer_queue[j] # NoEntry
      BY <2>3
    <3>2. timer_queue[j].ioreq \in Requests
      BY <3>1, EntryKinds DEF IOInv
    <3>3. NoEntry.ioreq = Nobody
      BY DEF NoEntry
    <3>4. timer_queue'[k] = timer_queue[k]
      BY <2>3, <3>1, <3>2, <3>3, NobodyElse
    <3> QED BY <3>1, <3>4 DEF IOInv, SlotsRight
  <2>6. ~Queued(r)' /\ \A q \in Requests \ {r} : Queued(q)' <=> Queued(q)
    <3>1. NoEntry.ioreq = Nobody /\ \A q \in Requests : q # Nobody
      BY NobodyElse DEF NoEntry
    <3>2. ~Queued(r)'
      BY <2>3, <3>1 DEF Queued
    <3>3. ASSUME NEW q \in Requests \ {r} PROVE Queued(q)' <=> Queued(q)
      BY <2>3, <3>1 DEF Queued
    <3> QED BY <3>2, <3>3
  <2>7. NoSleeperForgotten'
    BY <1>3, <2>2, SleepersKept DEF IOInv
  <2>8. RequestRight(r)'
    <3>1. \A u \in Tasks \ {t} : ~On(u, r)' /\ ~InHand(u, r)'
      BY <1>2, <2>2, HandOfOne
    <3>2. InHand(t, r)'
      BY <2>2 DEF InHand
    <3>3. \A u \in Tasks : ~Linked(r, u)'
      BY <1>4, <1>5, <1>6
    <3>4. server'[r] = Nobody /\ mn_ReplyPort'[r] = t /\ ~quick'[r]
      BY <1>2, <1>3, <1>4 DEF RequestRight
    <3> QED BY <2>2, <2>6, <3>1, <3>2, <3>3, <3>4 DEF RequestRight
  <2>9. \A n \in Nodes \ {r} : SameNode(n)
    BY <1>3, <1>5, <2>2 DEF SameNode
  <2>10. \A q \in Requests \ {r} : SameRequest(q)
    BY <1>3, <2>6 DEF SameRequest
  <2> QED BY <1>1, <1>5, <2>2, <2>4, <2>5, <2>7, <2>8, <2>9, <2>10, OwnStep
<1>7. CASE ~Queued(r)
  <2>1. Return(t) /\ UNCHANGED <<timer_queue, io_Error, ln_Type>>
    BY <1>1, <1>7 DEF AbortIODevice
  <2>2. StepOf(t) /\ pc'[t] = "run"
    BY <2>1, Returns DEF IOInv
  <2>3. IOTypes'
    BY <1>3, <2>1 DEF IOInv, IOTypes, Return, Goto
  <2>4. SlotsRight' /\ \A n : Queued(n)' <=> Queued(n)
    BY <2>1 DEF IOInv, SlotsRight, Queued
  <2>5. NoSleeperForgotten'
    BY <1>3, <2>2, SleepersKept DEF IOInv
  <2>6. (\A n \in Nodes : SameNode(n)) /\ (\A q \in Requests : SameRequest(q))
    BY <1>3, <1>5, <2>1, <2>4 DEF SameNode, SameRequest
  <2>7. RequestRight(r)'
    <3>1. ~InHand(t, r) /\ ~quick'[r]
      BY <1>3, <1>4 DEF InHand
    <3> QED BY <1>2, <2>2, <2>4, <2>6, <3>1, PlaceChanged
  <2> QED BY <1>1, <1>5, <2>2, <2>3, <2>4, <2>5, <2>6, <2>7, OwnStep
<1> QED BY <1>6, <1>7

-----------------------------------------------------------------------------
(* The host's clock and the interrupt.                                     *)

\* A mark changes nothing that a task or a request depends on.
LEMMA ExpireStep ==
    ASSUME IOInv, NEW i \in 1 .. Slots, Expire(i)
    PROVE  IOInv'
<1>1. /\ timer_queue[i] # NoEntry /\ timer_queue' = [timer_queue EXCEPT ![i].expired = TRUE]
      /\ UNCHANGED <<mp_MsgList, mp_Signal, ln_Type, mn_ReplyPort, server, pc, node, port,
                     quick, io_Error>>
  BY DEF Expire, portVars
<1>2. PICK e \in [ioreq : Requests, expired : BOOLEAN] : e = timer_queue[i]
  BY <1>1 DEF IOInv, IOTypes, Entries
<1>3. /\ timer_queue' \in [1 .. Slots -> Entries]
      /\ timer_queue'[i].ioreq = timer_queue[i].ioreq
      /\ \A j \in 1 .. Slots \ {i} : timer_queue'[j] = timer_queue[j]
  <2>1. timer_queue \in [1 .. Slots -> Entries]
    BY DEF IOInv, IOTypes
  <2>2. PICK x : x = [e EXCEPT !.expired = TRUE]
    OBVIOUS
  <2>3. x \in [ioreq : Requests, expired : BOOLEAN] /\ x.ioreq = e.ioreq
    BY <2>2
  <2>4. timer_queue' = [timer_queue EXCEPT ![i] = x]
    <3>1. timer_queue' = [timer_queue EXCEPT ![i] = [timer_queue[i] EXCEPT !.expired = TRUE]]
      BY <1>1, <2>1
    <3> QED BY <1>2, <2>2, <3>1
  <2>5. x \in Entries
    BY <2>3 DEF Entries
  <2> QED BY <1>2, <2>1, <2>3, <2>4, <2>5
<1>4. \A j \in 1 .. Slots :
        /\ timer_queue'[j].ioreq = timer_queue[j].ioreq
        /\ timer_queue'[j] # NoEntry => timer_queue[j] # NoEntry
  BY <1>1, <1>2, <1>3
<1>5. SlotsRight' /\ \A n : Queued(n)' <=> Queued(n)
  BY <1>4 DEF IOInv, SlotsRight, Queued
<1>6. ListsRight' /\ \A n, v : Linked(n, v)' <=> Linked(n, v)
  BY <1>1, ListsSame DEF IOInv
<1>7. IOTypes'
  BY <1>1, <1>3 DEF IOInv, IOTypes
<1>8. NoSleeperForgotten'
  BY <1>1 DEF IOInv, NoSleeperForgotten, BeingSignalled, Linked
<1>9. \A n : SameNode(n) /\ SameRequest(n) /\ SameHand(n)
  BY <1>1, <1>5, <1>6 DEF SameNode, SameRequest, SameHand
<1>10. \A r \in Requests : RequestRight(r)'
  BY <1>9, RequestKept DEF IOInv
<1>11. \A m \in Messages : MessageRight(m)'
  BY <1>9, MessageKept DEF IOInv
<1>12. \A u \in Tasks : CallRight(u)'
  BY <1>1 DEF IOInv, CallRight
<1> QED BY <1>5, <1>6, <1>7, <1>8, <1>10, <1>11, <1>12 DEF IOInv

\* What the interrupt finds: the requests of the expired entries, each once.
LEMMA ExpiredList ==
    ASSUME IOInv
    PROVE  /\ Expired \in Seq(Requests) /\ Distinct(Expired)
           /\ \A r : Holds(Expired, r) <=> IsExpired(r)
           /\ \A r : IsExpired(r) => r \in Requests /\ Queued(r)
<1> DEFINE all == [i \in 1 .. Slots |-> i]
           marked == { i \in 1 .. Slots : timer_queue[i].expired }
           slots == Picked(all, marked)
<1>1. Slots \in Nat
  BY SlotsAssumption
<1>2. /\ all \in Seq(1 .. Slots) /\ Len(all) = Slots
      /\ \A i \in 1 .. Slots : all[i] = i
  BY <1>1
<1>3. Distinct(all) /\ \A x : Holds(all, x) <=> x \in 1 .. Slots
  BY <1>1, <1>2 DEF Distinct, Holds
<1> HIDE DEF all
<1>4. /\ slots \in Seq(1 .. Slots) /\ Distinct(slots)
      /\ \A x : Holds(slots, x) <=> Holds(all, x) /\ x \in marked
  BY <1>2, <1>3, PickedHoldsThose
<1>5. \A x : Holds(slots, x) <=> x \in 1 .. Slots /\ timer_queue[x].expired
  BY <1>3, <1>4
<1>6. Expired = [k \in 1 .. Len(slots) |-> timer_queue[slots[k]].ioreq]
  BY DEF Expired, ExpiredSlots, all
<1> HIDE DEF slots, marked
<1>7. Len(slots) \in Nat /\ \A k \in 1 .. Len(slots) : slots[k] \in 1 .. Slots /\ Holds(slots, slots[k])
  <2>1. Len(slots) \in Nat
    BY <1>4
  <2>2. ASSUME NEW k \in 1 .. Len(slots) PROVE slots[k] \in 1 .. Slots
    BY <1>4, <2>2, ElementOfSeq, Zenon
  <2>3. ASSUME NEW k \in 1 .. Len(slots) PROVE Holds(slots, slots[k])
    BY <2>3 DEF Holds
  <2> QED BY <2>1, <2>2, <2>3
<1>8. \A i \in 1 .. Slots : timer_queue[i].expired =>
          timer_queue[i].ioreq \in Requests /\ timer_queue[i] # NoEntry
  BY EntryKinds DEF IOInv
<1>9. \A k \in 1 .. Len(slots) : timer_queue[slots[k]].ioreq \in Requests
  BY <1>5, <1>7, <1>8
<1>10. Expired \in Seq(Requests) /\ Len(Expired) = Len(slots)
  BY <1>6, <1>7, <1>9
<1>11. \A k \in 1 .. Len(slots) : Expired[k] = timer_queue[slots[k]].ioreq
  BY <1>6
<1>12. Distinct(Expired)
  <2> SUFFICES ASSUME NEW k \in 1 .. Len(slots), NEW l \in 1 .. Len(slots), Expired[k] = Expired[l]
               PROVE  k = l
    BY <1>10 DEF Distinct
  <2>1. PICK i \in 1 .. Slots : i = slots[k]
    BY <1>7
  <2>2. PICK j \in 1 .. Slots : j = slots[l]
    BY <1>7
  <2>3. timer_queue[i].ioreq = timer_queue[j].ioreq /\ timer_queue[i] # NoEntry
    BY <1>5, <1>7, <1>8, <1>11, <2>1, <2>2
  <2>4. i = j
    BY <2>3 DEF IOInv, SlotsRight
  <2> QED BY <1>4, <2>1, <2>2, <2>4 DEF Distinct
<1>13. ASSUME NEW r PROVE Holds(Expired, r) <=> IsExpired(r)
  <2>1. ASSUME Holds(Expired, r) PROVE IsExpired(r)
    <3>1. PICK k \in 1 .. Len(slots) : Expired[k] = r
      BY <1>10, <2>1 DEF Holds
    <3>2. PICK i \in 1 .. Slots : i = slots[k]
      BY <1>7
    <3>3. timer_queue[i].expired /\ timer_queue[i].ioreq = r
      BY <1>5, <1>7, <1>11, <3>1, <3>2
    <3> QED BY <3>3 DEF IsExpired
  <2>2. ASSUME IsExpired(r) PROVE Holds(Expired, r)
    <3>1. PICK i \in 1 .. Slots : timer_queue[i].expired /\ timer_queue[i].ioreq = r
      BY <2>2 DEF IsExpired
    <3>2. PICK k \in 1 .. Len(slots) : slots[k] = i
      BY <1>5, <3>1 DEF Holds
    <3>3. Expired[k] = r
      BY <1>11, <3>1, <3>2
    <3> QED BY <1>10, <3>3 DEF Holds
  <2> QED BY <2>1, <2>2
<1>14. ASSUME NEW r, IsExpired(r) PROVE r \in Requests /\ Queued(r)
  BY <1>8, <1>14 DEF IsExpired, Queued
<1> QED BY <1>10, <1>12, <1>13, <1>14

\* The replies each port gets.
LEMMA RepliesToPort ==
    ASSUME IOInv, NEW t \in Tasks
    PROVE  /\ RepliesTo(t) \in Seq(Nodes) /\ Distinct(RepliesTo(t))
           /\ \A n : Holds(RepliesTo(t), n) <=> IsExpired(n) /\ mn_ReplyPort[n] = t
           /\ RepliesTo(t) # <<>> => GetsReply(t)
<1> DEFINE mine == { r \in Requests : mn_ReplyPort[r] = t }
           l == Expired
           q == Picked(l, mine)
<1>1. l \in Seq(Requests) /\ Distinct(l) /\ \A n : Holds(l, n) <=> IsExpired(n)
  BY ExpiredList
<1>2. \A n : IsExpired(n) => n \in Requests
  BY ExpiredList
<1> HIDE DEF l
<1>3. /\ q \in Seq(Requests) /\ Distinct(q) /\ \A n : Holds(q, n) <=> Holds(l, n) /\ n \in mine
  BY <1>1, PickedHoldsThose
<1>4. q = RepliesTo(t)
  BY DEF RepliesTo, l
<1>5. \A n : Holds(q, n) <=> IsExpired(n) /\ mn_ReplyPort[n] = t
  BY <1>1, <1>2, <1>3
<1> HIDE DEF q, mine
<1>6. q \in Seq(Nodes)
  BY <1>3, RequestsAssumption
<1>7. q # <<>> => GetsReply(t)
  <2>1. ASSUME q # <<>> PROVE GetsReply(t)
    <3>1. 1 \in 1 .. Len(q)
      BY <1>3, <2>1
    <3>2. PICK n : n = q[1]
      OBVIOUS
    <3>3. Holds(q, n)
      BY <3>1, <3>2 DEF Holds
    <3>4. IsExpired(n) /\ mn_ReplyPort[n] = t /\ n \in Requests
      BY <1>2, <1>5, <3>3
    <3> QED BY <3>4 DEF GetsReply
  <2> QED BY <2>1
<1> QED BY <1>3, <1>4, <1>5, <1>6, <1>7

\* The interrupt moves every expired request from the host's queue to its port.
LEMMA VBlankMoves ==
    ASSUME IOInv, VBlankHook
    PROVE  /\ mp_MsgList' \in [Tasks -> Seq(Nodes)] /\ ListsRight'
           /\ \A n \in Nodes, t \in Tasks :
                 Linked(n, t)' <=> Linked(n, t) \/ (IsExpired(n) /\ mn_ReplyPort[n] = t)
           /\ timer_queue' \in [1 .. Slots -> Entries] /\ SlotsRight'
           /\ \A r \in Requests : Queued(r)' <=> Queued(r) /\ ~IsExpired(r)
           /\ \A n \in Nodes : ln_Type'[n] = IF IsExpired(n) THEN "NT_REPLYMSG" ELSE ln_Type[n]
           /\ \A r \in Requests : io_Error'[r] = IF IsExpired(r) THEN "ok" ELSE io_Error[r]
           /\ UNCHANGED <<mn_ReplyPort, server, pc, node, port, quick>>
<1>1. /\ mp_MsgList' = [t \in Tasks |-> mp_MsgList[t] \o RepliesTo(t)]
      /\ timer_queue' = [i \in 1 .. Slots |-> IF timer_queue[i].expired THEN NoEntry
                                                                         ELSE timer_queue[i]]
      /\ UNCHANGED <<mn_ReplyPort, server, pc, node, port, quick>>
  BY DEF VBlankHook, ReplyExpired
<1>2. \A r : IsExpired(r) => r \in Requests /\ Queued(r)
  BY ExpiredList
<1>3. ASSUME NEW t \in Tasks
      PROVE  /\ mp_MsgList'[t] \in Seq(Nodes) /\ Distinct(mp_MsgList'[t])
             /\ \A n : Linked(n, t)' <=> Linked(n, t) \/ (IsExpired(n) /\ mn_ReplyPort[n] = t)
  <2>1. PICK a : a = mp_MsgList[t]
    OBVIOUS
  <2>2. PICK b : b = RepliesTo(t)
    OBVIOUS
  <2>3. a \in Seq(Nodes) /\ Distinct(a) /\ \A n : Holds(a, n) <=> Linked(n, t)
    BY <2>1, LinkedHolds DEF IOInv, IOTypes, ListsRight
  <2>4. /\ b \in Seq(Nodes) /\ Distinct(b)
        /\ \A n : Holds(b, n) <=> IsExpired(n) /\ mn_ReplyPort[n] = t
    BY <2>2, RepliesToPort
  <2>5. \A n : ~(Holds(a, n) /\ Holds(b, n))
    <3> SUFFICES ASSUME NEW n, Holds(a, n), Holds(b, n) PROVE FALSE
      OBVIOUS
    <3>1. Linked(n, t) /\ n \in Requests /\ Queued(n)
      BY <1>2, <2>3, <2>4
    <3> QED BY <3>1 DEF IOInv, RequestRight
  <2>6. /\ a \o b \in Seq(Nodes) /\ Distinct(a \o b)
        /\ \A n : Holds(a \o b, n) <=> Holds(a, n) \/ Holds(b, n)
    BY <2>3, <2>4, <2>5, JoinKeepsOrder
  <2>7. PICK c : c = a \o b
    OBVIOUS
  <2>8. mp_MsgList'[t] = c
    BY <1>1, <2>1, <2>2, <2>7
  <2>9. \A n : Linked(n, t)' <=> Holds(c, n)
    BY <2>8 DEF Linked, Holds
  <2> QED BY <2>3, <2>4, <2>6, <2>7, <2>8, <2>9
<1>4. mp_MsgList' \in [Tasks -> Seq(Nodes)]
  <2>1. mp_MsgList' = [t \in Tasks |-> mp_MsgList'[t]]
    BY <1>1
  <2> QED BY <1>3, <2>1
<1>5. ListsRight'
  <2> SUFFICES ASSUME NEW n \in Nodes, NEW t \in Tasks, NEW u \in Tasks, Linked(n, t)', Linked(n, u)'
               PROVE  t = u
    BY <1>3 DEF ListsRight
  <2>1. CASE IsExpired(n)
    <3>1. RequestRight(n) /\ n \in Requests
      BY <1>2, <2>1 DEF IOInv
    <3> QED BY <1>3, <3>1 DEF RequestRight
  <2>2. CASE ~IsExpired(n)
    BY <1>3, <2>2 DEF IOInv, ListsRight
  <2> QED BY <2>1, <2>2
<1>6. \A i \in 1 .. Slots :
        timer_queue'[i] = IF timer_queue[i].expired THEN NoEntry ELSE timer_queue[i]
  BY <1>1
<1>7. timer_queue' \in [1 .. Slots -> Entries]
  BY <1>1 DEF IOInv, IOTypes, Entries
<1>8. NoEntry.ioreq = Nobody
  BY DEF NoEntry
<1>9. SlotsRight'
  <2> SUFFICES ASSUME NEW j \in 1 .. Slots, NEW k \in 1 .. Slots,
                      timer_queue'[j].ioreq = timer_queue'[k].ioreq, timer_queue'[j] # NoEntry
               PROVE  j = k
    BY DEF SlotsRight
  <2>1. timer_queue'[j] = timer_queue[j] /\ timer_queue[j] # NoEntry
    BY <1>6
  <2>2. timer_queue[j].ioreq \in Requests
    BY <2>1, EntryKinds DEF IOInv
  <2>3. timer_queue'[k] = timer_queue[k]
    BY <1>6, <1>8, <2>1, <2>2, NobodyElse
  <2> QED BY <2>1, <2>3 DEF IOInv, SlotsRight
<1>10. ASSUME NEW r \in Requests PROVE Queued(r)' <=> Queued(r) /\ ~IsExpired(r)
  <2>1. ASSUME Queued(r)' PROVE Queued(r) /\ ~IsExpired(r)
    <3>1. PICK i \in 1 .. Slots : timer_queue'[i].ioreq = r
      BY <2>1 DEF Queued
    <3>2. ~timer_queue[i].expired /\ timer_queue[i].ioreq = r
      BY <1>6, <1>8, <3>1, NobodyElse
    <3>3. timer_queue[i] # NoEntry
      BY <1>8, <3>2, NobodyElse
    <3>4. ASSUME IsExpired(r) PROVE FALSE
      <4>1. PICK j \in 1 .. Slots : timer_queue[j].expired /\ timer_queue[j].ioreq = r
        BY <3>4 DEF IsExpired
      <4>2. i = j
        BY <3>2, <3>3, <4>1 DEF IOInv, SlotsRight
      <4> QED BY <3>2, <4>1, <4>2
    <3> QED BY <3>2, <3>4 DEF Queued
  <2>2. ASSUME Queued(r), ~IsExpired(r) PROVE Queued(r)'
    <3>1. PICK i \in 1 .. Slots : timer_queue[i].ioreq = r
      BY <2>2 DEF Queued
    <3>2. timer_queue'[i].ioreq = r
      BY <1>6, <2>2, <3>1 DEF IsExpired
    <3> QED BY <3>2 DEF Queued
  <2> QED BY <2>1, <2>2
<1>11. /\ \A n \in Nodes : ln_Type'[n] = IF IsExpired(n) THEN "NT_REPLYMSG" ELSE ln_Type[n]
       /\ \A r \in Requests : io_Error'[r] = IF IsExpired(r) THEN "ok" ELSE io_Error[r]
  BY DEF VBlankHook, ReplyExpired
<1> QED BY <1>1, <1>3, <1>4, <1>5, <1>7, <1>9, <1>10, <1>11

\* The VBlank hook replies every request that has expired and signals the ports.
LEMMA VBlankHookStep ==
    ASSUME IOInv, VBlankHook
    PROVE  IOInv'
<1>1. /\ mp_MsgList' \in [Tasks -> Seq(Nodes)] /\ ListsRight'
      /\ \A n \in Nodes, t \in Tasks :
            Linked(n, t)' <=> Linked(n, t) \/ (IsExpired(n) /\ mn_ReplyPort[n] = t)
      /\ timer_queue' \in [1 .. Slots -> Entries] /\ SlotsRight'
      /\ \A r \in Requests : Queued(r)' <=> Queued(r) /\ ~IsExpired(r)
      /\ \A n \in Nodes : ln_Type'[n] = IF IsExpired(n) THEN "NT_REPLYMSG" ELSE ln_Type[n]
      /\ UNCHANGED <<mn_ReplyPort, server, pc, node, port, quick>>
  BY VBlankMoves
<1>2. \A r : IsExpired(r) => r \in Requests /\ Queued(r)
  BY ExpiredList
<1>3. /\ ln_Type' = [n \in Nodes |-> IF IsExpired(n) THEN "NT_REPLYMSG" ELSE ln_Type[n]]
      /\ io_Error' = [r \in Requests |-> IF IsExpired(r) THEN "ok" ELSE io_Error[r]]
      /\ mp_MsgList' = [t \in Tasks |-> mp_MsgList[t] \o RepliesTo(t)]
      /\ mp_Signal' = [t \in Tasks |-> mp_Signal[t] \/ GetsReply(t)]
  BY DEF VBlankHook, ReplyExpired, SignalReplies
<1>4. IOTypes'
  <2>1. ln_Type' \in [Nodes -> NodeTypes] /\ io_Error' \in [Requests -> Errors]
    BY <1>3 DEF IOInv, IOTypes, NodeTypes, Errors
  <2>2. mp_Signal' \in [Tasks -> BOOLEAN]
    <3>1. \A t \in Tasks : (mp_Signal[t] \/ GetsReply(t)) \in BOOLEAN
      BY Zenon
    <3> QED BY <1>3, <3>1, Zenon
  <2> QED BY <1>1, <2>1, <2>2 DEF IOInv, IOTypes
<1>5. NoSleeperForgotten'
  <2> SUFFICES ASSUME NEW u \in Tasks
               PROVE  \/ mp_Signal'[u] \/ BeingSignalled(u)'
                      \/ /\ pc'[u] = "portsleep" => mp_MsgList'[u] = <<>>
                         /\ pc'[u] = "iosleep" => ~Linked(node[u], u)'
    BY DEF NoSleeperForgotten
  <2>1. CASE GetsReply(u)
    <3>1. mp_Signal'[u]
      BY <1>3, <2>1, Zenon
    <3> QED BY <3>1
  <2>2. CASE ~GetsReply(u)
    <3>1. RepliesTo(u) = <<>>
      BY <2>2, RepliesToPort
    <3>2. mp_MsgList'[u] = mp_MsgList[u]
      <4>1. PICK a \in Seq(Nodes) : a = mp_MsgList[u]
        BY DEF IOInv, IOTypes
      <4>2. a \o <<>> = a
        BY ConcatEmptySeq
      <4> QED BY <1>3, <3>1, <4>1, <4>2
    <3>3. mp_Signal[u] => mp_Signal'[u]
      BY <1>3, Zenon
    <3>4. BeingSignalled(u) => BeingSignalled(u)'
      BY <1>1 DEF BeingSignalled
    <3>5. NoSleeperForgotten /\ pc'[u] = pc[u] /\ node'[u] = node[u]
      BY <1>1 DEF IOInv
    <3> QED BY <3>2, <3>3, <3>4, <3>5 DEF NoSleeperForgotten, Linked
  <2> QED BY <2>1, <2>2
<1>6. \A n : SameHand(n)
  BY <1>1 DEF SameHand
<1>7. ASSUME NEW r \in Requests PROVE RequestRight(r)'
  <2>1. RequestRight(r) /\ r \in Nodes
    BY NobodyElse DEF IOInv
  <2>2. CASE ~IsExpired(r)
    <3>1. SameNode(r) /\ SameRequest(r)
      BY <1>1, <2>1, <2>2 DEF SameNode, SameRequest
    <3> QED BY <1>6, <2>1, <3>1, RequestKept
  <2>3. CASE IsExpired(r)
    <3>1. /\ Queued(r) /\ InUse(r) /\ server[r] = Nobody
          /\ \A t \in Tasks : ~Linked(r, t) /\ ~InHand(t, r)
      BY <1>2, <2>1, <2>3 DEF RequestRight
    <3>2. mn_ReplyPort[r] \in Tasks
      BY <2>1, <3>1 DEF InUse, IOInv, IOTypes
    <3>3. ~Queued(r)' /\ ln_Type'[r] = "NT_REPLYMSG"
      BY <1>1, <2>1, <2>3
    <3>4. \A t \in Tasks : Linked(r, t)' <=> mn_ReplyPort[r] = t
      BY <1>1, <2>1, <2>3, <3>1
    <3>5. \A t \in Tasks : ~InHand(t, r)' /\ (On(t, r)' <=> On(t, r))
      BY <1>1, <3>1 DEF InHand, On
    <3>6. InUse(r)'
      BY <1>1, <3>1 DEF InUse
    <3>7. \A t \in Tasks : On(t, r) => pc[t] \notin {"begin", "link", "remove"} /\ mn_ReplyPort[r] = t
      BY <2>1, <3>1 DEF RequestRight, On, InHand
    <3> QED BY <1>1, <2>1, <3>1, <3>2, <3>3, <3>4, <3>5, <3>6, <3>7 DEF RequestRight
  <2> QED BY <2>2, <2>3
<1>8. ASSUME NEW m \in Messages PROVE MessageRight(m)'
  <2>1. m \in Nodes /\ ~IsExpired(m)
    BY <1>2 DEF Messages
  <2>2. SameNode(m)
    BY <1>1, <2>1 DEF SameNode
  <2> QED BY <1>6, <2>2, MessageKept DEF IOInv
<1>9. \A u \in Tasks : CallRight(u)'
  BY <1>1 DEF IOInv, CallRight
<1> QED BY <1>1, <1>4, <1>5, <1>7, <1>8, <1>9 DEF IOInv

-----------------------------------------------------------------------------
(* The invariant.                                                          *)

\* Nothing is sent at first.
LEMMA InitIOInv == Init => IOInv
<1> SUFFICES ASSUME Init PROVE IOInv
  OBVIOUS
<1>1. IOTypes
  BY DEF Init, PortInit, IOTypes, NodeTypes, Errors, Entries
<1>2. \A t \in Tasks : mp_MsgList[t] = <<>> /\ pc[t] = "run" /\ \A n : ~Linked(n, t)
  BY DEF Init, PortInit, Linked
<1>3. ListsRight
  BY <1>2 DEF ListsRight, Distinct
<1>4. \A i \in 1 .. Slots : timer_queue[i] = NoEntry /\ timer_queue[i].ioreq = Nobody
  BY DEF Init, NoEntry
<1>5. SlotsRight /\ \A r \in Requests : ~Queued(r)
  BY <1>4, NobodyElse DEF SlotsRight, Queued
<1>6. \A n \in Nodes : server[n] = Nobody /\ ~InUse(n)
  BY DEF Init, PortInit, InUse
<1>7. \A t \in Tasks, n \in Nodes : ~On(t, n) /\ ~InHand(t, n) /\ ~Sent(t, n)
  BY <1>2 DEF On, InHand, Sent, InIO
<1>8. \A r \in Requests : RequestRight(r)
  BY <1>2, <1>5, <1>6, <1>7, NobodyElse DEF RequestRight
<1>9. \A m \in Messages : MessageRight(m)
  BY <1>2, <1>6, <1>7, NobodyElse DEF MessageRight
<1>10. \A t \in Tasks : CallRight(t)
  BY <1>2 DEF CallRight, InIO
<1>11. NoSleeperForgotten
  BY <1>2 DEF NoSleeperForgotten
<1> QED BY <1>1, <1>3, <1>5, <1>8, <1>9, <1>10, <1>11 DEF IOInv

\* What a program calls, and what follows inside exec and the device.
LEMMA CallIOInv == ASSUME IOInv, NEW t \in Tasks, Call(t) PROVE IOInv'
<1>1. CASE \E m \in Messages : ReplyMsg(t, m) /\ UNCHANGED ioVars
  BY <1>1, ReplyMsgStep
<1>2. CASE \E m \in Messages, u \in Tasks : PutMsg(t, m, u) /\ UNCHANGED ioVars
  BY <1>2, PutMsgStep
<1>3. CASE GetMsg(t) /\ UNCHANGED ioVars
  BY <1>3, GetMsgStep
<1>4. CASE WaitPort(t) /\ UNCHANGED ioVars
  BY <1>4, WaitPortStep
<1>5. CASE \E r \in Requests : SendIO(t, r) \/ DoIO(t, r)
  BY <1>5, StartIOStep DEF SendIO, DoIO
<1>6. CASE \E r \in Requests : WaitIO(t, r) \/ AbortIO(t, r)
  BY <1>6, WaitIOStep, AbortIOStep
<1> QED BY <1>1, <1>2, <1>3, <1>4, <1>5, <1>6 DEF Call

\* A step inside a call keeps the invariant.
LEMMA InExecIOInv == ASSUME IOInv, NEW t \in Tasks, InExec(t) PROVE IOInv'
<1>1. CASE PortStep(t) /\ UNCHANGED ioVars
  BY <1>1, LinkStep, SignalPortStep, WaitPortTestStep, WaitPortAwakeStep DEF PortStep
<1>2. CASE BeginIOAtOnce(t)
  <2>1. pc[t] = "begin" /\ \E error \in Errors : Finish(t, node[t], error)
    BY <1>2 DEF BeginIOAtOnce, Errors
  <2> QED BY <2>1, FinishStep
<1>3. CASE BeginIOFull(t)
  <2>1. pc[t] = "begin" /\ \E error \in Errors : Finish(t, node[t], error)
    BY <1>3 DEF BeginIOFull, Errors
  <2> QED BY <2>1, FinishStep
<1> QED
  BY <1>1, <1>2, <1>3, BeginIOQueueStep, BeginIOReturnStep, DoIOReturnStep, WaitIOTestStep,
     WaitIOAwakeStep, WaitIORemoveStep, AbortIODeviceStep DEF InExec

\* Nothing happens.
LEMMA StutterIOInv == ASSUME IOInv, UNCHANGED vars PROVE IOInv'
<1>1. UNCHANGED <<mp_MsgList, mp_Signal, ln_Type, mn_ReplyPort, server, pc, node, port,
                  quick, io_Error, timer_queue>>
  BY DEF vars, portVars, ioVars
<1>2. /\ ListsRight' /\ \A n, t : Linked(n, t)' <=> Linked(n, t)
      /\ SlotsRight' /\ \A n : Queued(n)' <=> Queued(n)
  BY <1>1, ListsSame DEF IOInv, SlotsRight, Queued
<1>3. \A n : SameNode(n) /\ SameRequest(n) /\ SameHand(n)
  BY <1>1, <1>2 DEF SameNode, SameRequest, SameHand
<1>4. \A r \in Requests : RequestRight(r)'
  BY <1>3, RequestKept DEF IOInv
<1>5. \A m \in Messages : MessageRight(m)'
  BY <1>3, MessageKept DEF IOInv
<1>6. IOTypes'
  BY <1>1 DEF IOInv, IOTypes
<1>7. \A u \in Tasks : CallRight(u)'
  BY <1>1 DEF IOInv, CallRight
<1>8. NoSleeperForgotten'
  BY <1>1 DEF IOInv, NoSleeperForgotten, BeingSignalled, Linked
<1> QED BY <1>2, <1>4, <1>5, <1>6, <1>7, <1>8 DEF IOInv

\* So does every step.
LEMMA NextIOInv == IOInv /\ [Next]_vars => IOInv'
<1> SUFFICES ASSUME IOInv, [Next]_vars PROVE IOInv'
  OBVIOUS
<1>1. CASE \E t \in Tasks : Call(t) \/ InExec(t)
  BY <1>1, CallIOInv, InExecIOInv
<1>2. CASE \E i \in 1 .. Slots : Expire(i)
  BY <1>2, ExpireStep
<1>3. CASE VBlankHook
  BY <1>3, VBlankHookStep
<1>4. CASE UNCHANGED vars
  BY <1>4, StutterIOInv
<1> QED BY <1>1, <1>2, <1>3, <1>4 DEF Next

\* IOInv holds in every state the code can be in.
THEOREM RequestsAreSomewhere == Spec => []IOInv
BY InitIOInv, NextIOInv, PTL DEF Spec

\* WaitIO() never removes from its port a request that is not in the list:
\* "if ln_Type is NT_REPLYMSG, the request was replied to the port".
THEOREM RemovesWhatIsLinked == Spec => []WaitIORemovesLinked
<1>1. IOInv => WaitIORemovesLinked
  <2> SUFFICES ASSUME IOInv, NEW t \in Tasks, pc[t] = "remove" PROVE Linked(node[t], t)
    BY DEF WaitIORemovesLinked
  <2>1. PICK r \in Requests : r = node[t]
    BY InCall DEF InIO
  <2>2. RequestRight(r) /\ On(t, r)
    BY <2>1, InCall DEF InIO
  <2> QED BY <2>1, <2>2 DEF RequestRight
<1> QED BY <1>1, RequestsAreSomewhere, PTL

\* A task that sleeps for its port or for a reply has the signal, or is about to
\* get it, as soon as there is something to wake up for: no wakeup is lost between
\* AddTail() and Signal(), whatever the interrupt and other tasks do there.
THEOREM SleepersAreWoken == Spec => []NoSleeperForgotten
<1>1. IOInv => NoSleeperForgotten
  BY DEF IOInv
<1> QED BY <1>1, RequestsAreSomewhere, PTL

-----------------------------------------------------------------------------
(* One place.                                                              *)

InPorts(n) == { p \in UNION { {t} \X (1 .. Len(mp_MsgList[t])) : t \in Tasks } :
                    mp_MsgList[p[1]][p[2]] = n }
InEntries(n) == { i \in 1 .. Slots : timer_queue[i].ioreq = n }
InCalls(n) == { t \in Tasks : pc[t] = "link" /\ node[t] = n }

\* The number of elements of a set that has one at most.
LEMMA OneOrNone ==
    ASSUME NEW S, \A x, y \in S : x = y
    PROVE  /\ (\E x : x \in S) => Cardinality(S) = 1
           /\ (\A x : x \notin S) => Cardinality(S) = 0
<1>1. ASSUME NEW x, x \in S PROVE Cardinality(S) = 1
  <2>1. S = {x}
    BY <1>1
  <2> QED BY <2>1, FS_Singleton
<1>2. ASSUME \A x : x \notin S PROVE Cardinality(S) = 0
  <2>1. S = {}
    BY <1>2
  <2> QED BY <2>1, FS_EmptySet
<1> QED BY <1>1, <1>2

\* A node is once in the lists, once in the entries and in one call at most.
LEMMA PlaceCounts ==
    ASSUME IOInv, NEW n \in Nodes
    PROVE  /\ Cardinality(InPorts(n)) = IF \E t \in Tasks : Linked(n, t) THEN 1 ELSE 0
           /\ Cardinality(InEntries(n)) = IF Queued(n) THEN 1 ELSE 0
           /\ Cardinality(InCalls(n)) = IF \E t \in Tasks : Sent(t, n) THEN 1 ELSE 0
<1>1. Cardinality(InPorts(n)) = IF \E t \in Tasks : Linked(n, t) THEN 1 ELSE 0
  <2>1. ASSUME NEW p \in InPorts(n)
        PROVE  /\ p = <<p[1], p[2]>> /\ p[1] \in Tasks /\ p[2] \in 1 .. Len(mp_MsgList[p[1]])
               /\ mp_MsgList[p[1]][p[2]] = n /\ Linked(n, p[1])
    <3>1. PICK t \in Tasks : p \in {t} \X (1 .. Len(mp_MsgList[t]))
      BY DEF InPorts
    <3>2. p = <<p[1], p[2]>> /\ p[1] = t /\ p[2] \in 1 .. Len(mp_MsgList[t])
      BY <3>1
    <3>3. mp_MsgList[p[1]][p[2]] = n
      BY DEF InPorts
    <3> QED BY <3>2, <3>3 DEF Linked
  <2>2. ASSUME NEW p \in InPorts(n), NEW q \in InPorts(n) PROVE p = q
    <3>1. p[1] = q[1]
      BY <2>1 DEF IOInv, ListsRight
    <3>2. p[2] = q[2]
      BY <2>1, <3>1 DEF IOInv, ListsRight, Distinct
    <3> QED BY <2>1, <3>1, <3>2
  <2>3. ASSUME NEW t \in Tasks, Linked(n, t) PROVE \E p : p \in InPorts(n)
    <3>1. PICK i \in 1 .. Len(mp_MsgList[t]) : mp_MsgList[t][i] = n
      BY <2>3 DEF Linked
    <3>2. PICK p : p = <<t, i>>
      OBVIOUS
    <3>3. p \in {t} \X (1 .. Len(mp_MsgList[t])) /\ p[1] = t /\ p[2] = i
      BY <3>2
    <3>4. p \in InPorts(n)
      BY <3>1, <3>3 DEF InPorts
    <3> QED BY <3>4
  <2> QED BY <2>1, <2>2, <2>3, OneOrNone
<1>2. Cardinality(InEntries(n)) = IF Queued(n) THEN 1 ELSE 0
  <2>1. \A i \in 1 .. Slots : timer_queue[i].ioreq = n => timer_queue[i] # NoEntry
    BY EntryKinds, NobodyElse DEF IOInv
  <2>2. \A i, j \in InEntries(n) : i = j
    BY <2>1 DEF InEntries, IOInv, SlotsRight
  <2>3. Queued(n) <=> \E i : i \in InEntries(n)
    BY DEF InEntries, Queued
  <2> QED BY <2>2, <2>3, OneOrNone
<1>3. Cardinality(InCalls(n)) = IF \E t \in Tasks : Sent(t, n) THEN 1 ELSE 0
  <2>1. ASSUME NEW t \in InCalls(n), NEW u \in InCalls(n) PROVE t = u
    <3>1. t \in Tasks /\ u \in Tasks /\ Sent(t, n) /\ Sent(u, n) /\ On(t, n) /\ On(u, n)
      BY DEF InCalls, Sent, On
    <3>2. CASE n \in Requests
      BY <3>1, <3>2 DEF IOInv, RequestRight
    <3>3. CASE n \in Messages
      BY <3>1, <3>3 DEF IOInv, MessageRight
    <3> QED BY <3>2, <3>3 DEF Messages
  <2>2. \A t : t \in InCalls(n) <=> t \in Tasks /\ Sent(t, n)
    BY DEF InCalls, Sent
  <2> QED BY <2>1, <2>2, OneOrNone
<1> QED BY <1>1, <1>2, <1>3

\* A node in use is in one place, whatever expiry, abort and waiting do: a reply
\* is neither lost nor made twice.
THEOREM NodesHaveOnePlace == Spec => []OnePlace
<1>1. ASSUME IOInv, NEW m \in Messages
      PROVE  Places(m) = IF InUse(m) /\ server[m] = Nobody THEN 1 ELSE 0
  <2>1. m \in Nodes /\ MessageRight(m)
    BY <1>1 DEF IOInv, Messages
  <2>2. ~Queued(m)
    BY <1>1, <2>1, EntryKinds, NobodyElse DEF IOInv, Queued, Messages
  <2>3. Places(m) = Cardinality(InPorts(m)) + Cardinality(InEntries(m)) + Cardinality(InCalls(m))
    BY DEF Places, InPorts, InEntries, InCalls
  <2>4. CASE InUse(m) /\ server[m] = Nobody
    <3>1. \/ (\E t \in Tasks : Linked(m, t)) /\ ~(\E t \in Tasks : Sent(t, m))
          \/ ~(\E t \in Tasks : Linked(m, t)) /\ (\E t \in Tasks : Sent(t, m))
      BY <2>1, <2>4 DEF MessageRight
    <3> QED BY <1>1, <2>1, <2>2, <2>3, <2>4, <3>1, PlaceCounts
  <2>5. CASE ~(InUse(m) /\ server[m] = Nobody)
    <3>1. ~(\E t \in Tasks : Linked(m, t)) /\ ~(\E t \in Tasks : Sent(t, m))
      BY <2>1, <2>5 DEF MessageRight
    <3> QED BY <1>1, <2>1, <2>2, <2>3, <2>5, <3>1, PlaceCounts
  <2> QED BY <2>4, <2>5
<1>2. ASSUME IOInv, NEW r \in Requests
      PROVE  Places(r) = IF InUse(r) /\ ~InBeginIO(r) /\ ~QuickDone(r) THEN 1 ELSE 0
  <2>1. r \in Nodes /\ RequestRight(r)
    BY <1>2, NobodyElse DEF IOInv
  <2>2. Places(r) = Cardinality(InPorts(r)) + Cardinality(InEntries(r)) + Cardinality(InCalls(r))
    BY DEF Places, InPorts, InEntries, InCalls
  <2>3. \A t \in Tasks : Sent(t, r) => InHand(t, r) /\ On(t, r)
    BY DEF Sent, InHand, On
  <2>4. \A t \in Tasks : Sent(t, r) \/ Linked(r, t) => InUse(r)
    BY <2>1, <2>3, NobodyElse DEF RequestRight, InUse
  <2>5. \A t \in Tasks : InHand(t, r) => On(t, r)
    BY DEF InHand, On, InIO
  <2>6. CASE ~InUse(r)
    <3>1. /\ ~(\E t \in Tasks : Linked(r, t)) /\ ~(\E t \in Tasks : Sent(t, r))
          /\ ~Queued(r)
      BY <2>1, <2>4, <2>6 DEF RequestRight
    <3> QED BY <1>2, <2>1, <2>2, <2>6, <3>1, PlaceCounts
  <2>7. CASE InBeginIO(r) \/ QuickDone(r)
    <3>1. PICK t \in Tasks : InHand(t, r) /\ pc[t] \in {"begin", "doio"}
      BY <2>7 DEF InBeginIO, QuickDone, InHand
    <3>2. ~Queued(r) /\ \A u \in Tasks : ~Linked(r, u)
      BY <2>1, <3>1 DEF RequestRight
    <3>3. \A u \in Tasks : Sent(u, r) => u = t
      BY <2>1, <2>3, <2>5, <3>1 DEF RequestRight
    <3>4. \A u \in Tasks : ~Sent(u, r)
      BY <3>1, <3>3 DEF Sent
    <3> QED BY <1>2, <2>1, <2>2, <2>7, <3>2, <3>4, PlaceCounts
  <2>8. CASE InUse(r) /\ ~InBeginIO(r) /\ ~QuickDone(r)
    <3>1. \A t \in Tasks : InHand(t, r) => Sent(t, r)
      BY <2>8 DEF InHand, Sent, InBeginIO, QuickDone
    <3>2. \/ Queued(r) /\ ~(\E t \in Tasks : Linked(r, t)) /\ ~(\E t \in Tasks : Sent(t, r))
          \/ ~Queued(r) /\ (\E t \in Tasks : Linked(r, t)) /\ ~(\E t \in Tasks : Sent(t, r))
          \/ ~Queued(r) /\ ~(\E t \in Tasks : Linked(r, t)) /\ (\E t \in Tasks : Sent(t, r))
      BY <2>1, <2>3, <2>8, <3>1 DEF RequestRight
    <3> QED BY <1>2, <2>1, <2>2, <2>8, <3>2, PlaceCounts
  <2> QED BY <2>6, <2>7, <2>8
<1>3. IOInv => OnePlace
  BY <1>1, <1>2 DEF OnePlace
<1> QED BY <1>3, RequestsAreSomewhere, PTL

-----------------------------------------------------------------------------
(* The requests of exec are the abstract ones.                             *)

State(r) == IF ~InUse(r) THEN "idle" ELSE IF Done(r) THEN "done" ELSE "pending"
Ending(r) == IF Done(r) THEN io_Error[r] ELSE "none"
SameAbstract(r) == State(r)' = State(r) /\ Ending(r)' = Ending(r)

\* What makes a step one of IORequests: a request is started,
LEMMA AbstractStart ==
    ASSUME NEW r \in Requests, State(r) = "idle", State(r)' = "pending", Ending(r)' = Ending(r),
           \A q \in Requests \ {r} : SameAbstract(q)
    PROVE  IO!Start(r)
BY DEF IO!Start, State, Ending, SameAbstract

\* is collected by its program,
LEMMA AbstractCollect ==
    ASSUME NEW r \in Requests, State(r) = "done", State(r)' = "idle", Ending(r)' = "none",
           \A q \in Requests \ {r} : SameAbstract(q)
    PROVE  IO!Collect(r)
BY DEF IO!Collect, State, Ending, SameAbstract

\* is completed, by itself or together with others,
LEMMA AbstractComplete ==
    ASSUME NEW S \in SUBSET Requests, S # {},
           \A r \in S : State(r) = "pending" /\ State(r)' = "done" /\ Ending(r)' \in Errors,
           \A q \in Requests \ S : SameAbstract(q)
    PROVE  IO!Complete(S)
<1>1. PICK res : res = [r \in S |-> Ending(r)']
  OBVIOUS
<1>2. res \in [S -> Errors] /\ \A r \in S : Ending(r)' = res[r]
  BY <1>1
<1>3. /\ \A r \in S : State(r) = "pending"
      /\ \A r \in Requests : State(r)' = IF r \in S THEN "done" ELSE State(r)
      /\ \A r \in Requests : Ending(r)' = IF r \in S THEN res[r] ELSE Ending(r)
  BY <1>2 DEF SameAbstract
<1> QED BY <1>2, <1>3 DEF IO!Complete, State, Ending

\* or nothing happens.
LEMMA AbstractSame ==
    ASSUME \A q \in Requests : SameAbstract(q)
    PROVE  UNCHANGED IO!vars
BY DEF IO!vars, State, Ending, SameAbstract

\* The abstract state rests on these alone.
LEMMA AbstractKept ==
    ASSUME NEW r \in Requests, mn_ReplyPort'[r] = mn_ReplyPort[r],
           \A t \in Tasks : Linked(r, t)' <=> Linked(r, t),
           QuickDone(r)' <=> QuickDone(r),
           Done(r) => io_Error'[r] = io_Error[r]
    PROVE  SameAbstract(r)
<1>1. InUse(r)' <=> InUse(r)
  BY DEF InUse
<1>2. Done(r)' <=> Done(r)
  BY <1>1 DEF Done
<1>3. State(r)' = State(r)
  BY <1>1, <1>2 DEF State
<1>4. Ending(r)' = Ending(r)
  BY <1>2 DEF Ending
<1> QED BY <1>3, <1>4 DEF SameAbstract

\* A quick request is done in the call of its own task.
LEMMA QuickOfOne ==
    ASSUME NEW r \in Requests, RequestRight(r), NEW t \in Tasks, mn_ReplyPort[r] \in {t, Nobody},
           StepOf(t)
    PROVE  /\ QuickDone(r) <=> quick[r] /\ pc[t] = "doio" /\ node[t] = r
           /\ QuickDone(r)' <=> quick'[r] /\ pc'[t] = "doio" /\ node'[t] = r
<1>1. \A u \in Tasks \ {t} : ~On(u, r) /\ ~On(u, r)'
  BY HandOfOne
<1>2. \A u \in Tasks \ {t} : ~(pc[u] = "doio" /\ node[u] = r) /\ ~(pc'[u] = "doio" /\ node'[u] = r)
  BY <1>1 DEF On, InIO
<1> QED BY <1>2 DEF QuickDone

\* A step of t does not concern the requests that its call is not about.
LEMMA OthersAbstract ==
    ASSUME NEW t \in Tasks, NEW r, StepOf(t),
           node[t] = r \/ pc[t] # "doio", node'[t] = r \/ pc'[t] # "doio",
           \A q \in Requests \ {r} :
              /\ mn_ReplyPort'[q] = mn_ReplyPort[q] /\ quick'[q] = quick[q]
              /\ io_Error'[q] = io_Error[q]
              /\ \A u \in Tasks : Linked(q, u)' <=> Linked(q, u)
    PROVE  \A q \in Requests \ {r} : SameAbstract(q)
<1> SUFFICES ASSUME NEW q \in Requests \ {r} PROVE SameAbstract(q)
  OBVIOUS
<1>1. \A u \in Tasks : (pc'[u] = "doio" /\ node'[u] = q) <=> (pc[u] = "doio" /\ node[u] = q)
  BY DEF StepOf
<1>2. QuickDone(q)' <=> QuickDone(q)
  BY <1>1 DEF QuickDone
<1> QED BY <1>2, AbstractKept

\* A step of t that is in no DoIO() and moves no request.
LEMMA QuietAbstract ==
    ASSUME NEW t \in Tasks, StepOf(t), pc[t] # "doio", pc'[t] # "doio",
           UNCHANGED <<quick, io_Error>>,
           \A q \in Requests :
              /\ mn_ReplyPort'[q] = mn_ReplyPort[q]
              /\ \A u \in Tasks : Linked(q, u)' <=> Linked(q, u)
    PROVE  UNCHANGED IO!vars
<1>1. \A q \in Requests : QuickDone(q)' <=> QuickDone(q)
  BY DEF QuickDone, StepOf
<1>2. \A q \in Requests : SameAbstract(q)
  BY <1>1, AbstractKept
<1> QED BY <1>2, AbstractSame

\* The calls and steps that are about messages and signals.
LEMMA MessagesSimulated ==
    ASSUME IOInv, NEW t \in Tasks, UNCHANGED ioVars,
           \/ \E m \in Messages : ReplyMsg(t, m) \/ \E u \in Tasks : PutMsg(t, m, u)
           \/ WaitPort(t) \/ SignalPort(t) \/ WaitPortTest(t) \/ WaitPortAwake(t)
    PROVE  UNCHANGED IO!vars
<1>1. StepOf(t) /\ pc[t] # "doio" /\ pc'[t] # "doio" /\ UNCHANGED mp_MsgList
  <2>1. CASE \E m \in Messages : ReplyMsg(t, m) \/ \E u \in Tasks : PutMsg(t, m, u)
    BY <2>1 DEF ReplyMsg, PutMsg, Running, Send, Goto, IOInv, IOTypes, StepOf
  <2>2. CASE WaitPort(t)
    BY <2>2, Goes DEF WaitPort, Running, IOInv
  <2>3. CASE SignalPort(t)
    BY <2>3, Returns DEF SignalPort, IOInv
  <2>4. CASE WaitPortTest(t)
    BY <2>4, Goes DEF WaitPortTest, IOInv
  <2>5. CASE WaitPortAwake(t)
    BY <2>5, Goes DEF WaitPortAwake, Awake, IOInv
  <2> QED BY <2>1, <2>2, <2>3, <2>4, <2>5
<1>2. \A q \in Requests : mn_ReplyPort'[q] = mn_ReplyPort[q]
  <2>1. CASE \E m \in Messages : \E u \in Tasks : PutMsg(t, m, u)
    BY <2>1 DEF PutMsg, Messages, IOInv, IOTypes
  <2>2. CASE UNCHANGED mn_ReplyPort
    BY <2>2
  <2> QED BY <2>1, <2>2 DEF ReplyMsg, WaitPort, SignalPort, WaitPortTest, WaitPortAwake, Awake
<1>3. \A q, u : Linked(q, u)' <=> Linked(q, u)
  BY <1>1, ListsSame
<1> QED BY <1>1, <1>2, <1>3, QuietAbstract DEF ioVars

\* A reply that GetMsg() returns is collected.
LEMMA GetMsgSimulated ==
    ASSUME IOInv, NEW t \in Tasks, GetMsg(t), UNCHANGED ioVars
    PROVE  (\E r \in Requests : IO!Collect(r)) \/ UNCHANGED IO!vars
<1>1. /\ pc[t] = "run" /\ mp_MsgList[t] # <<>>
      /\ mp_MsgList' = [mp_MsgList EXCEPT ![t] = Tail(@)]
      /\ UNCHANGED <<mp_Signal, ln_Type, pc, node, port, quick, timer_queue, io_Error>>
  BY DEF GetMsg, Running, ioVars
<1>2. mp_MsgList[t] \in Seq(Nodes) /\ Distinct(mp_MsgList[t])
  BY DEF IOInv, IOTypes, ListsRight
<1>3. PICK q : q = mp_MsgList[t]
  OBVIOUS
<1>4. /\ Head(q) \in Nodes /\ Holds(q, Head(q)) /\ Tail(q) \in Seq(Nodes) /\ Distinct(Tail(q))
      /\ \A x \in Nodes : Holds(Tail(q), x) <=> Holds(q, x) /\ x # Head(q)
  BY <1>1, <1>2, <1>3, TailKeepsOrder
<1>5. PICK n \in Nodes : n = Head(q)
  BY <1>4
<1>6. PICK l \in Seq(Nodes) : l = Tail(q)
  BY <1>4
<1>7. Linked(n, t)
  BY <1>3, <1>4, <1>5, LinkedHolds
<1>8. mp_MsgList' = [mp_MsgList EXCEPT ![t] = l]
  BY <1>1, <1>3, <1>6
<1>9. \A x \in Nodes, v \in Tasks : Linked(x, v)' <=> Linked(x, v) /\ x # n
  BY <1>3, <1>4, <1>5, <1>6, <1>7, <1>8, NodeTaken DEF IOInv, IOTypes
<1>10. \/ /\ ln_Type[n] = "NT_MESSAGE" /\ UNCHANGED mn_ReplyPort
       \/ /\ ln_Type[n] = "NT_REPLYMSG" /\ mn_ReplyPort' = [mn_ReplyPort EXCEPT ![n] = Nobody]
  BY <1>3, <1>5 DEF GetMsg
<1>11. \A x \in Nodes \ {n} : mn_ReplyPort'[x] = mn_ReplyPort[x]
  BY <1>10 DEF IOInv, IOTypes
<1>12. StepOf(t) /\ pc[t] # "doio" /\ pc'[t] # "doio"
  BY <1>1 DEF StepOf
<1>13. CASE n \in Messages
  <2>1. \A r \in Requests : r \in Nodes \ {n}
    BY <1>13, NobodyElse DEF Messages
  <2> QED BY <1>1, <1>9, <1>11, <1>12, <2>1, QuietAbstract
<1>14. CASE n \in Requests
  <2>1. mn_ReplyPort[n] = t /\ ln_Type[n] = "NT_REPLYMSG"
    BY <1>7, <1>14 DEF IOInv, RequestRight
  <2>2. mn_ReplyPort'[n] = Nobody
    BY <1>10, <2>1 DEF IOInv, IOTypes
  <2>3. State(n) = "done"
    BY <1>7, <2>1, NobodyElse DEF State, Done, InUse
  <2>4. State(n)' = "idle" /\ Ending(n)' = "none"
    BY <2>2 DEF State, Ending, Done, InUse
  <2>5. \A r \in Requests \ {n} : SameAbstract(r)
    BY <1>1, <1>9, <1>11, <1>12, NobodyElse, OthersAbstract
  <2> QED BY <1>14, <2>3, <2>4, <2>5, AbstractCollect
<1> QED BY <1>13, <1>14 DEF Messages

\* A request is complete when it is in its port.
LEMMA LinkSimulated ==
    ASSUME IOInv, NEW t \in Tasks, Link(t), UNCHANGED ioVars
    PROVE  (\E S \in SUBSET Requests : IO!Complete(S)) \/ UNCHANGED IO!vars
<1>1. /\ pc[t] = "link" /\ pc' = [pc EXCEPT ![t] = "signal"]
      /\ mp_MsgList' = [mp_MsgList EXCEPT ![port[t]] = Append(@, node[t])]
      /\ UNCHANGED <<mn_ReplyPort, node, port, quick, io_Error>>
  BY DEF Link, Goto, ioVars
<1>2. PICK n \in Nodes : n = node[t]
  BY <1>1 DEF IOInv, CallRight
<1>3. PICK u \in Tasks : u = port[t]
  BY <1>1 DEF IOInv, CallRight
<1>4. StepOf(t) /\ pc'[t] = "signal"
  BY <1>1 DEF StepOf, IOInv, IOTypes
<1>5. n \in Messages => Sent(t, n)
  BY <1>1, <1>2 DEF Sent
<1>6. n \in Requests => InHand(t, n) /\ On(t, n) /\ RequestRight(n)
  BY <1>1, <1>2 DEF InHand, On, IOInv
<1>7. \A v \in Tasks : ~Linked(n, v)
  BY <1>5, <1>6 DEF IOInv, MessageRight, RequestRight, Messages
<1>8. mp_MsgList' = [mp_MsgList EXCEPT ![u] = Append(@, n)]
  BY <1>1, <1>2, <1>3
<1>9. \A x \in Nodes, v \in Tasks : Linked(x, v)' <=> Linked(x, v) \/ (x = n /\ v = u)
  BY <1>7, <1>8, NodeLinked DEF IOInv, IOTypes
<1>10. CASE n \in Messages
  <2>1. \A r \in Requests : r \in Nodes \ {n}
    BY <1>10, NobodyElse DEF Messages
  <2> QED BY <1>1, <1>4, <1>9, <2>1, QuietAbstract
<1>11. CASE n \in Requests
  <2>1. mn_ReplyPort[n] = t /\ InUse(n) /\ InUse(n)'
    BY <1>1, <1>6, <1>11, NobodyElse DEF RequestRight, InUse
  <2>2. ~QuickDone(n)
    BY <1>1, <1>4, <1>6, <1>11, <2>1, QuickOfOne
  <2>3. State(n) = "pending"
    BY <1>7, <2>1, <2>2 DEF State, Done
  <2>4. Linked(n, u)'
    BY <1>9
  <2>5. Done(n)' /\ State(n)' = "done" /\ Ending(n)' = io_Error[n]
    BY <1>1, <2>1, <2>4 DEF State, Done, Ending
  <2>6. io_Error[n] \in Errors
    BY <1>11 DEF IOInv, IOTypes
  <2>7. \A r \in Requests \ {n} : SameAbstract(r)
    BY <1>1, <1>4, <1>9, NobodyElse, OthersAbstract
  <2> DEFINE S == {n}
  <2>8. /\ S \in SUBSET Requests /\ S # {} /\ \A r \in S : r = n
        /\ \A r \in Requests \ S : SameAbstract(r)
    BY <1>11, <2>7
  <2> HIDE DEF S
  <2>9. \A r \in S : State(r) = "pending" /\ State(r)' = "done" /\ Ending(r)' \in Errors
    BY <2>3, <2>5, <2>6, <2>8
  <2> QED BY <2>8, <2>9, AbstractComplete
<1> QED BY <1>10, <1>11 DEF Messages

\* SendIO() and DoIO() start the request.
LEMMA StartIOSimulated ==
    ASSUME IOInv, NEW t \in Tasks, NEW r \in Requests, NEW isQuick \in BOOLEAN,
           StartIO(t, r, isQuick)
    PROVE  IO!Start(r)
<1>1. /\ pc[t] = "run" /\ mn_ReplyPort[r] = Nobody /\ r \in Nodes
      /\ mn_ReplyPort' = [mn_ReplyPort EXCEPT ![r] = t]
      /\ quick' = [quick EXCEPT ![r] = isQuick]
      /\ pc' = [pc EXCEPT ![t] = "begin"] /\ node' = [node EXCEPT ![t] = r]
      /\ UNCHANGED <<mp_MsgList, io_Error, port>>
  BY NobodyElse DEF StartIO, Running, InUse, Goto
<1>2. StepOf(t) /\ pc'[t] = "begin" /\ node'[t] = r
  BY <1>1 DEF StepOf, IOInv, IOTypes
<1>3. /\ mn_ReplyPort'[r] = t /\ \A n \in Nodes \ {r} : mn_ReplyPort'[n] = mn_ReplyPort[n]
      /\ \A q \in Requests \ {r} : quick'[q] = quick[q]
  BY <1>1 DEF IOInv, IOTypes
<1>4. \A n, v : Linked(n, v)' <=> Linked(n, v)
  BY <1>1, ListsSame
<1>5. RequestRight(r) /\ \A u \in Tasks : ~Linked(r, u)
  BY <1>1, NobodyElse DEF IOInv, RequestRight
<1>6. ~QuickDone(r)'
  BY <1>1, <1>2, <1>5, QuickOfOne
<1>7. ~Done(r) /\ ~Done(r)' /\ InUse(r)' /\ ~InUse(r)
  BY <1>1, <1>3, <1>4, <1>5, <1>6, NobodyElse DEF Done, InUse
<1>8. State(r) = "idle" /\ State(r)' = "pending" /\ Ending(r)' = Ending(r)
  BY <1>7 DEF State, Ending
<1>9. \A q \in Requests \ {r} : SameAbstract(q)
  BY <1>1, <1>2, <1>3, <1>4, NobodyElse, OthersAbstract
<1> QED BY <1>8, <1>9, AbstractStart

\* A step of t in the call about r that does not finish r.
LEMMA CallAbstract ==
    ASSUME IOInv, NEW t \in Tasks, NEW r \in Requests, RequestRight(r), mn_ReplyPort[r] = t,
           StepOf(t), node[t] = r \/ pc[t] = "run", node'[t] = r \/ pc'[t] = "run",
           UNCHANGED <<mp_MsgList, mn_ReplyPort>>,
           ~(pc[t] = "doio" /\ quick[r]), ~(pc'[t] = "doio" /\ quick'[r]),
           \A q \in Requests \ {r} : quick'[q] = quick[q] /\ io_Error'[q] = io_Error[q],
           io_Error'[r] = io_Error[r] \/ \A u \in Tasks : ~Linked(r, u)
    PROVE  UNCHANGED IO!vars
<1>1. \A n, v : Linked(n, v)' <=> Linked(n, v)
  BY ListsSame
<1>2. ~QuickDone(r) /\ ~QuickDone(r)'
  BY QuickOfOne
<1>3. SameAbstract(r)
  BY <1>1, <1>2, AbstractKept DEF Done
<1>4. \A q \in Requests \ {r} : SameAbstract(q)
  BY <1>1, OthersAbstract
<1> QED BY <1>3, <1>4, AbstractSame

\* BeginIO() completes a quick request; the reply of the other is still to come.
LEMMA FinishSimulated ==
    ASSUME IOInv, NEW t \in Tasks, pc[t] = "begin", NEW error \in Errors,
           Finish(t, node[t], error)
    PROVE  (\E S \in SUBSET Requests : IO!Complete(S)) \/ UNCHANGED IO!vars
<1>1. PICK r \in Requests : r = node[t]
  BY InCall DEF InIO
<1>2. RequestRight(r) /\ mn_ReplyPort[r] = t /\ InUse(r) /\ InHand(t, r)
  BY <1>1, InCall DEF InIO, InHand
<1>3. /\ io_Error' = [io_Error EXCEPT ![r] = error]
      /\ IF quick[r]
         THEN pc' = [pc EXCEPT ![t] = "doio"] /\ UNCHANGED node
         ELSE pc' = [pc EXCEPT ![t] = "link"] /\ node' = [node EXCEPT ![t] = r]
                 /\ port' = [port EXCEPT ![t] = t]
      /\ quick[r] => UNCHANGED port
      /\ UNCHANGED <<mp_MsgList, mn_ReplyPort, quick>>
  BY <1>1, <1>2 DEF Finish, Goto, Send
<1>4. /\ StepOf(t) /\ node'[t] = r /\ pc'[t] = IF quick[r] THEN "doio" ELSE "link"
      /\ io_Error'[r] = error /\ \A q \in Requests \ {r} : io_Error'[q] = io_Error[q]
  BY <1>1, <1>3 DEF StepOf, IOInv, IOTypes
<1>5. \A u \in Tasks : ~Linked(r, u)
  BY <1>2 DEF RequestRight
<1>6. CASE ~quick[r]
  BY <1>1, <1>2, <1>3, <1>4, <1>5, <1>6, CallAbstract
<1>7. CASE quick[r]
  <2>1. ~QuickDone(r) /\ QuickDone(r)'
    BY <1>2, <1>3, <1>4, <1>7, QuickOfOne
  <2>2. State(r) = "pending" /\ State(r)' = "done" /\ Ending(r)' \in Errors
    <3>1. InUse(r)' /\ Done(r)' /\ ~Done(r)
      BY <1>2, <1>3, <1>5, <2>1 DEF Done, InUse
    <3> QED BY <1>2, <1>4, <3>1 DEF State, Ending
  <2>3. \A n, v : Linked(n, v)' <=> Linked(n, v)
    BY <1>3, ListsSame
  <2>4. \A q \in Requests \ {r} : SameAbstract(q)
    BY <1>1, <1>3, <1>4, <2>3, OthersAbstract
  <2> DEFINE S == {r}
  <2>5. /\ S \in SUBSET Requests /\ S # {} /\ \A q \in S : q = r
        /\ \A q \in Requests \ S : SameAbstract(q)
    BY <2>4
  <2> HIDE DEF S
  <2> QED BY <2>2, <2>5, AbstractComplete
<1> QED BY <1>6, <1>7

\* DoIO() collects the request that is done at once.
LEMMA DoIOReturnSimulated ==
    ASSUME IOInv, NEW t \in Tasks, DoIOReturn(t)
    PROVE  (\E r \in Requests : IO!Collect(r)) \/ UNCHANGED IO!vars
<1>1. PICK r \in Requests : r = node[t]
  BY InCall DEF DoIOReturn, InIO
<1>2. RequestRight(r) /\ mn_ReplyPort[r] = t /\ InUse(r) /\ r \in Nodes
  BY <1>1, InCall, NobodyElse DEF DoIOReturn, InIO
<1>3. pc[t] = "doio" /\ UNCHANGED <<mp_MsgList, quick, io_Error>>
  BY DEF DoIOReturn, ioVars
<1>4. \A n, v : Linked(n, v)' <=> Linked(n, v)
  BY <1>3, ListsSame
<1>5. CASE quick[r]
  <2>1. mn_ReplyPort' = [mn_ReplyPort EXCEPT ![r] = Nobody] /\ Return(t)
    BY <1>1, <1>5 DEF DoIOReturn
  <2>2. StepOf(t) /\ pc'[t] = "run"
    BY <2>1, Returns DEF IOInv
  <2>3. /\ mn_ReplyPort'[r] = Nobody
        /\ \A n \in Nodes \ {r} : mn_ReplyPort'[n] = mn_ReplyPort[n]
    BY <1>2, <2>1 DEF IOInv, IOTypes
  <2>4. QuickDone(r)
    BY <1>1, <1>3, <1>5 DEF QuickDone
  <2>5. State(r) = "done"
    BY <1>2, <2>4 DEF State, Done
  <2>6. State(r)' = "idle" /\ Ending(r)' = "none"
    BY <2>3 DEF State, Ending, Done, InUse
  <2>7. \A q \in Requests \ {r} : SameAbstract(q)
    BY <1>1, <1>3, <1>4, <2>2, <2>3, NobodyElse, OthersAbstract
  <2> QED BY <2>5, <2>6, <2>7, AbstractCollect
<1>6. CASE ~quick[r]
  <2>1. pc' = [pc EXCEPT ![t] = "waitio"] /\ UNCHANGED <<mn_ReplyPort, node, port>>
    BY <1>1, <1>6 DEF DoIOReturn, Goto
  <2>2. StepOf(t) /\ pc'[t] = "waitio" /\ node'[t] = r
    BY <1>1, <2>1 DEF StepOf, IOInv, IOTypes
  <2> QED BY <1>1, <1>2, <1>3, <1>6, <2>1, <2>2, CallAbstract
<1> QED BY <1>5, <1>6

\* WaitIO() and AbortIO(), but for the Remove().
LEMMA WaitingSimulated ==
    ASSUME IOInv, NEW t \in Tasks,
           \/ \E r \in Requests : WaitIO(t, r) \/ AbortIO(t, r)
           \/ BeginIOQueue(t) \/ BeginIOReturn(t) \/ WaitIOTest(t) \/ WaitIOAwake(t)
           \/ AbortIODevice(t)
    PROVE  UNCHANGED IO!vars
<1>1. CASE \E r \in Requests : WaitIO(t, r) \/ AbortIO(t, r)
  <2>1. PICK r \in Requests : WaitIO(t, r) \/ AbortIO(t, r)
    BY <1>1
  <2>2. PICK where \in {"waitio", "abort"} : pc' = [pc EXCEPT ![t] = where]
    BY <2>1 DEF WaitIO, AbortIO, Goto
  <2>3. /\ pc[t] = "run" /\ mn_ReplyPort[r] = t /\ node' = [node EXCEPT ![t] = r]
        /\ UNCHANGED <<mp_MsgList, mn_ReplyPort, port, quick, io_Error>>
    BY <2>1 DEF WaitIO, AbortIO, Running, ioVars
  <2>4. StepOf(t) /\ pc'[t] = where /\ node'[t] = r
    BY <2>2, <2>3 DEF StepOf, IOInv, IOTypes
  <2>5. RequestRight(r)
    BY DEF IOInv
  <2>6. pc'[t] # "doio"
    BY <2>4
  <2> QED BY <2>3, <2>4, <2>5, <2>6, CallAbstract
<1>2. CASE BeginIOQueue(t)
  <2>1. PICK r \in Requests : r = node[t]
    BY <1>2, InCall DEF BeginIOQueue, InIO
  <2>2. /\ pc[t] = "begin" /\ pc' = [pc EXCEPT ![t] = "queued"]
        /\ io_Error' = [io_Error EXCEPT ![r] = "ok"]
        /\ UNCHANGED <<mp_MsgList, mn_ReplyPort, node, port, quick>>
    BY <1>2, <2>1 DEF BeginIOQueue, Goto
  <2>3. RequestRight(r) /\ mn_ReplyPort[r] = t /\ InHand(t, r)
    BY <2>1, <2>2, InCall DEF InIO, InHand
  <2>4. /\ StepOf(t) /\ pc'[t] = "queued" /\ node'[t] = r
        /\ \A q \in Requests \ {r} : io_Error'[q] = io_Error[q]
    BY <2>1, <2>2 DEF StepOf, IOInv, IOTypes
  <2>5. \A u \in Tasks : ~Linked(r, u)
    BY <2>3 DEF RequestRight
  <2> QED BY <2>1, <2>2, <2>3, <2>4, <2>5, CallAbstract
<1>3. CASE BeginIOReturn(t)
  <2>1. PICK r \in Requests : r = node[t]
    BY <1>3, InCall DEF BeginIOReturn, InIO
  <2>2. /\ pc[t] = "queued" /\ quick' = [quick EXCEPT ![r] = FALSE]
        /\ UNCHANGED <<mp_MsgList, mn_ReplyPort, io_Error>>
        /\ (Goto(t, "doio") /\ UNCHANGED <<node, port>>) \/ Return(t)
    BY <1>3, <2>1 DEF BeginIOReturn
  <2>3. RequestRight(r) /\ mn_ReplyPort[r] = t
    BY <2>1, <2>2, InCall DEF InIO
  <2>4. StepOf(t) /\ (node'[t] = r \/ pc'[t] = "run")
    <3>1. CASE Goto(t, "doio") /\ UNCHANGED <<node, port>>
      BY <2>1, <3>1, Goes DEF IOInv
    <3>2. CASE Return(t)
      BY <3>2, Returns DEF IOInv
    <3> QED BY <2>2, <3>1, <3>2
  <2>5. ~quick'[r] /\ \A q \in Requests \ {r} : quick'[q] = quick[q]
    BY <2>2 DEF IOInv, IOTypes
  <2> QED BY <2>1, <2>2, <2>3, <2>4, <2>5, CallAbstract
<1>4. CASE WaitIOTest(t) \/ WaitIOAwake(t)
  <2>1. pc[t] \in {"waitio", "iosleep"}
    BY <1>4 DEF WaitIOTest, WaitIOAwake, Awake
  <2>2. PICK r \in Requests : r = node[t]
    BY <2>1, InCall DEF InIO
  <2>3. PICK w \in {"iosleep", "remove", "waitio"} : Goto(t, w)
    BY <1>4 DEF WaitIOTest, WaitIOAwake, Awake
  <2>4. UNCHANGED <<mp_MsgList, mn_ReplyPort, node, port, quick, io_Error>>
    BY <1>4 DEF WaitIOTest, WaitIOAwake, Awake, ioVars
  <2>5. StepOf(t) /\ pc'[t] = w /\ node'[t] = r
    BY <2>2, <2>3, <2>4, Goes DEF IOInv
  <2>6. RequestRight(r) /\ mn_ReplyPort[r] = t
    BY <2>1, <2>2, InCall DEF InIO
  <2>7. pc[t] # "doio" /\ pc'[t] # "doio"
    BY <2>1, <2>5
  <2> QED BY <2>2, <2>4, <2>5, <2>6, <2>7, CallAbstract
<1>5. CASE AbortIODevice(t)
  <2>1. PICK r \in Requests : r = node[t]
    BY <1>5, InCall DEF AbortIODevice, InIO
  <2>2. pc[t] = "abort" /\ UNCHANGED <<mp_MsgList, mn_ReplyPort, quick>>
    BY <1>5 DEF AbortIODevice
  <2>3. RequestRight(r) /\ mn_ReplyPort[r] = t
    BY <2>1, <2>2, InCall DEF InIO
  <2>4. CASE Queued(r)
    <3>1. /\ io_Error' = [io_Error EXCEPT ![r] = "IOERR_ABORTED"]
          /\ pc' = [pc EXCEPT ![t] = "link"] /\ node' = [node EXCEPT ![t] = r]
          /\ port' = [port EXCEPT ![t] = t]
      BY <1>5, <2>1, <2>3, <2>4 DEF AbortIODevice, Send, Goto
    <3>2. /\ StepOf(t) /\ pc'[t] = "link" /\ node'[t] = r
          /\ \A q \in Requests \ {r} : io_Error'[q] = io_Error[q]
      BY <3>1 DEF StepOf, IOInv, IOTypes
    <3>3. \A u \in Tasks : ~Linked(r, u)
      BY <2>1, <2>2, <2>4, WaitedFor
    <3> QED BY <2>1, <2>2, <2>3, <3>2, <3>3, CallAbstract
  <2>5. CASE ~Queued(r)
    <3>1. Return(t) /\ UNCHANGED io_Error
      BY <1>5, <2>1, <2>5 DEF AbortIODevice
    <3>2. StepOf(t) /\ pc'[t] = "run"
      BY <3>1, Returns DEF IOInv
    <3> QED BY <2>1, <2>2, <2>3, <3>1, <3>2, CallAbstract
  <2> QED BY <2>4, <2>5
<1> QED BY <1>1, <1>2, <1>3, <1>4, <1>5

\* WaitIO() collects the reply that it removes.
LEMMA WaitIORemoveSimulated ==
    ASSUME IOInv, NEW t \in Tasks, WaitIORemove(t)
    PROVE  \E r \in Requests : IO!Collect(r)
<1>1. PICK r \in Requests : r = node[t]
  BY InCall DEF WaitIORemove, InIO
<1>2. RequestRight(r) /\ mn_ReplyPort[r] = t /\ InUse(r) /\ r \in Nodes /\ On(t, r)
  BY <1>1, InCall, NobodyElse DEF WaitIORemove, InIO
<1>3. /\ pc[t] = "remove" /\ Return(t)
      /\ mp_MsgList' = [mp_MsgList EXCEPT ![t] = Unlink(@, r)]
      /\ mn_ReplyPort' = [mn_ReplyPort EXCEPT ![r] = Nobody]
      /\ UNCHANGED <<quick, io_Error>>
  BY <1>1 DEF WaitIORemove, ioVars
<1>4. Linked(r, t)
  BY <1>2, <1>3 DEF RequestRight
<1>5. mp_MsgList[t] \in Seq(Nodes) /\ Distinct(mp_MsgList[t])
  BY DEF IOInv, IOTypes, ListsRight
<1>6. PICK l : l = mp_MsgList[t]
  OBVIOUS
<1>7. /\ Unlink(l, r) \in Seq(Nodes) /\ Distinct(Unlink(l, r))
      /\ \A x \in Nodes : Holds(Unlink(l, r), x) <=> Holds(l, x) /\ x # r
  BY <1>2, <1>5, <1>6, UnlinkKeepsOrder
<1>8. PICK q \in Seq(Nodes) : q = Unlink(l, r)
  BY <1>7
<1>9. mp_MsgList' = [mp_MsgList EXCEPT ![t] = q]
  BY <1>3, <1>6, <1>8
<1>10. /\ mp_MsgList' \in [Tasks -> Seq(Nodes)] /\ ListsRight'
       /\ \A x \in Nodes, v \in Tasks : Linked(x, v)' <=> Linked(x, v) /\ x # r
  <2>1. /\ Distinct(q)
        /\ \A x \in Nodes : Holds(q, x) <=> Holds(mp_MsgList[t], x) /\ x # r
    BY <1>6, <1>7, <1>8
  <2>2. mp_MsgList \in [Tasks -> Seq(Nodes)] /\ ListsRight
    BY DEF IOInv, IOTypes
  <2> QED BY <1>2, <1>4, <1>9, <2>1, <2>2, NodeTaken
<1>11. StepOf(t) /\ pc'[t] = "run"
  BY <1>3, Returns DEF IOInv
<1>12. mn_ReplyPort'[r] = Nobody /\ \A n \in Nodes \ {r} : mn_ReplyPort'[n] = mn_ReplyPort[n]
  BY <1>2, <1>3 DEF IOInv, IOTypes
<1>13. State(r) = "done"
  BY <1>2, <1>4 DEF State, Done
<1>14. State(r)' = "idle" /\ Ending(r)' = "none"
  BY <1>12 DEF State, Ending, Done, InUse
<1>15. \A x \in Requests \ {r} : SameAbstract(x)
  BY <1>1, <1>3, <1>10, <1>11, <1>12, NobodyElse, OthersAbstract
<1> QED BY <1>13, <1>14, <1>15, AbstractCollect

\* The clock completes nothing; the interrupt completes what has expired.
LEMMA ExpireSimulated ==
    ASSUME NEW i \in 1 .. Slots, Expire(i) PROVE UNCHANGED IO!vars
<1>1. UNCHANGED <<mp_MsgList, mn_ReplyPort, pc, node, quick, io_Error>>
  BY DEF Expire, portVars
<1>2. \A r \in Requests : SameAbstract(r)
  BY <1>1, AbstractKept DEF Linked, QuickDone
<1> QED BY <1>2, AbstractSame

\* The hook completes all the requests that have expired in one abstract step.
LEMMA VBlankHookSimulated ==
    ASSUME IOInv, VBlankHook
    PROVE  (\E S \in SUBSET Requests : IO!Complete(S)) \/ UNCHANGED IO!vars
<1> DEFINE S == {r \in Requests : IsExpired(r)}
<1>1. /\ \A n \in Nodes, t \in Tasks :
            Linked(n, t)' <=> Linked(n, t) \/ (IsExpired(n) /\ mn_ReplyPort[n] = t)
      /\ \A r \in Requests : io_Error'[r] = IF IsExpired(r) THEN "ok" ELSE io_Error[r]
      /\ UNCHANGED <<mn_ReplyPort, pc, node, quick>>
  BY VBlankMoves
<1>2. ASSUME NEW r \in S
      PROVE  State(r) = "pending" /\ State(r)' = "done" /\ Ending(r)' \in Errors
  <2>1. r \in Requests /\ r \in Nodes /\ IsExpired(r) /\ Queued(r) /\ RequestRight(r)
    BY ExpiredList, NobodyElse DEF IOInv
  <2>2. InUse(r) /\ \A t \in Tasks : ~Linked(r, t) /\ ~InHand(t, r)
    BY <2>1 DEF RequestRight
  <2>3. ~QuickDone(r)
    BY <2>2 DEF QuickDone, InHand
  <2>4. mn_ReplyPort[r] \in Tasks
    BY <2>1, <2>2 DEF InUse, IOInv, IOTypes
  <2>5. Done(r)' /\ ~Done(r) /\ InUse(r)'
    BY <1>1, <2>1, <2>2, <2>3, <2>4 DEF Done, InUse
  <2>6. io_Error'[r] = "ok"
    BY <1>1, <2>1
  <2> QED BY <2>2, <2>5, <2>6 DEF State, Ending, Errors
<1>3. ASSUME NEW r \in Requests \ S PROVE SameAbstract(r)
  <2>1. QuickDone(r)' <=> QuickDone(r)
    BY <1>1 DEF QuickDone
  <2>2. r \in Nodes /\ ~IsExpired(r)
    BY NobodyElse
  <2> QED BY <1>1, <2>1, <2>2, AbstractKept
<1>4. S \in SUBSET Requests
  OBVIOUS
<1> HIDE DEF S
<1>5. CASE S = {}
  BY <1>3, <1>5, AbstractSame
<1>6. CASE S # {}
  BY <1>2, <1>3, <1>4, <1>6, AbstractComplete
<1> QED BY <1>5, <1>6

\* Every step of the protocol is an abstract one or none.
LEMMA StepIsAbstract == IOInv /\ [Next]_vars => [IO!Next]_(IO!vars)
<1> SUFFICES ASSUME IOInv, [Next]_vars PROVE IO!Next \/ UNCHANGED IO!vars
  OBVIOUS
<1>1. CASE \E t \in Tasks : Call(t)
  <2>1. PICK t \in Tasks : Call(t)
    BY <1>1
  <2>2. CASE \E r \in Requests : SendIO(t, r) \/ DoIO(t, r)
    BY <2>2, StartIOSimulated DEF SendIO, DoIO, IO!Next
  <2>3. CASE GetMsg(t) /\ UNCHANGED ioVars
    BY <2>3, GetMsgSimulated DEF IO!Next
  <2> QED BY <2>1, <2>2, <2>3, MessagesSimulated, WaitingSimulated DEF Call
<1>2. CASE \E t \in Tasks : InExec(t)
  <2>1. PICK t \in Tasks : InExec(t)
    BY <1>2
  <2>2. CASE Link(t) /\ UNCHANGED ioVars
    BY <2>2, LinkSimulated DEF IO!Next
  <2>3. CASE BeginIOAtOnce(t) \/ BeginIOFull(t)
    <3>1. pc[t] = "begin" /\ \E error \in Errors : Finish(t, node[t], error)
      BY <2>3 DEF BeginIOAtOnce, BeginIOFull, Errors
    <3> QED BY <3>1, FinishSimulated DEF IO!Next
  <2>4. CASE DoIOReturn(t)
    BY <2>4, DoIOReturnSimulated DEF IO!Next
  <2>5. CASE WaitIORemove(t)
    BY <2>5, WaitIORemoveSimulated DEF IO!Next
  <2> QED BY <2>1, <2>2, <2>3, <2>4, <2>5, MessagesSimulated, WaitingSimulated
          DEF InExec, PortStep
<1>3. CASE \E i \in 1 .. Slots : Expire(i)
  BY <1>3, ExpireSimulated
<1>4. CASE VBlankHook
  BY <1>4, VBlankHookSimulated DEF IO!Next
<1>5. CASE UNCHANGED vars
  <2>1. UNCHANGED <<mp_MsgList, mn_ReplyPort, pc, node, quick, io_Error>>
    BY <1>5 DEF vars, portVars, ioVars
  <2>2. \A r \in Requests : SameAbstract(r)
    BY <2>1, AbstractKept DEF Linked, QuickDone
  <2> QED BY <2>2, AbstractSame
<1> QED BY <1>1, <1>2, <1>3, <1>4, <1>5 DEF Next

\* exec implements the abstract requests: each is completed once, with one
\* result, before it is collected, whether it is done at once, expires, is
\* aborted or finds the host's queue full.
THEOREM RequestsImplementIO == Spec => ImplementsRequests
<1>1. Init => IO!Init
  <2> SUFFICES ASSUME Init PROVE IO!Init
    OBVIOUS
  <2>1. \A r \in Requests : ~InUse(r)
    BY RequestsAssumption DEF Init, PortInit, InUse
  <2> QED BY <2>1 DEF IO!Init, Done
<1>2. IOInv /\ [Next]_vars => [(IO!vars)' # IO!vars /\ IO!Next]_(IO!vars)
  BY StepIsAbstract
<1> QED BY <1>1, <1>2, RequestsAreSomewhere, PTL DEF Spec, ImplementsRequests, IO!Spec

=============================================================================
