----------------------------- MODULE DosProcess -----------------------------
(***************************************************************************)
(* Processes of dos.library (src/rom/lxa_dos.c): CreateNewProc() and the   *)
(* calls that wait for the new process by looking at its slot of the task  *)
(* array, RunCommand() and SystemTagList(); Exit() and RemTask(), which    *)
(* clear the slot; and allocTaskNum(), which makes the array larger.       *)
(*                                                                         *)
(* A process is known by the address of its memory, which the next process *)
(* may get again.  The processes have the same priority and can be         *)
(* preempted anywhere outside Disable().                                   *)
(***************************************************************************)
EXTENDS Integers, Sequences, FiniteSets

CONSTANTS
    ProcMem,        \* the addresses at which a process can be
    Boot,           \* the process of the bootstrap, CLI number 1: it never ends
    NoProc,
    InitialSlots,   \* INITIAL_TASK_ARRAY_SIZE
    MaxSlots        \* bound: AllocMem() has no memory for a larger array

ASSUME ProcMemAssumption == Boot \in ProcMem /\ NoProc \notin ProcMem
ASSUME SlotsAssumption == InitialSlots \in Nat \ {0} /\ MaxSlots \in Nat

VARIABLES
    taskArray,      \* the slots of the array that rn_TaskArray points to
    pr_TaskNum,     \* kept in the memory of a process after the process is gone
    procAt,         \* what the process at an address does
    procCall,           \* the call that a process is in: what it asked for, its child,
                    \* the number it saw, its result, and how the child left
    oldArray,       \* the processes that hold a pointer to an array that is freed
    copied,         \* the slots that a process has copied
    exitBlock,      \* whose RunCommand() the exit code of a process reports to
    raced,          \* an array was used after it was freed, or changed while copied
    lostSlots       \* slots of processes that CreateNewProc() gave up

procVars == <<taskArray, pr_TaskNum, procAt, procCall, oldArray, copied, exitBlock,
              raced, lostSlots>>

NoProcCall == [kind |-> "none", child |-> NoProc, num |-> 0, result |-> "none", left |-> "no"]
Slots == 1 .. Len(taskArray)

ProcInit ==
    /\ taskArray = [i \in 1 .. InitialSlots |-> IF i = 1 THEN Boot ELSE NoProc]
    /\ pr_TaskNum = [p \in ProcMem |-> IF p = Boot THEN 1 ELSE 0]
    /\ procAt = [p \in ProcMem |-> IF p = Boot THEN "program" ELSE "free"]
    /\ procCall = [p \in ProcMem |-> NoProcCall]
    /\ oldArray = {} /\ copied = [p \in ProcMem |-> <<>>]
    /\ exitBlock = [p \in ProcMem |-> NoProc]
    /\ raced = FALSE /\ lostSlots = {}

Goes(p, place) == procAt[p] = place
GoTo(p, place) == procAt' = [procAt EXCEPT ![p] = place]

\* The processes that are between reading rn_TaskArray and their last use of it.
Holders == { p \in ProcMem : procAt[p] \in {"find", "replace", "exit", "remtask"} }

-----------------------------------------------------------------------------
(* CreateNewProc().                                                        *)

\* A process whose own slot is empty puts itself back before it takes a slot
\* for another.
OwnSlotBack(p) ==
    IF pr_TaskNum[p] \in Slots /\ taskArray[pr_TaskNum[p]] = NoProc
    THEN [taskArray EXCEPT ![pr_TaskNum[p]] = p] ELSE taskArray

\* Up to the search for a slot.  The exit code is installed with the process;
\* a process that is no CLI gets no slot.
CreateNewProc(p, kind) ==
    \E c \in ProcMem :
        /\ Goes(p, "program") /\ Goes(c, "free")
        /\ procAt' = [procAt EXCEPT ![c] = "new", ![p] = IF kind = "process" THEN "launch" ELSE "find"]
        /\ pr_TaskNum' = [pr_TaskNum EXCEPT ![c] = 0]
        /\ procCall' = [procCall EXCEPT ![p] = [NoProcCall EXCEPT !.kind = kind, !.child = c]]
        /\ exitBlock' = [exitBlock EXCEPT ![c] = IF kind = "run" THEN p ELSE NoProc]
        /\ oldArray' = oldArray \ {p}
        /\ taskArray' = IF kind = "process" THEN taskArray ELSE OwnSlotBack(p)
        /\ UNCHANGED <<copied, raced, lostSlots>>

FreeSlots == { i \in Slots : taskArray[i] = NoProc }

\* Mutant: the test of the last slot is missing, so it is always taken.
FindSlotUntested(p) ==
    LET c == procCall[p].child
        i == CHOOSE j \in FreeSlots \cup {Len(taskArray)} :
                \A k \in FreeSlots \cup {Len(taskArray)} : j <= k
    IN  /\ Goes(p, "find") /\ GoTo(p, "launch")
        /\ taskArray' = [taskArray EXCEPT ![i] = c]
        /\ pr_TaskNum' = [pr_TaskNum EXCEPT ![c] = i]
        /\ raced' = (raced \/ p \in oldArray)
        /\ UNCHANGED <<procCall, oldArray, copied, exitBlock, lostSlots>>

\* The first free slot, under Disable().
FindSlot(p) ==
    LET c == procCall[p].child
    IN  \E i \in FreeSlots :
            /\ Goes(p, "find") /\ GoTo(p, "launch")
            /\ \A j \in FreeSlots : i <= j
            /\ taskArray' = [taskArray EXCEPT ![i] = c]
            /\ pr_TaskNum' = [pr_TaskNum EXCEPT ![c] = i]
            /\ raced' = (raced \/ p \in oldArray)
            /\ UNCHANGED <<procCall, oldArray, copied, exitBlock, lostSlots>>

\* Without one the slots are copied to a larger array, with interrupts enabled.
GrowArray(p) ==
    /\ Goes(p, "find") /\ FreeSlots = {}
    /\ Len(taskArray) < MaxSlots
    /\ GoTo(p, "replace")
    /\ copied' = [copied EXCEPT ![p] = taskArray]
    /\ raced' = (raced \/ p \in oldArray)
    /\ UNCHANGED <<taskArray, pr_TaskNum, procCall, oldArray, exitBlock, lostSlots>>

\* No memory for it: the process is created without a number.
GrowArrayFails(p) ==
    /\ Goes(p, "find") /\ FreeSlots = {}
    /\ Len(taskArray) >= MaxSlots
    /\ GoTo(p, "launch")
    /\ raced' = (raced \/ p \in oldArray)
    /\ UNCHANGED <<taskArray, pr_TaskNum, procCall, oldArray, copied, exitBlock, lostSlots>>

\* Mutant: the new process gets the last slot of the old array.
ReplaceArrayShort(p) ==
    LET c == procCall[p].child
        n == Len(copied[p])
    IN  /\ Goes(p, "replace") /\ GoTo(p, "launch")
        /\ taskArray' = [i \in 1 .. n + InitialSlots |->
                IF i = n THEN c ELSE IF i < n THEN copied[p][i] ELSE NoProc]
        /\ pr_TaskNum' = [pr_TaskNum EXCEPT ![c] = n]
        /\ oldArray' = Holders \ {p} /\ copied' = [copied EXCEPT ![p] = <<>>]
        /\ raced' = (raced \/ copied[p] # taskArray \/ p \in oldArray)
        /\ UNCHANGED <<procCall, exitBlock, lostSlots>>

\* The new process gets the first of the new slots; the old array is freed.
ReplaceArray(p) ==
    LET c == procCall[p].child
        n == Len(copied[p])
    IN  /\ Goes(p, "replace") /\ GoTo(p, "launch")
        /\ taskArray' = [i \in 1 .. n + InitialSlots |->
                IF i <= n THEN copied[p][i] ELSE IF i = n + 1 THEN c ELSE NoProc]
        /\ pr_TaskNum' = [pr_TaskNum EXCEPT ![c] = n + 1]
        /\ oldArray' = Holders \ {p} /\ copied' = [copied EXCEPT ![p] = <<>>]
        /\ raced' = (raced \/ copied[p] # taskArray \/ p \in oldArray)
        /\ UNCHANGED <<procCall, exitBlock, lostSlots>>

\* No memory for the CLI structure: the memory of the process is given back,
\* its slot is not.
AllocCliFails(p) ==
    LET c == procCall[p].child
    IN  /\ Goes(p, "launch") /\ procCall[p].kind # "process"
        /\ procAt' = [procAt EXCEPT ![p] = "program", ![c] = "free"]
        /\ lostSlots' = lostSlots \cup ({pr_TaskNum[c]} \cap Slots)
        /\ procCall' = [procCall EXCEPT ![p] = NoProcCall]
        /\ exitBlock' = [exitBlock EXCEPT ![c] = NoProc]
        /\ UNCHANGED <<taskArray, pr_TaskNum, oldArray, copied, raced>>

\* The process is made ready, and the caller gives up the CPU.
LaunchProc(p) ==
    /\ Goes(p, "launch")
    /\ procAt' = [procAt EXCEPT ![p] = "launched", ![procCall[p].child] = "program"]
    /\ UNCHANGED <<taskArray, pr_TaskNum, procCall, oldArray, copied, exitBlock, raced, lostSlots>>

-----------------------------------------------------------------------------
(* Waiting for the process.                                                *)

Waits(p) == procCall[p].kind \in {"run", "system"}

\* CreateProc(), CreateNewProc() and a System() with SYS_Asynch return.
CreateReturn(p) ==
    /\ Goes(p, "launched") /\ ~Waits(p)
    /\ GoTo(p, "program") /\ procCall' = [procCall EXCEPT ![p] = NoProcCall]
    /\ UNCHANGED <<taskArray, pr_TaskNum, oldArray, copied, exitBlock, raced, lostSlots>>

\* pr_TaskNum is read after the child has had its chance to run, and to end.
ReadTaskNum(p) ==
    /\ Goes(p, "launched") /\ Waits(p)
    /\ GoTo(p, "poll")
    /\ procCall' = [procCall EXCEPT ![p].num = pr_TaskNum[procCall[p].child]]
    /\ UNCHANGED <<taskArray, pr_TaskNum, oldArray, copied, exitBlock, raced, lostSlots>>

\* Entry 0 of the array is its size.
NamesChild(p) == procCall[p].num # 0 /\ taskArray[procCall[p].num] = procCall[p].child

\* Otherwise EMU_CALL_WAIT, and the loop goes round.
WaitAgain(p) == Goes(p, "poll") /\ NamesChild(p) /\ UNCHANGED procVars

\* The loop ends when the slot names somebody else.
WaitReturn(p) ==
    /\ Goes(p, "poll") /\ ~NamesChild(p)
    /\ GoTo(p, "program") /\ procCall' = [procCall EXCEPT ![p] = NoProcCall]
    /\ UNCHANGED <<taskArray, pr_TaskNum, oldArray, copied, exitBlock, raced, lostSlots>>

-----------------------------------------------------------------------------
(* Exit() and RemTask().                                                   *)

\* Exit() frees the CLI structure; RemTask() comes without it.  Both have a
\* pointer to the array when they disable interrupts.
Leave(p, how) ==
    /\ Goes(p, "program") /\ p # Boot
    /\ GoTo(p, how)
    /\ oldArray' = oldArray \ {p}
    /\ UNCHANGED <<taskArray, pr_TaskNum, procCall, copied, exitBlock, raced, lostSlots>>

ToldOf(p, how) ==
    [q \in ProcMem |-> IF procCall[q].child = p /\ procCall[q].left = "no"
                       THEN [procCall[q] EXCEPT !.left = how] ELSE procCall[q]]

\* Mutant: RemTask() leaves the slot alone.
ClearSlotOnExitOnly(p) ==
    \E how \in {"exit", "remtask"} :
        /\ Goes(p, how)
        /\ taskArray' = IF p \notin oldArray /\ pr_TaskNum[p] \in Slots /\ how = "exit"
                        THEN [taskArray EXCEPT ![pr_TaskNum[p]] = NoProc] ELSE taskArray
        /\ raced' = (raced \/ p \in oldArray)
        /\ pr_TaskNum' = [pr_TaskNum EXCEPT ![p] = 0]
        /\ procCall' = ToldOf(p, how)
        /\ GoTo(p, IF how = "exit" THEN "callback" ELSE "remove")
        /\ UNCHANGED <<oldArray, copied, exitBlock, lostSlots>>

\* freeTaskNum(), and the same lines in RemTask(): the slot is cleared in the
\* array that was current before.
ClearSlot(p) ==
    \E how \in {"exit", "remtask"} :
        /\ Goes(p, how)
        /\ taskArray' = IF p \notin oldArray /\ pr_TaskNum[p] \in Slots
                        THEN [taskArray EXCEPT ![pr_TaskNum[p]] = NoProc] ELSE taskArray
        /\ raced' = (raced \/ (p \in oldArray /\ pr_TaskNum[p] # 0))
        /\ pr_TaskNum' = [pr_TaskNum EXCEPT ![p] = 0]
        /\ procCall' = ToldOf(p, how)
        /\ GoTo(p, IF how = "exit" THEN "callback" ELSE "remove")
        /\ UNCHANGED <<oldArray, copied, exitBlock, lostSlots>>

\* Mutant: the exit data of the process is cleared before pr_ExitCode is called.
ExitCallbackTooLate(p) ==
    /\ Goes(p, "callback") /\ GoTo(p, "remove")
    /\ exitBlock' = [exitBlock EXCEPT ![p] = NoProc]
    /\ UNCHANGED <<taskArray, pr_TaskNum, procCall, oldArray, copied, raced, lostSlots>>

\* Only now pr_ExitCode writes the return code into the variable of RunCommand(),
\* or, when that has returned, into what is now in its place on the stack.
ExitCallback(p) ==
    LET q == exitBlock[p]
    IN  /\ Goes(p, "callback") /\ GoTo(p, "remove")
        /\ procCall' = IF q # NoProc /\ procCall[q].child = p /\ procCall[q].left = "exit"
                   THEN [procCall EXCEPT ![q].result = "code"] ELSE procCall
        /\ exitBlock' = [exitBlock EXCEPT ![p] = NoProc]
        /\ UNCHANGED <<taskArray, pr_TaskNum, oldArray, copied, raced, lostSlots>>

\* RemTask() frees the memory of the process and leaves it.
RemTask(p) ==
    /\ Goes(p, "remove") /\ GoTo(p, "free")
    /\ exitBlock' = [exitBlock EXCEPT ![p] = NoProc]
    /\ UNCHANGED <<taskArray, pr_TaskNum, procCall, oldArray, copied, raced, lostSlots>>

-----------------------------------------------------------------------------
ProcStep(p) ==
    \/ \E kind \in {"run", "system", "asynch", "process"} : CreateNewProc(p, kind)
    \/ FindSlot(p) \/ GrowArray(p) \/ GrowArrayFails(p) \/ ReplaceArray(p)
    \/ AllocCliFails(p) \/ LaunchProc(p)
    \/ CreateReturn(p) \/ ReadTaskNum(p) \/ WaitReturn(p) \/ WaitAgain(p)
    \/ Leave(p, "exit") \/ Leave(p, "remtask") \/ ClearSlot(p) \/ ExitCallback(p) \/ RemTask(p)

\* What a program does after it has used freed memory is not modelled.
ProcNext ==
    \/ ~raced /\ \E p \in ProcMem : ProcStep(p)
    \/ raced /\ UNCHANGED procVars

ProcSpec == ProcInit /\ [][ProcNext]_procVars

-----------------------------------------------------------------------------
(* Properties.                                                             *)

\* Every variable has its type; a number is one of the array until an array is
\* replaced by an older and shorter one.
ProcTypeOK ==
    /\ taskArray \in Seq(ProcMem \cup {NoProc}) /\ copied \in [ProcMem -> Seq(ProcMem \cup {NoProc})]
    /\ pr_TaskNum \in [ProcMem -> Nat] /\ (raced \/ \A p \in ProcMem : pr_TaskNum[p] <= Len(taskArray))
    /\ procAt \in [ProcMem -> {"free", "new", "program", "find", "replace", "launch", "launched",
                              "poll", "exit", "remtask", "callback", "remove"}]
    /\ procCall \in [ProcMem -> [kind : {"none", "run", "system", "asynch", "process"},
                                 child : ProcMem \cup {NoProc}, num : Nat,
                                 result : {"none", "code"}, left : {"no", "exit", "remtask"}]]
    /\ exitBlock \in [ProcMem -> ProcMem \cup {NoProc}]
    /\ oldArray \subseteq ProcMem /\ raced \in BOOLEAN

\* As long as no array is used after its replacement, or changed while it is
\* copied, every process that has a number is named by that slot alone, and a
\* slot names a process that has its number, unless a failed CreateNewProc()
\* has left it behind.
SlotsNameProcesses ==
    raced \/ /\ \A p \in ProcMem : pr_TaskNum[p] # 0 /\ procAt[p] # "free" =>
                    taskArray[pr_TaskNum[p]] = p
             /\ \A i \in Slots \ lostSlots : taskArray[i] # NoProc =>
                    procAt[taskArray[i]] # "free" /\ pr_TaskNum[taskArray[i]] = i

\* Then RunCommand() and SystemTagList() return only after the process they
\* have started, if it has a number, has called Exit() or RemTask().
WaitsForItsChild ==
    [][ \A p \in ProcMem :
          procAt[p] = "poll" /\ procAt'[p] # "poll" /\ procCall[p].left = "no" =>
              raced \/ pr_TaskNum[procCall[p].child] = 0 ]_procVars

\* "RunCommand returns child exit code": it has it when it returns after the
\* child has called Exit(), unless it comes between the two steps in which Exit()
\* clears the slot and hands the code over.
ExitCodeArrives ==
    [][ \A p \in ProcMem :
          /\ procAt[p] = "poll" /\ procAt'[p] # "poll"
          /\ procCall[p].kind = "run" /\ procCall[p].left = "exit"
          => \/ raced \/ procCall[p].result = "code"
             \/ procAt[procCall[p].child] = "callback" ]_procVars

=============================================================================
