# lxa in TLA+

lxa runs AmigaOS programs on a Unix host. An emulated 68000 executes a ROM that
is written in C and 68000 assembler (`src/src/rom`) and contains the project's own
exec, dos, graphics, intuition and other libraries; the host program
(`src/src/lxa`) supplies the CPU core, the custom chip registers, files, windows
and time, and the ROM calls it through *emulator calls*.

This directory holds specifications of the parts of lxa where several activities meet, the
TLC configurations that check them on small instances, and TLAPS proofs of every
safety property that holds, for every value of the constants. Paths below are relative to
the repository, which is
mounted as `src/`: `src/src/rom/exec.c` is the ROM's exec.

## 1. Inventory

| component | state | operations | interacts with | what is hard | what makes it correct |
|---|---|---|---|---|---|
| scheduler (`exec.c`, `exceptions.s`, `util.c`) | ready queue, wait queue, current task, quantum, two nesting counters, per task: state, priority, signals, saved counters | AddTask, RemTask, SetTaskPri, Wait, Signal, SetSignal, SetExcept, Forbid/Permit, Disable/Enable, Schedule, Switch, Dispatch | interrupt handler, emulator call `EMU_CALL_WAIT`, every library that waits | the interrupt and preemption between any two instructions outside Disable() | queues agree with states, sorted and fair; no wakeup lost; counters survive sleep; highest priority runs; idle and finished are told apart |
| interrupt delivery (`lxa.c`, `lxa_api.c`, `lxa_custom.c`, `lxa_dispatch.c`, `m68kcpu.h`) | pending bit, INTENA, CPU level and mask | SIGALRM, run loop, INTENA write, EMU_CALL_WAIT | Disable/Enable, Switch, Dispatch | the level is looked at only at two kinds of points; pending is cleared by three parties | no interrupt lost, each pending one served; none inside Disable() |
| context switch (`exceptions.s`) | user stack pointer, frames, `tc_SPReg` | Switch, Dispatch, Exception, the interrupt's exit | scheduler | Dispatch() unmasks the CPU before it has finished | the last `rte` continues the task that was chosen |
| signal semaphores (`exec.c`) | owner, nest count, queue count, wait queue | Obtain, ObtainShared, Attempt, AttemptShared, Release, ObtainList, ReleaseList, Procure, Vacate | Wait/Signal, Forbid/Permit; used by layers, intuition, dos, pools | one signal bit for all semaphores; hand-over while the waiter sleeps; what Wait() does to Forbid() | mutual exclusion, FIFO hand-over, counts, no request forgotten |
| messages and ports (`exec.c`) | message lists, ports, node types | PutMsg, GetMsg, ReplyMsg, WaitPort | Signal, every device and window | a message is typed, linked, signalled in three steps | delivered once, in order; a port with a message has been signalled |
| I/O requests and devices (`exec.c`) | request flags and node type, unit queues | OpenDevice, BeginIO, SendIO, DoIO, CheckIO, WaitIO, AbortIO, CloseDevice | messages, devices | a reply races with abort, wait, close | every request is replied exactly once |
| timer.device (`lxa_dev_timer.c`, `lxa_dos_host.c`) | host queue of 64 entries, expiry marks | TR_ADDREQUEST, AbortIO, VBlank hook | host clock, ReplyMsg | abort against expiry; the queue full | no entry without a request and vice versa |
| memory (`exec.c`) | free list, pools | Allocate, Deallocate, AllocMem, FreeMem, pools | everything | splitting and merging on both sides | free and allocated bytes partition the memory, no two free neighbours |
| libraries and interrupt servers (`exec.c`) | lists, open counts | OpenLibrary, AddIntServer, Cause | | little | counts |
| DOS in the ROM (`lxa_dos.c`) | processes, task slots, handles, packets | CreateNewProc, RunCommand, Exit | scheduler, ports, host | slots are reused while their owner exits | a slot names one live process |
| DOS on the host (`lxa_dos_host.c`) | locks, record locks, notify requests | Lock, DupLock, UnLock, LockRecord, StartNotify, poll | file system | a number is reused | counts and conflicts |
| virtual file system (`vfs.c`) | assigns, path cache | resolve | host files | case-insensitive names | a name resolves to the file it names |
| devices: console, keyboard, input, clipboard, audio, trackdisk | rings, pending reads, allocation | BeginIO, AbortIO, hooks | timer, intuition | reads pending while input arrives | each read answered once |
| intuition (`lxa_intuition.c`), BGUI's windows (`bgui/windowclass.c`) | windows, their user and reply ports, the count of pending mouse moves, the guard of the event loop | posting IDCMP messages, ModifyIDCMP, OpenWindow, CloseWindow, the VBlank hook | ports, memory, WaitTOF(), the host's events | the interrupt posts in the middle of every other operation | no message lost, freed twice or without its ports; mouse moves counted |
| graphics, layers, gadtools, ... | clip lists, gadgets | drawing | semaphores, ports | locking order | |
| host display, event rings, profiling, configuration | two bounded rings | push, pop | SDL | overflow | |

`PROJECT.json` lists all components with their files, and the places where this
code is hard to test, each with the properties that look at it.

## 2. Modules

| module | models | note |
|---|---|---|
| `ExecLists` | `Enqueue()`, `Remove()` of exec's lists | pure operators |
| `ExecTask` | the scheduler | the core |
| `ExecListLemmas`, `ExecTaskProofs` | | proofs about lists and about the scheduler |
| `IrqDelivery` | the way of the vertical blank from SIGALRM to the handler, Disable() and Enable() write by write | looks inside what ExecTask takes as one step |
| `ExecSwitch` | Switch() and Dispatch() with stacks and frames | likewise |
| `SemLock` | abstract lock, with FIFO hand-over | |
| `ExecSem` | the semaphore calls of exec, shown to implement `SemLock` | split at preemption points |
| `ExecPorts` | messages and ports | |
| `IORequests` | abstract request: started, completed once, collected | |
| `ExecIO` | I/O requests, timer.device and the host's timer queue over `ExecPorts`, shown to implement `IORequests` | |
| `ExecMem` | the free list, AllocMem() and FreeMem(), AllocAbs(), AllocEntry() and FreeEntry(), pools | |
| `DosProcess` | CreateNewProc(), RunCommand(), SystemTagList(), Exit(), RemTask() and the task array of dos.library | |
| `DosFiles` | file handles, the host's descriptors and record locks | |
| `IntuiMessages` | IDCMP messages and their ports, in intuition.library and in BGUI's use of a shared port | |
| `ClipboardDevice` | the primary unit of clipboard.device | split at PutMsg(), ReplyMsg() and the change hooks |
| `AudioDevice` | the channels of audio.device | a command is one step |
| `IrqDeliveryProofs`, `ExecSwitchProofs`, `ExecSemProofs`, `ExecIOProofs`, `ExecMemProofs` | | proofs about the module of that name |
| `ServicesProofs` | | proofs about ClipboardDevice, DosFiles, DosProcess, AudioDevice and IntuiMessages |
| `MCServices` | the instances of ExecSem, ExecSwitch, ExecMem, DosProcess, DosFiles, IntuiMessages, ClipboardDevice and AudioDevice for TLC | the eight parts share no state: in a behaviour one of them moves |
| `MCLive` | the liveness of ExecTask and IrqDelivery for TLC | likewise, each under its own fairness |
| `MC...` | symmetry sets for TLC | |

`ExecTask`, `IrqDelivery` and `ExecSwitch` describe the same code at different
grain. ExecTask takes a stretch from Disable() to Enable() as one step and
Dispatch() up to its `rte` as another. IrqDelivery shows how far the emulator
honours the first (Section 4, `irq_critical`), ExecSwitch the second
(`switch_window`). ExecPorts and ExecIO take Wait() as one step that is possible
when its signal is there, which `NoLostWakeup` and its theorem justify.

### ExecTask

The variables are the fields of `struct ExecBase` and `struct Task` with their
names. `TaskReady` is a sequence because its order matters; `TaskWait` a set
because nobody looks at its order. `cpu` says what the one CPU executes: a
task, the loop of Dispatch(), the handler, or nothing any more. `pc` is the
place of each task inside a call with a gap an interrupt or another task can
fall into: in Wait() between the switch and its return, in Signal() between
its test of the target and Disable(), in RemTask() before Dispatch(). The ghosts `forbids` and
`disables` count each program's open Forbid() and Disable() calls; no action's
effect on the other variables depends on them, they only keep programs from
calling Permit() or Enable() too often.

| action | code |
|---|---|
| `Wait`, `WaitResume` | `_exec_Wait` up to Switch(), and from the return of Switch() |
| `SignalCheck`, `Signal`, `IrqSignal` | `_exec_Signal`, by a task and by a hook of the handler |
| `AddTask`, `SetTaskPri`, `SetSignal`, `SetExcept` | the calls of that name |
| `RemTaskSelf`, `RemTaskDispatch` | RemTask(NULL), marking and leaving |
| `RemTaskUnlink`, `RemTaskMark` | RemTask(other), only in `SpecRemOther` |
| `Dispatch`, `EmuWait` | `_exec_Dispatch` with a task, without one |
| `IrqEnter`, `IrqExit` | `_handleIRQ3` with Schedule() |

Left out: launch and switch hooks, tc_TrapCode, the memory of tasks, the
checks for damaged task pointers, and everything the hooks of the handler do
except sending signals.

### IrqDelivery

`driver` chooses the host program: the `lxa` loop, or a program that calls
`lxa_run_cycles()` of liblxa. SIGALRM sets the pending bit at any time. The CPU
core looks at the interrupt level only when `m68k_execute()` starts and when an
instruction loads SR; so a level that a write to INTENA arms inside a slice
is taken at the next `rte` or in the next slice. The interrupt mask 7 of
critical ROM code and 3 of the handler are one value. Each of Disable() and
Enable() is two actions.

### ExecSwitch

A context is a task and the place where it was frozen: its own code, or the
window of Dispatch(). `Frame` is the frame on top of each task's user stack,
`tc_SPReg` the stack that a task's frame is said to be on, `USP` the stack that
the user stack pointer is on, `context` the task whose values the registers
have. Registers are not modelled one by one. Priorities and whether programs
use exceptions are fixed at the start of a behaviour.

### ExecSem and SemLock

A task that is preempted inside a call does not matter as long as its Forbid()
keeps the others out (`MayRun`). But Wait() gives TDNestCnt back as -1 (next
section), so a call that slept ends with a Permit() too many, and the
next Forbid() of that task does not keep anybody out. Each call is therefore split at the
points where another task could look at the semaphore. `Careful` programs
Wait() for something else before their next semaphore call, which sets the
counter right again; for them the split is invisible and the semaphores
implement SemLock. Ownership (`excl`, `shared`) is counted from the moment of
the hand-over, so that the step that hands over is SemLock's Grant.

Programs are restricted to what the design supports: a task does not wait for a semaphore
while it holds another, and one task at a time asks for a list, because
each semaphore has only one `ss_MultipleLink`. The early returns for NULL
arguments are left out.

### ExecPorts and ExecIO

Each task has one port, the place for messages to it and for the replies to its
requests; other ports, and ports that do not signal a task, are left out.
`mp_MsgList` and `mp_Signal` are the list and the signal of a port, `ln_Type`
the type of a message. `mn_ReplyPort` is whose port a message or request is to
be replied to while it is in use and Nobody when its owner may use it again; `server`
remembers who took a message with GetMsg() and must reply it. `pc`, `node` and
`port` are the place of a task in a call and what the call is about.
`timer_queue` is the host's `g_timer_queue`: a request and its expiry mark.

| action | code |
|---|---|
| `PutMsg`, `ReplyMsg`, then `Link`, `SignalPort` | `_exec_PutMsg`, `_exec_ReplyMsg`: typing; AddTail() under Disable(); Signal() |
| `GetMsg`, `WaitPort`, `WaitPortTest`, `WaitPortAwake` | `_exec_GetMsg`, `_exec_WaitPort`: the test and the Wait() of its loop |
| `SendIO`, `DoIO`, `DoIOReturn` | `_exec_SendIO`, `_exec_DoIO` before and after BeginIO() |
| `BeginIOAtOnce`, `BeginIOQueue`, `BeginIOFull`, `BeginIOReturn` | `__g_lxa_timer_BeginIO`, by how it ends; `_timer_add_request` |
| `WaitIO`, `WaitIOTest`, `WaitIOAwake`, `WaitIORemove` | `_exec_WaitIO`: the test and the Wait() of its loop, Remove() |
| `AbortIO`, `AbortIODevice` | `_exec_AbortIO` and its test; `__g_lxa_timer_AbortIO`, `_timer_remove_request` |
| `Expire` | `_timer_check_expired`, for one entry |
| `VBlankHook` | `_timer_VBlankHook` with `_timer_get_expired` and ReplyMsg(); one step, as it runs in the interrupt handler |

Delays are not numbers: an entry may expire at any time, which covers every
delay and every order of delays; the arithmetic of the units is left out.
Programs keep to the rules of exec: only the task that started a request waits for it, aborts it
or collects it, and it starts it again only after it has collected it with
WaitIO() or found it with GetMsg(). A task that takes a message replies it
later, or never.

### ExecMem

Addresses and sizes are in longwords; `MEM_BLOCKSIZE` is two of them.
`mh_First` is the list of the free chunks, `mh_Free` the counter of the
MemHeader. `memBlocks` is what programs have got and will give back, `memEntry` each
caller's memory list and its place in AllocEntry() or FreeEntry(), `memPool` the
pool with its puddles and `poolBlocks` what programs have from it.

| action | code |
|---|---|
| `MemAlloc`, `MemFree`, `MemAllocAbs` | AllocVec(), FreeVec(), AllocAbs() over `AllocMem`, `Deallocate`, `CutOut` |
| `MemFreeWrongly` | a block that is free already, in part or as a whole, is given to Deallocate(), which refuses it |
| `AllocEntry`, `AllocEntryNext`, `AllocEntryReturn` | AllocEntry(), one entry of its loop at a time |
| `FreeEntry`, `FreeEntryNext`, `FreeEntryReturn` | FreeEntry(), and the way back of an AllocEntry() that fails |
| `CreatePool`, `AllocPooledHere`, `AllocPooledNew`, `DeletePool`, `DeletePuddle`, `DeletePoolReturn` | the pools |

Left out: attributes of memory (there is one MemHeader), AvailMem(), and that
hooks of the interrupt handler allocate although Forbid() does not stop them.

### DosProcess

A process is known by the address of its memory, which the next process may get
again. `taskArray` is the array at `rn_TaskArray`; `procAt` the place of each
process in a call, `procCall` what it asked for and the number it saw.
allocTaskNum() is split where it leaves Disable(): the slots are copied
(`GrowArray`) and the array is replaced (`ReplaceArray`) in two steps.
Exit() is split between freeing the slot and the exit callback. `raced`
marks the use of an array after it was freed, and a change of an array
while it is copied; the code does not prevent either (`lxa_dos.c:848`), and the model
stops there. `lostSlots` are the slots that a CreateNewProc() leaves behind
when it has no memory for the CLI structure (`lxa_dos.c:5263`).
Processes have equal priorities: a parent of a higher one starves its child,
because it waits by asking again and again.

### DosFiles

`fh` are the file handles of the ROM, `fdFile` the host's descriptors,
`recordLocks` the table `g_record_locks`, `locking` the place of a program in
LockRecords(), which another program can come into between two records. A
LockRecord() with a timeout waits inside the emulator call, while nobody
else runs, and so ends like one without. `stdClosed` marks that Close() of a console or a CON:
window has made the host close descriptor 0 or 1 (`lxa_dos_host.c:1687`); what
becomes of the files that get these descriptors later is not modelled. Reading,
writing and names of files are left out: a file is a model value.

### IntuiMessages

A message is its window and whether it is a mouse move. `ports` are the ports of
its own that a window has, `userPort` and `windowPort` what the fields of
`struct Window` say, `ownQueue`, `sharedQueue` and `replied` the messages at
these ports, `held` those that a program has taken, `messageMem` how many more can be
allocated. `doing` is the place of a program in a call.

| action | code |
|---|---|
| `Post`, `PostPut`, `PostCount` | `_post_idcmp_message`: tests, replies collected and memory; PutMsg(); the count of mouse moves |
| `PostCall`, `WaitTOF`, `PollInput`, `PollEnd` | who posts: calls like ActivateWindow(), the event loop of WaitTOF() |
| `VBlankInputHook`, `VBlankNoEvent` | the same event loop in the interrupt handler: one step, because nothing interrupts it |
| `OpenWindow`, `ModifyIDCMP` | with `_ensure_window_idcmp_ports` |
| `ModifyIDCMPZero`, `CloseWindow`, then `DetachUserPort`, `DetachWindowPort`, `FlushReplyPort`, `FlushUserPort`, `RemoveEnd` | with `_dispose_window_idcmp_ports` |
| `MoveMessages`, `SharePort`, `ClearMsgPort`, `TakeUserPort` | BGUI: a window gets the shared port, and gives it up under Forbid() |
| `GetMsg`, `ReplyMsg` | of a program |

Programs reply to the messages they have taken before they have the ports of the
window removed, which is what the autodocs ask of them. Four things that the code
lets happen are marked by `overtaken` and not followed further: another
program is in the middle of posting to a window whose port goes away
(`Overtakes`), the interrupt posts to a shared port between BGUI's
clearing it and taking it away (`Strays`), it collects a message that the program which
posted it has not counted yet (`Miscounts`), and BGUI moves messages to the
shared port whose reply port it then has deleted (`Orphans`).
Screens, menus, gadgets, the input state and rendering are left out.

### ClipboardDevice

`currentClip`, `dataClip`, `writeClip`, `nextClip`, `postActive`, `satisfySent` and
`pendingRead` are the fields of `struct ClipboardUnit`; `reading` are the programs
whose CMD_READ has not been answered, `inDevice` where a program is in BeginIO().

| action | code |
|---|---|
| `ClipRead`, `ClipReadAsked` | CMD_READ of a clip that is posted and not there yet, up to PutMsg() of the SatisfyMsg and from its return. Every other read is answered at once and changes nothing |
| `ClipWriteNew`, `ClipWrite` | CMD_WRITE that begins a clip |
| `ClipUpdate`, `ClipUpdated` | CMD_UPDATE up to the change hooks; `clipboard_complete_pending_read` |
| `ClipPost`, `ClipPosted` | CBD_POST up to ReplyMsg() of the read that waits; its end |
| `ClipAbort` | AbortIO() |

The device has no Forbid() at all, so another program can come between any two
instructions; the model lets it in where the device itself gives the CPU away, because it
wakes somebody or calls a hook. `disturbed` marks that a program was in the device meanwhile
or that a second read has taken the place of the first. The data of clips and the
other units are left out.

### AudioDevice

`owner`, `precedence`, `writes`, `playing` are the fields of `struct AudioChannel`,
`misc` and `allocs` the lists of requests that wait for the end of a cycle and for
a channel. A program keeps the key it got first and stands for it.

| action | code |
|---|---|
| `AudioAllocate` | ADCMD_ALLOCATE with `Choice`, `Commit` and the release of what it takes from others |
| `AudioFree`, `AudioSetPrec` | ADCMD_FREE and CloseDevice(), ADCMD_SETPREC; both retry the allocations that wait (`TryPending`) |
| `AudioWrite`, `AudioFlush`, `AudioFinish`, `AudioWait` | CMD_WRITE; CMD_FLUSH and CMD_RESET; ADCMD_FINISH; ADCMD_WAITCYCLE and the others that wait |
| `AbortWrite`, `AbortMisc`, `AbortAllocate` | AbortIO(), by the list the request is in |
| `AudioCycle` | one round of `_audio_VBlankHook` for a channel |

When a cycle ends is left open, so periods, lengths and cycle counts are not numbers. The
vertical blank in the middle of a command and programs that run when
they get the reply of an aborted write are left out, and so are the registers and the
interrupts of the channels.

## 3. Checks

Each run takes about a minute or less with two workers.

| run | asks | result |
|---|---|---|
| `task_safety` | three tasks, two priorities, quantum 1: types, queues against states, order, halt, priority, FIFO | holds |
| `task_pair` | two tasks, two signals, one an exception, Forbid() or Disable() one deep: wakeups, nesting, exceptions | holds |
| `live` | scheduler: does every ready task of equal priority get the CPU? interrupt delivery: is no vertical blank lost, each pending one served, the nesting kept? | holds |
| `task_remother` | does a removed task stay out of the queues? | violated |
| `irq_critical` | is INTENA off between Disable() and Enable()? | violated |
| `switch_window` | does Dispatch() return to ThisTask? | violated |
| `services` | semaphores: counts, hand-over, requests, refinement of SemLock, for careful programs; switch: queue, states and frames through the window of Dispatch(); memory: order and merging of the free list, one owner for every block, failed memory lists; processes: slots against numbers, waiting for a child and its return code; files: exclusion of records, their end with their handle, all or none; messages: ports, memory and the count of mouse moves; clipboard: reads that wait and the program that was asked; audio: queues of writes through aborts, thefts and cycles | holds |
| `sem_mutex` | mutual exclusion without that care | violated |
| `sem_shared` | is a contended shared request served? | violated |
| `intui_mousequeue` | does a window get mouse moves again when it has replied to them? | violated |
| `clip_posted` | does writing a posted clip answer the reads that wait for it? | violated |
| `io_timer` | two tasks, two requests for a host queue of one entry, one message: replies neither lost nor doubled, no sleeper forgotten, refinement of IORequests, every request completed, every WaitIO() returns | holds |

**Bounds.** Three tasks are the fewest with which one task can be running, two
ready and in order, or one can signal a second while a third is preempted; two priorities
give both outcomes of each comparison. Quantum 1 lets a slice be fresh and used up, quantum 0 makes every
interrupt a switch when a task is ready. One signal is enough for the races of
a signal with a wait; two are needed for an exception next to a wait. `MaxNest`
bounds nested Forbid() and Disable() calls, in ExecTask both together, and semaphore
calls: 1 gives inside and outside, 2 an inner and an outer call. In ExecSwitch `windowHit` lets at most one
interrupt fall into one window of Dispatch(), which is shorter than a frame.
One entry for two requests makes the host queue full and free (the program has
64); one message next to the requests makes a port hold, and signal, something else than
the reply a task waits for. Two semaphores give lists of more than one and signals left over from the other.
Five blocks of memory hold two free chunks with a block in use between them and at
each end, a pool with a full puddle, or a memory list of two entries with one of
no length between them, and are too few for all at once, so every call can fail
half way. Two processes besides the first, with one slot that can grow twice,
make the array full, replaced and full again, and an address used twice.
Two programs with two handles, two files and two overlapping records lock the
same or another range of the same or another file; a table of two entries is full.
Two programs, two windows, memory for two messages and a mouse queue of one let
each window's messages be at every place while the interrupt and the other program
post.
Three programs at the clipboard are a reader, a second reader and a poster, or two who post
and update at once; two clips
make the second one obsolete the first. Two programs that ask for both channels or, if these
are taken, for the second, with two precedences
and two writes each steal one or both channels, with writes behind the one that plays.
No property speaks of a number beyond these bounds, and the theorems of Section 5 remove
the bounds from all safety properties. Symmetry in tasks is used for
safety only; in `services` the first task of each part is fixed (`StartTask`), and when
programs use exceptions only that task may have the higher priority, so that no choice is
made that another one repeats under other names.

**Deadlock** is checked in every run but `clip_posted`, whose programs stop when all clip
IDs are given out and their reads wait. (A part of `services` that has nothing left to
do after a marked race stutters by a step of its own.)

**Fairness.** `ExecTask!FairSpec` assumes that the host raises the interrupt
again and again (the 50 Hz timer of the main loop) while multitasking is enabled,
that the handler ends, that Dispatch() and the rest of Wait() and RemTask()
get on between interrupts (a frame is much longer than they are), and that
programs do not keep interrupts or multitasking disabled for ever.
`IrqDelivery!Fairness` assumes that slices end and the loop goes on (it is a
plain `while`), that the ROM's own code makes progress, and that a task calls the
Enable() of its outermost Disable(). It assumes nothing of SIGALRM.
`ExecIO!FairSpec` assumes that time passes, that the vertical blank comes again
when an entry has expired (without one its hook changes nothing), and that a task inside
exec or the device goes on, which is what `live`
shows of the scheduler and of the interrupt. It does not assume that a program
ever makes a call.

`RequestsComplete` and `WaitIOReturns` have the form []<>: a request is again and again done or not in
use, a task again and again outside WaitIO(). Since a request stays in use until it is
done and a task stays in WaitIO() until that returns, this is the same as saying that each use
and each call ends. SemLock and IORequests allow a step only if it changes
something; the refinements lose nothing, since a step that changes nothing is a stutter.

The modules of `services` also define type invariants (`TypeOK`, `SwitchTypeOK`,
`ProcTypeOK`, ...) that say what values the variables have. The run does not list them;
most are proved as parts of the inductive invariants of Section 5.

Each property of a passing run has a mutant in `PROJECT.json`: a variant of one
mapped definition, with a plausible bug, under which TLC finds the property violated.

## 4. What the checks found

1. **RemTask() of another task** (`task_remother`, `exec.c:2033`) marks the task
   as removed only after Enable(). A signal in between puts it back into the ready
   queue.
2. **Preemption in the middle of Disable()** (`irq_critical`, `exec.c:1043`).
   INTENA is written first, the counter second. A pending interrupt that is taken at
   an SR load or slice border before the count lets other tasks run, and the
   preempted task comes back, from a saved counter of -1, with interrupts on.
3. **The window of Dispatch()** (`switch_window`, `exceptions.s:213`). An
   interrupt that makes Schedule() switch while Dispatch() runs with the CPU
   unmasked stores the context of the new task on the stack of the old one.
   This needs an exception, a higher priority task, or a quantum of zero:
   `FramesKept` shows that nothing goes wrong otherwise.
4. **Semaphores after a contended call** (`sem_mutex`, `exec.c:4222`).
   Wait() remembers TDNestCnt and sets it to -1; Switch() saves IDNestCnt and
   TDNestCnt with one word move (`exceptions.s:164`) and so overwrites what Wait()
   remembered. After the sleep multitasking is enabled inside the Forbid() of
   ObtainSemaphore(), and the Permit() takes the counter to -2. The Forbid() in the next
   ReleaseSemaphore() then keeps nobody out, and two tasks hold a semaphore.
5. **Contended shared requests** (`sem_shared`, `exec.c:4266`). The release does
   not take SM_SHARED off the waiter's address before it makes it the owner and
   signals it: the waiter sleeps for ever.
6. **The mouse queue** (`intui_mousequeue`, `lxa_intuition.c:7234`).
   `_post_idcmp_message` compares the count of mouse moves with the limit before
   it collects the replies that lower the count. When the queue has been full once, the
   window gets no mouse move, although it has replied to all of them, until a message
   of another class is posted to it.

7. **A posted clip** (`clip_posted`, `lxa_dev_clipboard.c:300`). A read sends the
   SatisfyMsg before it is entered as the read that waits. A poster that gets the CPU at
   that PutMsg() writes and commits the clip for nobody, and the read then waits for
   a clip that is there. With one reader, and nobody in between, `ReadersAreServed` holds.

Other weaknesses that modelling showed are in `PROJECT.json` under "hazards" and
are excepted by name in the properties: Exit() frees the slot that ends
RunCommand()'s wait before it stores the return code (`lxa_dos.c:2424`,
`ExitCodeArrives` has the exception), the task array is replaced while others
use it (`raced`), closing a console closes a descriptor of the host (`stdClosed`),
the four cases of `overtaken`, and programs that are in clipboard.device at the
same time (`disturbed`).

## 5. Proofs

Each theorem below is checked by TLAPS for all values of the constants that the
assumptions of its module allow. Those assumptions are the named `ASSUME`s in the
modules; TLC evaluates them in the runs. A property is seldom inductive as it stands, so
the proofs of one component go through one inductive invariant: a lemma for the initial
state, one lemma per action or group of actions, one that puts them together, and a theorem per
property that the invariant implies. Action properties follow from the invariant and the step.

| module | inductive invariant | theorem | property |
|---|---|---|---|
| `ExecTaskProofs` | `IInv` | `TypeCorrect` | `TypeOK` |
| | | `QueuesAgree`, `ReadyQueueSorted` | `QueueConsistent`, `ReadySorted` |
| | | `WakeupsKept` | `NoLostWakeup` |
| | | `DisableNesting` | `DisableBalanced` |
| | | `HighestPriority`, `NobodyOvertaken` | `HighestPriorityRuns`, `ReadyFifo` |
| | | `ExceptionsHandled`, `HaltsLast` | `ExceptionsServed`, `HaltOnlyWhenAllGone` |
| `IrqDeliveryProofs` | `IrqInv` | `NestingSurvives` | `NestingKept` |
| | | `VBlanksKept` | `NoVBlankLost` |
| `ExecSwitchProofs` | `SwitchInv` | `SwitchTypeCorrect` | `SwitchTypeOK` |
| | | `SwitchQueueAgrees`, `FramesSurvive` | `QueueMatchesStates`, `FramesKept` |
| | | `RteReturnsWhenProtected` | the property that `switch_window` violates, where `WindowProtected` |
| `ExecSemProofs` | `SemInv` | `SemaphoresExclude` | `MutualExclusion`, which `sem_mutex` violates otherwise |
| | | `CountsRight`, `RequestsRemembered` | `CountsAgree`, `NoRequestForgotten` |
| | | `ObtainedAreOwned` | `ObtainedIsOwned` |
| | | `SemaphoresImplementLock` | `ImplementsLock` (refinement of SemLock) |
| `ExecIOProofs` | `IOInv` | `RequestsAreSomewhere` | `IOInv` itself |
| | | `RemovesWhatIsLinked`, `SleepersAreWoken` | `WaitIORemovesLinked`, `NoSleeperForgotten` |
| | | `NodesHaveOnePlace` | `OnePlace` |
| | | `RequestsImplementIO` | `ImplementsRequests` (refinement of IORequests) |
| `ExecMemProofs` | `MemIInv` | `FreeListStaysSorted` | `FreeListSorted` |
| | `MemShared` | `MemoryStaysShared` | `MemShared` itself |
| | | `MemoryHasOneOwner`, `PoolBlocksStayApart` | `OneOwner`, `PoolBlocksApart` |
| | | `GivesUpWhenFull` | `GivesUpOnlyWhenFull` |
| `ServicesProofs` | `ClipInv` | `ReadersServed` | `ReadersAreServed` |
| | `FilesInv` | `FilesTypeCorrect` | `FilesTypeOK` |
| | | `RecordsAlwaysExclude`, `OwnersKeepFilesOpen` | `RecordsExclude`, `OwnersHaveFileOpen` |
| | `UndoInv` | `FailedLocksUndone` | `FailedLockRecordsUndone` |
| | `ProcInv` | `ProcTypeCorrect` | `ProcTypeOK` |
| | | `SlotsAlwaysName` | `SlotsNameProcesses` |
| | | `CallersWait`, `CallersGetTheCode` | `WaitsForItsChild`, `ExitCodeArrives` |
| | `AudioInv` | `QueuesPlay` | `QueuedWritesPlay` |
| | `IdcmpInv` | `IdcmpTypeCorrect` | `IdcmpTypeOK` |
| | | `MessagesCanReturn` | `MessagesHavePorts` |
| | | `MessagesNeverLeak`, `MouseMovesBounded` | `NoMessageLeaks`, `MouseMovesCounted` |

Theorems about operators, which these proofs cite:

| module | theorem | states |
|---|---|---|
| `ExecListLemmas` | `EnqueueKeepsOrder`, `UnlinkKeepsOrder`, `TailKeepsOrder` | the node is added or taken once and nothing else changes; a sorted list stays sorted |
| | `EnqueueOvertakesNone` | the order of the others is kept, and the node goes behind all of its own priority |
| | `PickedHoldsThose` | `Picked`, a recursive function, gives the nodes of a list that are in a set, once and in order |
| `ExecMemProofs` | `CarveTakesBlock`, `CutOutTakesRegion` | Allocate() and AllocAbs() take exactly the bytes of their block out of the free memory |
| | `DeallocateGivesRegion`, `RefusesFreeMemory` | Deallocate() adds exactly the bytes of its block, and refuses one of which a byte is free |

### Scheduler, interrupt, switch

The properties of ExecTask depend on each other: the queue stays sorted only if no node is
enqueued twice, which rests on the queues agreeing with the states; a woken task is
enqueued only if its state is TS_WAIT, which must mean that it sleeps in Wait();
the saved counter is right only if the task that reaches Switch() is the one the
counter in ExecBase belongs to. So they are proved together:

    IInv == TypeOK /\ Queues /\ Sleepers /\ DisableBalanced

`Queues` is QueueConsistent and ReadySorted in terms of the list predicates of
`ExecListLemmas`. `Sleepers` strengthens NoLostWakeup: a task in TS_WAIT is at the
place "wait" of its program, a task inside Wait() waits for something, a task that
can still be signalled is not on its way out. HaltOnlyWhenAllGone has a step lemma of its
own, because only EmuWait() halts. For ReadyFifo the lemma `QueueChanges` says of
every step which of Enqueue(), Remove() and RemHead() it does to the ready queue; the list lemmas
say that none of them lets one task overtake another.

    IrqInv == IrqTypeOK /\ HandlerMasked /\ NestingKept

HandlerMasked says that the handler runs with the interrupt masked, so what it goes
back to is what it came from. NoVBlankLost is an action property that holds for lxa's
loop; of a program on liblxa it says nothing.

    SwitchInv == SwitchTypeOK /\ Running /\ Matches /\ (WindowProtected => Protected)

`Running` says at which points of the code ThisTask is TS_RUN, without which Enqueue()
could meet a task that is queued already. `Protected` holds where programs have one
priority, no exceptions and a quantum that is not zero: while the window of
Dispatch() can be interrupted the time slice is fresh, so Schedule() in the interrupt does not
switch, and every frame stays on its own stack. It rests on the bound of
one interrupt in one window (Section 3).

### Semaphores

The theorems of ExecSem assume `Careful` programs and `~SharedMayWait`, that programs
ask in shared mode only for what they get at once. Both are constants of the model.
Without them the properties are false, which `sem_mutex` and `sem_shared` show
(Section 4, 4 and 5); with them

    SemInv == TypeOK /\ Alone
              /\ \A s \in Sems : Owned(s) /\ Queued(s) /\ Waiting(s)
              /\ \A t \in Tasks : Inside(t)

`Alone` is what Forbid() is worth there: at most one task is in the part of a call that it
protects. For each semaphore, `Owned` relates ss_Owner and ss_NestCount to the owners,
`Queued` relates ss_QueueCount to the queue, `Waiting` says who is in it, each but for what the one task
inside is doing; `Inside` says what a task has done at each place. SemLock is implemented under
the mapping of `ExecSem!Lock`: `StepSimulated` names for every action the step
of SemLock it is, or shows that it changes none of SemLock's variables.

### I/O requests

`IOInv` says of each request where it is: in its task's hand, in one entry of the
host's queue, or in its task's port, and how IOF_QUICK and ln_Type tell these
places apart; of each message whether it is being sent, in one port or taken; and that nobody sleeps
who should be awake. So what WaitIO() removes is always linked, although it does not
look. VBlankHook() replies any number of entries in one step; `Picked`, which gives
them in the order of the queue, is a recursive function, and what it returns is proved with
the first index at which it could be wrong. IORequests is implemented under the mapping of
`ExecIO!IO`: each step starts, completes or collects, in the case of
VBlankHook() for several requests at once, or leaves the abstract states alone.

### Memory

    MemIInv   == MemTypeOK /\ FreeListSorted /\ EntriesInRange
    MemShared == MemIInv /\ Shared /\ PoolRight(memPool, poolBlocks) /\ EntriesRight

EntriesInRange says that the place of a caller in its memory list is one of
the list. The theorems about single calls are about every sorted list; they rest
on three lemmas about what removing, replacing and inserting a chunk does to the set of free
bytes (`RemoveKeeps`, `ReplaceKeeps`, `InsertKeeps`). `Shared` names every holding (a
block, an entry of a list, the header of a list, a puddle) and says that every byte of the
memory is free or in exactly one holding, and that mh_Free is the number of the free
ones. Each action adds holdings, takes some away or moves one from one owner to
another, and each of these is a lemma of its own. `PoolRight` says that the blocks of a pool
lie in the used part of
its puddles and are disjoint, `EntriesRight` that a list whose AllocEntry() is done is
complete.

FreeListStaysSorted holds for any calls. The theorems about `MemShared` assume `Aligned(AbsUnit)`: that
programs call AllocAbs() for regions that begin and end at a multiple of MEM_BLOCKSIZE.
AllocAbs() takes others as they are, and FreeMem(), which rounds, then returns other bytes than AllocAbs()
took.

### Clipboard, files, processes, audio, messages

ReadersAreServed rests on what is known of the programs inside the device: one
that is asking for a clip asks for the current one (`AskingRight`), one that is updating is
alone (`UpdatesAlone`), and a SatisfyMsg that was sent was for the current clip. All
theorems of the clipboard have the exception `disturbed`, as the property has.

`FilesInv` adds to RecordsExclude that every open file has a descriptor of its own
that is not one of the first three, and that the owner of a locked record has the
file of that record open, both until a console handle is closed (`stdClosed`). `UndoInv` counts:
at every step of LockRecords() and of its rollback, the records the program has locked, less those it
will still give back, are the ones it had before.

`ProcInv` says, until an array was used after its replacement (`raced`), that slots and numbers name each
other (`Numbered`), that a child which does not run yet has one creator, whose exit
block it has (`Children`), and that who waits knows the number of a child that is
alive or has its code (`Watched`). The last is what makes the reuse of addresses and slots
harmless: nobody can get
the address of a child before it has told all who watch it.

`AudioInv` is QueuedWritesPlay and the types, of the device as one value (`DeviceRight`), so that
it can be said of the device in the middle of a command. ADCMD_FINISH without
ADIOF_SYNCCYCLE ends the writes of a set of channels, and a channel that is given
away answers a list of requests; both are folds in the model. That each of them keeps DeviceRight is proved
of the smallest set, or the shortest part of the list, for which it could fail
(`FinishKeeps`, `AnswersKeep`); that such a fold has a value at all is proved the same way. The
theorem assumes that there are finitely many channels.

    IdcmpInv == IdcmpTypes /\ messageMem <= MaxMessages /\ (overtaken \/ Messages)

`Messages` says, until one of the four marked races occurs, what the three properties of
IntuiMessages need of each other. A window has one owner and is in the screen's list while it has one
(`OwnersRight`). A program that posts to a window finds its ports there until it has counted
the message, and one that takes the ports away has replied to all that it held
(`WorkRight`); both cannot be at one window, because that race is marked. The fields of the
window name only ports that exist (`PortsRight`); a message waits at the port its
window's field names, or at one that is just being removed, and a shared port has only messages of
windows that share it (`QueueRight`, `SharedRight`). So the reply port outlives
the messages that have to go back to it. `MovesRight` adds to MouseMovesCounted the moves that have
passed the test of the limit and are not counted yet: that bounds how far programs
that post at once can exceed the limit. `Conserved` is the balance of
NoMessageLeaks: each action moves a message from one of its terms to
another. The terms are sums over windows and programs and numbers of occurrences in
sequences. What a change at one place does to such a sum is proved of the smallest
set for which it could fail, as for AudioDevice; this is why
`WindowsAssumption` asks for finitely many windows and programs.

### Only model-checked

Liveness (`ReadyEventuallyRuns`, `VBlankServed`, `RequestsComplete`,
`WaitIOReturns`) is out of the prover's reach. Every other property of a run that holds
has a theorem.

## 6. Plan

In this order; each step comes with its runs and, where named, its theorems.

1. ExecTask, IrqDelivery, ExecSwitch, ExecSem, ExecPorts, ExecIO, ExecMem,
   DosProcess, DosFiles, IntuiMessages, ClipboardDevice and AudioDevice: done, except
   Procure() and Vacate(), overlapping lists, the liveness of waiting for a
   semaphore, OpenDevice() and CloseDevice(), and a device whose replies come from
   a task.
2. Proofs of the safety properties that the runs check: done (Section 5).
3. Memory with tasks: RemTask() frees the stack it runs on; allocation in the
   interrupt handler.
4. DOS packets and notification.
5. Devices with pending reads: console, keyboard; audio.device with the vertical
   blank inside its commands.
6. Layer locking, the event rings, path lookup.

## 7. Not modelled

Drawing, file formats, number formats, floating point, the CPU's instructions:
data without a protocol. BGUI, Musashi and softfloat are third-party code, most of it instruction tables and
rendering, and most of the lines of the repository; of Musashi, the points at which
interrupts are seen are modelled, of BGUI the handling of a shared message port. Commands,
samples and tests are programs that run
on the system. Start-up beyond the creation of the first process is left out.
Everything in Section 1 that Section 6 still plans is not modelled yet.
