----------------------------- MODULE MCServices -----------------------------
(* Model checking of eight parts of the ROM that share no state: the       *)
(* signal semaphores, the context switch and the memory of exec, the       *)
(* processes and the files of dos.library, the messages of                 *)
(* intuition.library, clipboard.device and audio.device.                   *)
(* In a behaviour one of them moves, from any of its initial states; the   *)
(* others stand still.                                                     *)
EXTENDS ExecSem, ExecSwitch, ExecMem, DosProcess, DosFiles, IntuiMessages,
        ClipboardDevice, AudioDevice, TLC

CONSTANT StartTask    \* the task that no symmetry exchanges with others

VARIABLE part
servicesVars == <<vars, switchVars, memVars, procVars, fileVars, idcmpVars,
                  clipVars, audioVars, part>>

ServicesInit ==
    /\ part \in {"semaphores", "switch", "memory", "processes", "files", "messages",
                "clipboard", "audio"}
    /\ Init /\ MemInit /\ SwitchInit /\ ProcInit /\ FilesInit /\ IdcmpInit
    /\ ClipInit /\ AudioInit
    /\ part # "switch" =>
          ~exceptions /\ ThisTask = StartTask /\ \A t \in SwitchTasks : ln_Pri[t] = 0
    /\ exceptions => \A t \in SwitchTasks \ {StartTask} : ln_Pri[t] = 0

ServicesNext ==
    \/ /\ part = "semaphores" /\ Next
       /\ UNCHANGED <<switchVars, memVars, procVars, fileVars, idcmpVars,
                      clipVars, audioVars, part>>
    \/ /\ part = "switch" /\ SwitchNext
       /\ UNCHANGED <<vars, memVars, procVars, fileVars, idcmpVars,
                      clipVars, audioVars, part>>
    \/ /\ part = "memory" /\ MemNext
       /\ UNCHANGED <<vars, switchVars, procVars, fileVars, idcmpVars,
                      clipVars, audioVars, part>>
    \/ /\ part = "processes" /\ ProcNext
       /\ UNCHANGED <<vars, switchVars, memVars, fileVars, idcmpVars,
                      clipVars, audioVars, part>>
    \/ /\ part = "files" /\ FilesNext
       /\ UNCHANGED <<vars, switchVars, memVars, procVars, idcmpVars,
                      clipVars, audioVars, part>>
    \/ /\ part = "messages" /\ IdcmpNext
       /\ UNCHANGED <<vars, switchVars, memVars, procVars, fileVars, clipVars, audioVars, part>>
    \/ /\ part = "clipboard" /\ ClipNext
       /\ UNCHANGED <<vars, switchVars, memVars, procVars, fileVars, idcmpVars,
                      audioVars, part>>
    \/ /\ part = "audio" /\ AudioNext
       /\ UNCHANGED <<vars, switchVars, memVars, procVars, fileVars, idcmpVars,
                      clipVars, part>>

ServicesSpec == ServicesInit /\ [][ServicesNext]_servicesVars

\* An entry of no length between two others, and a list of one entry.
ThreeEntries == <<2, 0, 4>>
MemListLengths == {ThreeEntries, <<3>>}

\* Two records that overlap in one byte.
OverlappingRecords == {[offset |-> 0, length |-> 2], [offset |-> 1, length |-> 2]}

\* What the audio programs ask for: both channels, or one of them.
ChannelCombinations == {<<{"c1", "c2"}, {"c2"}>>}

\* Only one part moves, so the parts can share model values: a permutation of
\* the semaphores renames processes, programs, handles and windows with them, one
\* of the window's programs two of the tasks and the files.
ServicesSymmetry == Permutations(Sems) \cup Permutations(WindowTasks)
=============================================================================
