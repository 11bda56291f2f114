--------------------------- MODULE ClipboardDevice ---------------------------
(***************************************************************************)
(* The primary unit of clipboard.device (src/rom/lxa_dev_clipboard.c).     *)
(*                                                                         *)
(* A program writes a clip and commits it with CMD_UPDATE, or only         *)
(* announces one with CBD_POST: the first CMD_READ of a posted clip sends  *)
(* its program a SatisfyMsg and waits for the CMD_UPDATE.  The device      *)
(* protects nothing from other tasks; here they get the CPU where its code *)
(* calls PutMsg(), ReplyMsg() or a change hook, and whoever it wakes may   *)
(* run at once.                                                            *)
(***************************************************************************)
EXTENDS Integers, FiniteSets

CONSTANTS
    ClipTasks,      \* the programs, each with a request to read with
    MaxClips        \* bound: how many clip IDs are given out

ASSUME MaxClipsAssumption == MaxClips \in Nat

VARIABLES
    currentClip,    \* cu_CurrentClipID, 0 before the first clip
    dataClip,       \* cu_DataClipID
    writeClip,      \* cu_WriteClipID
    nextClip,       \* cu_NextClipID
    postActive,     \* cu_PostActive
    satisfySent,    \* cu_SatisfySent
    satisfyClip,    \* sm_ClipID of the last SatisfyMsg that was sent
    pendingRead,    \* cu_PendingRead: nobody's or one program's request
    readClip,       \* io_ClipID of each program's request
    reading,        \* the programs whose CMD_READ has not been answered
    inDevice,       \* where a program is in BeginIO(): nowhere, asking for a clip,
                    \* posting one, in the change hooks of an update
    disturbed       \* another task or a second reader got in between

clipIds == <<currentClip, dataClip, writeClip, nextClip>>
askVars == <<postActive, satisfySent, satisfyClip>>
clipVars == <<clipIds, askVars, pendingRead, readClip, reading, inDevice, disturbed>>

ClipInit ==
    /\ currentClip = 0 /\ dataClip = 0 /\ writeClip = 0 /\ nextClip = 1
    /\ postActive = FALSE /\ satisfySent = FALSE /\ satisfyClip = 0
    /\ pendingRead = {} /\ readClip = [t \in ClipTasks |-> 0] /\ reading = {}
    /\ inDevice = [t \in ClipTasks |-> "no"]
    /\ disturbed = FALSE

\* A program can call the device while its read, sent with SendIO(), waits.
Free(t) == inDevice[t] = "no"
ComesTo(t, place) == inDevice' = [inDevice EXCEPT ![t] = place]
OthersInDevice(t) == \E u \in ClipTasks \ {t} : ~Free(u)
ClipsGiven == 1 .. nextClip - 1

-----------------------------------------------------------------------------
(* CMD_READ.                                                               *)

\* The unit remembers one reader: one that waits already is forgotten.
Register(t) ==
    /\ pendingRead' = {t}
    /\ disturbed' = (disturbed \/ ~(pendingRead \subseteq {t}))

\* The read of a clip that is posted and not there yet.  All other reads are
\* answered at once and change nothing.
ClipRead(t) ==
    /\ Free(t) /\ t \notin reading
    /\ currentClip # 0 /\ dataClip # currentClip /\ postActive
    /\ readClip' = [readClip EXCEPT ![t] = currentClip]
    /\ reading' = reading \cup {t}
    /\ IF satisfySent
       THEN Register(t) /\ UNCHANGED <<satisfyClip, inDevice>>
       ELSE /\ satisfyClip' = currentClip
            /\ ComesTo(t, "asking")
            /\ UNCHANGED <<pendingRead, disturbed>>
    /\ UNCHANGED <<clipIds, postActive, satisfySent>>

\* Back from PutMsg() of the SatisfyMsg: the read is registered only now.
ClipReadAsked(t) ==
    /\ inDevice[t] = "asking"
    /\ satisfySent' = TRUE
    /\ Register(t)
    /\ ComesTo(t, "no")
    /\ UNCHANGED <<clipIds, postActive, satisfyClip, readClip, reading>>

-----------------------------------------------------------------------------
(* CMD_WRITE and CMD_UPDATE.                                               *)

\* A write without an ID begins a clip or goes on with the one that somebody
\* has begun.
ClipWriteNew(t) ==
    /\ Free(t) /\ writeClip = 0 /\ nextClip <= MaxClips
    /\ writeClip' = nextClip /\ nextClip' = nextClip + 1
    /\ UNCHANGED <<currentClip, dataClip, askVars, pendingRead, readClip, reading>>
    /\ UNCHANGED <<inDevice, disturbed>>

\* A write with an ID, as the poster makes it, fails when another clip is begun.
ClipWrite(t, id) ==
    /\ Free(t) /\ writeClip = 0
    /\ writeClip' = id
    /\ UNCHANGED <<currentClip, dataClip, nextClip, askVars, pendingRead, readClip, reading>>
    /\ UNCHANGED <<inDevice, disturbed>>

\* CMD_UPDATE of the clip that is begun, up to the change hooks.
ClipUpdate(t) ==
    /\ Free(t) /\ writeClip # 0
    /\ dataClip' = writeClip /\ currentClip' = writeClip /\ writeClip' = 0
    /\ postActive' = FALSE /\ satisfySent' = FALSE
    /\ ComesTo(t, "updating")
    /\ disturbed' = (disturbed \/ OthersInDevice(t))
    /\ UNCHANGED <<nextClip, satisfyClip, pendingRead, readClip, reading>>

\* The pending read must wait on: another clip was posted meanwhile.
WaitsOn(r) == readClip[r] = currentClip /\ dataClip # currentClip /\ postActive

\* clipboard_complete_pending_read() and the end of CMD_UPDATE.  Nobody comes in
\* between: the pending read is taken out before anybody is told.
ClipUpdated(t) ==
    LET waiting == { r \in pendingRead : WaitsOn(r) }
    IN  /\ inDevice[t] = "updating"
        /\ pendingRead' = waiting
        /\ reading' = reading \ (pendingRead \ waiting)
        /\ IF waiting # {} /\ ~satisfySent
           THEN satisfySent' = TRUE /\ satisfyClip' = currentClip
           ELSE UNCHANGED <<satisfySent, satisfyClip>>
        /\ ComesTo(t, "no")
        /\ UNCHANGED <<clipIds, postActive, readClip, disturbed>>

-----------------------------------------------------------------------------
(* CBD_POST and AbortIO().                                                 *)

\* Mutant: the read that waits for the clip before is left waiting.
ClipPostKeepsReader(t) ==
    /\ Free(t) /\ nextClip <= MaxClips
    /\ postActive' = TRUE /\ satisfySent' = FALSE
    /\ currentClip' = nextClip /\ nextClip' = nextClip + 1
    /\ disturbed' = (disturbed \/ OthersInDevice(t))
    /\ UNCHANGED <<dataClip, writeClip, satisfyClip, pendingRead, readClip, reading, inDevice>>

\* A read that waits for the clip before is answered with CBERR_OBSOLETEID, and
\* forgotten when ReplyMsg() is back.
ClipPost(t) ==
    /\ Free(t) /\ nextClip <= MaxClips
    /\ postActive' = TRUE /\ satisfySent' = FALSE
    /\ currentClip' = nextClip /\ nextClip' = nextClip + 1
    /\ reading' = reading \ pendingRead
    /\ IF pendingRead = {} THEN UNCHANGED inDevice ELSE ComesTo(t, "posting")
    /\ disturbed' = (disturbed \/ OthersInDevice(t))
    /\ UNCHANGED <<dataClip, writeClip, satisfyClip, pendingRead, readClip>>

ClipPosted(t) ==
    /\ inDevice[t] = "posting"
    /\ disturbed' = (disturbed \/ pendingRead \cap reading # {})
    /\ pendingRead' = {}
    /\ ComesTo(t, "no")
    /\ UNCHANGED <<clipIds, askVars, readClip, reading>>

ClipAbort(t) ==
    /\ Free(t) /\ pendingRead = {t} /\ t \in reading
    /\ pendingRead' = {} /\ reading' = reading \ {t}
    /\ UNCHANGED <<clipIds, askVars, readClip, inDevice, disturbed>>

-----------------------------------------------------------------------------
ClipNext ==
    \E t \in ClipTasks :
        \/ ClipRead(t) \/ ClipReadAsked(t) \/ ClipAbort(t)
        \/ ClipWriteNew(t) \/ \E id \in ClipsGiven : ClipWrite(t, id)
        \/ ClipUpdate(t) \/ ClipUpdated(t) \/ ClipPost(t) \/ ClipPosted(t)

ClipSpec == ClipInit /\ [][ClipNext]_clipVars

-----------------------------------------------------------------------------
(* Properties.                                                             *)

\* Until somebody gets in between, a read that waits is the one the unit
\* remembers, waits for the current clip, and the program that posted this very
\* clip has been asked for it; or it is just being answered or asked for.
ReadersAreServed ==
    disturbed \/ \A t \in reading :
        \/ inDevice[t] = "asking" /\ readClip[t] = currentClip
        \/ /\ pendingRead = {t}
           /\ \/ /\ readClip[t] = currentClip /\ satisfyClip = currentClip
                 /\ postActive /\ satisfySent
              \/ \E u \in ClipTasks : inDevice[u] = "updating"

\* "satisfying posted clip completes pending read": when the current clip is
\* there and nobody is in the device, no read of it waits.
PostedClipCompletesReads ==
    currentClip = dataClip /\ (\A u \in ClipTasks : Free(u))
        => \A t \in reading : readClip[t] # currentClip

=============================================================================
