--------------------------- MODULE ServicesProofs ---------------------------
(***************************************************************************)
(* What the services above exec promise for any number of programs,        *)
(* files, records, processes, clips, channels and windows:                 *)
(* clipboard.device, the files and record locks of dos.library, its        *)
(* processes, audio.device, the messages of intuition.library.             *)
(*                                                                         *)
(* Each part has its own inductive invariant, as none of the properties is *)
(* inductive: a reader is served because of what is known of the programs  *)
(* inside the device (ClipInv); the owner of a record has its file open    *)
(* because descriptors are not shared (FilesInv); a failed LockRecords()   *)
(* is undone because of what is still locked at each step of the rollback  *)
(* (UndoInv); a caller waits for its child because nobody else can be at   *)
(* the address of the child before that has told all who watch (ProcInv);  *)
(* a write plays because every command, also in the middle of its fold     *)
(* over channels or requests, leaves the device right (AudioInv); a        *)
(* message has a port and comes back because nobody posts to a window that *)
(* is being closed, and because all of them are counted (IdcmpInv).        *)
(***************************************************************************)
EXTENDS AudioDevice, ClipboardDevice, DosFiles, DosProcess, IntuiMessages, ExecListLemmas,
        FiniteSetTheorems

-----------------------------------------------------------------------------
(* clipboard.device.                                                       *)

ClipPlaces == {"no", "asking", "posting", "updating"}

\* A program that asks for a clip asks for the current one, which is posted.
AskingRight ==
    \A t \in ClipTasks : inDevice[t] = "asking" =>
        t \in reading /\ readClip[t] = currentClip /\ satisfyClip = currentClip /\ postActive

\* An update leaves nothing posted, and its program is alone in the device.
UpdatesAlone ==
    \A u \in ClipTasks : inDevice[u] = "updating" =>
        ~postActive /\ \A v \in ClipTasks \ {u} : Free(v)

\* A SatisfyMsg that was sent was sent for the current clip.
SentForCurrent == postActive /\ satisfySent => satisfyClip = currentClip

Served(t) ==
    \/ inDevice[t] = "asking"
    \/ /\ pendingRead = {t}
       /\ \/ /\ readClip[t] = currentClip /\ satisfyClip = currentClip
             /\ postActive /\ satisfySent
          \/ \E u \in ClipTasks : inDevice[u] = "updating"

ClipTypeOK ==
    /\ inDevice \in [ClipTasks -> ClipPlaces]
    /\ reading \subseteq ClipTasks
    /\ DOMAIN readClip = ClipTasks

ClipInv ==
    /\ ClipTypeOK
    /\ disturbed \/ /\ AskingRight /\ UpdatesAlone /\ SentForCurrent
                    /\ \A t \in reading : Served(t)

\* The state at the start satisfies the invariant.
LEMMA InitClipInv == ClipInit => ClipInv
  BY DEF ClipInit, ClipInv, ClipTypeOK, ClipPlaces, AskingRight, UpdatesAlone, SentForCurrent

\* CMD_READ, and what it does when the SatisfyMsg is sent.
LEMMA ClipReadSteps ==
  ASSUME ClipInv, NEW t \in ClipTasks, ClipRead(t) \/ ClipReadAsked(t) PROVE ClipInv'
<1>1. ClipTypeOK'
  BY DEF ClipInv, ClipTypeOK, ClipPlaces, ClipRead, ClipReadAsked, ComesTo
<1>2. SUFFICES ASSUME ~disturbed'
               PROVE  AskingRight' /\ UpdatesAlone' /\ SentForCurrent' /\ \A r \in reading' : Served(r)'
  BY <1>1 DEF ClipInv
<1>3. ~disturbed
  BY <1>2 DEF ClipRead, ClipReadAsked, Register
<1>4. ClipTypeOK /\ AskingRight /\ UpdatesAlone /\ SentForCurrent /\ \A r \in reading : Served(r)
  BY <1>3 DEF ClipInv
<1>5. CASE ClipRead(t) /\ satisfySent
  <2>1. /\ pendingRead' = {t} /\ pendingRead \subseteq {t}
        /\ t \notin reading /\ reading' = reading \cup {t}
        /\ postActive /\ readClip' = [readClip EXCEPT ![t] = currentClip]
        /\ UNCHANGED <<clipIds, postActive, satisfySent, satisfyClip, inDevice>>
    BY <1>2, <1>5 DEF ClipRead, Register
  <2>2. \A r \in reading : inDevice[r] = "asking"
    BY <1>4, <2>1 DEF Served
  <2> QED BY <1>4, <1>5, <2>1, <2>2
          DEF ClipTypeOK, AskingRight, UpdatesAlone, SentForCurrent, Served, Free, clipIds
<1>6. CASE ClipRead(t) /\ ~satisfySent
  <2>1. /\ Free(t) /\ t \notin reading /\ reading' = reading \cup {t}
        /\ postActive /\ readClip' = [readClip EXCEPT ![t] = currentClip]
        /\ satisfyClip' = currentClip /\ inDevice' = [inDevice EXCEPT ![t] = "asking"]
        /\ UNCHANGED <<clipIds, postActive, satisfySent, pendingRead>>
    BY <1>6 DEF ClipRead, ComesTo
  <2>2. \A u \in ClipTasks : inDevice[u] # "updating"
    BY <1>4, <2>1 DEF UpdatesAlone
  <2> QED BY <1>4, <1>6, <2>1, <2>2
          DEF ClipTypeOK, AskingRight, UpdatesAlone, SentForCurrent, Served, Free, clipIds
<1>7. CASE ClipReadAsked(t)
  <2>1. /\ inDevice[t] = "asking" /\ satisfySent' = TRUE
        /\ pendingRead' = {t} /\ pendingRead \subseteq {t}
        /\ inDevice' = [inDevice EXCEPT ![t] = "no"]
        /\ UNCHANGED <<clipIds, postActive, satisfyClip, readClip, reading>>
    BY <1>2, <1>7 DEF ClipReadAsked, Register, ComesTo
  <2> QED BY <1>4, <2>1
          DEF ClipTypeOK, AskingRight, UpdatesAlone, SentForCurrent, Served, Free, clipIds
<1> QED BY <1>5, <1>6, <1>7

\* CMD_WRITE.
LEMMA ClipWriteSteps ==
  ASSUME ClipInv, NEW t \in ClipTasks, ClipWriteNew(t) \/ \E id \in ClipsGiven : ClipWrite(t, id)
  PROVE  ClipInv'
<1>1. UNCHANGED <<currentClip, askVars, pendingRead, readClip, reading, inDevice, disturbed>>
  BY DEF ClipWriteNew, ClipWrite
<1> QED BY <1>1 DEF ClipInv, ClipTypeOK, AskingRight, UpdatesAlone, SentForCurrent, Served, Free, askVars

\* CMD_UPDATE, and its end after the change hooks.
LEMMA ClipUpdateSteps ==
  ASSUME ClipInv, NEW t \in ClipTasks, ClipUpdate(t) \/ ClipUpdated(t) PROVE ClipInv'
<1>1. ClipTypeOK'
  BY DEF ClipInv, ClipTypeOK, ClipPlaces, ClipUpdate, ClipUpdated, ComesTo
<1>2. SUFFICES ASSUME ~disturbed'
               PROVE  AskingRight' /\ UpdatesAlone' /\ SentForCurrent' /\ \A r \in reading' : Served(r)'
  BY <1>1 DEF ClipInv
<1>3. ~disturbed
  BY <1>2 DEF ClipUpdate, ClipUpdated
<1>4. ClipTypeOK /\ AskingRight /\ UpdatesAlone /\ SentForCurrent /\ \A r \in reading : Served(r)
  BY <1>3 DEF ClipInv
<1>5. CASE ClipUpdate(t)
  <2>1. /\ Free(t) /\ \A u \in ClipTasks \ {t} : Free(u)
        /\ postActive' = FALSE /\ satisfySent' = FALSE
        /\ inDevice' = [inDevice EXCEPT ![t] = "updating"]
        /\ UNCHANGED <<satisfyClip, pendingRead, readClip, reading>>
    BY <1>2, <1>5 DEF ClipUpdate, ComesTo, OthersInDevice
  <2> QED BY <1>4, <2>1 DEF ClipTypeOK, AskingRight, UpdatesAlone, SentForCurrent, Served, Free
<1>6. CASE ClipUpdated(t)
  <2>1. inDevice[t] = "updating" /\ inDevice' = [inDevice EXCEPT ![t] = "no"]
        /\ UNCHANGED <<clipIds, postActive, readClip>>
    BY <1>6 DEF ClipUpdated, ComesTo
  <2>2. ~postActive /\ \A v \in ClipTasks \ {t} : Free(v)
    BY <1>4, <2>1 DEF UpdatesAlone
  <2>3. reading' = reading \ pendingRead
    BY <1>6, <2>2 DEF ClipUpdated, WaitsOn
  <2>4. reading' = {}
    BY <1>4, <2>1, <2>2, <2>3 DEF ClipTypeOK, Served, Free
  <2> QED BY <1>4, <2>1, <2>2, <2>4 DEF ClipTypeOK, AskingRight, UpdatesAlone, SentForCurrent, Free
<1> QED BY <1>5, <1>6

\* CBD_POST, its end, and AbortIO() of a read.
LEMMA ClipPostSteps ==
  ASSUME ClipInv, NEW t \in ClipTasks, ClipPost(t) \/ ClipPosted(t) \/ ClipAbort(t) PROVE ClipInv'
<1>1. ClipTypeOK'
  BY DEF ClipInv, ClipTypeOK, ClipPlaces, ClipPost, ClipPosted, ClipAbort, ComesTo
<1>2. SUFFICES ASSUME ~disturbed'
               PROVE  AskingRight' /\ UpdatesAlone' /\ SentForCurrent' /\ \A r \in reading' : Served(r)'
  BY <1>1 DEF ClipInv
<1>3. ~disturbed
  BY <1>2 DEF ClipPost, ClipPosted, ClipAbort
<1>4. ClipTypeOK /\ AskingRight /\ UpdatesAlone /\ SentForCurrent /\ \A r \in reading : Served(r)
  BY <1>3 DEF ClipInv
<1>5. CASE ClipPost(t)
  <2>1. /\ Free(t) /\ \A u \in ClipTasks \ {t} : Free(u)
        /\ satisfySent' = FALSE /\ reading' = reading \ pendingRead
        /\ inDevice' = inDevice \/ inDevice' = [inDevice EXCEPT ![t] = "posting"]
    BY <1>2, <1>5 DEF ClipPost, ComesTo, OthersInDevice
  <2>2. reading' = {}
    BY <1>4, <2>1 DEF ClipTypeOK, Served, Free
  <2> QED BY <1>4, <2>1, <2>2 DEF ClipTypeOK, AskingRight, UpdatesAlone, SentForCurrent, Free
<1>6. CASE ClipPosted(t)
  <2>1. /\ inDevice[t] = "posting" /\ pendingRead \cap reading = {}
        /\ inDevice' = [inDevice EXCEPT ![t] = "no"]
        /\ UNCHANGED <<clipIds, askVars, readClip, reading>>
    BY <1>2, <1>6 DEF ClipPosted, ComesTo
  <2>2. \A r \in reading : inDevice[r] = "asking" /\ r # t
    BY <1>4, <2>1 DEF Served
  <2> QED BY <1>4, <2>1, <2>2
          DEF ClipTypeOK, AskingRight, UpdatesAlone, SentForCurrent, Served, Free, clipIds, askVars
<1>7. CASE ClipAbort(t)
  <2>1. /\ Free(t) /\ pendingRead = {t} /\ reading' = reading \ {t}
        /\ UNCHANGED <<clipIds, askVars, readClip, inDevice>>
    BY <1>7 DEF ClipAbort
  <2>2. \A r \in reading' : inDevice[r] = "asking"
    BY <1>4, <2>1 DEF Served
  <2> QED BY <1>4, <2>1, <2>2
          DEF ClipTypeOK, AskingRight, UpdatesAlone, SentForCurrent, Served, Free, clipIds, askVars
<1> QED BY <1>5, <1>6, <1>7

\* The invariant holds in every reachable state.
LEMMA AlwaysClipInv == ClipSpec => []ClipInv
<1>1. ASSUME ClipInv, [ClipNext]_clipVars PROVE ClipInv'
  <2>1. CASE ClipNext
    BY <1>1, <2>1, ClipReadSteps, ClipWriteSteps, ClipUpdateSteps, ClipPostSteps DEF ClipNext
  <2>2. CASE UNCHANGED clipVars
    BY <1>1, <2>2 DEF clipVars, clipIds, askVars, ClipInv, ClipTypeOK, AskingRight, UpdatesAlone,
                      SentForCurrent, Served, Free
  <2> QED BY <1>1, <2>1, <2>2
<1> QED BY <1>1, InitClipInv, PTL DEF ClipSpec

\* Until somebody gets in between, a read that waits is the one that the unit
\* remembers and the poster of this very clip has been asked, or it is just being
\* asked or answered.
THEOREM ReadersServed == ClipSpec => []ReadersAreServed
<1>1. ClipInv => ReadersAreServed
  BY DEF ClipInv, ClipTypeOK, AskingRight, Served, ReadersAreServed
<1> QED BY <1>1, AlwaysClipInv, PTL

-----------------------------------------------------------------------------
(* Files and record locks.                                                 *)

\* While no standard descriptor is closed, descriptors 0 to 2 are the host's,
\* every open file has one of its own, and only a handle in use has a program.
Descriptors ==
    /\ \A d \in Fds : d <= 2 => fdFile[d] = HostFile
    /\ \A h \in Handles :
          /\ fh[h].kind = "free" => fh[h].program = NoProgram
          /\ fh[h].kind = "regular" => fh[h].fd > 2 /\ fh[h].file \in Files /\ FileOf(h) = fh[h].file
          /\ fh[h].kind # "regular" => fh[h].fd <= 2
    /\ \A h, k \in Handles :
          fh[h].kind = "regular" /\ fh[k].kind = "regular" /\ fh[h].fd = fh[k].fd => h = k

\* A locked record belongs to a handle that has its file open.
Owners ==
    \A i \in InUse : /\ fh[recordLocks[i].owner].kind = "regular"
                     /\ fh[recordLocks[i].owner].file = recordLocks[i].file

FilesInv ==
    /\ FilesTypeOK
    /\ RecordsExclude
    /\ stdClosed \/ (Descriptors /\ Owners)

FhType == [kind : {"free", "regular", "console", "window"}, fd : Fds,
           file : Files \cup {NoFile}, program : Programs \cup {NoProgram}]
LockType == [file : Files \cup {HostFile}, owner : Handles, record : Records, exclusive : BOOLEAN]

\* A nonempty set of natural numbers holds its Least().
LEMMA LeastIn == ASSUME NEW S, S \subseteq Nat, S # {} PROVE Least(S) \in S
<1>1. PICK x \in S : \A y \in S : x <= y
  BY LeastElement
<1> QED BY <1>1 DEF Least

\* Two records that share a byte overlap.
LEMMA SharedByteOverlaps ==
  ASSUME NEW a \in Records, NEW b \in Records, Bytes(a) \cap Bytes(b) # {}
  PROVE  RecordsOverlap(a, b)
<1>1. /\ a.offset \in Nat /\ a.length \in Nat /\ b.offset \in Nat /\ b.length \in Nat
  BY RecordsAssumption
<1>2. PICK x : x \in Bytes(a) /\ x \in Bytes(b)
  OBVIOUS
<1> QED BY <1>1, <1>2 DEF Bytes, RecordsOverlap

\* The table with one more record, in an entry that was free.
LEMMA RecordAdded ==
  ASSUME FilesTypeOK, NEW h \in Handles, NEW r \in Records, NEW x \in BOOLEAN,
         InUse # Entries, FileOf(h) # NoFile,
         recordLocks' = RecordsWith(h, r, x)
  PROVE  \E n \in Entries \ InUse :
            /\ InUse' = InUse \cup {n}
            /\ recordLocks'[n] = [file |-> FileOf(h), owner |-> h, record |-> r, exclusive |-> x]
            /\ recordLocks'[n] \in LockType
            /\ \A i \in InUse : recordLocks'[i] = recordLocks[i]
<1> DEFINE n == Least(Entries \ InUse)
<1>1. n \in Entries \ InUse
  <2>1. Entries \ InUse # {}
    BY Zenon DEF FilesTypeOK
  <2>2. Entries \ InUse \subseteq Nat
    BY LimitsAssumption DEF Entries
  <2> QED BY <2>1, <2>2, LeastIn, Zenon
<1>2. FileOf(h) \in Files \cup {HostFile}
  BY DEF FilesTypeOK, FileOf
<1>3. recordLocks' = [i \in InUse \cup {n} |->
            IF i = n THEN [file |-> FileOf(h), owner |-> h, record |-> r, exclusive |-> x]
                     ELSE recordLocks[i]]
  BY DEF RecordsWith
<1> HIDE DEF n
<1>4. InUse' = InUse \cup {n}
  BY <1>3 DEF InUse
<1>5. recordLocks'[n] = [file |-> FileOf(h), owner |-> h, record |-> r, exclusive |-> x]
  BY <1>3
<1>6. \A i \in InUse : recordLocks'[i] = recordLocks[i]
  BY <1>1, <1>3
<1>7. recordLocks'[n] \in LockType
  BY <1>2, <1>5 DEF LockType
<1> QED BY <1>1, <1>4, <1>5, <1>6, <1>7

\* The table with fewer records.
LEMMA RecordsRemoved ==
  ASSUME NEW D, D \subseteq InUse, recordLocks' = [i \in D |-> recordLocks[i]]
  PROVE  InUse' = D /\ \A i \in D : recordLocks'[i] = recordLocks[i]
  BY DEF InUse

\* Only fewer records: what holds of the table and of pairs of records still does.
LEMMA RemovalKeeps ==
  ASSUME FilesTypeOK, RecordsExclude, NEW D, D \subseteq InUse,
         recordLocks' = [i \in D |-> recordLocks[i]]
  PROVE  /\ InUse' \subseteq Entries /\ \A i \in InUse' : recordLocks'[i] \in LockType
         /\ RecordsExclude'
<1>1. InUse' = D /\ \A i \in D : recordLocks'[i] = recordLocks[i]
  BY RecordsRemoved
<1>2. InUse' \subseteq Entries /\ \A i \in InUse' : recordLocks'[i] \in LockType
  BY <1>1, Zenon DEF FilesTypeOK, LockType
<1>3. RecordsExclude'
  BY <1>1 DEF RecordsExclude, Bytes
<1> QED BY <1>2, <1>3

\* The state at the start satisfies the invariant.
LEMMA InitFilesInv == FilesInit => FilesInv
<1> SUFFICES ASSUME FilesInit PROVE FilesInv
  OBVIOUS
<1>1. InUse = {}
  BY DEF FilesInit, InUse
<1>2. fh \in [Handles -> FhType] /\ fdFile \in [Fds -> Files \cup {HostFile, NoFile}]
  BY LimitsAssumption DEF FilesInit, NoFh, FhType, Fds
<1>3. stdClosed \in BOOLEAN
  BY Zenon DEF FilesInit
<1>4. FilesTypeOK
  BY <1>1, <1>2, <1>3 DEF FilesTypeOK, FhType
<1>5. RecordsExclude /\ Owners
  BY <1>1 DEF RecordsExclude, Owners
<1>6. Descriptors
  BY LimitsAssumption DEF FilesInit, Descriptors, NoFh, Fds
<1> QED BY <1>4, <1>5, <1>6 DEF FilesInv

\* Open() gives the file a descriptor that nobody has; without memory for the
\* buffer, nobody has it afterwards either.
LEMMA OpenStep ==
  ASSUME FilesInv, NEW p \in Programs, NEW h \in Handles, NEW f \in Files,
         Open(p, h, f) \/ OpenNoBuffer(p, h, f)
  PROVE  FilesInv'
<1>1. FilesTypeOK /\ RecordsExclude /\ UNCHANGED <<recordLocks, stdClosed>>
  BY DEF FilesInv, Open, OpenNoBuffer
<1>2. PICK d \in Fds : /\ fdFile[d] = NoFile /\ fh[h].kind = "free"
                       /\ fdFile' = [fdFile EXCEPT ![d] = f]
                       /\ \/ fh' = fh
                          \/ fh' = [fh EXCEPT ![h] = [kind |-> "regular", fd |-> d, file |-> f, program |-> p]]
  BY DEF Open, OpenNoBuffer, OpensAs, FreeFds
<1>3. /\ fdFile' \in [Fds -> Files \cup {HostFile, NoFile}]
      /\ \A e \in Fds : fdFile'[e] = IF e = d THEN f ELSE fdFile[e]
  BY <1>1, <1>2 DEF FilesTypeOK
<1>4. fh' \in [Handles -> FhType]
  BY <1>1, <1>2 DEF FilesTypeOK, FhType
<1>5. \A k \in Handles : \/ fh'[k] = fh[k]
                         \/ /\ k = h /\ fh'[k].kind = "regular" /\ fh'[k].fd = d
                            /\ fh'[k].file = f /\ fh'[k].program = p
  BY <1>1, <1>2 DEF FilesTypeOK
<1>6. FilesTypeOK'
  BY <1>1, <1>3, <1>4 DEF FilesTypeOK, FhType, InUse
<1>7. RecordsExclude'
  BY <1>1 DEF RecordsExclude, InUse, Bytes
<1>8. ASSUME ~stdClosed PROVE Descriptors' /\ Owners'
  <2>1. Descriptors /\ Owners
    BY <1>8 DEF FilesInv
  <2>2. d > 2 /\ d \in Int /\ \A k \in Handles : fh[k].kind = "regular" => fh[k].fd # d
    BY <1>2, <2>1, FilesAssumption DEF Descriptors, FileOf, Fds
  <2>3. \A k \in Handles : fh[k].fd \in Fds
    BY <1>1 DEF FilesTypeOK
  <2>4. \A e \in Fds : e <= 2 => fdFile'[e] = HostFile
    BY <1>3, <2>1, <2>2 DEF Descriptors, Fds
  <2>5. \A k \in Handles :
          /\ fh'[k].kind = "free" => fh'[k].program = NoProgram
          /\ fh'[k].kind = "regular" => fh'[k].fd > 2 /\ fh'[k].file \in Files /\ FileOf(k)' = fh'[k].file
          /\ fh'[k].kind # "regular" => fh'[k].fd <= 2
    <3> TAKE k \in Handles
    <3>1. CASE fh'[k] = fh[k]
      <4>1. fh[k].kind = "regular" => fdFile'[fh[k].fd] = fdFile[fh[k].fd]
        BY <1>3, <2>2, <2>3
      <4> QED BY <2>1, <3>1, <4>1 DEF Descriptors, FileOf
    <3>2. CASE fh'[k].kind = "regular" /\ fh'[k].fd = d /\ fh'[k].file = f
      <4>1. FileOf(k)' = f
        BY <1>3, <3>2 DEF FileOf
      <4> QED BY <2>2, <3>2, <4>1
    <3> QED BY <1>5, <3>1, <3>2
  <2>6. \A k, l \in Handles :
          fh'[k].kind = "regular" /\ fh'[l].kind = "regular" /\ fh'[k].fd = fh'[l].fd => k = l
    BY <1>5, <2>1, <2>2 DEF Descriptors
  <2>7. Descriptors'
    BY <2>4, <2>5, <2>6 DEF Descriptors
  <2>8. \A i \in InUse : recordLocks[i].owner \in Handles
    BY <1>1 DEF FilesTypeOK
  <2>9. Owners'
    BY <1>1, <1>2, <1>5, <2>1, <2>8 DEF Owners, InUse
  <2> QED BY <2>7, <2>9
<1> QED BY <1>1, <1>6, <1>7, <1>8 DEF FilesInv

\* A console or a CON: window takes a descriptor of the host.
LEMMA OpenConsoleStep ==
  ASSUME FilesInv, NEW p \in Programs, NEW h \in Handles, OpenConsole(p, h) PROVE FilesInv'
<1>1. FilesTypeOK /\ RecordsExclude /\ UNCHANGED <<fdFile, recordLocks, stdClosed>>
  BY DEF FilesInv, OpenConsole
<1>2. PICK e \in FhType : /\ fh[h].kind = "free" /\ e.kind \in {"console", "window"} /\ e.fd <= 2
                          /\ fh' = [fh EXCEPT ![h] = e]
  <2>1. PICK kind \in {"console", "window"} :
          /\ fh[h].kind = "free"
          /\ fh' = [fh EXCEPT ![h] = [NoFh EXCEPT !.kind = kind, !.program = p,
                                                  !.fd = IF kind = "console" THEN 1 ELSE 0]]
    BY DEF OpenConsole
  <2> DEFINE fd == IF kind = "console" THEN 1 ELSE 0
             e == [NoFh EXCEPT !.kind = kind, !.program = p, !.fd = fd]
  <2>2. fd \in Fds /\ fd <= 2 /\ NoFh \in FhType
    BY LimitsAssumption DEF Fds, NoFh, FhType
  <2> HIDE DEF fd
  <2>3. e \in FhType /\ e.kind = kind /\ e.fd = fd
    BY <2>2 DEF FhType
  <2>4. fh' = [fh EXCEPT ![h] = e]
    BY <2>1 DEF fd
  <2> QED BY <2>1, <2>2, <2>3, <2>4
<1>3. fh' \in [Handles -> FhType]
  BY <1>1, <1>2 DEF FilesTypeOK, FhType
<1>4. \A k \in Handles : IF k = h THEN /\ fh'[k].kind \notin {"free", "regular"} /\ fh'[k].fd <= 2
                                  ELSE fh'[k] = fh[k]
  BY <1>1, <1>2 DEF FilesTypeOK
<1>5. FilesTypeOK'
  BY <1>1, <1>3 DEF FilesTypeOK, FhType, InUse
<1>6. RecordsExclude'
  BY <1>1 DEF RecordsExclude, InUse, Bytes
<1>7. ASSUME ~stdClosed PROVE Descriptors' /\ Owners'
  <2>1. Descriptors /\ Owners
    BY <1>7 DEF FilesInv
  <2>2. Descriptors'
    BY <1>1, <1>4, <2>1 DEF Descriptors, FileOf
  <2>3. \A i \in InUse : recordLocks[i].owner \in Handles
    BY <1>1 DEF FilesTypeOK
  <2>4. Owners'
    BY <1>1, <1>2, <1>4, <2>1, <2>3 DEF Owners, InUse
  <2> QED BY <2>2, <2>4
<1> QED BY <1>1, <1>5, <1>6, <1>7 DEF FilesInv

\* Close() of a file takes its descriptor and its records away, and no others.
LEMMA CloseStep ==
  ASSUME FilesInv, NEW p \in Programs, NEW h \in Handles, Close(p, h) PROVE FilesInv'
<1> DEFINE D == { j \in InUse : recordLocks[j].owner # h }
<1>1. /\ FilesTypeOK /\ RecordsExclude
      /\ recordLocks' = [i \in D |-> recordLocks[i]]
      /\ fdFile' = [fdFile EXCEPT ![fh[h].fd] = NoFile]
      /\ fh' = [fh EXCEPT ![h] = [kind |-> "free", fd |-> 0, file |-> NoFile, program |-> NoProgram]]
      /\ ~stdClosed' => ~stdClosed /\ fh[h].kind = "regular"
  BY DEF FilesInv, Close, RecordsWithout, NoFh
<1>2. /\ InUse' \subseteq Entries /\ \A i \in InUse' : recordLocks'[i] \in LockType
      /\ RecordsExclude'
  BY <1>1, RemovalKeeps
<1>3. InUse' = D /\ \A i \in D : recordLocks'[i] = recordLocks[i]
  BY <1>1, RecordsRemoved
<1>4. fh' \in [Handles -> FhType]
  BY <1>1, LimitsAssumption DEF FilesTypeOK, FhType, Fds
<1>5. /\ fdFile' \in [Fds -> Files \cup {HostFile, NoFile}]
      /\ \A e \in Fds : fdFile'[e] = IF e = fh[h].fd THEN NoFile ELSE fdFile[e]
  BY <1>1 DEF FilesTypeOK
<1>6. \A k \in Handles : fh'[k] = IF k = h THEN [kind |-> "free", fd |-> 0, file |-> NoFile, program |-> NoProgram]
                                           ELSE fh[k]
  BY <1>1 DEF FilesTypeOK
<1>7. stdClosed' \in BOOLEAN
  BY Zenon DEF Close
<1>8. FilesTypeOK'
  BY <1>2, <1>4, <1>5, <1>7 DEF FilesTypeOK, FhType, LockType
<1>9. ASSUME ~stdClosed' PROVE Descriptors' /\ Owners'
  <2>1. Descriptors /\ Owners /\ fh[h].kind = "regular"
    BY <1>1, <1>9 DEF FilesInv
  <2>2. /\ fh[h].fd \in Fds /\ fh[h].fd > 2
        /\ \A k \in Handles : fh[k].fd \in Fds
    BY <1>1, <2>1 DEF FilesTypeOK, Descriptors
  <2>3. \A e \in Fds : e <= 2 => fdFile'[e] = HostFile
    BY <1>5, <2>1, <2>2 DEF Descriptors, Fds
  <2>4. \A k \in Handles :
          /\ fh'[k].kind = "free" => fh'[k].program = NoProgram
          /\ fh'[k].kind = "regular" => fh'[k].fd > 2 /\ fh'[k].file \in Files /\ FileOf(k)' = fh'[k].file
          /\ fh'[k].kind # "regular" => fh'[k].fd <= 2
    BY <1>5, <1>6, <2>1, <2>2 DEF Descriptors, FileOf
  <2>5. \A k, l \in Handles :
          fh'[k].kind = "regular" /\ fh'[l].kind = "regular" /\ fh'[k].fd = fh'[l].fd => k = l
    BY <1>6, <2>1 DEF Descriptors
  <2>6. Descriptors'
    BY <2>3, <2>4, <2>5 DEF Descriptors
  <2>7. \A i \in InUse : recordLocks[i].owner \in Handles
    BY <1>1 DEF FilesTypeOK
  <2>8. Owners'
    BY <1>3, <1>6, <2>1, <2>7 DEF Owners
  <2> QED BY <2>6, <2>8
<1> QED BY <1>2, <1>8, <1>9 DEF FilesInv

\* One more record, locked without a conflict.
LEMMA LockStep ==
  ASSUME FilesInv, NEW p \in Programs, NEW h \in Handles, NEW r \in Records, NEW x \in BOOLEAN,
         CanLock(p, h), Lockable(h, r, x), recordLocks' = RecordsWith(h, r, x),
         UNCHANGED <<fh, fdFile, stdClosed>>
  PROVE  FilesInv'
<1>1. FilesTypeOK /\ RecordsExclude
  BY DEF FilesInv
<1>2. PICK n \in Entries \ InUse :
            /\ InUse' = InUse \cup {n}
            /\ recordLocks'[n] = [file |-> FileOf(h), owner |-> h, record |-> r, exclusive |-> x]
            /\ recordLocks'[n] \in LockType
            /\ \A i \in InUse : recordLocks'[i] = recordLocks[i]
  BY <1>1, RecordAdded DEF Lockable, CanLock
<1>3. FilesTypeOK'
  BY <1>1, <1>2 DEF FilesTypeOK, LockType
<1>4. \A i \in InUse : recordLocks[i].record \in Records
  BY <1>1 DEF FilesTypeOK
<1>5. \A i \in InUse :
         recordLocks[i].file = FileOf(h) /\ recordLocks[i].owner # h
           /\ Bytes(recordLocks[i].record) \cap Bytes(r) # {}
         => ~recordLocks[i].exclusive /\ ~x
  BY <1>4, SharedByteOverlaps DEF Lockable, Conflict
<1>6. RecordsExclude'
  <2> SUFFICES ASSUME NEW i \in InUse', NEW j \in InUse',
                      recordLocks'[i].file = recordLocks'[j].file,
                      recordLocks'[i].owner # recordLocks'[j].owner,
                      Bytes(recordLocks'[i].record) \cap Bytes(recordLocks'[j].record) # {}
               PROVE  ~recordLocks'[i].exclusive /\ ~recordLocks'[j].exclusive
    BY DEF RecordsExclude, Bytes
  <2>1. CASE i \in InUse /\ j \in InUse
    BY <1>1, <1>2, <2>1 DEF RecordsExclude
  <2>2. CASE i \in InUse /\ j = n
    BY <1>2, <1>5, <2>2
  <2>3. CASE i = n /\ j \in InUse
    <3>1. Bytes(recordLocks[j].record) \cap Bytes(r) # {}
      BY <1>2, <2>3
    <3> QED BY <1>2, <1>5, <2>3, <3>1
  <2>4. CASE i = n /\ j = n
    BY <2>4
  <2> QED BY <1>2, <2>1, <2>2, <2>3, <2>4
<1>7. ASSUME ~stdClosed PROVE Descriptors' /\ Owners'
  <2>1. Descriptors /\ Owners
    BY <1>7 DEF FilesInv
  <2>2. fh[h].kind = "regular" /\ fh[h].file = FileOf(h)
    BY <2>1 DEF Descriptors, CanLock
  <2> QED BY <1>2, <2>1, <2>2 DEF Descriptors, Owners, FileOf
<1> QED BY <1>3, <1>6, <1>7 DEF FilesInv

\* Some records less.
LEMMA UnlockStep ==
  ASSUME FilesInv, NEW h, NEW r, recordLocks' = RecordsAfterUnlock(h, r),
         UNCHANGED <<fh, fdFile, stdClosed>>
  PROVE  FilesInv'
<1> DEFINE D == InUse \ {Least(Matching(h, r))}
<1>1. FilesTypeOK /\ RecordsExclude /\ recordLocks' = [i \in D |-> recordLocks[i]] /\ D \subseteq InUse
  BY DEF FilesInv, RecordsAfterUnlock
<1> HIDE DEF D
<1>2. /\ InUse' \subseteq Entries /\ \A i \in InUse' : recordLocks'[i] \in LockType
      /\ RecordsExclude'
  BY <1>1, RemovalKeeps
<1>3. InUse' = D /\ \A i \in D : recordLocks'[i] = recordLocks[i]
  BY <1>1, RecordsRemoved
<1>4. FilesTypeOK'
  BY <1>1, <1>2 DEF FilesTypeOK, LockType
<1>5. Descriptors /\ Owners => Descriptors' /\ Owners'
  BY <1>1, <1>3 DEF Descriptors, Owners, FileOf
<1> QED BY <1>2, <1>4, <1>5 DEF FilesInv

\* The bookkeeping of LockRecords() is not the table's.
LEMMA FilesFrame ==
  ASSUME FilesInv, UNCHANGED <<fh, fdFile, recordLocks, stdClosed>> PROVE FilesInv'
<1>1. InUse' = InUse
  BY DEF InUse
<1>2. FilesTypeOK'
  BY <1>1 DEF FilesInv, FilesTypeOK
<1>3. RecordsExclude'
  BY <1>1 DEF FilesInv, RecordsExclude, Bytes
<1>4. Descriptors /\ Owners => Descriptors' /\ Owners'
  BY <1>1 DEF Descriptors, Owners, FileOf
<1> QED BY <1>2, <1>3, <1>4 DEF FilesInv

\* Every step keeps the invariant.
LEMMA NextFilesInv == FilesInv /\ [FilesNext]_fileVars => FilesInv'
<1> SUFFICES ASSUME FilesInv, [FilesNext]_fileVars PROVE FilesInv'
  OBVIOUS
<1>1. CASE UNCHANGED fileVars
  BY <1>1, FilesFrame DEF fileVars
<1>2. ASSUME NEW p \in Programs, FileStep(p) PROVE FilesInv'
  <2>1. CASE \E h \in Handles, f \in Files : Open(p, h, f) \/ OpenNoBuffer(p, h, f)
    BY <2>1, OpenStep
  <2>2. CASE \E h \in Handles : OpenConsole(p, h) \/ Close(p, h)
    BY <2>2, OpenConsoleStep, CloseStep
  <2>3. ASSUME NEW h \in Handles, NEW r \in Records, NEW x \in BOOLEAN,
               LockRecord(p, h, r, x) \/ LockRecordsNext(p, h, r, x)
        PROVE  FilesInv'
    BY <2>3, LockStep DEF LockRecord, LockRecordsNext
  <2>4. ASSUME NEW h \in Handles, NEW r \in Records, UnLockRecord(p, h, r) PROVE FilesInv'
    BY <2>4, UnlockStep DEF UnLockRecord
  <2>5. CASE Rollback(p)
    BY <2>5, UnlockStep DEF Rollback
  <2>6. CASE \/ \E h \in Handles, r \in Records, x \in BOOLEAN : LockRecordsFail(p, h, r, x)
             \/ LockRecords(p) \/ LockRecordsReturn(p) \/ RollbackEnd(p)
    BY <2>6, FilesFrame DEF LockRecordsFail, LockRecords, LockRecordsReturn, RollbackEnd
  <2> QED BY <1>2, <2>1, <2>2, <2>3, <2>4, <2>5, <2>6 DEF FileStep
<1> QED BY <1>1, <1>2 DEF FilesNext

\* The invariant holds in every reachable state.
LEMMA AlwaysFilesInv == FilesSpec => []FilesInv
  BY InitFilesInv, NextFilesInv, PTL DEF FilesSpec

\* Handles, descriptors and the lock table stay in their types: the table has no
\* entry beyond MAX_RECORD_LOCKS.
THEOREM FilesTypeCorrect == FilesSpec => []FilesTypeOK
<1>1. FilesInv => FilesTypeOK
  BY DEF FilesInv
<1> QED BY <1>1, AlwaysFilesInv, PTL

\* No byte of a file is locked by two handles, unless both share it.
THEOREM RecordsAlwaysExclude == FilesSpec => []RecordsExclude
<1>1. FilesInv => RecordsExclude
  BY DEF FilesInv
<1> QED BY <1>1, AlwaysFilesInv, PTL

\* As long as no standard descriptor has been closed, an open file has a
\* descriptor of its own, and a record belongs to a handle that has its file open.
THEOREM OwnersKeepFilesOpen == FilesSpec => []OwnersHaveFileOpen
<1>1. FilesInv => OwnersHaveFileOpen
  BY DEF FilesInv, Descriptors, Owners, OwnersHaveFileOpen
<1> QED BY <1>1, AlwaysFilesInv, PTL

-----------------------------------------------------------------------------
(* LockRecords() is undone.                                                *)

HandlesOf(p) == { k \in Handles : fh[k].program = p }

\* The records that LockRecords() of p has locked and not given back, by their
\* places in its list.
Pending(p, h, r) ==
    { i \in locking[p].back .. Len(locking[p].done) : locking[p].done[i] = <<h, r>> }

\* The records that p has locked now, less those it still has to give back, are
\* the ones it had at the start.
Undoes(p) ==
    /\ locking[p].back >= 1 /\ (locking[p].at = "next" => locking[p].back = 1)
    /\ \A i \in 1 .. Len(locking[p].done) :
          /\ locking[p].done[i][1] \in HandlesOf(p)
          /\ fh[locking[p].done[i][1]].kind = "regular"
    /\ \A h \in HandlesOf(p), r \in Records :
          Cardinality(Pending(p, h, r)) <= Cardinality(Matching(h, r))
    /\ locking[p].before =
          { <<h, r, Cardinality(Matching(h, r)) - Cardinality(Pending(p, h, r))>> :
                h \in HandlesOf(p), r \in Records }

LockingType == [at : {"program", "next", "rollback"}, done : Seq(Handles \X Records), back : Nat,
                before : SUBSET (Handles \X Records \X Nat)]

UndoInv ==
    /\ locking \in [Programs -> LockingType]
    /\ stdClosed \/ \A p \in Programs : locking[p].at # "program" => Undoes(p)

\* The records of a handle are finitely many, and so are the places in a list.
LEMMA MatchingFinite ==
  ASSUME FilesTypeOK, NEW h, NEW r
  PROVE  /\ IsFiniteSet(Matching(h, r)) /\ Cardinality(Matching(h, r)) \in Nat
         /\ Matching(h, r) \subseteq Nat
<1>1. IsFiniteSet(Entries) /\ Matching(h, r) \in SUBSET Entries /\ Entries \subseteq Nat
  <2>1. IsFiniteSet(Entries)
    BY LimitsAssumption, FS_Interval DEF Entries
  <2>2. Matching(h, r) \in SUBSET Entries
    BY Zenon DEF FilesTypeOK, Matching
  <2>3. Entries \subseteq Nat
    BY LimitsAssumption DEF Entries
  <2> QED BY <2>1, <2>2, <2>3
<1>2. IsFiniteSet(Matching(h, r))
  BY <1>1, FS_Subset
<1> QED BY <1>1, <1>2, FS_CardinalityType

\* So are the places in a list.
LEMMA PendingFinite ==
  ASSUME UndoInv, NEW p \in Programs, NEW h, NEW r
  PROVE  IsFiniteSet(Pending(p, h, r)) /\ Cardinality(Pending(p, h, r)) \in Nat
<1>1. locking[p].back \in Int /\ Len(locking[p].done) \in Int
  BY DEF UndoInv, LockingType
<1>2. /\ IsFiniteSet(locking[p].back .. Len(locking[p].done))
      /\ Pending(p, h, r) \in SUBSET (locking[p].back .. Len(locking[p].done))
  BY <1>1, FS_Interval DEF Pending
<1>3. IsFiniteSet(Pending(p, h, r))
  BY <1>2, FS_Subset
<1> QED BY <1>3, FS_CardinalityType

\* What Undoes(p) speaks of: nothing else can disturb it.
LEMMA UndoesFrame ==
  ASSUME NEW p \in Programs, Undoes(p), locking'[p] = locking[p],
         HandlesOf(p)' = HandlesOf(p),
         \A k \in HandlesOf(p) : fh'[k] = fh[k],
         \A h \in HandlesOf(p), r \in Records : Matching(h, r)' = Matching(h, r)
  PROVE  Undoes(p)'
<1>1. \A h, r : Pending(p, h, r)' = Pending(p, h, r)
  BY DEF Pending
<1> QED BY <1>1 DEF Undoes

\* The handles of a program, as long as no standard descriptor is closed: what
\* others may do to descriptors does not change what theirs stand for.
LEMMA HandleFacts ==
  ASSUME FilesInv, ~stdClosed, NEW p \in Programs, NEW k \in HandlesOf(p)
  PROVE  /\ k \in Handles /\ fh[k].program = p /\ fh[k].kind # "free"
         /\ fh[k].fd \in Fds /\ fdFile[fh[k].fd] # NoFile
         /\ fh[k].kind # "regular" => fh[k].fd <= 2
<1>1. k \in Handles /\ fh[k].program = p /\ fh[k].kind # "free"
  BY NoProgramAssumption DEF HandlesOf, FilesInv, Descriptors
<1>2. fh[k].fd \in Fds
  BY <1>1 DEF FilesInv, FilesTypeOK
<1>3. fdFile[fh[k].fd] # NoFile
  BY <1>1, <1>2, FilesAssumption DEF FilesInv, Descriptors, FileOf
<1> QED BY <1>1, <1>2, <1>3 DEF FilesInv, Descriptors

\* Open() of another program.
LEMMA OthersOpen ==
  ASSUME FilesInv, ~stdClosed, NEW p \in Programs, NEW q \in Programs, p # q,
         NEW g \in Handles, NEW f \in Files, Open(q, g, f) \/ OpenNoBuffer(q, g, f)
  PROVE  /\ HandlesOf(p)' = HandlesOf(p)
         /\ \A k \in HandlesOf(p) : fh'[k] = fh[k]
         /\ \A h \in HandlesOf(p), r \in Records : Matching(h, r)' = Matching(h, r)
<1>1. PICK d \in Fds : /\ fdFile[d] = NoFile /\ fh[g].kind = "free"
                       /\ fdFile' = [fdFile EXCEPT ![d] = f]
                       /\ \/ fh' = fh
                          \/ fh' = [fh EXCEPT ![g] = [kind |-> "regular", fd |-> d, file |-> f, program |-> q]]
                       /\ recordLocks' = recordLocks
  BY DEF Open, OpenNoBuffer, OpensAs, FreeFds
<1>2. \A k \in Handles : fh'[k] = fh[k] \/ (k = g /\ fh'[k].program = q)
  BY <1>1 DEF FilesInv, FilesTypeOK
<1>3. fh[g].program # p
  BY <1>1, NoProgramAssumption DEF FilesInv, Descriptors
<1>4. HandlesOf(p)' = HandlesOf(p) /\ \A k \in HandlesOf(p) : fh'[k] = fh[k]
  BY <1>2, <1>3 DEF HandlesOf
<1>5. \A k \in HandlesOf(p) : FileOf(k)' = FileOf(k)
  <2> TAKE k \in HandlesOf(p)
  <2>1. fh[k].fd \in Fds /\ fh[k].fd # d
    BY <1>1, HandleFacts
  <2>2. fdFile'[fh[k].fd] = fdFile[fh[k].fd]
    BY <1>1, <2>1 DEF FilesInv, FilesTypeOK
  <2> QED BY <1>4, <2>2 DEF FileOf
<1>6. \A h \in HandlesOf(p), r \in Records : Matching(h, r)' = Matching(h, r)
  BY <1>1, <1>5 DEF Matching, InUse
<1> QED BY <1>4, <1>6

\* A console or a window of another program.
LEMMA OthersOpenConsole ==
  ASSUME FilesInv, ~stdClosed, NEW p \in Programs, NEW q \in Programs, p # q,
         NEW g \in Handles, OpenConsole(q, g)
  PROVE  /\ HandlesOf(p)' = HandlesOf(p)
         /\ \A k \in HandlesOf(p) : fh'[k] = fh[k]
         /\ \A h \in HandlesOf(p), r \in Records : Matching(h, r)' = Matching(h, r)
<1>1. PICK e : /\ fh[g].kind = "free" /\ e.program = q
               /\ fh' = [fh EXCEPT ![g] = e]
               /\ UNCHANGED <<fdFile, recordLocks>>
  BY DEF OpenConsole, NoFh
<1>2. \A k \in Handles : fh'[k] = fh[k] \/ (k = g /\ fh'[k].program = q)
  BY <1>1 DEF FilesInv, FilesTypeOK
<1>3. fh[g].program # p
  BY <1>1, NoProgramAssumption DEF FilesInv, Descriptors
<1>4. HandlesOf(p)' = HandlesOf(p) /\ \A k \in HandlesOf(p) : fh'[k] = fh[k]
  BY <1>2, <1>3 DEF HandlesOf
<1>5. \A h \in HandlesOf(p), r \in Records : Matching(h, r)' = Matching(h, r)
  BY <1>1, <1>4 DEF Matching, InUse, FileOf
<1> QED BY <1>4, <1>5

\* Close() by another program.
LEMMA OthersClose ==
  ASSUME FilesInv, ~stdClosed, ~stdClosed', NEW p \in Programs, NEW q \in Programs, p # q,
         NEW g \in Handles, Close(q, g)
  PROVE  /\ HandlesOf(p)' = HandlesOf(p)
         /\ \A k \in HandlesOf(p) : fh'[k] = fh[k]
         /\ \A h \in HandlesOf(p), r \in Records : Matching(h, r)' = Matching(h, r)
<1> DEFINE D == { j \in InUse : recordLocks[j].owner # g }
<1>1. /\ recordLocks' = [i \in D |-> recordLocks[i]]
      /\ fdFile' = [fdFile EXCEPT ![fh[g].fd] = NoFile]
      /\ fh' = [fh EXCEPT ![g] = [kind |-> "free", fd |-> 0, file |-> NoFile, program |-> NoProgram]]
      /\ fh[g].kind = "regular" /\ fh[g].program = q
  BY DEF Close, HandleOf, RecordsWithout, NoFh
<1>2. InUse' = D /\ \A i \in D : recordLocks'[i] = recordLocks[i]
  BY <1>1, RecordsRemoved
<1>3. \A k \in Handles : fh'[k] = fh[k] \/ (k = g /\ fh'[k].program = NoProgram)
  BY <1>1 DEF FilesInv, FilesTypeOK
<1>4. HandlesOf(p)' = HandlesOf(p) /\ \A k \in HandlesOf(p) : fh'[k] = fh[k] /\ k # g
  BY <1>1, <1>3, NoProgramAssumption DEF HandlesOf
<1>5. \A k \in HandlesOf(p) : FileOf(k)' = FileOf(k)
  <2> TAKE k \in HandlesOf(p)
  <2>1. fh[k].fd \in Fds /\ (fh[k].kind # "regular" => fh[k].fd <= 2) /\ k \in Handles
    BY HandleFacts
  <2>2. fh[g].fd > 2 /\ fh[g].fd \in Fds
    BY <1>1 DEF FilesInv, FilesTypeOK, Descriptors
  <2>3. fh[k].fd # fh[g].fd
    BY <1>1, <1>4, <2>1, <2>2 DEF FilesInv, Descriptors, Fds
  <2>4. fdFile'[fh[k].fd] = fdFile[fh[k].fd]
    BY <1>1, <2>1, <2>2, <2>3 DEF FilesInv, FilesTypeOK
  <2> QED BY <1>4, <2>4 DEF FileOf
<1>6. \A h \in HandlesOf(p), r \in Records : Matching(h, r)' = Matching(h, r)
  <2> TAKE h \in HandlesOf(p), r \in Records
  <2>1. h # g /\ FileOf(h)' = FileOf(h)
    BY <1>4, <1>5
  <2> QED BY <1>2, <2>1 DEF Matching
<1> QED BY <1>4, <1>6

\* A record that another program locks or unlocks.
LEMMA OthersRecords ==
  ASSUME FilesInv, NEW p \in Programs, NEW g \in Handles, fh[g].program # p,
         UNCHANGED <<fh, fdFile>>, NEW r0 \in Records,
         \/ /\ FileOf(g) # NoFile /\ InUse # Entries
            /\ \E x \in BOOLEAN : recordLocks' = RecordsWith(g, r0, x)
         \/ /\ Matching(g, r0) # {}
            /\ recordLocks' = RecordsAfterUnlock(g, r0)
  PROVE  \A h \in HandlesOf(p), r \in Records : Matching(h, r)' = Matching(h, r)
<1> TAKE h \in HandlesOf(p), r \in Records
<1>1. h # g /\ FileOf(h)' = FileOf(h)
  BY DEF HandlesOf, FileOf
<1>2. CASE /\ FileOf(g) # NoFile /\ InUse # Entries
           /\ \E x \in BOOLEAN : recordLocks' = RecordsWith(g, r0, x)
  <2>1. PICK n \in Entries \ InUse :
            /\ InUse' = InUse \cup {n} /\ recordLocks'[n].owner = g
            /\ \A i \in InUse : recordLocks'[i] = recordLocks[i]
    <3>1. PICK x \in BOOLEAN : recordLocks' = RecordsWith(g, r0, x)
      BY <1>2
    <3>2. FilesTypeOK /\ InUse # Entries /\ FileOf(g) # NoFile
      BY <1>2 DEF FilesInv
    <3>3. PICK n \in Entries \ InUse :
            /\ InUse' = InUse \cup {n}
            /\ recordLocks'[n] = [file |-> FileOf(g), owner |-> g, record |-> r0, exclusive |-> x]
            /\ \A i \in InUse : recordLocks'[i] = recordLocks[i]
      BY <3>1, <3>2, RecordAdded
    <3> QED BY <3>3
  <2> QED BY <1>1, <2>1 DEF Matching
<1>3. CASE Matching(g, r0) # {} /\ recordLocks' = RecordsAfterUnlock(g, r0)
  <2>1. Least(Matching(g, r0)) \in Matching(g, r0)
    BY <1>3, LeastIn, MatchingFinite DEF FilesInv
  <2> DEFINE m == Least(Matching(g, r0))
  <2>2. m \in InUse /\ recordLocks[m].owner = g
    BY <2>1 DEF Matching
  <2> HIDE DEF m
  <2>3. recordLocks' = [i \in InUse \ {m} |-> recordLocks[i]]
    BY <1>3 DEF RecordsAfterUnlock, m
  <2>4. InUse' = InUse \ {m} /\ \A i \in InUse \ {m} : recordLocks'[i] = recordLocks[i]
    BY <2>3, RecordsRemoved
  <2> QED BY <1>1, <2>2, <2>4 DEF Matching
<1> QED BY <1>2, <1>3

\* A step that adds as many records as places, or takes as many away, keeps what
\* is still to be undone.
LEMMA CountsMove ==
  ASSUME NEW p \in Programs, Undoes(p),
         HandlesOf(p)' = HandlesOf(p), locking'[p].before = locking[p].before,
         \A h \in HandlesOf(p), r \in Records :
            /\ Cardinality(Pending(p, h, r))' <= Cardinality(Matching(h, r))'
            /\ Cardinality(Matching(h, r))' - Cardinality(Pending(p, h, r))'
                 = Cardinality(Matching(h, r)) - Cardinality(Pending(p, h, r))
  PROVE  /\ \A h \in HandlesOf(p)', r \in Records :
               Cardinality(Pending(p, h, r))' <= Cardinality(Matching(h, r))'
         /\ locking'[p].before =
               { <<h, r, Cardinality(Matching(h, r))' - Cardinality(Pending(p, h, r))'>> :
                     h \in HandlesOf(p)', r \in Records }
<1> DEFINE old == { <<h, r, Cardinality(Matching(h, r)) - Cardinality(Pending(p, h, r))>> :
                        h \in HandlesOf(p), r \in Records }
           new == { <<h, r, Cardinality(Matching(h, r))' - Cardinality(Pending(p, h, r))'>> :
                        h \in HandlesOf(p), r \in Records }
<1>1. old = new
  OBVIOUS
<1>2. locking[p].before = old
  BY DEF Undoes
<1> QED BY <1>1, <1>2

\* LockRecords() begins with nothing to give back.
LEMMA LockRecordsBegins ==
  ASSUME FilesInv, UndoInv, NEW p \in Programs, LockRecords(p) PROVE Undoes(p)' /\ UndoInv'
<1>1. /\ UNCHANGED <<fh, fdFile, recordLocks, stdClosed>>
      /\ locking' = [locking EXCEPT ![p] = [NotLocking EXCEPT !.at = "next", !.before = RecordsOf(p)]]
  BY DEF LockRecords
<1> DEFINE e == [NotLocking EXCEPT !.at = "next", !.before = RecordsOf(p)]
<1>2. /\ e.at = "next" /\ e.done = <<>> /\ e.back = 1 /\ e.before = RecordsOf(p)
  BY DEF NotLocking
<1>3. NotLocking \in LockingType
  BY DEF NotLocking, LockingType
<1>4. RecordsOf(p) \in SUBSET (Handles \X Records \X Nat)
  BY MatchingFinite DEF RecordsOf, FilesInv
<1>5. e \in LockingType
  BY <1>3, <1>4 DEF LockingType
<1> HIDE DEF e
<1>6. locking' \in [Programs -> LockingType] /\ locking'[p] = e
      /\ \A q \in Programs \ {p} : locking'[q] = locking[q]
  BY <1>1, <1>5 DEF UndoInv, e
<1>7. \A h, r : Matching(h, r)' = Matching(h, r)
  BY <1>1 DEF Matching, InUse, FileOf
<1>8. \A h, r : Pending(p, h, r)' = {}
  BY <1>2, <1>6 DEF Pending
<1>9. HandlesOf(p)' = HandlesOf(p)
  BY <1>1 DEF HandlesOf
<1>10. RecordsOf(p) = { <<h, r, Cardinality(Matching(h, r)) - Cardinality({})>> :
                            h \in HandlesOf(p), r \in Records }
  BY MatchingFinite, FS_EmptySet DEF RecordsOf, HandlesOf, FilesInv
<1>11. Undoes(p)'
  <2>1. \A h \in HandlesOf(p), r \in Records :
           Cardinality(Pending(p, h, r)') <= Cardinality(Matching(h, r)')
    BY <1>7, <1>8, FS_EmptySet, MatchingFinite DEF FilesInv
  <2>2. locking'[p].before =
           { <<h, r, Cardinality(Matching(h, r)') - Cardinality(Pending(p, h, r)')>> :
                 h \in HandlesOf(p), r \in Records }
    <3>1. \A h, r : Cardinality(Matching(h, r)') - Cardinality(Pending(p, h, r)')
                      = Cardinality(Matching(h, r)) - Cardinality({})
      BY <1>7, <1>8
    <3> DEFINE now(h, r) == Cardinality(Matching(h, r)) - Cardinality({})
               then(h, r) == Cardinality(Matching(h, r)') - Cardinality(Pending(p, h, r)')
    <3>2. \A h, r : then(h, r) = now(h, r)
      BY <3>1
    <3>3. locking'[p].before = { <<h, r, now(h, r)>> : h \in HandlesOf(p), r \in Records }
      BY <1>2, <1>6, <1>10
    <3> HIDE DEF now, then
    <3>4. locking'[p].before = { <<h, r, then(h, r)>> : h \in HandlesOf(p), r \in Records }
      BY <3>2, <3>3
    <3> QED BY <3>4 DEF then
  <2>3. /\ locking'[p].back = 1 /\ locking'[p].at = "next" /\ Len(locking'[p].done) = 0
    BY <1>2, <1>6
  <2> QED BY <1>9, <2>1, <2>2, <2>3 DEF Undoes
<1>12. ASSUME ~stdClosed, NEW q \in Programs, q # p, locking'[q].at # "program" PROVE Undoes(q)'
  <2>1. HandlesOf(q)' = HandlesOf(q) /\ locking'[q] = locking[q] /\ Undoes(q)
    BY <1>1, <1>6, <1>12 DEF HandlesOf, UndoInv
  <2> QED BY <1>1, <1>7, <2>1, UndoesFrame
<1> QED BY <1>1, <1>6, <1>11, <1>12 DEF UndoInv

\* One more record is locked, and is one more to give back.
LEMMA LockRecordsGoesOn ==
  ASSUME FilesInv, UndoInv, ~stdClosed, NEW p \in Programs, NEW h \in Handles, NEW r \in Records,
         NEW x \in BOOLEAN, LockRecordsNext(p, h, r, x)
  PROVE  Undoes(p)'
<1>1. /\ locking[p].at = "next" /\ fh[h].kind = "regular" /\ fh[h].program = p
      /\ FileOf(h) # NoFile /\ InUse # Entries
      /\ recordLocks' = RecordsWith(h, r, x)
      /\ locking' = [locking EXCEPT ![p].done = Append(@, <<h, r>>)]
      /\ UNCHANGED <<fh, fdFile, stdClosed>>
  BY DEF LockRecordsNext, CanLock, Lockable
<1>2. Undoes(p) /\ locking[p] \in LockingType /\ FilesTypeOK
  BY <1>1 DEF UndoInv, FilesInv
<1> DEFINE done == locking[p].done
<1>3. /\ done \in Seq(Handles \X Records) /\ Len(done) \in Nat /\ locking[p].back = 1
      /\ locking'[p].done = Append(done, <<h, r>>)
      /\ locking'[p].back = 1 /\ locking'[p].before = locking[p].before
      /\ locking'[p].at = "next"
  BY <1>1, <1>2 DEF UndoInv, Undoes, LockingType
<1> HIDE DEF done
<1>4. /\ Len(locking'[p].done) = Len(done) + 1
      /\ locking'[p].done[Len(done) + 1] = <<h, r>>
      /\ \A i \in 1 .. Len(done) : locking'[p].done[i] = done[i]
  BY <1>3
<1>5. PICK n \in Entries \ InUse :
            /\ InUse' = InUse \cup {n}
            /\ recordLocks'[n] = [file |-> FileOf(h), owner |-> h, record |-> r, exclusive |-> x]
            /\ \A i \in InUse : recordLocks'[i] = recordLocks[i]
  BY <1>1, <1>2, RecordAdded
<1>6. HandlesOf(p)' = HandlesOf(p) /\ h \in HandlesOf(p)
  BY <1>1 DEF HandlesOf
<1>7. \A k, s : Matching(k, s)' = IF <<k, s>> = <<h, r>> THEN Matching(k, s) \cup {n} ELSE Matching(k, s)
  BY <1>1, <1>5 DEF Matching, FileOf
<1>8. \A k, s : Pending(p, k, s)' = IF <<k, s>> = <<h, r>> THEN Pending(p, k, s) \cup {Len(done) + 1}
                                                         ELSE Pending(p, k, s)
  <2> TAKE k, s
  <2>1. Pending(p, k, s) = { i \in 1 .. Len(done) : done[i] = <<k, s>> }
    BY <1>3 DEF Pending, done
  <2>2. Pending(p, k, s)' = { i \in 1 .. Len(done) + 1 : locking'[p].done[i] = <<k, s>> }
    BY <1>3, <1>4 DEF Pending
  <2>3. 1 .. Len(done) + 1 = (1 .. Len(done)) \cup {Len(done) + 1}
    BY <1>3
  <2> QED BY <1>4, <2>1, <2>2, <2>3
<1>9. Len(done) + 1 \notin Pending(p, h, r) /\ n \notin Matching(h, r)
  BY <1>3, <1>5 DEF Pending, Matching, done
<1>10. \A k \in HandlesOf(p), s \in Records :
          /\ Cardinality(Pending(p, k, s)') <= Cardinality(Matching(k, s)')
          /\ Cardinality(Matching(k, s)') - Cardinality(Pending(p, k, s)')
               = Cardinality(Matching(k, s)) - Cardinality(Pending(p, k, s))
  <2> TAKE k \in HandlesOf(p), s \in Records
  <2>1. /\ IsFiniteSet(Matching(k, s)) /\ Cardinality(Matching(k, s)) \in Nat
        /\ IsFiniteSet(Pending(p, k, s)) /\ Cardinality(Pending(p, k, s)) \in Nat
        /\ Cardinality(Pending(p, k, s)) <= Cardinality(Matching(k, s))
    BY <1>2, MatchingFinite, PendingFinite DEF Undoes
  <2>2. CASE <<k, s>> = <<h, r>>
    <3>1. /\ Cardinality(Matching(k, s)') = Cardinality(Matching(k, s)) + 1
          /\ Cardinality(Pending(p, k, s)') = Cardinality(Pending(p, k, s)) + 1
      BY <1>7, <1>8, <1>9, <2>1, <2>2, FS_AddElement
    <3> QED BY <2>1, <3>1
  <2>3. CASE <<k, s>> # <<h, r>>
    BY <1>7, <1>8, <2>1, <2>3
  <2> QED BY <2>2, <2>3
<1>11. \A i \in 1 .. Len(locking'[p].done) :
          /\ locking'[p].done[i][1] \in HandlesOf(p)
          /\ fh[locking'[p].done[i][1]].kind = "regular"
  <2> TAKE i \in 1 .. Len(locking'[p].done)
  <2>1. CASE i \in 1 .. Len(done)
    BY <1>2, <1>4, <2>1 DEF Undoes, done
  <2>2. CASE i = Len(done) + 1
    BY <1>1, <1>4, <1>6, <2>2
  <2> QED BY <1>3, <1>4, <2>1, <2>2
<1> QED BY <1>1, <1>2, <1>3, <1>6, <1>10, <1>11, CountsMove DEF Undoes

\* One record is given back; it was one that is still locked.
LEMMA RollbackGoesOn ==
  ASSUME FilesInv, UndoInv, ~stdClosed, NEW p \in Programs, Rollback(p) PROVE Undoes(p)'
<1>1. PICK i \in 1 .. Len(locking[p].done) :
         LET h == locking[p].done[i][1]
             r == locking[p].done[i][2]
         IN  /\ locking[p].at = "rollback" /\ i = locking[p].back
             /\ CanLock(p, h) /\ Matching(h, r) # {}
             /\ recordLocks' = RecordsAfterUnlock(h, r)
             /\ locking' = [locking EXCEPT ![p].back = i + 1]
             /\ UNCHANGED <<fh, fdFile, stdClosed>>
  BY DEF Rollback
<1> DEFINE done == locking[p].done
           h == done[i][1]
           r == done[i][2]
           m == Least(Matching(h, r))
<1>2. Undoes(p) /\ locking[p] \in LockingType /\ FilesTypeOK
  BY <1>1 DEF UndoInv, FilesInv
<1>3. /\ done \in Seq(Handles \X Records) /\ Len(done) \in Nat /\ i \in 1 .. Len(done)
      /\ done[i] \in Handles \X Records /\ done[i] = <<h, r>> /\ h \in HandlesOf(p)
      /\ locking[p].back = i
      /\ locking'[p].done = done /\ locking'[p].back = i + 1
      /\ locking'[p].before = locking[p].before /\ locking'[p].at = "rollback"
  BY <1>1, <1>2, SMTT(30) DEF UndoInv, Undoes, LockingType
<1>4. m \in Matching(h, r)
  BY <1>1, <1>2, LeastIn, MatchingFinite
<1>5. recordLocks' = [j \in InUse \ {m} |-> recordLocks[j]]
  BY <1>1 DEF RecordsAfterUnlock
<1>6. UNCHANGED <<fh, fdFile, stdClosed>>
  BY <1>1
<1>7. locking[p].done = done
  OBVIOUS
<1> HIDE DEF done, h, r, m
<1>8. InUse' = InUse \ {m} /\ \A j \in InUse \ {m} : recordLocks'[j] = recordLocks[j]
  BY <1>5, RecordsRemoved
<1>9. HandlesOf(p)' = HandlesOf(p)
  BY <1>6 DEF HandlesOf
<1>10. \A k, s : Matching(k, s)' = IF <<k, s>> = <<h, r>> THEN Matching(k, s) \ {m} ELSE Matching(k, s)
  BY <1>4, <1>6, <1>8 DEF Matching, FileOf
<1>11. \A k, s : Pending(p, k, s)' = IF <<k, s>> = <<h, r>> THEN Pending(p, k, s) \ {i}
                                                           ELSE Pending(p, k, s)
  <2> TAKE k, s
  <2>1. Pending(p, k, s) = { j \in i .. Len(done) : done[j] = <<k, s>> }
    BY <1>3, <1>7 DEF Pending
  <2>2. Pending(p, k, s)' = { j \in i + 1 .. Len(done) : done[j] = <<k, s>> }
    BY <1>3 DEF Pending
  <2>3. i + 1 .. Len(done) = (i .. Len(done)) \ {i}
    BY <1>3
  <2> QED BY <1>3, <2>1, <2>2, <2>3
<1>12. i \in Pending(p, h, r)
  BY <1>3, <1>7 DEF Pending
<1>13. \A k \in HandlesOf(p), s \in Records :
          /\ Cardinality(Pending(p, k, s)') <= Cardinality(Matching(k, s)')
          /\ Cardinality(Matching(k, s)') - Cardinality(Pending(p, k, s)')
               = Cardinality(Matching(k, s)) - Cardinality(Pending(p, k, s))
  <2> TAKE k \in HandlesOf(p), s \in Records
  <2>1. /\ IsFiniteSet(Matching(k, s)) /\ Cardinality(Matching(k, s)) \in Nat
        /\ IsFiniteSet(Pending(p, k, s)) /\ Cardinality(Pending(p, k, s)) \in Nat
        /\ Cardinality(Pending(p, k, s)) <= Cardinality(Matching(k, s))
    BY <1>2, MatchingFinite, PendingFinite DEF Undoes
  <2>2. CASE <<k, s>> = <<h, r>>
    <3>1. /\ Cardinality(Matching(k, s)') = Cardinality(Matching(k, s)) - 1
          /\ Cardinality(Pending(p, k, s)') = Cardinality(Pending(p, k, s)) - 1
      BY <1>4, <1>10, <1>11, <1>12, <2>1, <2>2, FS_RemoveElement
    <3> QED BY <2>1, <3>1
  <2>3. CASE <<k, s>> # <<h, r>>
    BY <1>10, <1>11, <2>1, <2>3
  <2> QED BY <2>2, <2>3
<1>14. \A j \in 1 .. Len(locking'[p].done) :
          /\ locking'[p].done[j][1] \in HandlesOf(p)
          /\ fh[locking'[p].done[j][1]].kind = "regular"
  BY <1>2, <1>3, <1>7 DEF Undoes
<1> QED BY <1>2, <1>3, <1>6, <1>9, <1>13, <1>14, CountsMove DEF Undoes

\* The list of LockRecords() stays a list of handles and records.
LEMMA LockingKept ==
  ASSUME FilesInv, UndoInv, NEW q \in Programs, FileStep(q)
  PROVE  /\ locking' \in [Programs -> LockingType]
         /\ \A p \in Programs \ {q} : locking'[p] = locking[p]
         /\ locking[q].at = "program" /\ ~LockRecords(q) => locking'[q] = locking[q]
<1>1. CASE LockRecords(q)
  <2>1. \E e : locking' = [locking EXCEPT ![q] = e]
    BY <1>1 DEF LockRecords
  <2> QED BY <1>1, <2>1, LockRecordsBegins DEF UndoInv
<1>2. CASE locking' = locking
  BY <1>2 DEF UndoInv
<1>3. ASSUME NEW h \in Handles, NEW r \in Records, NEW x \in BOOLEAN, LockRecordsNext(q, h, r, x)
      PROVE  /\ locking' \in [Programs -> LockingType] /\ locking[q].at # "program"
             /\ \A p \in Programs \ {q} : locking'[p] = locking[p]
  <2>1. /\ locking[q].at = "next" /\ locking[q] \in LockingType
        /\ locking' = [locking EXCEPT ![q].done = Append(@, <<h, r>>)]
    BY <1>3 DEF LockRecordsNext, UndoInv
  <2>2. Append(locking[q].done, <<h, r>>) \in Seq(Handles \X Records)
    BY <2>1 DEF LockingType
  <2>3. [locking[q] EXCEPT !.done = Append(@, <<h, r>>)] \in LockingType
    BY <2>1, <2>2 DEF LockingType
  <2> QED BY <2>1, <2>3 DEF UndoInv
<1>4. ASSUME LockRecordsReturn(q) \/ RollbackEnd(q)
      PROVE  /\ locking' \in [Programs -> LockingType] /\ locking[q].at # "program"
             /\ \A p \in Programs \ {q} : locking'[p] = locking[p]
  <2>1. NotLocking \in LockingType
    BY DEF NotLocking, LockingType
  <2>2. locking' = [locking EXCEPT ![q] = NotLocking] /\ locking[q].at # "program"
    BY <1>4 DEF LockRecordsReturn, RollbackEnd
  <2> QED BY <2>1, <2>2 DEF UndoInv
<1>5. ASSUME NEW h \in Handles, NEW r \in Records, NEW x \in BOOLEAN, LockRecordsFail(q, h, r, x)
      PROVE  /\ locking' \in [Programs -> LockingType] /\ locking[q].at # "program"
             /\ \A p \in Programs \ {q} : locking'[p] = locking[p]
  BY <1>5, ZenonT(40) DEF LockRecordsFail, UndoInv, LockingType
<1>6. ASSUME Rollback(q)
      PROVE  /\ locking' \in [Programs -> LockingType] /\ locking[q].at # "program"
             /\ \A p \in Programs \ {q} : locking'[p] = locking[p]
  <2>1. PICK i \in 1 .. Len(locking[q].done) : /\ locking[q].at = "rollback"
                                               /\ locking' = [locking EXCEPT ![q].back = i + 1]
    BY <1>6 DEF Rollback
  <2>2. i + 1 \in Nat
    BY <2>1 DEF UndoInv, LockingType
  <2> QED BY <2>1, <2>2 DEF UndoInv, LockingType
<1>7. \/ LockRecords(q) \/ locking' = locking \/ LockRecordsReturn(q) \/ RollbackEnd(q) \/ Rollback(q)
      \/ \E h \in Handles, r \in Records, x \in BOOLEAN :
            LockRecordsNext(q, h, r, x) \/ LockRecordsFail(q, h, r, x)
  BY DEF FileStep, Open, OpenNoBuffer, OpenConsole, Close, LockRecord, UnLockRecord
<1> QED BY <1>1, <1>2, <1>3, <1>4, <1>5, <1>6, <1>7

\* A step of one program keeps what another one has to undo.
LEMMA OthersStep ==
  ASSUME FilesInv, UndoInv, ~stdClosed, ~stdClosed', NEW p \in Programs, NEW q \in Programs, p # q,
         FileStep(q), Undoes(p)
  PROVE  Undoes(p)'
<1>1. locking'[p] = locking[p]
  BY LockingKept
<1> SUFFICES /\ HandlesOf(p)' = HandlesOf(p)
             /\ \A k \in HandlesOf(p) : fh'[k] = fh[k]
             /\ \A h \in HandlesOf(p), r \in Records : Matching(h, r)' = Matching(h, r)
  BY <1>1, UndoesFrame
<1>2. CASE \E g \in Handles, f \in Files : Open(q, g, f) \/ OpenNoBuffer(q, g, f)
  BY <1>2, OthersOpen
<1>3. CASE \E g \in Handles : OpenConsole(q, g) \/ Close(q, g)
  BY <1>3, OthersOpenConsole, OthersClose
<1>4. CASE \/ \E g \in Handles, r0 \in Records, x \in BOOLEAN :
                 LockRecord(q, g, r0, x) \/ LockRecordsNext(q, g, r0, x)
           \/ \E g \in Handles, r0 \in Records : UnLockRecord(q, g, r0)
           \/ Rollback(q)
  <2>1. PICK g \in Handles, r0 \in Records :
          /\ fh[g].program = q /\ UNCHANGED <<fh, fdFile>>
          /\ \/ /\ FileOf(g) # NoFile /\ InUse # Entries
                /\ \E x \in BOOLEAN : recordLocks' = RecordsWith(g, r0, x)
             \/ /\ Matching(g, r0) # {}
                /\ recordLocks' = RecordsAfterUnlock(g, r0)
    <3>1. CASE \E g \in Handles, r0 \in Records, x \in BOOLEAN :
                  LockRecord(q, g, r0, x) \/ LockRecordsNext(q, g, r0, x)
      BY <3>1 DEF LockRecord, LockRecordsNext, CanLock, Lockable
    <3>2. CASE \E g \in Handles, r0 \in Records : UnLockRecord(q, g, r0)
      BY <3>2 DEF UnLockRecord, CanLock
    <3>3. CASE Rollback(q)
      <4>1. \A i \in 1 .. Len(locking[q].done) : locking[q].done[i] \in Handles \X Records
        BY DEF UndoInv, LockingType
      <4>2. PICK i \in 1 .. Len(locking[q].done) :
               LET h == locking[q].done[i][1]
                   r == locking[q].done[i][2]
               IN  /\ CanLock(q, h) /\ Matching(h, r) # {}
                   /\ recordLocks' = RecordsAfterUnlock(h, r)
                   /\ UNCHANGED <<fh, fdFile>>
        BY <3>3 DEF Rollback
      <4>3. locking[q].done[i][1] \in Handles /\ locking[q].done[i][2] \in Records
        BY <4>1
      <4> QED BY <4>2, <4>3 DEF CanLock
    <3> QED BY <1>4, <3>1, <3>2, <3>3
  <2>2. \A h \in HandlesOf(p), r \in Records : Matching(h, r)' = Matching(h, r)
    <3>1. fh[g].program # p
      BY <2>1
    <3> QED BY <2>1, <3>1, OthersRecords
  <2> QED BY <2>1, <2>2 DEF HandlesOf
<1>5. CASE \/ \E h \in Handles, r \in Records, x \in BOOLEAN : LockRecordsFail(q, h, r, x)
           \/ LockRecords(q) \/ LockRecordsReturn(q) \/ RollbackEnd(q)
  <2>1. UNCHANGED <<fh, fdFile, recordLocks>>
    BY <1>5 DEF LockRecordsFail, LockRecords, LockRecordsReturn, RollbackEnd
  <2> QED BY <2>1 DEF HandlesOf, Matching, InUse, FileOf
<1> QED BY <1>2, <1>3, <1>4, <1>5 DEF FileStep

\* Giving up is a change of mind only.
LEMMA LockRecordsFails ==
  ASSUME FilesInv, UndoInv, ~stdClosed, NEW p \in Programs, NEW h \in Handles, NEW r \in Records,
         NEW x \in BOOLEAN, LockRecordsFail(p, h, r, x)
  PROVE  Undoes(p)'
<1>1. /\ locking[p].at = "next" /\ UNCHANGED <<fh, fdFile, recordLocks>>
      /\ locking'[p].at = "rollback" /\ locking'[p].done = locking[p].done
      /\ locking'[p].back = locking[p].back /\ locking'[p].before = locking[p].before
  BY DEF LockRecordsFail, UndoInv, LockingType
<1>2. Undoes(p)
  BY <1>1 DEF UndoInv
<1>3. HandlesOf(p)' = HandlesOf(p)
  BY <1>1 DEF HandlesOf
<1>4. \A k, s : Matching(k, s)' = Matching(k, s) /\ Pending(p, k, s)' = Pending(p, k, s)
  BY <1>1 DEF Matching, InUse, FileOf, Pending
<1> QED BY <1>1, <1>2, <1>3, <1>4 DEF Undoes

\* Every step keeps what has to be undone.
LEMMA NextUndoInv == FilesInv /\ UndoInv /\ [FilesNext]_fileVars => UndoInv'
<1> SUFFICES ASSUME FilesInv, UndoInv, [FilesNext]_fileVars PROVE UndoInv'
  OBVIOUS
<1>1. CASE UNCHANGED fileVars
  <2>1. ASSUME NEW p \in Programs, Undoes(p) PROVE Undoes(p)'
    BY <1>1, <2>1, UndoesFrame DEF fileVars, HandlesOf, Matching, InUse, FileOf
  <2> QED BY <1>1, <2>1 DEF UndoInv, fileVars
<1>2. ASSUME ~stdClosed, NEW q \in Programs, FileStep(q) PROVE UndoInv'
  <2>1. /\ locking' \in [Programs -> LockingType]
        /\ \A p \in Programs \ {q} : locking'[p] = locking[p]
    BY <1>2, LockingKept
  <2>2. ASSUME ~stdClosed', NEW p \in Programs, p # q, locking'[p].at # "program" PROVE Undoes(p)'
    BY <1>2, <2>1, <2>2, OthersStep DEF UndoInv
  <2>3. ASSUME ~stdClosed', locking'[q].at # "program" PROVE Undoes(q)'
    <3>1. CASE LockRecords(q)
      BY <3>1, LockRecordsBegins
    <3>2. CASE LockRecordsReturn(q) \/ RollbackEnd(q)
      BY <2>3, <3>2 DEF LockRecordsReturn, RollbackEnd, UndoInv, NotLocking
    <3>3. CASE locking[q].at = "program" /\ ~LockRecords(q)
      BY <1>2, <2>3, <3>3, LockingKept
    <3>4. CASE Rollback(q)
      BY <1>2, <3>4, RollbackGoesOn
    <3>5. CASE \E h \in Handles, r \in Records, x \in BOOLEAN :
                  LockRecordsNext(q, h, r, x) \/ LockRecordsFail(q, h, r, x)
      BY <1>2, <3>5, LockRecordsGoesOn, LockRecordsFails
    <3>6. locking[q].at = "program" \/ LockRecordsReturn(q) \/ RollbackEnd(q) \/ Rollback(q)
          \/ \E h \in Handles, r \in Records, x \in BOOLEAN :
                LockRecordsNext(q, h, r, x) \/ LockRecordsFail(q, h, r, x)
      BY <1>2 DEF FileStep, Open, OpenNoBuffer, OpenConsole, Close, LockRecord, UnLockRecord,
                  HandleOf, LockRecords, Idle
    <3> QED BY <3>1, <3>2, <3>3, <3>4, <3>5, <3>6
  <2> QED BY <2>1, <2>2, <2>3 DEF UndoInv
<1> QED BY <1>1, <1>2 DEF FilesNext

\* The state at the start has nothing to undo.
LEMMA InitUndoInv == FilesInit => UndoInv
  BY DEF FilesInit, UndoInv, NotLocking, LockingType

\* When LockRecords() fails, its program has the records locked that it had
\* before, each as often, unless a standard descriptor has been closed.
THEOREM FailedLocksUndone == FilesSpec => FailedLockRecordsUndone
<1>1. ASSUME FilesInv, UndoInv, FilesNext, ~stdClosed, NEW p \in Programs,
             locking[p].at = "rollback", locking'[p].at = "program"
      PROVE  RecordsOf(p) = locking[p].before
  <2>1. PICK q \in Programs : FileStep(q)
    BY <1>1 DEF FilesNext
  <2>2. q = p
    BY <1>1, <2>1, LockingKept
  <2>3. RollbackEnd(p)
    BY <1>1, <2>1, <2>2
       DEF FileStep, Open, OpenNoBuffer, OpenConsole, Close, HandleOf, LockRecord, UnLockRecord, Idle,
           LockRecords, LockRecordsReturn, LockRecordsNext, LockRecordsFail, Rollback, UndoInv, LockingType
  <2>4. Undoes(p) /\ locking[p] \in LockingType
    BY <1>1 DEF UndoInv
  <2> DEFINE done == locking[p].done
  <2>5. locking[p].back > Len(done)
    <3> SUFFICES ASSUME ~(locking[p].back > Len(done)) PROVE FALSE
      OBVIOUS
    <3> DEFINE i == locking[p].back
               h == done[i][1]
               r == done[i][2]
    <3>1. i \in 1 .. Len(done) /\ done[i] \in Handles \X Records /\ done[i] = <<h, r>>
      BY <2>4 DEF Undoes, LockingType
    <3>2. ~CanLock(p, h) \/ Matching(h, r) = {}
      BY <2>3, <3>1 DEF RollbackEnd
    <3>3. h \in HandlesOf(p) /\ fh[h].kind = "regular" /\ r \in Records
      BY <2>4, <3>1 DEF Undoes
    <3>4. CanLock(p, h)
      <4>1. FileOf(h) # NoFile /\ fh[h].program = p
        BY <1>1, <3>3, HandleFacts DEF FileOf
      <4> QED BY <3>3, <4>1 DEF CanLock
    <3>5. i \in Pending(p, h, r)
      BY <3>1 DEF Pending
    <3>6. IsFiniteSet(Pending(p, h, r)) /\ Cardinality(Pending(p, h, r)) \in Nat
      BY <1>1, PendingFinite
    <3>7. Cardinality(Pending(p, h, r)) # 0
      BY <3>5, <3>6, FS_EmptySet
    <3>8. Cardinality(Pending(p, h, r)) <= Cardinality(Matching(h, r))
      BY <2>4, <3>3 DEF Undoes
    <3>9. Matching(h, r) # {}
      <4> HIDE DEF h, r
      <4>1. Matching(h, r) = {} => Cardinality(Matching(h, r)) = 0
        BY FS_EmptySet
      <4> QED BY <3>6, <3>7, <3>8, <4>1
    <3> QED BY <3>2, <3>4, <3>9
  <2>6. \A h, r : Pending(p, h, r) = {}
    BY <2>4, <2>5 DEF Pending, LockingType
  <2>7. \A h, r : Cardinality(Matching(h, r)) - Cardinality(Pending(p, h, r)) = Cardinality(Matching(h, r))
    BY <1>1, <2>6, FS_EmptySet, MatchingFinite DEF FilesInv
  <2> DEFINE left(h, r) == Cardinality(Matching(h, r)) - Cardinality(Pending(p, h, r))
             count(h, r) == Cardinality(Matching(h, r))
  <2>8. locking[p].before = { <<h, r, left(h, r)>> : h \in HandlesOf(p), r \in Records }
    BY <2>4 DEF Undoes
  <2>9. \A h, r : left(h, r) = count(h, r)
    BY <2>7
  <2>10. RecordsOf(p) = { <<h, r, count(h, r)>> : h \in HandlesOf(p), r \in Records }
    BY DEF RecordsOf, HandlesOf
  <2> HIDE DEF left, count
  <2> QED BY <2>8, <2>9, <2>10
<1>2. ASSUME FilesInv, UndoInv, [FilesNext]_fileVars
      PROVE  [ \A p \in Programs :
                 locking[p].at = "rollback" /\ locking'[p].at = "program" =>
                     stdClosed \/ RecordsOf(p) = locking[p].before ]_fileVars
  BY <1>1, <1>2
<1> QED BY <1>2, InitUndoInv, NextUndoInv, AlwaysFilesInv, PTL DEF FilesSpec, FailedLockRecordsUndone

-----------------------------------------------------------------------------
(* Processes.                                                              *)

\* The calls in which a process has a child that does not run yet.
Creating(p) == procAt[p] \in {"find", "replace", "launch"}
Watching(p) == procAt[p] \in {"launched", "poll"}
ChildOf(p) == procCall[p].child

\* A process that has not cleared its slot yet.
AlivePlaces == {"program", "find", "replace", "launch", "launched", "poll", "exit", "remtask"}
Alive(p) == procAt[p] \in AlivePlaces

\* SlotsNameProcesses without the way out; a process that leaves has no number.
Numbered ==
    /\ \A p \in ProcMem : pr_TaskNum[p] # 0 /\ procAt[p] # "free" => taskArray[pr_TaskNum[p]] = p
    /\ \A i \in Slots \ lostSlots : taskArray[i] # NoProc =>
          procAt[taskArray[i]] # "free" /\ pr_TaskNum[taskArray[i]] = i
    /\ \A p \in ProcMem : procAt[p] \in {"callback", "remove"} => pr_TaskNum[p] = 0

\* A child that does not run yet has one creator, which will hear of its end.
Children ==
    /\ \A p \in ProcMem : Creating(p) =>
          /\ ChildOf(p) \in ProcMem /\ procAt[ChildOf(p)] = "new" /\ procCall[p].left = "no"
          /\ procCall[p].kind = "run" => exitBlock[ChildOf(p)] = p
          /\ procAt[p] # "launch" => pr_TaskNum[ChildOf(p)] = 0
    /\ \A p, q \in ProcMem : Creating(p) /\ Creating(q) /\ ChildOf(p) = ChildOf(q) => p = q

\* Who waits for a child that has not left knows its number; RunCommand() has the
\* exit code of one that has left by Exit(), or is about to get it.
Watched ==
    \A p \in ProcMem : Watching(p) =>
        /\ ChildOf(p) \in ProcMem
        /\ procCall[p].left = "no" =>
              /\ Alive(ChildOf(p))
              /\ procAt[p] = "poll" => procCall[p].num = pr_TaskNum[ChildOf(p)]
              /\ procCall[p].kind = "run" => exitBlock[ChildOf(p)] = p
        /\ procCall[p].kind = "run" /\ procCall[p].left = "exit" =>
              procCall[p].result = "code"
                \/ (procAt[ChildOf(p)] = "callback" /\ exitBlock[ChildOf(p)] = p)

ProcInv == ProcTypeOK /\ (raced \/ (Numbered /\ Children /\ Watched))

ProcPlaces == {"free", "new", "program", "find", "replace", "launch", "launched", "poll",
               "exit", "remtask", "callback", "remove"}
ProcCallType == [kind : {"none", "run", "system", "asynch", "process"},
                 child : ProcMem \cup {NoProc}, num : Nat,
                 result : {"none", "code"}, left : {"no", "exit", "remtask"}]

\* ProcTypeOK by these names.
ProcTypes ==
    /\ taskArray \in Seq(ProcMem \cup {NoProc}) /\ copied \in [ProcMem -> Seq(ProcMem \cup {NoProc})]
    /\ pr_TaskNum \in [ProcMem -> Nat]
    /\ raced \/ \A p \in ProcMem : pr_TaskNum[p] <= Len(taskArray)
    /\ procAt \in [ProcMem -> ProcPlaces]
    /\ procCall \in [ProcMem -> ProcCallType]
    /\ exitBlock \in [ProcMem -> ProcMem \cup {NoProc}]
    /\ oldArray \subseteq ProcMem /\ raced \in BOOLEAN

\* ProcTypeOK with its sets named.
LEMMA ProcTypesByName ==
    /\ ProcTypeOK <=> ProcTypes
    /\ ProcTypeOK' <=> ProcTypes'
BY DEF ProcTypeOK, ProcTypes, ProcPlaces, ProcCallType

\* The invariant holds at first: the bootstrap has slot 1 and nobody waits.
LEMMA InitProcInv == ProcInit => ProcInv
<1> SUFFICES ASSUME ProcInit PROVE ProcInv
  OBVIOUS
<1> USE ProcMemAssumption, SlotsAssumption
<1>1. taskArray \in Seq(ProcMem \cup {NoProc}) /\ Len(taskArray) = InitialSlots
  BY DEF ProcInit
<1>2. ProcTypes
  <2>1. copied \in [ProcMem -> Seq(ProcMem \cup {NoProc})]
    BY DEF ProcInit
  <2>2. NoProcCall \in ProcCallType
    BY DEF NoProcCall, ProcCallType
  <2>3. procCall \in [ProcMem -> ProcCallType]
    BY <2>2 DEF ProcInit
  <2>4. raced \in BOOLEAN
    BY Zenon DEF ProcInit
  <2>5. pr_TaskNum \in [ProcMem -> Nat] /\ \A p \in ProcMem : pr_TaskNum[p] <= Len(taskArray)
    BY <1>1 DEF ProcInit
  <2>6. /\ procAt \in [ProcMem -> ProcPlaces] /\ exitBlock \in [ProcMem -> ProcMem \cup {NoProc}]
        /\ oldArray \subseteq ProcMem
    BY DEF ProcInit, ProcPlaces
  <2> QED BY <1>1, <2>1, <2>3, <2>4, <2>5, <2>6 DEF ProcTypes
<1>3. Numbered
  BY <1>1 DEF ProcInit, Numbered, Slots
<1>4. Children /\ Watched
  BY DEF ProcInit, Children, Watched, Creating, Watching
<1> QED BY <1>2, <1>3, <1>4, ProcTypesByName DEF ProcInv

\* What CreateNewProc() takes for the child is a free address.
LEMMA CreateNewProcStep ==
    ASSUME ProcInv, ~raced, NEW p \in ProcMem,
           NEW kind \in {"run", "system", "asynch", "process"}, CreateNewProc(p, kind)
    PROVE  ProcInv'
<1>1. PICK c \in ProcMem :
        /\ procAt[p] = "program" /\ procAt[c] = "free"
        /\ procAt' = [procAt EXCEPT ![c] = "new",
                                    ![p] = IF kind = "process" THEN "launch" ELSE "find"]
        /\ pr_TaskNum' = [pr_TaskNum EXCEPT ![c] = 0]
        /\ procCall' = [procCall EXCEPT ![p] = [NoProcCall EXCEPT !.kind = kind, !.child = c]]
        /\ exitBlock' = [exitBlock EXCEPT ![c] = IF kind = "run" THEN p ELSE NoProc]
        /\ oldArray' = oldArray \ {p}
        /\ taskArray' = IF kind = "process" THEN taskArray ELSE OwnSlotBack(p)
        /\ UNCHANGED <<copied, raced, lostSlots>>
  BY DEF CreateNewProc, Goes
<1>2. ProcTypes /\ Numbered /\ Children /\ Watched
  BY ProcTypesByName DEF ProcInv
<1>3. taskArray' = taskArray
  BY <1>1, <1>2, ProcMemAssumption DEF OwnSlotBack, Numbered, Slots
<1> DEFINE new == [NoProcCall EXCEPT !.kind = kind, !.child = c]
<1>4. /\ new \in ProcCallType
      /\ new.kind = kind /\ new.child = c /\ new.left = "no"
  BY DEF NoProcCall, ProcCallType
<1>5. procCall' = [procCall EXCEPT ![p] = new] /\ c # p
  BY <1>1
<1> HIDE DEF new
<1>6. /\ procAt' \in [ProcMem -> ProcPlaces]
      /\ procAt'[p] \in {"find", "launch"} /\ procAt'[c] = "new"
      /\ \A q \in ProcMem \ {p, c} : procAt'[q] = procAt[q]
  BY <1>1, <1>2 DEF ProcTypes, ProcPlaces
<1>7. /\ procCall' \in [ProcMem -> ProcCallType]
      /\ procCall'[p] = new /\ \A q \in ProcMem \ {p} : procCall'[q] = procCall[q]
  BY <1>2, <1>4, <1>5 DEF ProcTypes
<1>8. /\ pr_TaskNum' \in [ProcMem -> Nat]
      /\ pr_TaskNum'[c] = 0 /\ \A q \in ProcMem \ {c} : pr_TaskNum'[q] = pr_TaskNum[q]
  BY <1>1, <1>2 DEF ProcTypes
<1>9. /\ exitBlock' \in [ProcMem -> ProcMem \cup {NoProc}]
      /\ kind = "run" => exitBlock'[c] = p
      /\ \A q \in ProcMem \ {c} : exitBlock'[q] = exitBlock[q]
  BY <1>1, <1>2 DEF ProcTypes
<1>10. ProcTypes'
  <2>1. \A q \in ProcMem : pr_TaskNum'[q] <= Len(taskArray')
    <3>1. Len(taskArray) \in Nat /\ \A q \in ProcMem : pr_TaskNum[q] <= Len(taskArray)
      BY <1>2 DEF ProcTypes
    <3>2. Len(taskArray') = Len(taskArray)
      BY <1>3
    <3> QED BY <1>8, <3>1, <3>2
  <2>2. taskArray' \in Seq(ProcMem \cup {NoProc}) /\ copied' \in [ProcMem -> Seq(ProcMem \cup {NoProc})]
    BY <1>1, <1>2, <1>3 DEF ProcTypes
  <2>3. oldArray' \subseteq ProcMem /\ raced' \in BOOLEAN
    BY <1>1, <1>2 DEF ProcTypes
  <2> QED BY <1>6, <1>7, <1>8, <1>9, <2>1, <2>2, <2>3 DEF ProcTypes
<1>11. Numbered'
  <2>1. \A q \in ProcMem : pr_TaskNum'[q] # 0 /\ procAt'[q] # "free" => taskArray'[pr_TaskNum'[q]] = q
    BY <1>1, <1>2, <1>3, <1>6, <1>8 DEF Numbered
  <2>2. \A i \in Slots \ lostSlots : taskArray[i] # NoProc => taskArray[i] \in ProcMem \ {c}
    BY <1>1, <1>2 DEF Numbered, Slots, ProcTypes
  <2>3. \A i \in Slots \ lostSlots : taskArray[i] # NoProc =>
          procAt'[taskArray[i]] # "free" /\ pr_TaskNum'[taskArray[i]] = i
    BY <1>1, <1>2, <1>6, <1>8, <2>2 DEF Numbered
  <2>4. Slots' = Slots /\ lostSlots' = lostSlots
    BY <1>1, <1>3 DEF Slots
  <2>5. \A q \in ProcMem : procAt'[q] \in {"callback", "remove"} => pr_TaskNum'[q] = 0
    BY <1>1, <1>2, <1>6, <1>8 DEF Numbered
  <2> QED BY <1>3, <2>1, <2>3, <2>4, <2>5 DEF Numbered
<1>12. Children'
  <2>1. \A q \in ProcMem \ {p} : Creating(q)' => Creating(q) /\ ChildOf(q) # c
    BY <1>1, <1>2, <1>5, <1>6 DEF Creating, Children
  <2>2. /\ ChildOf(p)' = c /\ procCall'[p].kind = kind /\ procCall'[p].left = "no"
        /\ \A q \in ProcMem \ {p} : ChildOf(q)' = ChildOf(q)
    BY <1>4, <1>7 DEF ChildOf
  <2>3. \A q \in ProcMem \ {p} : Creating(q)' =>
          /\ ChildOf(q) \in ProcMem \ {p, c} /\ procAt'[ChildOf(q)] = "new" /\ procCall'[q].left = "no"
          /\ procCall'[q].kind = "run" => exitBlock'[ChildOf(q)] = q
          /\ procAt'[q] # "launch" => pr_TaskNum'[ChildOf(q)] = 0
    <3> TAKE q \in ProcMem \ {p}
    <3> HAVE Creating(q)'
    <3>1. Creating(q) /\ ChildOf(q) # c /\ q # c
      BY <1>6, <2>1 DEF Creating
    <3>2. ChildOf(q) \in ProcMem /\ ChildOf(q) # p
      BY <1>1, <1>2, <3>1 DEF Children
    <3> QED BY <1>2, <1>6, <1>7, <1>8, <1>9, <3>1, <3>2 DEF Children
  <2>4. \A q, r \in ProcMem : Creating(q)' /\ Creating(r)' /\ ChildOf(q)' = ChildOf(r)' => q = r
    BY <1>2, <2>1, <2>2 DEF Children
  <2>5. \A q \in ProcMem : Creating(q)' =>
          /\ ChildOf(q)' \in ProcMem /\ procAt'[ChildOf(q)'] = "new" /\ procCall'[q].left = "no"
          /\ procCall'[q].kind = "run" => exitBlock'[ChildOf(q)'] = q
          /\ procAt'[q] # "launch" => pr_TaskNum'[ChildOf(q)'] = 0
    BY <1>6, <1>8, <1>9, <2>2, <2>3
  <2> QED BY <2>4, <2>5 DEF Children
<1>13. Watched'
  <2>1. \A q \in ProcMem : Watching(q)' => Watching(q) /\ q # p /\ q # c
    BY <1>1, <1>5, <1>6 DEF Watching
  <2>2. \A q \in ProcMem : Alive(q) => Alive(q)' /\ q # c
    BY <1>1, <1>6 DEF Alive, AlivePlaces
  <2> QED BY <1>1, <1>2, <1>5, <1>6, <1>7, <1>8, <1>9, <2>1, <2>2 DEF Watched, Watching, ChildOf
<1> QED BY <1>10, <1>11, <1>12, <1>13, ProcTypesByName DEF ProcInv

\* A process that does not run yet gets the number of a slot that named nobody:
\* the others keep theirs.
LEMMA NumberGiven ==
    ASSUME ProcTypes, ~raced, Numbered, Children, Watched,
           NEW p \in ProcMem, procAt[p] \in {"find", "replace"}, NEW i \in Slots',
           i \in Slots => taskArray[i] = NoProc,
           \A j \in Slots : j \in Slots' /\ (j # i => taskArray'[j] = taskArray[j]),
           \A j \in Slots' \ Slots : j # i => taskArray'[j] = NoProc,
           taskArray'[i] = ChildOf(p),
           pr_TaskNum' = [pr_TaskNum EXCEPT ![ChildOf(p)] = i],
           procAt' = [procAt EXCEPT ![p] = "launch"],
           UNCHANGED <<procCall, exitBlock, lostSlots>>
    PROVE  Numbered' /\ Children' /\ Watched'
<1> DEFINE c == ChildOf(p)
<1>1. Creating(p) /\ c \in ProcMem /\ procAt[c] = "new" /\ pr_TaskNum[c] = 0 /\ c # p
  BY DEF Children, Creating
<1>2. /\ pr_TaskNum'[c] = i /\ \A q \in ProcMem \ {c} : pr_TaskNum'[q] = pr_TaskNum[q]
      /\ procAt'[p] = "launch" /\ \A q \in ProcMem \ {p} : procAt'[q] = procAt[q]
      /\ \A q \in ProcMem : ChildOf(q)' = ChildOf(q)
  BY <1>1 DEF ProcTypes, ChildOf
<1> HIDE DEF c
<1>3. Slots \subseteq Nat \ {0} /\ Slots' \subseteq Nat \ {0}
  BY DEF Slots
<1>4. \A q \in ProcMem : pr_TaskNum[q] # 0 => pr_TaskNum[q] \in Slots
  BY <1>3 DEF ProcTypes, Slots
<1>5. Numbered'
  <2>1. \A q \in ProcMem : pr_TaskNum'[q] # 0 /\ procAt'[q] # "free" => taskArray'[pr_TaskNum'[q]] = q
    <3> TAKE q \in ProcMem
    <3> HAVE pr_TaskNum'[q] # 0 /\ procAt'[q] # "free"
    <3>1. CASE q = c
      BY <1>2, <3>1 DEF c
    <3>2. CASE q # c
      <4>1. pr_TaskNum'[q] = pr_TaskNum[q] /\ procAt[q] # "free" /\ pr_TaskNum[q] \in Slots
        BY <1>2, <1>4, <3>2
      <4>2. taskArray[pr_TaskNum[q]] = q
        BY <4>1, <1>3 DEF Numbered
      <4> QED BY <4>1, <4>2, ProcMemAssumption
    <3> QED BY <3>1, <3>2
  <2>2. \A j \in Slots' \ lostSlots : taskArray'[j] # NoProc =>
          procAt'[taskArray'[j]] # "free" /\ pr_TaskNum'[taskArray'[j]] = j
    <3> TAKE j \in Slots' \ lostSlots
    <3> HAVE taskArray'[j] # NoProc
    <3>1. CASE j = i
      BY <1>1, <1>2, <3>1 DEF c
    <3>2. CASE j # i
      <4>1. j \in Slots \ lostSlots /\ taskArray'[j] = taskArray[j]
        BY <3>2
      <4>2. procAt[taskArray[j]] # "free" /\ pr_TaskNum[taskArray[j]] = j /\ taskArray[j] \in ProcMem
        BY <4>1 DEF Numbered, Slots, ProcTypes
      <4>3. taskArray[j] # c
        BY <1>1, <1>3, <4>1, <4>2
      <4> QED BY <1>2, <4>1, <4>2, <4>3
    <3> QED BY <3>1, <3>2
  <2>3. \A q \in ProcMem : procAt'[q] \in {"callback", "remove"} => pr_TaskNum'[q] = 0
    BY <1>1, <1>2 DEF Numbered
  <2> QED BY <2>1, <2>2, <2>3 DEF Numbered
<1>6. Children'
  <2>1. \A q \in ProcMem : Creating(q)' <=> Creating(q)
    BY <1>1, <1>2 DEF Creating
  <2>2. \A q \in ProcMem : Creating(q) /\ q # p => ChildOf(q) # c /\ ChildOf(q) # p
    BY <1>1 DEF Children, c
  <2>3. \A q \in ProcMem : Creating(q) => procAt'[ChildOf(q)] = "new"
    BY <1>2 DEF Children
  <2>4. \A q \in ProcMem : Creating(q) /\ procAt'[q] # "launch" => pr_TaskNum'[ChildOf(q)] = 0
    BY <1>2, <2>2 DEF Children
  <2> QED BY <1>2, <2>1, <2>3, <2>4 DEF Children
<1>7. Watched'
  <2>1. \A q \in ProcMem : Watching(q)' <=> Watching(q) /\ q # p
    BY <1>1, <1>2 DEF Watching
  <2>2. \A q \in ProcMem : Alive(q) => Alive(q)' /\ q # c
    BY <1>1, <1>2 DEF Alive, AlivePlaces
  <2>3. \A q \in ProcMem : procAt[q] = "callback" => procAt'[q] = "callback"
    BY <1>2
  <2> QED BY <1>1, <1>2, <2>1, <2>2, <2>3 DEF Watched
<1> QED BY <1>5, <1>6, <1>7

\* FindSlot: the slot was free.
LEMMA FindSlotStep ==
    ASSUME ProcInv, ~raced, NEW p \in ProcMem, FindSlot(p)
    PROVE  ProcInv'
<1>1. PICK i \in FreeSlots :
        /\ procAt[p] = "find" /\ procAt' = [procAt EXCEPT ![p] = "launch"]
        /\ taskArray' = [taskArray EXCEPT ![i] = ChildOf(p)]
        /\ pr_TaskNum' = [pr_TaskNum EXCEPT ![ChildOf(p)] = i]
        /\ raced' = (raced \/ p \in oldArray)
        /\ UNCHANGED <<procCall, oldArray, copied, exitBlock, lostSlots>>
  BY DEF FindSlot, Goes, GoTo, ChildOf
<1>2. ProcTypes /\ Numbered /\ Children /\ Watched
  BY ProcTypesByName DEF ProcInv
<1>3. ChildOf(p) \in ProcMem
  BY <1>1, <1>2 DEF Children, Creating
<1>4. i \in Slots /\ taskArray[i] = NoProc /\ i \in Nat /\ Len(taskArray) \in Nat /\ i <= Len(taskArray)
  BY <1>1, <1>2 DEF FreeSlots, Slots, ProcTypes
<1>5. /\ taskArray' \in Seq(ProcMem \cup {NoProc}) /\ Len(taskArray') = Len(taskArray)
      /\ taskArray'[i] = ChildOf(p) /\ \A j \in Slots : j # i => taskArray'[j] = taskArray[j]
  BY <1>1, <1>2, <1>3, <1>4 DEF Slots, ProcTypes
<1>6. pr_TaskNum' \in [ProcMem -> Nat] /\ \A q \in ProcMem : pr_TaskNum'[q] <= Len(taskArray')
  BY <1>1, <1>2, <1>4, <1>5 DEF ProcTypes
<1>7. ProcTypes'
  <2>1. procAt' \in [ProcMem -> ProcPlaces]
    BY <1>1, <1>2 DEF ProcTypes, ProcPlaces
  <2>2. raced' \in BOOLEAN
    BY <1>1, <1>2, Zenon DEF ProcTypes
  <2> QED BY <1>1, <1>2, <1>5, <1>6, <2>1, <2>2 DEF ProcTypes
<1>8. Numbered' /\ Children' /\ Watched'
  <2>1. Slots' = Slots /\ i \in Slots'
    BY <1>4, <1>5 DEF Slots
  <2> QED BY <1>1, <1>2, <1>4, <1>5, <2>1, NumberGiven
<1> QED BY <1>7, <1>8, ProcTypesByName DEF ProcInv

\* Slots and numbers stay right in a step that leaves both alone.
LEMMA NumberedKept ==
    ASSUME ProcTypes, Numbered, UNCHANGED <<taskArray, pr_TaskNum, lostSlots>>,
           \A q \in ProcMem : procAt'[q] = "free" <=> procAt[q] = "free",
           \A q \in ProcMem : procAt'[q] \in {"callback", "remove"} =>
               procAt[q] \in {"callback", "remove"}
    PROVE  Numbered'
<1>1. \A q \in ProcMem : pr_TaskNum'[q] # 0 /\ procAt'[q] # "free" => taskArray'[pr_TaskNum'[q]] = q
  BY DEF Numbered
<1>2. Slots' = Slots
  BY DEF Slots
<1>3. \A i \in Slots' \ lostSlots' : taskArray'[i] # NoProc =>
        procAt'[taskArray'[i]] # "free" /\ pr_TaskNum'[taskArray'[i]] = i
  <2> TAKE i \in Slots' \ lostSlots'
  <2> HAVE taskArray'[i] # NoProc
  <2>1. i \in Slots \ lostSlots /\ taskArray[i] # NoProc
    BY <1>2
  <2>2. taskArray[i] \in ProcMem
    BY <2>1 DEF ProcTypes, Slots
  <2> QED BY <2>1, <2>2 DEF Numbered
<1>4. \A q \in ProcMem : procAt'[q] \in {"callback", "remove"} => pr_TaskNum'[q] = 0
  BY DEF Numbered
<1> QED BY <1>1, <1>3, <1>4 DEF Numbered

\* GrowArray, GrowArrayFails: nothing is numbered yet.
LEMMA GrowArrayStep ==
    ASSUME ProcInv, ~raced, NEW p \in ProcMem, GrowArray(p) \/ GrowArrayFails(p)
    PROVE  ProcInv'
<1>1. /\ procAt[p] = "find" /\ procAt' \in { [procAt EXCEPT ![p] = at] : at \in {"replace", "launch"} }
      /\ copied' \in { copied, [copied EXCEPT ![p] = taskArray] }
      /\ raced' = (raced \/ p \in oldArray)
      /\ UNCHANGED <<taskArray, pr_TaskNum, procCall, oldArray, exitBlock, lostSlots>>
  BY DEF GrowArray, GrowArrayFails, Goes, GoTo
<1>2. ProcTypes /\ Numbered /\ Children /\ Watched
  BY ProcTypesByName DEF ProcInv
<1>3. /\ procAt' \in [ProcMem -> ProcPlaces]
      /\ procAt'[p] \in {"replace", "launch"} /\ \A q \in ProcMem \ {p} : procAt'[q] = procAt[q]
  BY <1>1, <1>2 DEF ProcTypes, ProcPlaces
<1>4. ProcTypes'
  <2>1. copied' \in [ProcMem -> Seq(ProcMem \cup {NoProc})]
    BY <1>1, <1>2 DEF ProcTypes
  <2>2. raced' \in BOOLEAN
    BY <1>1, <1>2, Zenon DEF ProcTypes
  <2> QED BY <1>1, <1>2, <1>3, <2>1, <2>2 DEF ProcTypes
<1>5. Numbered'
  BY <1>1, <1>2, <1>3, NumberedKept
<1>6. Children' /\ Watched'
  <2>1. \A q \in ProcMem : Creating(q)' <=> Creating(q)
    BY <1>1, <1>3 DEF Creating
  <2>2. \A q \in ProcMem : (Watching(q)' <=> Watching(q)) /\ (Alive(q)' <=> Alive(q))
    BY <1>1, <1>3 DEF Watching, Alive, AlivePlaces
  <2>3. \A q \in ProcMem : ChildOf(q)' = ChildOf(q)
    BY <1>1 DEF ChildOf
  <2>4. Children'
    BY <1>1, <1>2, <1>3, <2>1, <2>3 DEF Children
  <2>5. Watched'
    BY <1>1, <1>2, <1>3, <2>2, <2>3 DEF Watched, Watching
  <2> QED BY <2>4, <2>5
<1> QED BY <1>4, <1>5, <1>6, ProcTypesByName DEF ProcInv

\* ReplaceArray: unless the array was changed since, the copy has all its slots.
LEMMA ReplaceArrayStep ==
    ASSUME ProcInv, ~raced, NEW p \in ProcMem, ReplaceArray(p)
    PROVE  ProcInv'
<1> DEFINE c == ChildOf(p)
           n == Len(copied[p])
           larger == [i \in 1 .. n + InitialSlots |->
                         IF i <= n THEN copied[p][i] ELSE IF i = n + 1 THEN c ELSE NoProc]
<1>1. /\ procAt[p] = "replace" /\ procAt' = [procAt EXCEPT ![p] = "launch"]
      /\ taskArray' = larger
      /\ pr_TaskNum' = [pr_TaskNum EXCEPT ![c] = n + 1]
      /\ oldArray' = Holders \ {p} /\ copied' = [copied EXCEPT ![p] = <<>>]
      /\ raced' = (raced \/ copied[p] # taskArray \/ p \in oldArray)
      /\ UNCHANGED <<procCall, exitBlock, lostSlots>>
  BY DEF ReplaceArray, Goes, GoTo, ChildOf
<1>2. ProcTypes /\ Numbered /\ Children /\ Watched
  BY ProcTypesByName DEF ProcInv
<1>3. c \in ProcMem
  BY <1>1, <1>2 DEF Children, Creating
<1>4. copied[p] \in Seq(ProcMem \cup {NoProc}) /\ n \in Nat
  BY <1>2 DEF ProcTypes
<1>5. \A i \in 1 .. n : copied[p][i] \in ProcMem \cup {NoProc}
  BY <1>4
<1>6. larger \in Seq(ProcMem \cup {NoProc}) /\ Len(larger) = n + InitialSlots
  <2>1. n + InitialSlots \in Nat
    BY <1>4, SlotsAssumption
  <2>2. \A i \in 1 .. n + InitialSlots :
          (IF i <= n THEN copied[p][i] ELSE IF i = n + 1 THEN c ELSE NoProc) \in ProcMem \cup {NoProc}
    BY <1>3, <1>4, <1>5, <2>1
  <2> HIDE DEF c, n
  <2> QED BY <2>1, <2>2
<1>7. /\ larger[n + 1] = c /\ n + 1 \in 1 .. n + InitialSlots
      /\ \A i \in 1 .. n : larger[i] = copied[p][i]
      /\ \A i \in 1 .. n + InitialSlots : i > n + 1 => larger[i] = NoProc
  BY <1>4, SlotsAssumption
<1> HIDE DEF c, larger
<1>8. ProcTypes'
  <2>1. procAt' \in [ProcMem -> ProcPlaces]
    BY <1>1, <1>2 DEF ProcTypes, ProcPlaces
  <2>2. raced' \in BOOLEAN
    BY <1>1, <1>2, Zenon DEF ProcTypes
  <2>3. pr_TaskNum' \in [ProcMem -> Nat]
    <3>1. n + 1 \in Nat
      BY <1>4
    <3> QED BY <1>1, <1>2, <3>1 DEF ProcTypes
  <2>4. raced' \/ \A q \in ProcMem : pr_TaskNum'[q] <= Len(taskArray')
    <3> SUFFICES ASSUME ~raced', NEW q \in ProcMem PROVE pr_TaskNum'[q] <= Len(taskArray')
      OBVIOUS
    <3>1. n = Len(taskArray) /\ pr_TaskNum[q] \in Nat /\ pr_TaskNum[q] <= n
      BY <1>1, <1>2 DEF ProcTypes
    <3>2. pr_TaskNum'[q] = n + 1 \/ pr_TaskNum'[q] = pr_TaskNum[q]
      BY <1>1, <1>2 DEF ProcTypes
    <3>3. Len(taskArray') = n + InitialSlots
      BY <1>1, <1>6
    <3> QED BY <1>4, <3>1, <3>2, <3>3, SlotsAssumption
  <2>5. copied' \in [ProcMem -> Seq(ProcMem \cup {NoProc})] /\ oldArray' \subseteq ProcMem
    BY <1>1, <1>2 DEF ProcTypes, Holders
  <2> QED BY <1>1, <1>2, <1>6, <2>1, <2>2, <2>3, <2>4, <2>5 DEF ProcTypes
<1>9. raced' \/ (Numbered' /\ Children' /\ Watched')
  <2> SUFFICES ASSUME ~raced' PROVE Numbered' /\ Children' /\ Watched'
    OBVIOUS
  <2>1. copied[p] = taskArray
    BY <1>1
  <2>2. Slots = 1 .. n /\ Slots' = 1 .. n + InitialSlots
    BY <1>1, <1>6, <2>1 DEF Slots
  <2>3. /\ n + 1 \in Slots' /\ n + 1 \notin Slots /\ taskArray'[n + 1] = ChildOf(p)
        /\ \A j \in Slots : j \in Slots' /\ taskArray'[j] = taskArray[j]
        /\ \A j \in Slots' \ Slots : j # n + 1 => taskArray'[j] = NoProc
    BY <1>1, <1>4, <1>7, <2>1, <2>2, SlotsAssumption DEF c
  <2> QED BY <1>1, <1>2, <2>3, NumberGiven DEF c
<1> QED BY <1>8, <1>9, ProcTypesByName DEF ProcInv

\* AllocCliFails: what names the address of the child now is a lost slot.
LEMMA AllocCliFailsStep ==
    ASSUME ProcInv, ~raced, NEW p \in ProcMem, AllocCliFails(p)
    PROVE  ProcInv'
<1> DEFINE c == ChildOf(p)
<1>1. /\ procAt[p] = "launch" /\ procAt' = [procAt EXCEPT ![p] = "program", ![c] = "free"]
      /\ lostSlots' = lostSlots \cup ({pr_TaskNum[c]} \cap Slots)
      /\ procCall' = [procCall EXCEPT ![p] = NoProcCall]
      /\ exitBlock' = [exitBlock EXCEPT ![c] = NoProc]
      /\ UNCHANGED <<taskArray, pr_TaskNum, oldArray, copied, raced>>
  BY DEF AllocCliFails, Goes, ChildOf
<1>2. ProcTypes /\ Numbered /\ Children /\ Watched
  BY ProcTypesByName DEF ProcInv
<1>3. Creating(p) /\ c \in ProcMem /\ procAt[c] = "new" /\ c # p
  BY <1>1, <1>2 DEF Children, Creating
<1> HIDE DEF c
<1>4. /\ procAt' \in [ProcMem -> ProcPlaces]
      /\ procAt'[p] = "program" /\ procAt'[c] = "free"
      /\ \A q \in ProcMem \ {p, c} : procAt'[q] = procAt[q]
  BY <1>1, <1>2, <1>3 DEF ProcTypes, ProcPlaces
<1>5. /\ procCall' \in [ProcMem -> ProcCallType]
      /\ \A q \in ProcMem \ {p} : procCall'[q] = procCall[q]
  <2>1. NoProcCall \in ProcCallType
    BY DEF NoProcCall, ProcCallType
  <2> QED BY <1>1, <1>2, <2>1 DEF ProcTypes
<1>6. /\ exitBlock' \in [ProcMem -> ProcMem \cup {NoProc}]
      /\ \A q \in ProcMem \ {c} : exitBlock'[q] = exitBlock[q]
  BY <1>1, <1>2 DEF ProcTypes
<1>7. ProcTypes'
  BY <1>1, <1>2, <1>4, <1>5, <1>6 DEF ProcTypes
<1>8. Numbered'
  <2>1. \A q \in ProcMem : pr_TaskNum'[q] # 0 /\ procAt'[q] # "free" => taskArray'[pr_TaskNum'[q]] = q
    BY <1>1, <1>2, <1>4 DEF Numbered
  <2>2. \A i \in Slots' \ lostSlots' : taskArray'[i] # NoProc =>
          procAt'[taskArray'[i]] # "free" /\ pr_TaskNum'[taskArray'[i]] = i
    <3> TAKE i \in Slots' \ lostSlots'
    <3> HAVE taskArray'[i] # NoProc
    <3>1. i \in Slots \ lostSlots /\ i # pr_TaskNum[c] /\ taskArray'[i] = taskArray[i]
      BY <1>1 DEF Slots
    <3>2. taskArray[i] \in ProcMem /\ procAt[taskArray[i]] # "free" /\ pr_TaskNum[taskArray[i]] = i
      BY <1>2, <3>1 DEF ProcTypes, Slots, Numbered
    <3> QED BY <1>1, <1>3, <1>4, <3>1, <3>2
  <2>3. \A q \in ProcMem : procAt'[q] \in {"callback", "remove"} => pr_TaskNum'[q] = 0
    BY <1>1, <1>2, <1>4 DEF Numbered
  <2> QED BY <2>1, <2>2, <2>3 DEF Numbered
<1>9. Children'
  <2>1. \A q \in ProcMem : Creating(q)' => Creating(q) /\ q # p /\ q # c
    BY <1>3, <1>4 DEF Creating
  <2>2. \A q \in ProcMem : Creating(q)' => ChildOf(q) # c /\ ChildOf(q) # p
    BY <1>1, <1>2, <1>3, <2>1 DEF Children, c
  <2>3. \A q \in ProcMem : Creating(q)' => ChildOf(q)' = ChildOf(q)
    BY <1>5, <2>1 DEF ChildOf
  <2>4. \A q \in ProcMem : Creating(q)' =>
          /\ ChildOf(q) \in ProcMem /\ procAt'[ChildOf(q)] = "new" /\ procCall'[q].left = "no"
          /\ procCall'[q].kind = "run" => exitBlock'[ChildOf(q)] = q
          /\ procAt'[q] # "launch" => pr_TaskNum'[ChildOf(q)] = 0
    BY <1>1, <1>2, <1>4, <1>5, <1>6, <2>1, <2>2 DEF Children
  <2> QED BY <1>2, <2>1, <2>3, <2>4 DEF Children
<1>10. Watched'
  <2>1. \A q \in ProcMem : Watching(q)' => Watching(q) /\ q # p /\ q # c
    BY <1>3, <1>4 DEF Watching
  <2>2. \A q \in ProcMem : Alive(q) => Alive(q)' /\ q # c
    BY <1>3, <1>4 DEF Alive, AlivePlaces
  <2>3. \A q \in ProcMem : Watching(q)' => ChildOf(q)' = ChildOf(q)
    BY <1>5, <2>1 DEF ChildOf
  <2>4. \A q \in ProcMem : procAt[q] = "callback" => procAt'[q] = "callback" /\ q # c
    BY <1>1, <1>3, <1>4
  <2> QED BY <1>1, <1>2, <1>4, <1>5, <1>6, <2>1, <2>2, <2>3, <2>4 DEF Watched
<1> QED BY <1>7, <1>8, <1>9, <1>10, ProcTypesByName DEF ProcInv

\* LaunchProc: from now on the child can leave, and its creator hears of it.
LEMMA LaunchProcStep ==
    ASSUME ProcInv, ~raced, NEW p \in ProcMem, LaunchProc(p)
    PROVE  ProcInv'
<1> DEFINE c == ChildOf(p)
<1>1. /\ procAt[p] = "launch" /\ procAt' = [procAt EXCEPT ![p] = "launched", ![c] = "program"]
      /\ UNCHANGED <<taskArray, pr_TaskNum, procCall, oldArray, copied, exitBlock, raced, lostSlots>>
  BY DEF LaunchProc, Goes, ChildOf
<1>2. ProcTypes /\ Numbered /\ Children /\ Watched
  BY ProcTypesByName DEF ProcInv
<1>3. /\ Creating(p) /\ c \in ProcMem /\ procAt[c] = "new" /\ c # p
      /\ procCall[p].left = "no"
      /\ procCall[p].kind = "run" => exitBlock[c] = p
  BY <1>1, <1>2 DEF Children, Creating
<1> HIDE DEF c
<1>4. /\ procAt' \in [ProcMem -> ProcPlaces]
      /\ procAt'[p] = "launched" /\ procAt'[c] = "program"
      /\ \A q \in ProcMem \ {p, c} : procAt'[q] = procAt[q]
  BY <1>1, <1>2, <1>3 DEF ProcTypes, ProcPlaces
<1>5. ProcTypes'
  BY <1>1, <1>2, <1>4 DEF ProcTypes
<1>6. Numbered'
  BY <1>1, <1>2, <1>3, <1>4, NumberedKept
<1>7. \A q \in ProcMem : ChildOf(q)' = ChildOf(q)
  BY <1>1 DEF ChildOf
<1>8. Children'
  <2>1. \A q \in ProcMem : Creating(q)' => Creating(q) /\ q # p /\ q # c
    BY <1>3, <1>4 DEF Creating
  <2>2. \A q \in ProcMem : Creating(q)' => ChildOf(q) # c /\ ChildOf(q) # p
    BY <1>1, <1>2, <1>3, <2>1 DEF Children, c
  <2> QED BY <1>1, <1>2, <1>4, <1>7, <2>1, <2>2 DEF Children
<1>9. Watched'
  <2>1. \A q \in ProcMem : Watching(q)' => q # c /\ (q # p => Watching(q))
    BY <1>3, <1>4 DEF Watching
  <2>2. \A q \in ProcMem : Alive(q) \/ q = c => Alive(q)'
    BY <1>3, <1>4 DEF Alive, AlivePlaces
  <2>3. \A q \in ProcMem : procAt[q] = "callback" => procAt'[q] = "callback"
    BY <1>1, <1>3, <1>4
  <2>4. \A q \in ProcMem : procAt'[q] = "poll" => procAt[q] = "poll"
    BY <1>4
  <2>5. ChildOf(p) = c
    BY DEF c
  <2> SUFFICES ASSUME NEW q \in ProcMem, Watching(q)'
               PROVE  /\ ChildOf(q) \in ProcMem
                      /\ procCall[q].left = "no" =>
                            /\ procAt'[ChildOf(q)] \in AlivePlaces
                            /\ procAt'[q] = "poll" => procCall[q].num = pr_TaskNum[ChildOf(q)]
                            /\ procCall[q].kind = "run" => exitBlock[ChildOf(q)] = q
                      /\ procCall[q].kind = "run" /\ procCall[q].left = "exit" =>
                            procCall[q].result = "code"
                              \/ (procAt'[ChildOf(q)] = "callback" /\ exitBlock[ChildOf(q)] = q)
    BY <1>1, <1>7 DEF Watched, Alive
  <2>6. CASE q = p
    <3>1. procAt'[c] \in AlivePlaces
      BY <1>4 DEF AlivePlaces
    <3>2. ChildOf(q) = c /\ procAt'[q] = "launched"
      BY <1>4, <2>5, <2>6 DEF ChildOf
    <3>3. procCall[q].left = "no" /\ (procCall[q].kind = "run" => exitBlock[c] = q)
      BY <1>3, <2>6
    <3> QED BY <1>3, <3>1, <3>2, <3>3
  <2>7. CASE q # p
    <3>1. /\ ChildOf(q) \in ProcMem
          /\ procCall[q].left = "no" =>
                /\ Alive(ChildOf(q))
                /\ procAt[q] = "poll" => procCall[q].num = pr_TaskNum[ChildOf(q)]
                /\ procCall[q].kind = "run" => exitBlock[ChildOf(q)] = q
          /\ procCall[q].kind = "run" /\ procCall[q].left = "exit" =>
                procCall[q].result = "code"
                  \/ (procAt[ChildOf(q)] = "callback" /\ exitBlock[ChildOf(q)] = q)
      BY <1>2, <2>1, <2>7 DEF Watched
    <3>2. procCall[q].left = "no" => procAt'[ChildOf(q)] \in AlivePlaces
      BY <2>2, <3>1 DEF Alive
    <3> QED BY <2>3, <2>4, <3>1, <3>2
  <2> QED BY <2>6, <2>7
<1> QED BY <1>5, <1>6, <1>8, <1>9, ProcTypesByName DEF ProcInv

\* CreateReturn, WaitReturn: the call is over.
LEMMA ReturnStep ==
    ASSUME ProcInv, ~raced, NEW p \in ProcMem, CreateReturn(p) \/ WaitReturn(p)
    PROVE  ProcInv'
<1>1. /\ procAt[p] \in {"launched", "poll"} /\ procAt' = [procAt EXCEPT ![p] = "program"]
      /\ procCall' = [procCall EXCEPT ![p] = NoProcCall]
      /\ UNCHANGED <<taskArray, pr_TaskNum, oldArray, copied, exitBlock, raced, lostSlots>>
  BY DEF CreateReturn, WaitReturn, Goes, GoTo
<1>2. ProcTypes /\ Numbered /\ Children /\ Watched
  BY ProcTypesByName DEF ProcInv
<1>3. /\ procAt' \in [ProcMem -> ProcPlaces]
      /\ procAt'[p] = "program" /\ \A q \in ProcMem \ {p} : procAt'[q] = procAt[q]
  BY <1>1, <1>2 DEF ProcTypes, ProcPlaces
<1>4. /\ procCall' \in [ProcMem -> ProcCallType]
      /\ \A q \in ProcMem \ {p} : procCall'[q] = procCall[q]
  <2>1. NoProcCall \in ProcCallType
    BY DEF NoProcCall, ProcCallType
  <2> QED BY <1>1, <1>2, <2>1 DEF ProcTypes
<1>5. ProcTypes'
  BY <1>1, <1>2, <1>3, <1>4 DEF ProcTypes
<1>6. Numbered'
  BY <1>1, <1>2, <1>3, NumberedKept
<1>7. \A q \in ProcMem \ {p} : ChildOf(q)' = ChildOf(q)
  BY <1>4 DEF ChildOf
<1>8. Children'
  <2>1. \A q \in ProcMem : Creating(q)' => Creating(q) /\ q # p
    BY <1>3 DEF Creating
  <2>2. \A q \in ProcMem : Creating(q)' => ChildOf(q) # p
    BY <1>1, <1>2, <2>1 DEF Children
  <2> QED BY <1>1, <1>2, <1>3, <1>4, <1>7, <2>1, <2>2 DEF Children
<1>9. Watched'
  <2>1. \A q \in ProcMem : Watching(q)' => Watching(q) /\ q # p
    BY <1>3 DEF Watching
  <2>2. \A q \in ProcMem : Alive(q) => Alive(q)'
    BY <1>1, <1>3 DEF Alive, AlivePlaces
  <2>3. \A q \in ProcMem : procAt[q] = "callback" => procAt'[q] = "callback"
    BY <1>1, <1>3
  <2> QED BY <1>1, <1>2, <1>3, <1>4, <1>7, <2>1, <2>2, <2>3 DEF Watched
<1> QED BY <1>5, <1>6, <1>8, <1>9, ProcTypesByName DEF ProcInv

\* ReadTaskNum: the number of a child that has not left is its own.
LEMMA ReadTaskNumStep ==
    ASSUME ProcInv, ~raced, NEW p \in ProcMem, ReadTaskNum(p)
    PROVE  ProcInv'
<1>1. /\ procAt[p] = "launched" /\ procAt' = [procAt EXCEPT ![p] = "poll"]
      /\ procCall' = [procCall EXCEPT ![p].num = pr_TaskNum[ChildOf(p)]]
      /\ UNCHANGED <<taskArray, pr_TaskNum, oldArray, copied, exitBlock, raced, lostSlots>>
  BY DEF ReadTaskNum, Goes, GoTo, ChildOf
<1>2. ProcTypes /\ Numbered /\ Children /\ Watched
  BY ProcTypesByName DEF ProcInv
<1>3. /\ procAt' \in [ProcMem -> ProcPlaces]
      /\ procAt'[p] = "poll" /\ \A q \in ProcMem \ {p} : procAt'[q] = procAt[q]
  BY <1>1, <1>2 DEF ProcTypes, ProcPlaces
<1>4. ChildOf(p) \in ProcMem /\ pr_TaskNum[ChildOf(p)] \in Nat
  BY <1>1, <1>2 DEF ProcTypes, Watched, Watching
<1>5. /\ procCall' \in [ProcMem -> ProcCallType]
      /\ procCall'[p].num = pr_TaskNum[ChildOf(p)]
      /\ \A q \in ProcMem : /\ procCall'[q].child = procCall[q].child
                            /\ procCall'[q].kind = procCall[q].kind
                            /\ procCall'[q].left = procCall[q].left
                            /\ procCall'[q].result = procCall[q].result
                            /\ q # p => procCall'[q].num = procCall[q].num
  BY <1>1, <1>2, <1>4, ZenonT(40) DEF ProcTypes, ProcCallType
<1>6. ProcTypes'
  BY <1>1, <1>2, <1>3, <1>5 DEF ProcTypes
<1>7. Numbered'
  BY <1>1, <1>2, <1>3, NumberedKept
<1>8. \A q \in ProcMem : ChildOf(q)' = ChildOf(q)
  BY <1>5 DEF ChildOf
<1>9. Children'
  <2>1. \A q \in ProcMem : Creating(q)' => Creating(q) /\ q # p
    BY <1>3 DEF Creating
  <2>2. \A q \in ProcMem : Creating(q)' => ChildOf(q) # p
    BY <1>1, <1>2, <2>1 DEF Children
  <2> QED BY <1>1, <1>2, <1>3, <1>5, <1>8, <2>1, <2>2 DEF Children
<1>10. Watched'
  <2>1. \A q \in ProcMem : Watching(q)' => Watching(q)
    BY <1>1, <1>3 DEF Watching
  <2>2. \A q \in ProcMem : Alive(q) => Alive(q)'
    BY <1>1, <1>3 DEF Alive, AlivePlaces
  <2>3. \A q \in ProcMem : procAt[q] = "callback" => procAt'[q] = "callback"
    BY <1>1, <1>3
  <2> QED BY <1>1, <1>2, <1>3, <1>5, <1>8, <2>1, <2>2, <2>3 DEF Watched
<1> QED BY <1>6, <1>7, <1>9, <1>10, ProcTypesByName DEF ProcInv

\* Leave: the process is still alive.
LEMMA LeaveStep ==
    ASSUME ProcInv, ~raced, NEW p \in ProcMem, Leave(p, "exit") \/ Leave(p, "remtask")
    PROVE  ProcInv'
<1>1. /\ procAt[p] = "program"
      /\ procAt' \in { [procAt EXCEPT ![p] = how] : how \in {"exit", "remtask"} }
      /\ oldArray' = oldArray \ {p}
      /\ UNCHANGED <<taskArray, pr_TaskNum, procCall, copied, exitBlock, raced, lostSlots>>
  BY DEF Leave, Goes, GoTo
<1>2. ProcTypes /\ Numbered /\ Children /\ Watched
  BY ProcTypesByName DEF ProcInv
<1>3. /\ procAt' \in [ProcMem -> ProcPlaces]
      /\ procAt'[p] \in {"exit", "remtask"} /\ \A q \in ProcMem \ {p} : procAt'[q] = procAt[q]
  BY <1>1, <1>2 DEF ProcTypes, ProcPlaces
<1>4. ProcTypes'
  BY <1>1, <1>2, <1>3 DEF ProcTypes
<1>5. Numbered'
  BY <1>1, <1>2, <1>3, NumberedKept
<1>6. \A q \in ProcMem : ChildOf(q)' = ChildOf(q)
  BY <1>1 DEF ChildOf
<1>7. \A q \in ProcMem : /\ Creating(q)' <=> Creating(q)
                         /\ Watching(q)' <=> Watching(q)
                         /\ Alive(q)' <=> Alive(q)
                         /\ procAt[q] \in {"new", "callback"} => procAt'[q] = procAt[q]
                         /\ procAt'[q] \in {"launch", "poll"} => procAt[q] = procAt'[q]
                         /\ Creating(q)' => procAt'[q] = procAt[q]
  BY <1>1, <1>3 DEF Creating, Watching, Alive, AlivePlaces
<1>8. Children'
  BY <1>1, <1>2, <1>6, <1>7 DEF Children
<1>9. Watched'
  BY <1>1, <1>2, <1>6, <1>7 DEF Watched
<1> QED BY <1>4, <1>5, <1>8, <1>9, ProcTypesByName DEF ProcInv

\* ExitCallback: the code goes to RunCommand() if it still waits for this process.
LEMMA ExitCallbackStep ==
    ASSUME ProcInv, ~raced, NEW p \in ProcMem, ExitCallback(p)
    PROVE  ProcInv'
<1> DEFINE q0 == exitBlock[p]
<1>1. /\ procAt[p] = "callback" /\ procAt' = [procAt EXCEPT ![p] = "remove"]
      /\ procCall' = IF q0 # NoProc /\ procCall[q0].child = p /\ procCall[q0].left = "exit"
                     THEN [procCall EXCEPT ![q0].result = "code"] ELSE procCall
      /\ exitBlock' = [exitBlock EXCEPT ![p] = NoProc]
      /\ UNCHANGED <<taskArray, pr_TaskNum, oldArray, copied, raced, lostSlots>>
  BY DEF ExitCallback, Goes, GoTo
<1>2. ProcTypes /\ Numbered /\ Children /\ Watched
  BY ProcTypesByName DEF ProcInv
<1>3. /\ procAt' \in [ProcMem -> ProcPlaces]
      /\ procAt'[p] = "remove" /\ \A q \in ProcMem \ {p} : procAt'[q] = procAt[q]
  BY <1>1, <1>2 DEF ProcTypes, ProcPlaces
<1>4. q0 \in ProcMem \cup {NoProc}
  BY <1>2 DEF ProcTypes
<1> HIDE DEF q0
<1>5. /\ procCall' \in [ProcMem -> ProcCallType]
      /\ \A q \in ProcMem : /\ procCall'[q].child = procCall[q].child
                            /\ procCall'[q].kind = procCall[q].kind
                            /\ procCall'[q].left = procCall[q].left
                            /\ procCall[q].result = "code" => procCall'[q].result = "code"
                            /\ procCall'[q].num = procCall[q].num
      /\ q0 # NoProc /\ procCall[q0].child = p /\ procCall[q0].left = "exit" =>
            procCall'[q0].result = "code"
  <2>1. CASE q0 # NoProc /\ procCall[q0].child = p /\ procCall[q0].left = "exit"
    <3>1. q0 \in ProcMem /\ procCall' = [procCall EXCEPT ![q0].result = "code"]
      BY <1>1, <1>4, <2>1
    <3>2. [procCall[q0] EXCEPT !.result = "code"] \in ProcCallType
      BY <1>2, <3>1, ZenonT(40) DEF ProcTypes, ProcCallType
    <3>3. procCall' \in [ProcMem -> ProcCallType]
      BY <1>2, <3>1, <3>2 DEF ProcTypes
    <3>4. procCall[q0] \in ProcCallType /\ procCall'[q0] = [procCall[q0] EXCEPT !.result = "code"]
      BY <1>2, <3>1 DEF ProcTypes
    <3>5. \A q \in ProcMem \ {q0} : procCall'[q] = procCall[q]
      BY <1>2, <3>1 DEF ProcTypes
    <3>6. /\ procCall'[q0].child = procCall[q0].child /\ procCall'[q0].kind = procCall[q0].kind
          /\ procCall'[q0].left = procCall[q0].left /\ procCall'[q0].num = procCall[q0].num
          /\ procCall'[q0].result = "code"
      BY <3>4 DEF ProcCallType
    <3> QED BY <3>1, <3>3, <3>5, <3>6
  <2>2. CASE ~(q0 # NoProc /\ procCall[q0].child = p /\ procCall[q0].left = "exit")
    BY <1>1, <1>2, <2>2 DEF ProcTypes
  <2> QED BY <2>1, <2>2
<1>6. /\ exitBlock' \in [ProcMem -> ProcMem \cup {NoProc}]
      /\ \A q \in ProcMem \ {p} : exitBlock'[q] = exitBlock[q]
  BY <1>1, <1>2 DEF ProcTypes
<1>7. ProcTypes'
  BY <1>1, <1>2, <1>3, <1>5, <1>6 DEF ProcTypes
<1>8. Numbered'
  BY <1>1, <1>2, <1>3, NumberedKept
<1>9. \A q \in ProcMem : ChildOf(q)' = ChildOf(q)
  BY <1>5 DEF ChildOf
<1>10. Children'
  <2>1. \A q \in ProcMem : Creating(q)' => Creating(q) /\ q # p
    BY <1>1, <1>3 DEF Creating
  <2>2. \A q \in ProcMem : Creating(q)' => ChildOf(q) # p
    BY <1>1, <1>2, <2>1 DEF Children
  <2> QED BY <1>1, <1>2, <1>3, <1>5, <1>6, <1>9, <2>1, <2>2 DEF Children
<1>11. Watched'
  <2>1. \A q \in ProcMem : Watching(q)' => Watching(q) /\ q # p
    BY <1>1, <1>3 DEF Watching
  <2>2. \A q \in ProcMem : Alive(q) => Alive(q)' /\ q # p
    BY <1>1, <1>3 DEF Alive, AlivePlaces
  <2>3. \A q \in ProcMem : Watching(q)' /\ procCall[q].kind = "run" /\ procCall[q].left = "exit" =>
          procCall'[q].result = "code"
            \/ (procAt'[ChildOf(q)] = "callback" /\ exitBlock'[ChildOf(q)] = q)
    <3> TAKE q \in ProcMem
    <3> HAVE Watching(q)' /\ procCall[q].kind = "run" /\ procCall[q].left = "exit"
    <3>1. \/ procCall[q].result = "code"
          \/ ChildOf(q) \in ProcMem /\ procAt[ChildOf(q)] = "callback" /\ exitBlock[ChildOf(q)] = q
      BY <1>2, <2>1 DEF Watched
    <3>2. CASE procCall[q].result = "code"
      BY <1>5, <3>2
    <3>3. CASE ChildOf(q) = p /\ exitBlock[p] = q
      BY <1>5, <3>3, ProcMemAssumption DEF q0, ChildOf
    <3>4. CASE ChildOf(q) # p
      BY <1>3, <1>5, <1>6, <3>1, <3>4
    <3> QED BY <3>1, <3>2, <3>3, <3>4
  <2> QED BY <1>1, <1>2, <1>3, <1>5, <1>6, <1>9, <2>1, <2>2, <2>3 DEF Watched
<1> QED BY <1>7, <1>8, <1>10, <1>11, ProcTypesByName DEF ProcInv

\* RemTask: a process that has left has no number.
LEMMA RemTaskStep ==
    ASSUME ProcInv, ~raced, NEW p \in ProcMem, RemTask(p)
    PROVE  ProcInv'
<1>1. /\ procAt[p] = "remove" /\ procAt' = [procAt EXCEPT ![p] = "free"]
      /\ exitBlock' = [exitBlock EXCEPT ![p] = NoProc]
      /\ UNCHANGED <<taskArray, pr_TaskNum, procCall, oldArray, copied, raced, lostSlots>>
  BY DEF RemTask, Goes, GoTo
<1>2. ProcTypes /\ Numbered /\ Children /\ Watched
  BY ProcTypesByName DEF ProcInv
<1>3. /\ procAt' \in [ProcMem -> ProcPlaces]
      /\ procAt'[p] = "free" /\ \A q \in ProcMem \ {p} : procAt'[q] = procAt[q]
  BY <1>1, <1>2 DEF ProcTypes, ProcPlaces
<1>4. /\ exitBlock' \in [ProcMem -> ProcMem \cup {NoProc}]
      /\ \A q \in ProcMem \ {p} : exitBlock'[q] = exitBlock[q]
  BY <1>1, <1>2 DEF ProcTypes
<1>5. ProcTypes'
  BY <1>1, <1>2, <1>3, <1>4 DEF ProcTypes
<1>6. Numbered'
  <2>1. pr_TaskNum[p] = 0 /\ Slots' = Slots /\ \A i \in Slots : i # 0
    BY <1>1, <1>2 DEF Numbered, Slots
  <2>2. \A q \in ProcMem : pr_TaskNum'[q] # 0 /\ procAt'[q] # "free" => taskArray'[pr_TaskNum'[q]] = q
    BY <1>1, <1>2, <1>3 DEF Numbered
  <2>3. \A i \in Slots' \ lostSlots' : taskArray'[i] # NoProc =>
          procAt'[taskArray'[i]] # "free" /\ pr_TaskNum'[taskArray'[i]] = i
    <3> TAKE i \in Slots' \ lostSlots'
    <3> HAVE taskArray'[i] # NoProc
    <3>1. i \in Slots \ lostSlots /\ taskArray'[i] = taskArray[i] /\ i # 0
      BY <1>1, <2>1
    <3>2. taskArray[i] \in ProcMem /\ procAt[taskArray[i]] # "free" /\ pr_TaskNum[taskArray[i]] = i
      BY <1>2, <3>1 DEF ProcTypes, Slots, Numbered
    <3> QED BY <1>1, <1>3, <2>1, <3>1, <3>2
  <2>4. \A q \in ProcMem : procAt'[q] \in {"callback", "remove"} => pr_TaskNum'[q] = 0
    BY <1>1, <1>2, <1>3 DEF Numbered
  <2> QED BY <2>2, <2>3, <2>4 DEF Numbered
<1>7. \A q \in ProcMem : ChildOf(q)' = ChildOf(q)
  BY <1>1 DEF ChildOf
<1>8. Children'
  <2>1. \A q \in ProcMem : Creating(q)' => Creating(q) /\ q # p
    BY <1>3 DEF Creating
  <2>2. \A q \in ProcMem : Creating(q)' => ChildOf(q) # p
    BY <1>1, <1>2, <2>1 DEF Children
  <2> QED BY <1>1, <1>2, <1>3, <1>4, <1>7, <2>1, <2>2 DEF Children
<1>9. Watched'
  <2>1. \A q \in ProcMem : Watching(q)' => Watching(q) /\ q # p
    BY <1>3 DEF Watching
  <2>2. \A q \in ProcMem : Alive(q) => Alive(q)' /\ q # p
    BY <1>1, <1>3 DEF Alive, AlivePlaces
  <2>3. \A q \in ProcMem : procAt[q] = "callback" => procAt'[q] = "callback" /\ q # p
    BY <1>1, <1>3
  <2> QED BY <1>1, <1>2, <1>3, <1>4, <1>7, <2>1, <2>2, <2>3 DEF Watched
<1> QED BY <1>5, <1>6, <1>8, <1>9, ProcTypesByName DEF ProcInv

\* ClearSlot: all who watch the process hear that it has left.
LEMMA ClearSlotStep ==
    ASSUME ProcInv, ~raced, NEW p \in ProcMem, ClearSlot(p)
    PROVE  ProcInv'
<1> DEFINE n == pr_TaskNum[p]
<1>1. PICK how \in {"exit", "remtask"} :
        /\ procAt[p] = how
        /\ taskArray' = IF p \notin oldArray /\ n \in Slots
                        THEN [taskArray EXCEPT ![n] = NoProc] ELSE taskArray
        /\ raced' = (raced \/ (p \in oldArray /\ n # 0))
        /\ pr_TaskNum' = [pr_TaskNum EXCEPT ![p] = 0]
        /\ procCall' = ToldOf(p, how)
        /\ procAt' = [procAt EXCEPT ![p] = IF how = "exit" THEN "callback" ELSE "remove"]
        /\ UNCHANGED <<oldArray, copied, exitBlock, lostSlots>>
  BY DEF ClearSlot, Goes, GoTo
<1>2. ProcTypes /\ Numbered /\ Children /\ Watched
  BY ProcTypesByName DEF ProcInv
<1> HIDE DEF n
<1>3. /\ procAt' \in [ProcMem -> ProcPlaces]
      /\ procAt'[p] = (IF how = "exit" THEN "callback" ELSE "remove")
      /\ \A q \in ProcMem \ {p} : procAt'[q] = procAt[q]
  BY <1>1, <1>2 DEF ProcTypes, ProcPlaces
<1>4. /\ pr_TaskNum' \in [ProcMem -> Nat] /\ pr_TaskNum'[p] = 0
      /\ \A q \in ProcMem \ {p} : pr_TaskNum'[q] = pr_TaskNum[q]
  BY <1>1, <1>2 DEF ProcTypes
<1>5. /\ procCall' \in [ProcMem -> ProcCallType]
      /\ \A q \in ProcMem : /\ procCall'[q].child = procCall[q].child
                            /\ procCall'[q].kind = procCall[q].kind
                            /\ procCall'[q].result = procCall[q].result
                            /\ procCall'[q].num = procCall[q].num
                            /\ procCall'[q].left = IF procCall[q].child = p /\ procCall[q].left = "no"
                                                   THEN how ELSE procCall[q].left
  BY <1>1, <1>2, ZenonT(40) DEF ProcTypes, ProcCallType, ToldOf
<1>6. /\ taskArray' \in Seq(ProcMem \cup {NoProc}) /\ Len(taskArray') = Len(taskArray)
      /\ \A i \in Slots : taskArray'[i] # taskArray[i] =>
            i = n /\ taskArray'[i] = NoProc /\ p \notin oldArray
      /\ n \in Slots /\ p \notin oldArray => taskArray'[n] = NoProc
  <2>1. CASE p \notin oldArray /\ n \in Slots
    BY <1>1, <1>2, <2>1 DEF ProcTypes, Slots
  <2>2. CASE ~(p \notin oldArray /\ n \in Slots)
    BY <1>1, <1>2, <2>2 DEF ProcTypes
  <2> QED BY <2>1, <2>2
<1>7. ProcTypes'
  <2>1. raced' \in BOOLEAN
    BY <1>1, <1>2, Zenon DEF ProcTypes
  <2>2. Len(taskArray) \in Nat /\ \A q \in ProcMem : pr_TaskNum[q] <= Len(taskArray)
    BY <1>2 DEF ProcTypes
  <2>3. \A q \in ProcMem : pr_TaskNum'[q] <= Len(taskArray')
    BY <1>4, <1>6, <2>2
  <2> QED BY <1>1, <1>2, <1>3, <1>4, <1>5, <1>6, <2>1, <2>3 DEF ProcTypes
<1>8. raced' \/ Numbered'
  <2> SUFFICES ASSUME ~raced' PROVE Numbered'
    OBVIOUS
  <2>1. Slots' = Slots /\ n \in Nat /\ (n # 0 => n \in Slots /\ p \notin oldArray)
    <3>1. Slots' = Slots
      BY <1>6 DEF Slots
    <3>2. n \in Nat /\ n <= Len(taskArray) /\ Len(taskArray) \in Nat
      BY <1>2 DEF ProcTypes, n
    <3>3. n # 0 => p \notin oldArray
      BY <1>1
    <3> QED BY <3>1, <3>2, <3>3 DEF Slots
  <2>2. \A q \in ProcMem : pr_TaskNum[q] # 0 /\ procAt[q] # "free" /\ q # p => pr_TaskNum[q] # n
    <3>1. n # 0 => taskArray[n] = p
      BY <1>1, <1>2 DEF Numbered, n
    <3> QED BY <1>2, <3>1 DEF Numbered
  <2>3. \A q \in ProcMem : pr_TaskNum'[q] # 0 /\ procAt'[q] # "free" => taskArray'[pr_TaskNum'[q]] = q
    <3> TAKE q \in ProcMem
    <3> HAVE pr_TaskNum'[q] # 0 /\ procAt'[q] # "free"
    <3>1. q # p /\ pr_TaskNum'[q] = pr_TaskNum[q] /\ procAt[q] # "free"
      BY <1>3, <1>4
    <3>2. pr_TaskNum[q] \in Slots /\ taskArray[pr_TaskNum[q]] = q /\ pr_TaskNum[q] # n
      BY <1>2, <2>2, <3>1 DEF Numbered, ProcTypes, Slots
    <3> QED BY <1>6, <3>1, <3>2
  <2>4. \A i \in Slots' \ lostSlots' : taskArray'[i] # NoProc =>
          procAt'[taskArray'[i]] # "free" /\ pr_TaskNum'[taskArray'[i]] = i
    <3> TAKE i \in Slots' \ lostSlots'
    <3> HAVE taskArray'[i] # NoProc
    <3>1. i \in Slots \ lostSlots /\ taskArray'[i] = taskArray[i] /\ (i = n => p \in oldArray) /\ i # 0
      BY <1>1, <1>6, <2>1 DEF Slots
    <3>2. taskArray[i] \in ProcMem /\ procAt[taskArray[i]] # "free" /\ pr_TaskNum[taskArray[i]] = i
      BY <1>2, <3>1 DEF ProcTypes, Slots, Numbered
    <3>3. taskArray[i] # p
      BY <2>1, <3>1, <3>2 DEF n
    <3> QED BY <1>3, <1>4, <3>1, <3>2, <3>3
  <2>5. \A q \in ProcMem : procAt'[q] \in {"callback", "remove"} => pr_TaskNum'[q] = 0
    BY <1>2, <1>3, <1>4 DEF Numbered
  <2> QED BY <2>3, <2>4, <2>5 DEF Numbered
<1>9. \A q \in ProcMem : ChildOf(q)' = ChildOf(q)
  BY <1>5 DEF ChildOf
<1>10. Children'
  <2>1. \A q \in ProcMem : Creating(q)' => Creating(q) /\ q # p
    BY <1>1, <1>3 DEF Creating
  <2>2. \A q \in ProcMem : Creating(q)' =>
          ChildOf(q) # p /\ ChildOf(q) \in ProcMem /\ procCall'[q].left = procCall[q].left
    BY <1>1, <1>2, <1>5, <2>1 DEF Children, ChildOf
  <2> QED BY <1>1, <1>2, <1>3, <1>4, <1>5, <1>9, <2>1, <2>2 DEF Children
<1>11. Watched'
  <2> SUFFICES ASSUME NEW q \in ProcMem, Watching(q)'
               PROVE  /\ ChildOf(q) \in ProcMem
                      /\ procCall'[q].left = "no" =>
                            /\ procAt'[ChildOf(q)] \in AlivePlaces
                            /\ procAt'[q] = "poll" => procCall[q].num = pr_TaskNum'[ChildOf(q)]
                            /\ procCall[q].kind = "run" => exitBlock[ChildOf(q)] = q
                      /\ procCall[q].kind = "run" /\ procCall'[q].left = "exit" =>
                            procCall[q].result = "code"
                              \/ (procAt'[ChildOf(q)] = "callback" /\ exitBlock[ChildOf(q)] = q)
    BY <1>1, <1>5, <1>9 DEF Watched, Alive
  <2>1. Watching(q) /\ q # p /\ procAt'[q] = procAt[q]
    BY <1>1, <1>3 DEF Watching
  <2>2. /\ ChildOf(q) \in ProcMem
        /\ procCall[q].left = "no" =>
              /\ Alive(ChildOf(q))
              /\ procAt[q] = "poll" => procCall[q].num = pr_TaskNum[ChildOf(q)]
              /\ procCall[q].kind = "run" => exitBlock[ChildOf(q)] = q
        /\ procCall[q].kind = "run" /\ procCall[q].left = "exit" =>
              procCall[q].result = "code"
                \/ (procAt[ChildOf(q)] = "callback" /\ exitBlock[ChildOf(q)] = q)
    BY <1>2, <2>1 DEF Watched
  <2>3. CASE ChildOf(q) # p
    <3>1. procCall'[q].left = procCall[q].left
      BY <1>5, <2>3 DEF ChildOf
    <3>2. /\ procAt'[ChildOf(q)] = procAt[ChildOf(q)]
          /\ pr_TaskNum'[ChildOf(q)] = pr_TaskNum[ChildOf(q)]
      BY <1>3, <1>4, <2>2, <2>3
    <3>3. Alive(ChildOf(q)) => procAt'[ChildOf(q)] \in AlivePlaces
      BY <3>2 DEF Alive
    <3> QED BY <2>1, <2>2, <3>1, <3>2, <3>3
  <2>4. CASE ChildOf(q) = p
    <3>1. procCall[q].left = "no" => procCall'[q].left = how
      BY <1>5, <2>4 DEF ChildOf
    <3>2. procCall[q].left # "no" => procCall'[q].left = procCall[q].left
      BY <1>5
    <3>3. how = "exit" => procAt'[p] = "callback"
      BY <1>3
    <3> QED BY <1>1, <2>2, <2>4, <3>1, <3>2, <3>3
  <2> QED BY <2>3, <2>4
<1> QED BY <1>7, <1>8, <1>10, <1>11, ProcTypesByName DEF ProcInv

\* Every step of a process keeps the invariant.
LEMMA NextProcInv == ProcInv /\ [ProcNext]_procVars => ProcInv'
<1> SUFFICES ASSUME ProcInv, [ProcNext]_procVars PROVE ProcInv'
  OBVIOUS
<1>1. ASSUME UNCHANGED procVars PROVE ProcInv'
  <2>1. ProcTypeOK' /\ (Numbered' <=> Numbered)
    BY <1>1 DEF procVars, ProcInv, ProcTypeOK, Numbered, Slots
  <2>2. (Children' <=> Children) /\ (Watched' <=> Watched)
    BY <1>1 DEF procVars, Children, Watched, Creating, Watching, ChildOf, Alive, AlivePlaces
  <2> QED BY <1>1, <2>1, <2>2 DEF ProcInv, procVars
<1>2. ASSUME ~raced, NEW p \in ProcMem, ProcStep(p) PROVE ProcInv'
  <2>1. ASSUME NEW kind \in {"run", "system", "asynch", "process"}, CreateNewProc(p, kind)
        PROVE  ProcInv'
    BY <1>2, <2>1, CreateNewProcStep
  <2>2. CASE FindSlot(p)
    BY <1>2, <2>2, FindSlotStep
  <2>3. CASE GrowArray(p) \/ GrowArrayFails(p)
    BY <1>2, <2>3, GrowArrayStep
  <2>4. CASE ReplaceArray(p)
    BY <1>2, <2>4, ReplaceArrayStep
  <2>5. CASE AllocCliFails(p)
    BY <1>2, <2>5, AllocCliFailsStep
  <2>6. CASE LaunchProc(p)
    BY <1>2, <2>6, LaunchProcStep
  <2>7. CASE CreateReturn(p) \/ WaitReturn(p)
    BY <1>2, <2>7, ReturnStep
  <2>8. CASE ReadTaskNum(p)
    BY <1>2, <2>8, ReadTaskNumStep
  <2>9. CASE WaitAgain(p)
    BY <1>1, <2>9 DEF WaitAgain
  <2>10. CASE Leave(p, "exit") \/ Leave(p, "remtask")
    BY <1>2, <2>10, LeaveStep
  <2>11. CASE ClearSlot(p)
    BY <1>2, <2>11, ClearSlotStep
  <2>12. CASE ExitCallback(p)
    BY <1>2, <2>12, ExitCallbackStep
  <2>13. CASE RemTask(p)
    BY <1>2, <2>13, RemTaskStep
  <2> QED BY <1>2, <2>1, <2>2, <2>3, <2>4, <2>5, <2>6, <2>7, <2>8, <2>9, <2>10, <2>11, <2>12,
             <2>13 DEF ProcStep
<1> QED BY <1>1, <1>2 DEF ProcNext

\* ProcInv holds in every reachable state.
LEMMA AlwaysProcInv == ProcSpec => []ProcInv
<1> QED BY InitProcInv, NextProcInv, PTL DEF ProcSpec

\* Types of the processes: a number is one of the array, however large the array
\* may become.
THEOREM ProcTypeCorrect == ProcSpec => []ProcTypeOK
<1>1. ProcInv => ProcTypeOK
  BY DEF ProcInv
<1> QED BY <1>1, AlwaysProcInv, PTL

\* allocTaskNum() and freeTaskNum(): slots and numbers agree as long as no array
\* is used after its replacement.
THEOREM SlotsAlwaysName == ProcSpec => []SlotsNameProcesses
<1>1. ProcInv => SlotsNameProcesses
  BY DEF ProcInv, Numbered, SlotsNameProcesses
<1> QED BY <1>1, AlwaysProcInv, PTL

\* The loop of a waiting call ends only where it finds its child gone from the slot.
LEMMA LoopEnds ==
    ASSUME ProcInv, [ProcNext]_procVars, NEW p \in ProcMem,
           procAt[p] = "poll", procAt'[p] # "poll"
    PROVE  ~raced /\ ~NamesChild(p)
<1>1. procAt \in [ProcMem -> ProcPlaces] /\ ProcTypes
  BY ProcTypesByName DEF ProcInv, ProcTypes
<1>2. PICK q \in ProcMem : ~raced /\ ProcStep(q)
  BY DEF ProcNext, procVars
<1>3. Children /\ Watched
  BY <1>2 DEF ProcInv
<1>4. \A r \in ProcMem : Creating(r) => ChildOf(r) # p
  BY <1>3 DEF Children
<1>5. CASE q = p
  <2>1. WaitReturn(p)
    BY <1>1, <1>2, <1>4, <1>5
       DEF ProcStep, CreateNewProc, FindSlot, GrowArray, GrowArrayFails, ReplaceArray, AllocCliFails,
           LaunchProc, CreateReturn, ReadTaskNum, WaitAgain, Leave, ClearSlot, ExitCallback, RemTask,
           Goes, GoTo, procVars
  <2> QED BY <1>2, <2>1 DEF WaitReturn
<1>6. CASE q # p
  <2>1. procAt'[p] = procAt[p]
    BY <1>1, <1>2, <1>4, <1>6
       DEF ProcStep, CreateNewProc, FindSlot, GrowArray, GrowArrayFails, ReplaceArray, AllocCliFails,
           LaunchProc, CreateReturn, ReadTaskNum, WaitReturn, WaitAgain, Leave, ClearSlot, ExitCallback,
           RemTask, Goes, GoTo, procVars, Creating, ChildOf
  <2> QED BY <2>1
<1> QED BY <1>5, <1>6

\* RunCommand() and SystemTagList() wait for the child: its slot, read again and
\* again with the number it had, names it until it leaves.
THEOREM CallersWait == ProcSpec => WaitsForItsChild
<1>1. ASSUME ProcInv, [ProcNext]_procVars
      PROVE  [ \A p \in ProcMem :
                 procAt[p] = "poll" /\ procAt'[p] # "poll" /\ procCall[p].left = "no" =>
                     raced \/ pr_TaskNum[procCall[p].child] = 0 ]_procVars
  <2> SUFFICES ASSUME NEW p \in ProcMem,
                      procAt[p] = "poll", procAt'[p] # "poll", procCall[p].left = "no"
               PROVE  pr_TaskNum[procCall[p].child] = 0
    OBVIOUS
  <2>1. ~raced /\ ~NamesChild(p)
    BY <1>1, LoopEnds
  <2>2. Numbered /\ Watched /\ Watching(p)
    BY <1>1, <2>1 DEF ProcInv, Watching
  <2>3. /\ ChildOf(p) \in ProcMem /\ procAt[ChildOf(p)] # "free"
        /\ procCall[p].num = pr_TaskNum[ChildOf(p)]
    BY <2>2 DEF Watched, Alive, AlivePlaces
  <2> QED BY <2>1, <2>2, <2>3 DEF Numbered, NamesChild, ChildOf
<1> QED BY <1>1, AlwaysProcInv, PTL DEF ProcSpec, WaitsForItsChild

\* exitCode() of RunCommand(): the code is there when the loop ends after Exit(),
\* but for the window between freeTaskNum() and the call of pr_ExitCode.
THEOREM CallersGetTheCode == ProcSpec => ExitCodeArrives
<1>1. ASSUME ProcInv, [ProcNext]_procVars
      PROVE  [ \A p \in ProcMem :
                 /\ procAt[p] = "poll" /\ procAt'[p] # "poll"
                 /\ procCall[p].kind = "run" /\ procCall[p].left = "exit"
                 => \/ raced \/ procCall[p].result = "code"
                    \/ procAt[procCall[p].child] = "callback" ]_procVars
  <2> SUFFICES ASSUME NEW p \in ProcMem,
                      procAt[p] = "poll", procAt'[p] # "poll",
                      procCall[p].kind = "run", procCall[p].left = "exit"
               PROVE  procCall[p].result = "code" \/ procAt[procCall[p].child] = "callback"
    OBVIOUS
  <2>1. ~raced
    BY <1>1, LoopEnds
  <2>2. Watched /\ Watching(p)
    BY <1>1, <2>1 DEF ProcInv, Watching
  <2> QED BY <2>2 DEF Watched, ChildOf
<1> QED BY <1>1, AlwaysProcInv, PTL DEF ProcSpec, ExitCodeArrives
-----------------------------------------------------------------------------
(* audio.device.                                                           *)

MiscType == [task : AudioTasks, cmd : Commands, mask : SUBSET Channels]
DeviceType ==
    [owner : [Channels -> SUBSET AudioTasks], precedence : [Channels -> AudioPris \cup {MinPrec}],
     writes : [Channels -> Seq(AudioTasks)], playing : [Channels -> BOOLEAN],
     misc : SUBSET MiscType]
AllocType == [task : AudioTasks, want : AudioWants, pri : AudioPris]

\* QueuedWritesPlay of a device that a command is working on.
Plays(d) ==
    \A ch \in Channels :
        /\ d.playing[ch] <=> d.writes[ch] # <<>>
        /\ \A i \in 1 .. Len(d.writes[ch]) : d.owner[ch] = {d.writes[ch][i]}
DeviceRight(d) == d \in DeviceType /\ Plays(d)

AudioInv == DeviceRight(Device) /\ allocs \in Seq(AllocType)

-----------------------------------------------------------------------------
\* What a device consists of.
LEMMA DeviceParts ==
  ASSUME NEW d \in DeviceType
  PROVE  /\ d.owner \in [Channels -> SUBSET AudioTasks]
         /\ d.precedence \in [Channels -> AudioPris \cup {MinPrec}]
         /\ d.writes \in [Channels -> Seq(AudioTasks)] /\ d.playing \in [Channels -> BOOLEAN]
         /\ d.misc \in SUBSET MiscType
BY DEF DeviceType

\* e is what d becomes when the channels in mask are stopped, whoever owns them then.
Stopped(d, e, mask) ==
    /\ e \in DeviceType
    /\ \A ch \in Channels :
          /\ ch \in mask => e.writes[ch] = <<>> /\ ~e.playing[ch]
          /\ ch \notin mask => /\ e.writes[ch] = d.writes[ch] /\ e.playing[ch] = d.playing[ch]
                               /\ e.owner[ch] = d.owner[ch]

\* Channels that are stopped.
LEMMA AbortStops ==
  ASSUME NEW d \in DeviceType, NEW mask
  PROVE  Stopped(d, AbortChannels(d, mask), mask)
<1>1. PICK w : w = Set(d.writes, mask, <<>>)
  OBVIOUS
<1>2. PICK p : p = Set(d.playing, mask, FALSE)
  OBVIOUS
<1>3. PICK k : k = { m \in d.misc : m.mask \cap mask = {} }
  OBVIOUS
<1>4. /\ w \in [Channels -> Seq(AudioTasks)]
      /\ \A ch \in Channels : w[ch] = IF ch \in mask THEN <<>> ELSE d.writes[ch]
  <2>1. <<>> \in Seq(AudioTasks)
    OBVIOUS
  <2> QED BY <1>1, <2>1, DeviceParts DEF Set
<1>5. /\ p \in [Channels -> BOOLEAN]
      /\ \A ch \in Channels : p[ch] = IF ch \in mask THEN FALSE ELSE d.playing[ch]
  BY <1>2, DeviceParts DEF Set
<1>6. k \in SUBSET MiscType
  BY <1>3, DeviceParts
<1>7. PICK e : e = [d EXCEPT !.writes = w, !.playing = p, !.misc = k]
  OBVIOUS
<1>8. e = AbortChannels(d, mask)
  BY <1>1, <1>2, <1>3, <1>7, Zenon DEF AbortChannels
<1>9. /\ e \in DeviceType /\ e.owner = d.owner /\ e.precedence = d.precedence
      /\ e.writes = w /\ e.playing = p
  BY <1>4, <1>5, <1>6, <1>7 DEF DeviceType
<1>10. Stopped(d, e, mask)
  BY <1>4, <1>5, <1>9 DEF Stopped
<1> QED BY <1>8, <1>10

\* Channels that are given away.
LEMMA ReleaseStops ==
  ASSUME NEW d \in DeviceType, NEW mask
  PROVE  Stopped(d, Release(d, mask), mask)
<1>1. PICK c : c = AbortChannels(d, mask)
  OBVIOUS
<1>2. Stopped(d, c, mask)
  BY <1>1, AbortStops
<1>3. PICK o : o = Set(c.owner, mask, {})
  OBVIOUS
<1>4. PICK p : p = Set(c.precedence, mask, MinPrec)
  OBVIOUS
<1>5. /\ o \in [Channels -> SUBSET AudioTasks]
      /\ \A ch \in Channels : ch \notin mask => o[ch] = c.owner[ch]
  BY <1>2, <1>3, DeviceParts DEF Set, Stopped
<1>6. p \in [Channels -> AudioPris \cup {MinPrec}]
  BY <1>2, <1>4, DeviceParts DEF Set, Stopped
<1>7. PICK e : e = [c EXCEPT !.owner = o, !.precedence = p]
  OBVIOUS
<1>8. e = Release(d, mask)
  BY <1>1, <1>3, <1>4, <1>7, Zenon DEF Release
<1>9. /\ e \in DeviceType /\ e.owner = o /\ e.writes = c.writes /\ e.playing = c.playing
  BY <1>2, <1>5, <1>6, <1>7 DEF DeviceType, Stopped
<1>10. Stopped(d, e, mask)
  BY <1>2, <1>5, <1>9 DEF Stopped
<1> QED BY <1>8, <1>10

\* Stopping channels leaves no write without its owner.
LEMMA StoppedRight ==
  ASSUME NEW d, NEW e, NEW mask, DeviceRight(d), Stopped(d, e, mask)
  PROVE  DeviceRight(e)
<1> SUFFICES ASSUME NEW ch \in Channels
             PROVE  /\ e.playing[ch] <=> e.writes[ch] # <<>>
                    /\ \A i \in 1 .. Len(e.writes[ch]) : e.owner[ch] = {e.writes[ch][i]}
  BY DEF DeviceRight, Plays, Stopped
<1>1. CASE ch \in mask
  <2>1. e.writes[ch] = <<>> /\ ~e.playing[ch]
    BY <1>1 DEF Stopped
  <2> QED BY <2>1
<1>2. CASE ch \notin mask
  <2>1. e.writes[ch] = d.writes[ch] /\ e.playing[ch] = d.playing[ch] /\ e.owner[ch] = d.owner[ch]
    BY <1>2 DEF Stopped
  <2>2. /\ d.playing[ch] <=> d.writes[ch] # <<>>
        /\ \A i \in 1 .. Len(d.writes[ch]) : d.owner[ch] = {d.writes[ch][i]}
    BY DEF DeviceRight, Plays
  <2> QED BY <2>1, <2>2, Zenon
<1> QED BY <1>1, <1>2

\* audio_commit_allocation(): a channel that nobody owned has no writes, and the
\* others are stopped.
LEMMA CommitKeeps ==
  ASSUME NEW d, DeviceRight(d), NEW r \in AllocType, NEW mask
  PROVE  DeviceRight(Commit(d, r, mask))
<1>1. PICK S : S = Stolen(d, mask)
  OBVIOUS
<1>2. PICK c : c = Release(d, S)
  OBVIOUS
<1>3. d \in DeviceType /\ Stopped(d, c, S) /\ c \in DeviceType
  BY <1>2, ReleaseStops DEF DeviceRight, Stopped
<1>4. DeviceRight(c)
  BY <1>3, StoppedRight
<1>5. r.task \in AudioTasks /\ r.pri \in AudioPris
  BY DEF AllocType
<1>6. PICK o : o = Set(c.owner, mask, {r.task})
  OBVIOUS
<1>7. PICK p : p = Set(c.precedence, mask, r.pri)
  OBVIOUS
<1>8. /\ o \in [Channels -> SUBSET AudioTasks]
      /\ \A ch \in Channels : ch \notin mask => o[ch] = c.owner[ch]
  BY <1>3, <1>5, <1>6, DeviceParts DEF Set
<1>9. p \in [Channels -> AudioPris \cup {MinPrec}]
  BY <1>3, <1>5, <1>7, DeviceParts DEF Set
<1>10. PICK e : e = [c EXCEPT !.owner = o, !.precedence = p]
  OBVIOUS
<1>11. e = Commit(d, r, mask)
  BY <1>1, <1>2, <1>6, <1>7, <1>10, Zenon DEF Commit
<1>12. /\ e \in DeviceType /\ e.owner = o /\ e.writes = c.writes /\ e.playing = c.playing
  BY <1>3, <1>8, <1>9, <1>10 DEF DeviceType
<1>13. ASSUME NEW ch \in Channels, ch \in mask PROVE c.writes[ch] = <<>>
  <2>1. CASE ch \in S
    BY <1>3, <2>1 DEF Stopped
  <2>2. CASE ch \notin S
    <3>1. d.owner[ch] = {} /\ c.writes[ch] = d.writes[ch]
      BY <1>1, <1>3, <1>13, <2>2 DEF Stolen, Stopped
    <3>2. d.writes[ch] \in Seq(AudioTasks)
      BY <1>3, DeviceParts
    <3>3. \A i \in 1 .. Len(d.writes[ch]) : FALSE
      BY <3>1 DEF DeviceRight, Plays
    <3> QED BY <3>1, <3>2, <3>3
  <2> QED BY <2>1, <2>2
<1>14. ASSUME NEW ch \in Channels
       PROVE  /\ e.playing[ch] <=> e.writes[ch] # <<>>
              /\ \A i \in 1 .. Len(e.writes[ch]) : e.owner[ch] = {e.writes[ch][i]}
  <2>1. /\ c.playing[ch] <=> c.writes[ch] # <<>>
        /\ \A i \in 1 .. Len(c.writes[ch]) : c.owner[ch] = {c.writes[ch][i]}
    BY <1>4 DEF DeviceRight, Plays
  <2>2. CASE ch \in mask
    <3>1. e.writes[ch] = <<>> /\ ~e.playing[ch]
      BY <1>12, <1>13, <2>1, <2>2
    <3> QED BY <3>1
  <2>3. CASE ch \notin mask
    <3>1. e.owner[ch] = c.owner[ch] /\ e.writes[ch] = c.writes[ch] /\ e.playing[ch] = c.playing[ch]
      BY <1>8, <1>12, <2>3
    <3> QED BY <2>1, <3>1, Zenon
  <2> QED BY <2>2, <2>3
<1>15. DeviceRight(e)
  BY <1>12, <1>14 DEF DeviceRight, Plays
<1> QED BY <1>11, <1>15

\* ADCMD_ALLOCATE, whatever channels are chosen.
LEMMA AllocateKeeps ==
  ASSUME NEW d, DeviceRight(d), NEW r \in AllocType
  PROVE  DeviceRight(AllocateNow(d, r))
<1>1. PICK c : c = Choice(d, r)
  OBVIOUS
<1>2. CASE c = {}
  BY <1>1, <1>2 DEF AllocateNow
<1>3. CASE c # {}
  <2>1. AllocateNow(d, r) = Commit(d, r, UNION c)
    BY <1>1, <1>3 DEF AllocateNow
  <2> QED BY <2>1, CommitKeeps
<1> QED BY <1>2, <1>3

\* The device when the requests of a list have been answered.
Answers(d, list) == FoldLeft(AllocateNow, d, list)

\* One step of the fold of TryPending(), which takes the requests that wait by
\* their places in the list.
AnswerStep(list, d, h, s) ==
    IF s = {} THEN d ELSE AllocateNow(h[s \ {Max(s)}], list[Max(s)])

\* The last of the first m places.
LEMMA LastOfPlaces ==
  ASSUME NEW m \in Nat, NEW s \in SUBSET (1 .. m), m \in s
  PROVE  Max(s) = m
<1>1. \A x \in s : x \in Nat /\ m >= x
  OBVIOUS
<1>2. \A x \in s : (\A y \in s : x >= y) => x = m
  BY <1>1
<1> QED BY <1>1, <1>2 DEF Max

\* There is a function that does these steps.
LEMMA AnswersExist ==
  ASSUME NEW list, NEW d, NEW n \in Nat
  PROVE  \E h : h = [s \in SUBSET (1 .. n) |-> AnswerStep(list, d, h, s)]
<1> DEFINE Solved(m) == \E h : h = [s \in SUBSET (1 .. m) |-> AnswerStep(list, d, h, s)]
           Bad == { m \in Nat : ~Solved(m) }
<1>1. Solved(0)
  <2> DEFINE h == [s \in SUBSET (1 .. 0) |-> d]
  <2>1. \A s \in SUBSET (1 .. 0) : s = {}
    OBVIOUS
  <2>2. h = [s \in SUBSET (1 .. 0) |-> AnswerStep(list, d, h, s)]
    BY <2>1 DEF AnswerStep
  <2> HIDE DEF h
  <2> QED BY <2>2
<1>2. ASSUME NEW m \in Nat, Solved(m) PROVE Solved(m + 1)
  <2>1. PICK g : g = [s \in SUBSET (1 .. m) |-> AnswerStep(list, d, g, s)]
    BY <1>2
  <2> DEFINE h == [s \in SUBSET (1 .. m + 1) |->
                     IF m + 1 \in s THEN AllocateNow(g[s \ {m + 1}], list[m + 1]) ELSE g[s]]
  <2>2. ASSUME NEW s \in SUBSET (1 .. m + 1) PROVE h[s] = AnswerStep(list, d, h, s)
    <3>1. CASE m + 1 \in s
      <4>1. Max(s) = m + 1
        BY <3>1, LastOfPlaces
      <4>2. /\ s \ {m + 1} \in SUBSET (1 .. m + 1) /\ m + 1 \notin s \ {m + 1} /\ s # {}
        BY <3>1
      <4>3. h[s] = AllocateNow(g[s \ {m + 1}], list[m + 1]) /\ h[s \ {m + 1}] = g[s \ {m + 1}]
        BY <3>1, <4>2
      <4> HIDE DEF h
      <4> QED BY <4>1, <4>2, <4>3 DEF AnswerStep
    <3>2. CASE m + 1 \notin s
      <4>1. /\ s \in SUBSET (1 .. m)
            /\ \A x : s \ {x} \in SUBSET (1 .. m + 1) /\ m + 1 \notin s \ {x}
        <5>1. \A x \in s : x \in 1 .. m + 1 /\ x # m + 1
          BY <3>2
        <5>2. \A x \in s : x \in 1 .. m
          BY <5>1
        <5> QED BY <3>2, <5>2, Zenon
      <4>2. h[s] = g[s] /\ \A x : h[s \ {x}] = g[s \ {x}]
        BY <3>2, <4>1
      <4>3. g[s] = AnswerStep(list, d, g, s)
        BY <2>1, <4>1
      <4> HIDE DEF h
      <4> QED BY <4>2, <4>3 DEF AnswerStep
    <3> QED BY <3>1, <3>2
  <2>3. h = [s \in SUBSET (1 .. m + 1) |-> h[s]]
    OBVIOUS
  <2> HIDE DEF h
  <2>4. h = [s \in SUBSET (1 .. m + 1) |-> AnswerStep(list, d, h, s)]
    BY <2>2, <2>3
  <2> QED BY <2>4
<1> HIDE DEF Solved
<1>3. Bad = {}
  <2> SUFFICES ASSUME Bad # {} PROVE FALSE
    OBVIOUS
  <2>1. PICK x \in Bad : \A y \in Bad : x <= y
    BY LeastElement
  <2>2. x # 0
    BY <1>1, <2>1
  <2>3. x - 1 \in Nat /\ x - 1 \notin Bad
    BY <2>1, <2>2
  <2> QED BY <1>2, <2>1, <2>3
<1> QED BY <1>3 DEF Solved

\* The requests that wait are answered one after the other.
LEMMA AnswersUnfold ==
  ASSUME NEW d, NEW N, NEW list \in Seq(N)
  PROVE  \E a : /\ Answers(d, list) = a[Len(list)]
                /\ a[0] = d
                /\ \A k \in 1 .. Len(list) : a[k] = AllocateNow(a[k - 1], list[k])
<1> DEFINE h == CHOOSE f : f = [s \in SUBSET (1 .. Len(list)) |-> AnswerStep(list, d, f, s)]
           a == [k \in 0 .. Len(list) |-> h[1 .. k]]
<1>1. DOMAIN list = 1 .. Len(list) /\ Len(list) \in Nat
  OBVIOUS
<1>2. Answers(d, list) = h[1 .. Len(list)]
  BY <1>1 DEF Answers, FoldLeft, MapThenFoldSet, AnswerStep
<1>3. h = [s \in SUBSET (1 .. Len(list)) |-> AnswerStep(list, d, h, s)]
  BY <1>1, AnswersExist
<1> HIDE DEF h
<1>4. a[0] = d
  <2>1. 1 .. 0 = {} /\ 1 .. 0 \in SUBSET (1 .. Len(list)) /\ 0 \in 0 .. Len(list)
    BY <1>1
  <2> QED BY <1>3, <2>1 DEF AnswerStep
<1>5. ASSUME NEW k \in 1 .. Len(list) PROVE a[k] = AllocateNow(a[k - 1], list[k])
  <2>1. /\ k \in Nat /\ k - 1 \in 0 .. Len(list) /\ k \in 0 .. Len(list)
        /\ 1 .. k \in SUBSET (1 .. Len(list)) /\ k \in 1 .. k
    BY <1>1
  <2>2. Max(1 .. k) = k
    BY <2>1, LastOfPlaces
  <2>3. (1 .. k) \ {k} = 1 .. k - 1 /\ 1 .. k # {}
    <3>1. \A x : x \in (1 .. k) \ {k} <=> x \in 1 .. k - 1
      BY <2>1
    <3> QED BY <2>1, <3>1, Zenon
  <2>4. h[1 .. k] = AnswerStep(list, d, h, 1 .. k)
    BY <1>3, <2>1
  <2>5. h[1 .. k] = AllocateNow(h[1 .. k - 1], list[k])
    BY <2>2, <2>3, <2>4 DEF AnswerStep
  <2> QED BY <2>1, <2>5
<1>6. Answers(d, list) = a[Len(list)]
  BY <1>1, <1>2
<1> HIDE DEF a
<1> QED BY <1>4, <1>5, <1>6

\* Answering the requests that wait keeps writes with their owners.
LEMMA AnswersKeep ==
  ASSUME NEW d, DeviceRight(d), NEW list \in Seq(AllocType)
  PROVE  DeviceRight(Answers(d, list))
<1>1. PICK a : /\ Answers(d, list) = a[Len(list)]
               /\ a[0] = d
               /\ \A k \in 1 .. Len(list) : a[k] = AllocateNow(a[k - 1], list[k])
  BY AnswersUnfold
<1>2. Len(list) \in Nat /\ \A k \in 1 .. Len(list) : list[k] \in AllocType
  OBVIOUS
<1> DEFINE Bad == { k \in 0 .. Len(list) : ~DeviceRight(a[k]) }
<1>3. Bad = {}
  <2> SUFFICES ASSUME Bad # {} PROVE FALSE
    OBVIOUS
  <2> Bad \subseteq Nat
    BY <1>2
  <2>1. PICK k \in Bad : \A y \in Bad : k <= y
    BY LeastElement
  <2>2. k # 0
    BY <1>1, <2>1
  <2>3. k \in 1 .. Len(list) /\ k - 1 \in 0 .. Len(list) /\ k - 1 \notin Bad
    BY <1>2, <2>1, <2>2
  <2>4. DeviceRight(a[k - 1]) /\ list[k] \in AllocType /\ a[k] = AllocateNow(a[k - 1], list[k])
    BY <1>1, <1>2, <2>3
  <2>5. DeviceRight(a[k])
    BY <2>4, AllocateKeeps
  <2> QED BY <2>1, <2>5
<1>4. DeviceRight(a[Len(list)])
  BY <1>2, <1>3
<1> QED BY <1>1, <1>4

\* A channel with another queue, whose writes are its owner's, and which plays
\* if there are any.
LEMMA QueueKeeps ==
  ASSUME NEW d, DeviceRight(d), NEW ch \in Channels, NEW e \in DeviceType,
         e.owner = d.owner,
         \A c \in Channels \ {ch} : e.writes[c] = d.writes[c] /\ e.playing[c] = d.playing[c],
         e.playing[ch] <=> e.writes[ch] # <<>>,
         \A i \in 1 .. Len(e.writes[ch]) : d.owner[ch] = {e.writes[ch][i]}
  PROVE  DeviceRight(e)
<1> SUFFICES ASSUME NEW c \in Channels
             PROVE  /\ e.playing[c] <=> e.writes[c] # <<>>
                    /\ \A i \in 1 .. Len(e.writes[c]) : e.owner[c] = {e.writes[c][i]}
  BY DEF DeviceRight, Plays
<1>1. CASE c = ch
  BY <1>1
<1>2. CASE c # ch
  <2>1. e.writes[c] = d.writes[c] /\ e.playing[c] = d.playing[c] /\ e.owner[c] = d.owner[c]
    BY <1>2
  <2>2. /\ d.playing[c] <=> d.writes[c] # <<>>
        /\ \A i \in 1 .. Len(d.writes[c]) : d.owner[c] = {d.writes[c][i]}
    BY DEF DeviceRight, Plays
  <2> QED BY <2>1, <2>2, Zenon
<1> QED BY <1>1, <1>2

\* audio_start_channel_if_possible() after a change of the queue.
LEMMA StartKeeps ==
  ASSUME NEW d, DeviceRight(d), NEW ch \in Channels,
         NEW q \in Seq(AudioTasks), NEW p \in BOOLEAN,
         \A i \in 1 .. Len(q) : d.owner[ch] = {q[i]},
         p => q # <<>>
  PROVE  DeviceRight(Start([d EXCEPT !.writes[ch] = q, !.playing[ch] = p], ch))
<1>1. d \in DeviceType
  BY DEF DeviceRight
<1>2. PICK w : w = [d.writes EXCEPT ![ch] = q]
  OBVIOUS
<1>3. PICK b : b = [d.playing EXCEPT ![ch] = p]
  OBVIOUS
<1>4. PICK c : c = [d EXCEPT !.writes = w, !.playing = b]
  OBVIOUS
<1>5. c = [d EXCEPT !.writes[ch] = q, !.playing[ch] = p]
  BY <1>1, <1>2, <1>3, <1>4 DEF DeviceType
<1>6. /\ w \in [Channels -> Seq(AudioTasks)] /\ w[ch] = q
      /\ \A x \in Channels \ {ch} : w[x] = d.writes[x]
  BY <1>1, <1>2, DeviceParts
<1>7. /\ b \in [Channels -> BOOLEAN] /\ b[ch] = p
      /\ \A x \in Channels \ {ch} : b[x] = d.playing[x]
  BY <1>1, <1>3, DeviceParts
<1>8. c \in DeviceType /\ c.owner = d.owner /\ c.writes = w /\ c.playing = b
  BY <1>1, <1>4, <1>6, <1>7 DEF DeviceType
<1>9. PICK v \in BOOLEAN : v <=> p \/ q # <<>>
  <2>1. (p \/ q # <<>>) \in BOOLEAN
    BY Zenon
  <2> QED BY <2>1, Zenon
<1>10. PICK a : a = [b EXCEPT ![ch] = v]
  OBVIOUS
<1>11. /\ a \in [Channels -> BOOLEAN] /\ a[ch] = v
       /\ \A x \in Channels \ {ch} : a[x] = d.playing[x]
  BY <1>7, <1>10
<1>12. PICK e : e = [c EXCEPT !.playing = a]
  OBVIOUS
<1>13. e = Start(c, ch)
  <2>1. (c.playing[ch] \/ c.writes[ch] # <<>>) = v
    BY <1>6, <1>7, <1>8, <1>9
  <2>2. a = [c.playing EXCEPT ![ch] = c.playing[ch] \/ c.writes[ch] # <<>>]
    BY <1>8, <1>10, <2>1
  <2>3. Start(c, ch) = [c EXCEPT !.playing = [c.playing EXCEPT ![ch] = c.playing[ch] \/ c.writes[ch] # <<>>]]
    BY <1>8 DEF Start, DeviceType
  <2> QED BY <1>12, <2>2, <2>3
<1>14. /\ e \in DeviceType /\ e.owner = d.owner /\ e.writes = w /\ e.playing = a
  BY <1>8, <1>11, <1>12 DEF DeviceType
<1>15. DeviceRight(e)
  BY <1>6, <1>9, <1>11, <1>14, QueueKeeps
<1> QED BY <1>5, <1>13, <1>15

\* audio_complete_current_write().
LEMMA CompleteKeeps ==
  ASSUME NEW d, DeviceRight(d), NEW ch \in Channels
  PROVE  DeviceRight(CompleteWrite(d, ch))
<1>1. /\ d \in DeviceType /\ d.writes[ch] \in Seq(AudioTasks)
      /\ d.playing[ch] <=> d.writes[ch] # <<>>
      /\ d.playing \in [Channels -> BOOLEAN]
  BY DeviceParts DEF DeviceRight, Plays
<1>2. CASE d.writes[ch] = <<>>
  <2>1. [d EXCEPT !.playing[ch] = FALSE] = d
    BY <1>1, <1>2 DEF DeviceType
  <2> QED BY <1>2, <2>1 DEF CompleteWrite
<1>3. CASE d.writes[ch] # <<>>
  <2>1. PICK q : q = Tail(d.writes[ch])
    OBVIOUS
  <2>2. /\ q \in Seq(AudioTasks) /\ Len(d.writes[ch]) \in Nat /\ Len(q) = Len(d.writes[ch]) - 1
        /\ \A i \in 1 .. Len(q) : q[i] = d.writes[ch][i + 1]
    BY <1>1, <1>3, <2>1
  <2>3. \A i \in 1 .. Len(q) : d.owner[ch] = {q[i]}
    <3>1. \A i \in 1 .. Len(d.writes[ch]) : d.owner[ch] = {d.writes[ch][i]}
      BY DEF DeviceRight, Plays
    <3> QED BY <2>2, <3>1
  <2>4. CompleteWrite(d, ch) = Start([d EXCEPT !.writes[ch] = q, !.playing[ch] = FALSE], ch)
    BY <1>3, <2>1 DEF CompleteWrite
  <2>5. PICK p \in BOOLEAN : p = FALSE
    OBVIOUS
  <2>6. PICK e : e = Start([d EXCEPT !.writes[ch] = q, !.playing[ch] = p], ch)
    OBVIOUS
  <2>7. DeviceRight(e)
    BY <2>2, <2>3, <2>5, <2>6, StartKeeps
  <2> QED BY <2>4, <2>5, <2>6, <2>7
<1> QED BY <1>2, <1>3

-----------------------------------------------------------------------------
\* One step of the fold of AudioFinish() over a set of channels.
FinishStep(d, h, s) ==
    IF s = {} THEN d
    ELSE CompleteWrite(h[s \ {CHOOSE x \in s : TRUE}], CHOOSE x \in s : TRUE)

\* The device when the channels of S have completed a write.
Finished(d, S) == FoldSet(LAMBDA ch, c : CompleteWrite(c, ch), d, S)

\* There is a function that does these steps.
LEMMA FinishesExist ==
  ASSUME NEW S, IsFiniteSet(S), NEW d
  PROVE  \E h : h = [s \in SUBSET S |-> FinishStep(d, h, s)]
<1> DEFINE Upto(m) == { s \in SUBSET S : Cardinality(s) <= m }
           Solved(m) == \E h : \A s \in Upto(m) : h[s] = FinishStep(d, h, s)
           Bad == { m \in Nat : ~Solved(m) }
<1>1. \A s \in SUBSET S :
         /\ IsFiniteSet(s) /\ Cardinality(s) \in Nat /\ Cardinality(s) <= Cardinality(S)
         /\ Cardinality(s) = 0 <=> s = {}
         /\ \A x \in s : s \ {x} \in SUBSET S /\ Cardinality(s \ {x}) = Cardinality(s) - 1
  <2> TAKE s \in SUBSET S
  <2>1. IsFiniteSet(s) /\ Cardinality(s) <= Cardinality(S)
    BY FS_Subset
  <2>2. Cardinality(s) \in Nat /\ (Cardinality(s) = 0 <=> s = {})
    BY <2>1, FS_CardinalityType, FS_EmptySet
  <2>3. \A x \in s : Cardinality(s \ {x}) = Cardinality(s) - 1
    BY <2>1, FS_RemoveElement
  <2>4. \A x \in s : s \ {x} \in SUBSET S
    OBVIOUS
  <2> QED BY <2>1, <2>2, <2>3, <2>4
<1>2. Solved(0)
  <2> DEFINE h == [s \in SUBSET S |-> d]
  <2>1. ASSUME NEW s \in Upto(0) PROVE h[s] = FinishStep(d, h, s)
    <3>1. s = {} /\ s \in SUBSET S
      BY <1>1
    <3> QED BY <3>1 DEF FinishStep
  <2> HIDE DEF h
  <2> QED BY <2>1
<1>3. ASSUME NEW m \in Nat, Solved(m) PROVE Solved(m + 1)
  <2>1. PICK g : \A s \in Upto(m) : g[s] = FinishStep(d, g, s)
    BY <1>3
  <2> DEFINE h == [s \in SUBSET S |-> IF s \in Upto(m) THEN g[s] ELSE FinishStep(d, g, s)]
  <2>2. ASSUME NEW s \in Upto(m + 1) PROVE h[s] = FinishStep(d, h, s)
    <3>1. s \in SUBSET S /\ Cardinality(s) <= m + 1 /\ Cardinality(s) \in Nat
      BY <1>1
    <3>2. h[s] = FinishStep(d, g, s)
      BY <2>1, <3>1
    <3>3. CASE s = {}
      BY <3>2, <3>3 DEF FinishStep
    <3>4. CASE s # {}
      <4>1. PICK x : x = CHOOSE y \in s : TRUE
        OBVIOUS
      <4>2. x \in s
        BY <3>4, <4>1
      <4>3. s \ {x} \in SUBSET S /\ s \ {x} \in Upto(m)
        BY <1>1, <3>1, <4>2
      <4>4. h[s \ {x}] = g[s \ {x}]
        BY <4>3
      <4> HIDE DEF h, Upto
      <4> QED BY <3>2, <3>4, <4>1, <4>4 DEF FinishStep
    <3> QED BY <3>3, <3>4
  <2> HIDE DEF h, Upto
  <2> QED BY <2>2
<1> HIDE DEF Solved
<1>4. Bad = {}
  <2> SUFFICES ASSUME Bad # {} PROVE FALSE
    OBVIOUS
  <2>1. PICK x \in Bad : \A y \in Bad : x <= y
    BY LeastElement
  <2>2. x # 0
    BY <1>2, <2>1
  <2>3. x - 1 \in Nat /\ x - 1 \notin Bad
    BY <2>1, <2>2
  <2> QED BY <1>3, <2>1, <2>3
<1>5. Cardinality(S) \in Nat /\ Upto(Cardinality(S)) = SUBSET S
  <2>1. Cardinality(S) \in Nat
    BY FS_CardinalityType
  <2> QED BY <1>1, <2>1
<1>6. PICK g : \A s \in SUBSET S : g[s] = FinishStep(d, g, s)
  BY <1>4, <1>5 DEF Solved
<1> DEFINE h == [s \in SUBSET S |-> g[s]]
<1>7. ASSUME NEW s \in SUBSET S PROVE h[s] = FinishStep(d, h, s)
  <2>1. h[s] = g[s] /\ g[s] = FinishStep(d, g, s)
    BY <1>6
  <2>2. \A x : h[s \ {x}] = g[s \ {x}]
    OBVIOUS
  <2> HIDE DEF h
  <2> QED BY <2>1, <2>2 DEF FinishStep
<1>8. h = [s \in SUBSET S |-> h[s]]
  OBVIOUS
<1> HIDE DEF h
<1>9. h = [s \in SUBSET S |-> FinishStep(d, h, s)]
  BY <1>7, <1>8
<1> QED BY <1>9

\* ADCMD_FINISH completes a write of each channel, in any order.
LEMMA FinishKeeps ==
  ASSUME NEW d, DeviceRight(d), NEW S \in SUBSET Channels
  PROVE  DeviceRight(Finished(d, S))
<1> DEFINE h == CHOOSE f : f = [s \in SUBSET S |-> FinishStep(d, f, s)]
<1>1. IsFiniteSet(S)
  BY ChannelsAssumption, FS_Subset
<1>2. Finished(d, S) = h[S]
  BY DEF Finished, FoldSet, MapThenFoldSet, FinishStep
<1>3. h = [s \in SUBSET S |-> FinishStep(d, h, s)]
  BY <1>1, FinishesExist
<1> HIDE DEF h
<1> DEFINE Bad == { m \in Nat : \E s \in SUBSET S : Cardinality(s) = m /\ ~DeviceRight(h[s]) }
<1>4. Bad = {}
  <2> SUFFICES ASSUME Bad # {} PROVE FALSE
    OBVIOUS
  <2>1. PICK m \in Bad : \A y \in Bad : m <= y
    BY LeastElement
  <2>2. PICK s \in SUBSET S : Cardinality(s) = m /\ ~DeviceRight(h[s])
    BY <2>1
  <2>3. h[s] = FinishStep(d, h, s)
    BY <1>3
  <2>4. s # {}
    BY <2>2, <2>3 DEF FinishStep
  <2>5. PICK x : x = CHOOSE y \in s : TRUE
    OBVIOUS
  <2>6. x \in s /\ x \in Channels
    BY <2>4, <2>5
  <2>7. IsFiniteSet(s) /\ Cardinality(s) \in Nat /\ Cardinality(s \ {x}) = Cardinality(s) - 1
        /\ Cardinality(s \ {x}) \in Nat
    <3>1. IsFiniteSet(s)
      BY <1>1, FS_Subset
    <3>2. IsFiniteSet(s \ {x}) /\ Cardinality(s \ {x}) = Cardinality(s) - 1
      BY <2>6, <3>1, FS_RemoveElement
    <3> QED BY <3>1, <3>2, FS_CardinalityType
  <2>8. m - 1 \notin Bad /\ m - 1 \in Nat /\ Cardinality(s \ {x}) = m - 1
    BY <2>1, <2>2, <2>7
  <2>9. PICK c : c = h[s \ {x}]
    OBVIOUS
  <2>10. DeviceRight(c)
    <3>1. s \ {x} \in SUBSET S
      OBVIOUS
    <3> QED BY <2>8, <2>9, <3>1
  <2>11. h[s] = CompleteWrite(c, x)
    BY <2>3, <2>4, <2>5, <2>9 DEF FinishStep
  <2> QED BY <2>2, <2>6, <2>10, <2>11, CompleteKeeps
<1>5. Cardinality(S) \in Nat
  BY <1>1, FS_CardinalityType
<1>6. DeviceRight(h[S])
  BY <1>4, <1>5
<1> QED BY <1>2, <1>6

\* The variables hold the device that a command leaves.
LEMMA Becomes ==
  ASSUME NEW d, DeviceRight(d), DeviceBecomes(d)
  PROVE  DeviceRight(Device)'
<1>1. d \in DeviceType
  BY DEF DeviceRight
<1>2. d = [owner |-> d.owner, precedence |-> d.precedence, writes |-> d.writes,
           playing |-> d.playing, misc |-> d.misc]
  BY <1>1 DEF DeviceType
<1>3. Device' = d
  BY <1>2 DEF Device, DeviceBecomes
<1>4. DeviceRight(Device')
  BY <1>3
<1> QED BY <1>4

\* The parts of the invariant, by the names of the variables.
LEMMA AudioParts ==
  ASSUME AudioInv
  PROVE  /\ Device \in DeviceType /\ allocs \in Seq(AllocType)
         /\ owner \in [Channels -> SUBSET AudioTasks]
         /\ writes \in [Channels -> Seq(AudioTasks)] /\ playing \in [Channels -> BOOLEAN]
         /\ misc \in SUBSET MiscType
         /\ \A ch \in Channels :
               /\ playing[ch] <=> writes[ch] # <<>>
               /\ \A i \in 1 .. Len(writes[ch]) : owner[ch] = {writes[ch][i]}
<1>1. DeviceRight(Device) /\ allocs \in Seq(AllocType)
  BY DEF AudioInv
<1>2. /\ Device.owner = owner /\ Device.writes = writes /\ Device.playing = playing
      /\ Device.misc = misc
  BY DEF Device
<1>3. PICK d : d = Device
  OBVIOUS
<1>4. d \in DeviceType /\ Plays(d)
  BY <1>1, <1>3 DEF DeviceRight
<1>5. d.owner = owner /\ d.writes = writes /\ d.playing = playing /\ d.misc = misc
  BY <1>2, <1>3
<1>6. \A ch \in Channels :
         /\ d.playing[ch] <=> d.writes[ch] # <<>>
         /\ \A i \in 1 .. Len(d.writes[ch]) : d.owner[ch] = {d.writes[ch][i]}
  BY <1>4 DEF Plays
<1>7. \A ch \in Channels :
         /\ playing[ch] <=> writes[ch] # <<>>
         /\ \A i \in 1 .. Len(writes[ch]) : owner[ch] = {writes[ch][i]}
  BY <1>5, <1>6, Zenon
<1> QED BY <1>1, <1>3, <1>4, <1>5, <1>7, DeviceParts

\* Precedences and the requests that wait for a cycle say nothing about writes.
LEMMA SamePlays ==
  ASSUME NEW d, NEW e, Plays(d), e.owner = d.owner, e.writes = d.writes, e.playing = d.playing
  PROVE  Plays(e)
<1> SUFFICES ASSUME NEW ch \in Channels
             PROVE  /\ e.playing[ch] <=> e.writes[ch] # <<>>
                    /\ \A i \in 1 .. Len(e.writes[ch]) : e.owner[ch] = {e.writes[ch][i]}
  BY DEF Plays
<1>1. /\ d.playing[ch] <=> d.writes[ch] # <<>>
      /\ \A i \in 1 .. Len(d.writes[ch]) : d.owner[ch] = {d.writes[ch][i]}
  BY DEF Plays
<1>2. /\ e.owner[ch] = d.owner[ch] /\ e.writes[ch] = d.writes[ch]
      /\ e.playing[ch] = d.playing[ch]
  OBVIOUS
<1> QED BY <1>1, <1>2, Zenon

\* A program's channels.
LEMMA MatchedChannels ==
  ASSUME NEW t, NEW mask \in SUBSET Channels
  PROVE  Matched(t, mask) \in SUBSET Channels
BY DEF Matched

\* Nothing is queued at first.
LEMMA InitAudioInv == AudioInit => AudioInv
<1> SUFFICES ASSUME AudioInit PROVE AudioInv
  OBVIOUS
<1>1. /\ owner = [ch \in Channels |-> {}] /\ writes = [ch \in Channels |-> <<>>]
      /\ precedence = [ch \in Channels |-> MinPrec]
      /\ playing = [ch \in Channels |-> FALSE] /\ misc = {} /\ allocs = <<>>
  BY DEF AudioInit
<1>2. /\ owner \in [Channels -> SUBSET AudioTasks] /\ writes \in [Channels -> Seq(AudioTasks)]
      /\ precedence \in [Channels -> AudioPris \cup {MinPrec}]
      /\ playing \in [Channels -> BOOLEAN] /\ misc \in SUBSET MiscType
      /\ allocs \in Seq(AllocType)
  BY <1>1
<1>3. Device \in DeviceType
  BY <1>2 DEF Device, DeviceType
<1>4. \A ch \in Channels : ~playing[ch] /\ writes[ch] = <<>>
  BY <1>1
<1>5. Plays(Device)
  <2>1. Device.owner = owner /\ Device.writes = writes /\ Device.playing = playing
    BY DEF Device
  <2> QED BY <1>4, <2>1 DEF Plays
<1> QED BY <1>2, <1>3, <1>5 DEF AudioInv, DeviceRight

\* ADCMD_ALLOCATE answers at once or waits.
LEMMA AllocateStep ==
  ASSUME AudioInv, NEW t \in AudioTasks, NEW want \in AudioWants, NEW pri \in AudioPris,
         AudioAllocate(t, want, pri)
  PROVE  AudioInv'
<1>1. PICK r : r = [task |-> t, want |-> want, pri |-> pri]
  OBVIOUS
<1>2. r \in AllocType
  BY <1>1 DEF AllocType
<1>3. /\ DeviceBecomes(AllocateNow(Device, r))
      /\ allocs' = IF Choice(Device, r) = {} THEN Append(allocs, r) ELSE allocs
  BY <1>1 DEF AudioAllocate
<1>4. DeviceRight(Device)'
  BY <1>2, <1>3, AllocateKeeps, Becomes DEF AudioInv
<1>5. allocs' \in Seq(AllocType)
  BY <1>2, <1>3 DEF AudioInv
<1> QED BY <1>4, <1>5 DEF AudioInv

\* Answering what waits, after a change of the device.
LEMMA PendingStep ==
  ASSUME AudioInv, NEW d, DeviceRight(d), TryPending(d)
  PROVE  AudioInv'
<1>1. DeviceBecomes(Answers(d, allocs)) /\ allocs' = <<>>
  BY DEF TryPending, Answers
<1>2. DeviceRight(Answers(d, allocs))
  BY AnswersKeep DEF AudioInv
<1>3. DeviceRight(Device)'
  BY <1>1, <1>2, Becomes
<1> QED BY <1>1, <1>3 DEF AudioInv

\* ADCMD_FREE and CloseDevice() stop what they give away.
LEMMA FreeStep ==
  ASSUME AudioInv, NEW t \in AudioTasks, NEW mask, AudioFree(t, mask) PROVE AudioInv'
<1>1. Device \in DeviceType /\ DeviceRight(Device)
  BY DEF AudioInv, DeviceRight
<1>2. DeviceRight(Release(Device, Matched(t, mask)))
  BY <1>1, ReleaseStops, StoppedRight
<1> QED BY <1>2, PendingStep DEF AudioFree

\* A precedence says nothing about writes.
LEMMA SetPrecStep ==
  ASSUME AudioInv, NEW t \in AudioTasks, NEW mask, NEW pri \in AudioPris,
         AudioSetPrec(t, mask, pri)
  PROVE  AudioInv'
<1>1. PICK d \in DeviceType : d = Device /\ DeviceRight(d)
  BY DEF AudioInv, DeviceRight
<1>2. PICK p : p = Set(d.precedence, Matched(t, mask), pri)
  OBVIOUS
<1>3. p \in [Channels -> AudioPris \cup {MinPrec}]
  BY <1>2, DeviceParts DEF Set
<1>4. PICK e : e = [d EXCEPT !.precedence = p]
  OBVIOUS
<1>5. /\ e \in DeviceType /\ e.owner = d.owner /\ e.writes = d.writes
      /\ e.playing = d.playing
  BY <1>3, <1>4 DEF DeviceType
<1>6. Plays(e)
  BY <1>1, <1>5, SamePlays DEF DeviceRight
<1>7. TryPending(e)
  <2>1. e = [Device EXCEPT !.precedence = Set(@, Matched(t, mask), pri)]
    BY <1>1, <1>2, <1>4
  <2> QED BY <2>1 DEF AudioSetPrec
<1> QED BY <1>5, <1>6, <1>7, PendingStep DEF DeviceRight

\* CMD_WRITE puts a write of the owner behind those of the owner.
LEMMA WriteStep ==
  ASSUME AudioInv, NEW t \in AudioTasks, NEW ch \in Channels, AudioWrite(t, ch)
  PROVE  AudioInv'
<1>1. PICK q : q = Append(writes[ch], t)
  OBVIOUS
<1>2. writes[ch] \in Seq(AudioTasks) /\ playing[ch] \in BOOLEAN /\ owner[ch] = {t}
  BY AudioParts DEF AudioWrite
<1>3. /\ q \in Seq(AudioTasks) /\ q # <<>> /\ Len(writes[ch]) \in Nat
      /\ Len(q) = Len(writes[ch]) + 1 /\ q[Len(writes[ch]) + 1] = t
      /\ \A i \in 1 .. Len(writes[ch]) : q[i] = writes[ch][i]
  BY <1>1, <1>2
<1>4. \A i \in 1 .. Len(q) : owner[ch] = {q[i]}
  <2>1. \A i \in 1 .. Len(writes[ch]) : owner[ch] = {writes[ch][i]}
    BY AudioParts
  <2>2. ASSUME NEW i \in 1 .. Len(q) PROVE owner[ch] = {q[i]}
    <3>1. CASE i = Len(writes[ch]) + 1
      BY <1>2, <1>3, <3>1
    <3>2. CASE i # Len(writes[ch]) + 1
      <4>1. i \in 1 .. Len(writes[ch])
        BY <1>3, <3>2
      <4> QED BY <1>3, <2>1, <4>1
    <3> QED BY <3>1, <3>2
  <2> QED BY <2>2
<1>5. PICK d \in DeviceType : d = Device /\ DeviceRight(d)
  BY DEF AudioInv, DeviceRight
<1>6. d.owner = owner /\ d.writes = writes /\ d.playing = playing
  BY <1>5 DEF Device
<1>7. PICK p \in BOOLEAN : p = d.playing[ch]
  BY <1>2, <1>6
<1>8. [Device EXCEPT !.writes[ch] = Append(@, t)] = [d EXCEPT !.writes[ch] = q, !.playing[ch] = p]
  BY <1>1, <1>5, <1>6, <1>7, DeviceParts DEF DeviceType
<1>9. PICK e : e = Start([d EXCEPT !.writes[ch] = q, !.playing[ch] = p], ch)
  OBVIOUS
<1>10. DeviceRight(e)
  BY <1>3, <1>4, <1>5, <1>6, <1>9, StartKeeps
<1>11. DeviceBecomes(e) /\ UNCHANGED allocs
  BY <1>8, <1>9 DEF AudioWrite
<1> QED BY <1>10, <1>11, Becomes DEF AudioInv

\* AbortIO() of a write: the others stay, and the next one starts.
LEMMA AbortWriteStep ==
  ASSUME AudioInv, NEW t \in AudioTasks, NEW ch \in Channels, NEW i \in 1 .. Len(writes[ch]),
         AbortWrite(t, ch, i)
  PROVE  AudioInv'
<1>1. PICK w \in Seq(AudioTasks) : w = writes[ch]
  BY AudioParts
<1>2. PICK q : q = RemoveAt(w, i)
  OBVIOUS
<1>3. /\ i \in 1 .. Len(w) /\ Len(w) \in Nat
      /\ q \in Seq(AudioTasks) /\ Len(q) = Len(w) - 1
      /\ \A j \in 1 .. Len(w) - 1 : q[j] = IF j < i THEN w[j] ELSE w[j + 1]
  <2>1. i \in 1 .. Len(w) /\ Len(w) \in Nat
    BY <1>1
  <2>2. PICK z : z = RemoveAt(w, i)
    OBVIOUS
  <2>3. /\ z \in Seq(AudioTasks) /\ Len(z) = Len(w) - 1
        /\ \A j \in 1 .. Len(w) - 1 : z[j] = IF j < i THEN w[j] ELSE w[j + 1]
    BY <2>1, <2>2, RemoveAtElements
  <2> QED BY <1>2, <2>1, <2>2, <2>3, Zenon
<1>4. \A j \in 1 .. Len(q) : owner[ch] = {q[j]}
  <2>1. \A j \in 1 .. Len(w) : owner[ch] = {w[j]}
    BY <1>1, AudioParts
  <2> QED BY <1>3, <2>1
<1>5. PICK d \in DeviceType : d = Device /\ DeviceRight(d)
  BY DEF AudioInv, DeviceRight
<1>6. d.owner = owner /\ d.writes = writes /\ d.playing = playing
  BY <1>5 DEF Device
<1>7. PICK p \in BOOLEAN : p = (playing[ch] /\ i # 1)
  <2>1. (playing[ch] /\ i # 1) \in BOOLEAN
    BY Zenon
  <2> QED BY <2>1, Zenon
<1>8. p => q # <<>>
  <2> SUFFICES ASSUME p PROVE q # <<>>
    OBVIOUS
  <2>1. i # 1
    BY <1>7
  <2>2. Len(q) > 0
    BY <1>3, <2>1
  <2> QED BY <2>2
<1>9. [Device EXCEPT !.writes[ch] = RemoveAt(@, i), !.playing[ch] = @ /\ i # 1]
        = [d EXCEPT !.writes[ch] = q, !.playing[ch] = p]
  BY <1>1, <1>2, <1>5, <1>6, <1>7, Zenon
<1>10. PICK e : e = Start([d EXCEPT !.writes[ch] = q, !.playing[ch] = p], ch)
  OBVIOUS
<1>11. DeviceRight(e)
  BY <1>3, <1>4, <1>5, <1>6, <1>8, <1>10, StartKeeps
<1>12. DeviceBecomes(e) /\ UNCHANGED allocs
  BY <1>9, <1>10 DEF AbortWrite
<1> QED BY <1>11, <1>12, Becomes DEF AudioInv

\* CMD_FLUSH, CMD_RESET and ADCMD_FINISH.
LEMMA FlushSteps ==
  ASSUME AudioInv, NEW t \in AudioTasks, NEW mask \in SUBSET Channels,
         AudioFlush(t, mask) \/ AudioFinish(t, mask)
  PROVE  AudioInv'
<1>1. Device \in DeviceType /\ DeviceRight(Device) /\ Matched(t, mask) \in SUBSET Channels
  BY MatchedChannels DEF AudioInv, DeviceRight
<1>2. CASE AudioFlush(t, mask)
  <2>1. DeviceRight(AbortChannels(Device, Matched(t, mask)))
    BY <1>1, AbortStops, StoppedRight
  <2> QED BY <1>2, <2>1, Becomes DEF AudioFlush, AudioInv
<1>3. CASE AudioFinish(t, mask)
  <2>1. DeviceBecomes(Finished(Device, Matched(t, mask))) /\ UNCHANGED allocs
    BY <1>3 DEF AudioFinish, Finished
  <2>2. DeviceRight(Finished(Device, Matched(t, mask)))
    BY <1>1, FinishKeeps
  <2> QED BY <2>1, <2>2, Becomes DEF AudioInv
<1> QED BY <1>2, <1>3

\* Only the requests that wait for the end of a cycle change.
LEMMA MiscKeeps ==
  ASSUME AudioInv, misc' \in SUBSET MiscType,
         UNCHANGED <<owner, precedence, writes, playing, allocs>>
  PROVE  AudioInv'
<1>1. PICK d \in DeviceType : d = Device /\ DeviceRight(d)
  BY DEF AudioInv, DeviceRight
<1>2. PICK e : e = [d EXCEPT !.misc = misc']
  OBVIOUS
<1>3. /\ e \in DeviceType /\ e.owner = d.owner /\ e.precedence = d.precedence
      /\ e.writes = d.writes /\ e.playing = d.playing /\ e.misc = misc'
  BY <1>2 DEF DeviceType
<1>4. Plays(e)
  BY <1>1, <1>3, SamePlays DEF DeviceRight
<1>5. DeviceBecomes(e)
  BY <1>1, <1>3 DEF Device, DeviceBecomes
<1>6. DeviceRight(e)
  BY <1>3, <1>4 DEF DeviceRight
<1> QED BY <1>5, <1>6, Becomes DEF AudioInv

\* Waiting for the end of a cycle, and AbortIO() of that.
LEMMA WaitSteps ==
  ASSUME AudioInv,
         \/ \E t \in AudioTasks, cmd \in Commands : \E mask \in SUBSET Channels :
               AudioWait(t, cmd, mask)
         \/ \E m \in misc : AbortMisc(m)
  PROVE  AudioInv'
<1>1. misc \in SUBSET MiscType
  BY AudioParts
<1>2. ASSUME NEW t \in AudioTasks, NEW cmd \in Commands, NEW mask \in SUBSET Channels,
             AudioWait(t, cmd, mask)
      PROVE  AudioInv'
  <2>1. PICK m : m = [task |-> t, cmd |-> cmd, mask |-> Matched(t, mask)]
    OBVIOUS
  <2>2. m \in MiscType
    BY <2>1, MatchedChannels DEF MiscType
  <2>3. misc' = misc \cup {m} /\ UNCHANGED <<owner, precedence, writes, playing, allocs>>
    BY <1>2, <2>1 DEF AudioWait
  <2> QED BY <1>1, <2>2, <2>3, MiscKeeps
<1>3. ASSUME NEW m \in misc, AbortMisc(m) PROVE AudioInv'
  BY <1>1, <1>3, MiscKeeps DEF AbortMisc
<1> QED BY <1>2, <1>3

\* The end of a cycle answers those who wait for it, and may end a write.
LEMMA CycleStep ==
  ASSUME AudioInv, NEW ch \in Channels, NEW last \in BOOLEAN, AudioCycle(ch, last)
  PROVE  AudioInv'
<1>1. PICK d \in DeviceType : d = Device /\ DeviceRight(d)
  BY DEF AudioInv, DeviceRight
<1>2. PICK k : k = d.misc \ { m \in misc : ch \in m.mask }
  OBVIOUS
<1>3. k \in SUBSET MiscType
  BY <1>2, DeviceParts
<1>4. PICK e : e = [d EXCEPT !.misc = k]
  OBVIOUS
<1>5. /\ e \in DeviceType /\ e.owner = d.owner
      /\ e.writes = d.writes /\ e.playing = d.playing
  BY <1>3, <1>4 DEF DeviceType
<1>6. DeviceRight(e)
  BY <1>1, <1>5, SamePlays DEF DeviceRight
<1>7. e = [Device EXCEPT !.misc = @ \ { m \in misc : ch \in m.mask }]
  BY <1>1, <1>2, <1>4
<1>8. (DeviceBecomes(CompleteWrite(e, ch)) \/ DeviceBecomes(e)) /\ UNCHANGED allocs
  BY <1>7 DEF AudioCycle
<1> QED BY <1>6, <1>8, CompleteKeeps, Becomes DEF AudioInv

\* Every command, abort and end of a cycle keeps the invariant.
LEMMA NextAudioInv == AudioInv /\ [AudioNext]_audioVars => AudioInv'
<1> SUFFICES ASSUME AudioInv, [AudioNext]_audioVars PROVE AudioInv'
  OBVIOUS
<1>1. \A t : Masks(t) \subseteq SUBSET Channels
  BY MatchedChannels DEF Masks, Matched
<1>2. ASSUME NEW t \in AudioTasks, NEW pri \in AudioPris,
             \/ \E want \in AudioWants : AudioAllocate(t, want, pri)
             \/ \E mask \in Masks(t) : AudioSetPrec(t, mask, pri)
      PROVE  AudioInv'
  BY <1>2, AllocateStep, SetPrecStep
<1>3. ASSUME NEW t \in AudioTasks, NEW mask \in Masks(t) \ {{}},
             \/ AudioFree(t, mask) \/ AudioFlush(t, mask) \/ AudioFinish(t, mask)
             \/ \E cmd \in Commands : AudioWait(t, cmd, mask)
      PROVE  AudioInv'
  <2>1. mask \in SUBSET Channels
    BY <1>1
  <2> QED BY <1>3, <2>1, FreeStep, FlushSteps, WaitSteps
<1>4. ASSUME NEW t \in AudioTasks, NEW ch \in Channels,
             AudioWrite(t, ch) \/ \E i \in 1 .. Len(writes[ch]) : AbortWrite(t, ch, i)
      PROVE  AudioInv'
  BY <1>4, WriteStep, AbortWriteStep
<1>5. ASSUME NEW i \in DOMAIN allocs, AbortAllocate(i) PROVE AudioInv'
  <2>1. allocs' \in Seq(AllocType)
    BY <1>5, RemoveAtElements DEF AbortAllocate, AudioInv
  <2>2. UNCHANGED Device
    BY <1>5 DEF AbortAllocate, channelVars, Device
  <2> QED BY <2>1, <2>2 DEF AudioInv, DeviceRight, Plays
<1>6. CASE UNCHANGED audioVars
  <2>1. UNCHANGED <<Device, allocs>>
    BY <1>6 DEF audioVars, channelVars, Device
  <2> QED BY <2>1 DEF AudioInv, DeviceRight, Plays
<1> QED BY <1>2, <1>3, <1>4, <1>5, <1>6, WaitSteps, CycleStep DEF AudioNext

\* The invariant holds in every reachable state.
LEMMA AlwaysAudioInv == AudioSpec => []AudioInv
BY InitAudioInv, NextAudioInv, PTL DEF AudioSpec

\* A write that the device has taken is going to be played, on a channel that
\* still belongs to its program.
THEOREM QueuesPlay == AudioSpec => []QueuedWritesPlay
<1>1. AudioInv => QueuedWritesPlay
  BY AudioParts DEF QueuedWritesPlay
<1> QED BY <1>1, AlwaysAudioInv, PTL

-----------------------------------------------------------------------------
(* intuition.library: the messages of IDCMP.                               *)

Detached == {"detach", "flushreply", "flushuser", "end"}
Removal == {"cleared", "modify", "close"} \cup Detached
MsgType == [window : Windows, class : Classes]
DoingType ==
    [at : {"program", "poll"} \cup Posting \cup Removal,
     window : {{}} \cup { {w} : w \in Windows }, class : Classes,
     then : {"program", "poll", "closed"}, forbid : BOOLEAN, saved : BOOLEAN]

\* IdcmpTypeOK with the types of all fields, and no bound for the memory.
IdcmpTypes ==
    /\ owns \in [WindowTasks -> SUBSET Windows] /\ linked \in SUBSET Windows
    /\ userPort \in [Windows -> {"none", "own", "shared"}] /\ windowPort \in [Windows -> BOOLEAN]
    /\ idcmp \in [Windows -> BOOLEAN]
    /\ pending \in [Windows -> Nat] /\ ports \in [Windows -> SUBSET {"user", "reply"}]
    /\ ownQueue \in [Windows -> Seq(MsgType)] /\ sharedQueue \in [WindowTasks -> Seq(MsgType)]
    /\ held \in [Windows -> [Classes -> Nat]] /\ replied \in [Windows -> [Classes -> Nat]]
    /\ messageMem \in Nat /\ processing \in BOOLEAN /\ overtaken \in BOOLEAN
    /\ doing \in [WindowTasks -> DoingType]

\* A window has one owner, and is in the list of the screen while it has one.
OwnersRight ==
    /\ \A t, u \in WindowTasks : t # u => owns[t] \cap owns[u] = {}
    /\ \A w \in Windows : w \in linked <=> \E t \in WindowTasks : w \in owns[t]

\* A program works at a window when it is not between two calls.
AtRight(t) == doing[t].at \in {"program", "poll"} <=> doing[t].window = {}

\* What a program that posts to w, or takes its ports away, relies on.
WorkRight(t, w) ==
    /\ Works(t, w, Posting) =>
          w \in linked /\ userPort[w] # "none" /\ windowPort[w] /\ doing[t].then # "closed"
    /\ Works(t, w, {"count"}) => doing[t].class = "move"
    /\ Works(t, w, Removal) => w \in owns[t] /\ held[w] = NoMessages
    /\ Works(t, w, {"cleared"}) => doing[t].forbid /\ userPort[w] = "shared"
    /\ Works(t, w, {"modify", "close"}) => userPort[w] # "shared"
    /\ Works(t, w, Detached) => userPort[w] = "none"
    /\ Works(t, w, Detached \ {"detach"}) => ~windowPort[w] /\ pending[w] = 0

\* The ports of a window.
PortsRight(w) ==
    /\ windowPort[w] => "reply" \in ports[w] /\ w \in linked
    /\ "reply" \in ports[w] => windowPort[w] \/ Removes(w, {"flushreply"})
    /\ userPort[w] = "own" => "user" \in ports[w]
    /\ userPort[w] # "none" => w \in linked

\* Where its messages can be.
QueueRight(w) ==
    /\ ownQueue[w] \in Seq({ Of(w, c) : c \in Classes })
    /\ ownQueue[w] # <<>> =>
          /\ "user" \in ports[w]
          /\ userPort[w] = "own" \/ Removes(w, {"detach", "flushreply", "flushuser"})
    /\ held[w] # NoMessages => userPort[w] # "none"
    /\ Count(replied[w]) > 0 => "reply" \in ports[w]
    /\ \A c \in Classes :
          Unanswered(w, c) > 0 => "reply" \in ports[w] \/ Removes(w, {"flushuser"})

\* The shared port of a program has messages of its windows that share it.
SharedRight(t) ==
    \A i \in 1 .. Len(sharedQueue[t]) :
        LET w == sharedQueue[t][i].window
        IN  w \in owns[t] /\ userPort[w] = "shared" /\ ~Works(t, w, {"cleared"})

\* The mouse moves on their way.
Movers(w) == Cardinality({ t \in WindowTasks : Works(t, w, Posting) /\ doing[t].class = "move" })

MovesRight(w) ==
    /\ ~Removes(w, {"flushreply", "flushuser"}) =>
          pending[w] + Posts(w, {"count"}) = Outstanding(w, "move")
    /\ Outstanding(w, "move") <= MouseQueue + Cardinality(WindowTasks)
    /\ pending[w] + Movers(w) <= MouseQueue + Cardinality(WindowTasks)

Putters == { t \in WindowTasks : IsAt(t, "put") }
Existing == [w \in Windows |-> Outstanding(w, "move") + Outstanding(w, "other")]
Conserved == messageMem + Cardinality(Putters) + SumFunction(Existing) = MaxMessages

Messages ==
    /\ OwnersRight
    /\ \A t \in WindowTasks, w \in Windows : WorkRight(t, w)
    /\ \A w \in Windows : PortsRight(w) /\ QueueRight(w) /\ MovesRight(w)
    /\ \A t \in WindowTasks : AtRight(t) /\ SharedRight(t)
    /\ Conserved

IdcmpInv == IdcmpTypes /\ messageMem <= MaxMessages /\ (overtaken \/ Messages)

-----------------------------------------------------------------------------

\* One step of the fold of SumFunction() over a set of arguments.
SumStep(f, h, s) ==
    IF s = {} THEN 0 ELSE f[CHOOSE x \in s : TRUE] + h[s \ {CHOOSE x \in s : TRUE}]

\* There is a function that does these steps.
LEMMA SumsExist ==
  ASSUME NEW S, IsFiniteSet(S), NEW f
  PROVE  \E h : h = [s \in SUBSET S |-> SumStep(f, h, s)]
<1> DEFINE Upto(m) == { s \in SUBSET S : Cardinality(s) <= m }
           Solved(m) == \E h : \A s \in Upto(m) : h[s] = SumStep(f, h, s)
           Bad == { m \in Nat : ~Solved(m) }
<1>1. \A s \in SUBSET S :
         /\ IsFiniteSet(s) /\ Cardinality(s) \in Nat /\ Cardinality(s) <= Cardinality(S)
         /\ Cardinality(s) = 0 <=> s = {}
         /\ \A x \in s : s \ {x} \in SUBSET S /\ Cardinality(s \ {x}) = Cardinality(s) - 1
  <2> TAKE s \in SUBSET S
  <2>1. IsFiniteSet(s) /\ Cardinality(s) <= Cardinality(S)
    BY FS_Subset
  <2>2. Cardinality(s) \in Nat /\ (Cardinality(s) = 0 <=> s = {})
    BY <2>1, FS_CardinalityType, FS_EmptySet
  <2>3. \A x \in s : Cardinality(s \ {x}) = Cardinality(s) - 1
    BY <2>1, FS_RemoveElement
  <2>4. \A x \in s : s \ {x} \in SUBSET S
    OBVIOUS
  <2> QED BY <2>1, <2>2, <2>3, <2>4
<1>2. Solved(0)
  <2> DEFINE h == [s \in SUBSET S |-> 0]
  <2>1. ASSUME NEW s \in Upto(0) PROVE h[s] = SumStep(f, h, s)
    <3>1. s = {} /\ s \in SUBSET S
      BY <1>1
    <3> QED BY <3>1 DEF SumStep
  <2> HIDE DEF h
  <2> QED BY <2>1
<1>3. ASSUME NEW m \in Nat, Solved(m) PROVE Solved(m + 1)
  <2>1. PICK g : \A s \in Upto(m) : g[s] = SumStep(f, g, s)
    BY <1>3
  <2> DEFINE h == [s \in SUBSET S |-> IF s \in Upto(m) THEN g[s] ELSE SumStep(f, g, s)]
  <2>2. ASSUME NEW s \in Upto(m + 1) PROVE h[s] = SumStep(f, h, s)
    <3>1. s \in SUBSET S /\ Cardinality(s) <= m + 1 /\ Cardinality(s) \in Nat
      BY <1>1
    <3>2. h[s] = SumStep(f, g, s)
      BY <2>1, <3>1
    <3>3. CASE s = {}
      BY <3>2, <3>3 DEF SumStep
    <3>4. CASE s # {}
      <4>1. PICK x : x = CHOOSE y \in s : TRUE
        OBVIOUS
      <4>2. x \in s
        BY <3>4, <4>1
      <4>3. s \ {x} \in SUBSET S /\ s \ {x} \in Upto(m)
        BY <1>1, <3>1, <4>2
      <4>4. h[s \ {x}] = g[s \ {x}]
        BY <4>3
      <4> HIDE DEF h, Upto
      <4> QED BY <3>2, <3>4, <4>1, <4>4 DEF SumStep
    <3> QED BY <3>3, <3>4
  <2> HIDE DEF h, Upto
  <2> QED BY <2>2
<1> HIDE DEF Solved
<1>4. Bad = {}
  <2> SUFFICES ASSUME Bad # {} PROVE FALSE
    OBVIOUS
  <2>1. PICK x \in Bad : \A y \in Bad : x <= y
    BY LeastElement
  <2>2. x # 0
    BY <1>2, <2>1
  <2>3. x - 1 \in Nat /\ x - 1 \notin Bad
    BY <2>1, <2>2
  <2> QED BY <1>3, <2>1, <2>3
<1>5. Cardinality(S) \in Nat /\ Upto(Cardinality(S)) = SUBSET S
  <2>1. Cardinality(S) \in Nat
    BY FS_CardinalityType
  <2> QED BY <1>1, <2>1
<1>6. PICK g : \A s \in SUBSET S : g[s] = SumStep(f, g, s)
  BY <1>4, <1>5 DEF Solved
<1> DEFINE h == [s \in SUBSET S |-> g[s]]
<1>7. ASSUME NEW s \in SUBSET S PROVE h[s] = SumStep(f, h, s)
  <2>1. h[s] = g[s] /\ g[s] = SumStep(f, g, s)
    BY <1>6
  <2>2. \A x : h[s \ {x}] = g[s \ {x}]
    OBVIOUS
  <2> HIDE DEF h
  <2> QED BY <2>1, <2>2 DEF SumStep
<1>8. h = [s \in SUBSET S |-> h[s]]
  OBVIOUS
<1> HIDE DEF h
<1>9. h = [s \in SUBSET S |-> SumStep(f, h, s)]
  BY <1>7, <1>8
<1> QED BY <1>9

\* SumFunction() is the last of the sums over the subsets.
LEMMA SumUnfolds ==
  ASSUME NEW S, IsFiniteSet(S), NEW f, DOMAIN f = S
  PROVE  \E h : SumFunction(f) = h[S] /\ \A s \in SUBSET S : h[s] = SumStep(f, h, s)
<1> DEFINE h == CHOOSE g : g = [s \in SUBSET S |-> SumStep(f, g, s)]
<1>1. SumFunction(f) = h[S]
  BY DEF SumFunction, SumFunctionOnSet, FoldFunctionOnSet, MapThenFoldSet, SumStep
<1>2. h = [s \in SUBSET S |-> SumStep(f, h, s)]
  BY SumsExist
<1> HIDE DEF h
<1>3. \A s \in SUBSET S : h[s] = SumStep(f, h, s)
  BY <1>2
<1> QED BY <1>1, <1>3

\* What holds of the sum over no argument, and of a sum when it holds of that
\* over one argument less, holds of the whole: here that two functions which
\* differ at x only have sums that differ by as much.
LEMMA SumsDiffer ==
  ASSUME NEW S, IsFiniteSet(S), NEW f \in [S -> Nat], NEW g \in [S -> Nat],
         NEW x, \A y \in S \ {x} : f[y] = g[y]
  PROVE  /\ SumFunction(f) \in Nat /\ SumFunction(g) \in Nat
         /\ x \in S => SumFunction(g) + f[x] = SumFunction(f) + g[x]
         /\ x \notin S => SumFunction(g) = SumFunction(f)
<1>a. ASSUME NEW e, DOMAIN e = S
      PROVE  \E h : SumFunction(e) = h[S] /\ \A s \in SUBSET S : h[s] = SumStep(e, h, s)
  BY <1>a, SumUnfolds
<1>b. DOMAIN f = S /\ DOMAIN g = S
  OBVIOUS
<1>1. PICK h : SumFunction(f) = h[S] /\ \A s \in SUBSET S : h[s] = SumStep(f, h, s)
  BY <1>a, <1>b
<1>2. PICK k : SumFunction(g) = k[S] /\ \A s \in SUBSET S : k[s] = SumStep(g, k, s)
  BY <1>a, <1>b
<1> DEFINE Good(s) == /\ h[s] \in Nat /\ k[s] \in Nat
                      /\ x \in s => k[s] + f[x] = h[s] + g[x]
                      /\ x \notin s => k[s] = h[s]
           Bad == { m \in Nat : \E s \in SUBSET S : Cardinality(s) = m /\ ~Good(s) }
<1>3. Bad = {}
  <2> SUFFICES ASSUME Bad # {} PROVE FALSE
    OBVIOUS
  <2>1. PICK m \in Bad : \A y \in Bad : m <= y
    BY LeastElement
  <2>2. PICK s \in SUBSET S : Cardinality(s) = m /\ ~Good(s)
    BY <2>1
  <2>3. s # {}
    <3>1. h[{}] = SumStep(f, h, {}) /\ k[{}] = SumStep(g, k, {})
      BY <1>1, <1>2
    <3>2. h[{}] = 0 /\ k[{}] = 0
      BY <3>1 DEF SumStep
    <3>3. Good({})
      BY <3>2
    <3> QED BY <2>2, <3>3
  <2>4. PICK y : y = CHOOSE z \in s : TRUE
    OBVIOUS
  <2>5. y \in s /\ y \in S
    BY <2>3, <2>4
  <2>6. h[s] = f[y] + h[s \ {y}] /\ k[s] = g[y] + k[s \ {y}]
    BY <1>1, <1>2, <2>3, <2>4 DEF SumStep
  <2>7. Cardinality(s \ {y}) = m - 1 /\ m - 1 \in Nat
    <3>1. IsFiniteSet(s)
      BY FS_Subset
    <3>2. IsFiniteSet(s \ {y}) /\ Cardinality(s \ {y}) = Cardinality(s) - 1
      BY <2>5, <3>1, FS_RemoveElement
    <3> QED BY <2>2, <3>2, FS_CardinalityType
  <2>8. Good(s \ {y})
    <3>1. m - 1 \notin Bad /\ s \ {y} \in SUBSET S
      BY <2>1, <2>7
    <3> QED BY <2>7, <3>1
  <2>9. f[y] \in Nat /\ g[y] \in Nat /\ (y # x => f[y] = g[y])
    BY <2>5
  <2>10. Good(s)
    <3>1. CASE y = x
      BY <2>5, <2>6, <2>8, <2>9, <3>1
    <3>2. CASE y # x /\ x \in s
      <4>1. x \in S /\ f[x] \in Nat /\ g[x] \in Nat
        BY <3>2
      <4>2. x \in s \ {y}
        BY <3>2
      <4> QED BY <2>6, <2>8, <2>9, <3>2, <4>1, <4>2
    <3>3. CASE x \notin s
      <4>1. x \notin s \ {y} /\ y # x
        BY <2>5, <3>3
      <4> QED BY <2>6, <2>8, <2>9, <3>3, <4>1
    <3> QED BY <3>1, <3>2, <3>3
  <2> QED BY <2>2, <2>10
<1>4. Cardinality(S) \in Nat
  BY FS_CardinalityType
<1> HIDE DEF Good
<1>5. Good(S)
  BY <1>3, <1>4
<1> QED BY <1>1, <1>2, <1>5 DEF Good

\* A sum of nothing is nothing.
LEMMA SumOfZeros ==
  ASSUME NEW S, IsFiniteSet(S), NEW f, DOMAIN f = S, \A x \in S : f[x] = 0
  PROVE  SumFunction(f) = 0
<1>1. PICK h : SumFunction(f) = h[S] /\ \A s \in SUBSET S : h[s] = SumStep(f, h, s)
  BY SumUnfolds
<1> DEFINE Bad == { m \in Nat : \E s \in SUBSET S : Cardinality(s) = m /\ h[s] # 0 }
<1>2. Bad = {}
  <2> SUFFICES ASSUME Bad # {} PROVE FALSE
    OBVIOUS
  <2>1. PICK m \in Bad : \A y \in Bad : m <= y
    BY LeastElement
  <2>2. PICK s \in SUBSET S : Cardinality(s) = m /\ h[s] # 0
    BY <2>1
  <2>3. s # {}
    BY <1>1, <2>2 DEF SumStep
  <2>4. PICK y : y = CHOOSE z \in s : TRUE
    OBVIOUS
  <2>5. y \in s /\ y \in S
    BY <2>3, <2>4
  <2>6. h[s] = 0 + h[s \ {y}]
    BY <1>1, <2>3, <2>4, <2>5 DEF SumStep
  <2>7. Cardinality(s \ {y}) = m - 1 /\ m - 1 \in Nat
    <3>1. IsFiniteSet(s)
      BY FS_Subset
    <3>2. IsFiniteSet(s \ {y}) /\ Cardinality(s \ {y}) = Cardinality(s) - 1
      BY <2>5, <3>1, FS_RemoveElement
    <3> QED BY <2>2, <3>2, FS_CardinalityType
  <2>8. h[s \ {y}] = 0
    <3>1. m - 1 \notin Bad /\ s \ {y} \in SUBSET S
      BY <2>1, <2>7
    <3> QED BY <2>7, <3>1
  <2> QED BY <2>2, <2>6, <2>8
<1>3. Cardinality(S) \in Nat
  BY FS_CardinalityType
<1>4. h[S] = 0
  BY <1>2, <1>3
<1> QED BY <1>1, <1>4

\* A sum is a number, at least each of its terms.
LEMMA SumBounds ==
  ASSUME NEW S, IsFiniteSet(S), NEW f \in [S -> Nat]
  PROVE  SumFunction(f) \in Nat /\ \A x \in S : f[x] <= SumFunction(f)
<1>1. PICK z : z \notin S
  BY NoSetContainsEverything
<1>2. SumFunction(f) \in Nat
  BY <1>1, SumsDiffer
<1>3. ASSUME NEW x \in S PROVE f[x] <= SumFunction(f)
  <2>1. PICK g : g = [f EXCEPT ![x] = 0]
    OBVIOUS
  <2>2. g \in [S -> Nat] /\ g[x] = 0 /\ \A y \in S \ {x} : f[y] = g[y]
    BY <2>1
  <2>3. SumFunction(g) \in Nat /\ SumFunction(g) + f[x] = SumFunction(f) + g[x]
    BY <2>2, SumsDiffer
  <2>4. f[x] \in Nat
    OBVIOUS
  <2> QED BY <1>2, <2>2, <2>3, <2>4
<1> QED BY <1>2, <1>3

-----------------------------------------------------------------------------

\* The places of a sequence that are among the first k and hold a message.
PlacesOf(q, k, m) == { i \in 1 .. k : q[i] = m }

\* Their number.
LEMMA PlacesFinite ==
  ASSUME NEW q, NEW k \in Nat, NEW m
  PROVE  /\ IsFiniteSet(PlacesOf(q, k, m)) /\ Cardinality(PlacesOf(q, k, m)) \in Nat
         /\ Cardinality(PlacesOf(q, 0, m)) = 0
<1>1. IsFiniteSet(PlacesOf(q, k, m))
  <2>1. IsFiniteSet(1 .. k) /\ PlacesOf(q, k, m) \in SUBSET (1 .. k)
    BY FS_Interval DEF PlacesOf
  <2> QED BY <2>1, FS_Subset
<1>2. PlacesOf(q, 0, m) = {}
  BY DEF PlacesOf
<1> QED BY <1>1, <1>2, FS_CardinalityType, FS_EmptySet

\* A place more.
LEMMA PlacesGrow ==
  ASSUME NEW q, NEW k \in Nat, NEW m
  PROVE  Cardinality(PlacesOf(q, k + 1, m))
           = Cardinality(PlacesOf(q, k, m)) + IF q[k + 1] = m THEN 1 ELSE 0
<1>1. IsFiniteSet(PlacesOf(q, k, m)) /\ Cardinality(PlacesOf(q, k, m)) \in Nat
  BY PlacesFinite
<1>2. CASE q[k + 1] = m
  <2>1. PlacesOf(q, k + 1, m) = PlacesOf(q, k, m) \cup {k + 1} /\ k + 1 \notin PlacesOf(q, k, m)
    BY <1>2 DEF PlacesOf
  <2> QED BY <1>1, <1>2, <2>1, FS_AddElement
<1>3. CASE q[k + 1] # m
  <2>1. PlacesOf(q, k + 1, m) = PlacesOf(q, k, m)
    BY <1>3 DEF PlacesOf
  <2> QED BY <1>1, <1>3, <2>1
<1> QED BY <1>2, <1>3

\* How often the sequence has a message, and when it has it at all.
LEMMA OccurrencesCount ==
  ASSUME NEW M, NEW q \in Seq(M), NEW w, NEW c
  PROVE  /\ Occurrences(q, w, c) = Cardinality(PlacesOf(q, Len(q), Of(w, c)))
         /\ Occurrences(q, w, c) \in Nat
         /\ Occurrences(q, w, c) > 0 <=> \E i \in 1 .. Len(q) : q[i] = Of(w, c)
<1>1. PICK p : p = PlacesOf(q, Len(q), Of(w, c))
  OBVIOUS
<1>2. Occurrences(q, w, c) = Cardinality(p)
  BY <1>1 DEF Occurrences, PlacesOf
<1>3. IsFiniteSet(p) /\ Cardinality(p) \in Nat
  <2>1. Len(q) \in Nat
    OBVIOUS
  <2> QED BY <1>1, <2>1, PlacesFinite
<1>4. Cardinality(p) = 0 <=> p = {}
  BY <1>3, FS_EmptySet
<1>5. p # {} <=> \E i \in 1 .. Len(q) : q[i] = Of(w, c)
  BY <1>1 DEF PlacesOf
<1> QED BY <1>1, <1>2, <1>3, <1>4, <1>5

\* PutMsg() at the end of a queue.
LEMMA OccurrencesAppend ==
  ASSUME NEW M, NEW q \in Seq(M), NEW m \in M, NEW w, NEW c
  PROVE  Occurrences(Append(q, m), w, c) = Occurrences(q, w, c) + IF m = Of(w, c) THEN 1 ELSE 0
<1>a. PICK o : o = Of(w, c)
  OBVIOUS
<1>b. ASSUME NEW s, NEW k \in Nat
      PROVE  /\ Cardinality(PlacesOf(s, k, o)) \in Nat
             /\ Cardinality(PlacesOf(s, k + 1, o))
                  = Cardinality(PlacesOf(s, k, o)) + IF s[k + 1] = o THEN 1 ELSE 0
  BY PlacesFinite, PlacesGrow, Zenon
<1>1. PICK r : r = Append(q, m)
  OBVIOUS
<1>2. PICK n : n = Len(q)
  OBVIOUS
<1>3. /\ r \in Seq(M) /\ n \in Nat /\ Len(r) = n + 1 /\ r[n + 1] = m
      /\ \A i \in 1 .. n : r[i] = q[i]
  BY <1>1, <1>2
<1>4. PlacesOf(r, n, o) = PlacesOf(q, n, o)
  BY <1>3 DEF PlacesOf
<1>5. Cardinality(PlacesOf(r, n + 1, o))
        = Cardinality(PlacesOf(r, n, o)) + IF m = o THEN 1 ELSE 0
  BY <1>b, <1>3
<1>6. Occurrences(r, w, c) = Cardinality(PlacesOf(r, n + 1, o))
  BY <1>a, <1>3, OccurrencesCount
<1>7. Occurrences(q, w, c) = Cardinality(PlacesOf(q, n, o))
  BY <1>a, <1>2, OccurrencesCount
<1> QED BY <1>a, <1>1, <1>4, <1>5, <1>6, <1>7

\* GetMsg() from the front of a queue.
LEMMA OccurrencesTail ==
  ASSUME NEW M, NEW q \in Seq(M), q # <<>>, NEW w, NEW c
  PROVE  Occurrences(q, w, c)
           = Occurrences(Tail(q), w, c) + IF Head(q) = Of(w, c) THEN 1 ELSE 0
<1>a. PICK o : o = Of(w, c)
  OBVIOUS
<1>b. ASSUME NEW s, NEW k \in Nat
      PROVE  /\ Cardinality(PlacesOf(s, k, o)) \in Nat
             /\ Cardinality(PlacesOf(s, k + 1, o))
                  = Cardinality(PlacesOf(s, k, o)) + IF s[k + 1] = o THEN 1 ELSE 0
  BY PlacesFinite, PlacesGrow, Zenon
<1>1. PICK r : r = Tail(q)
  OBVIOUS
<1>2. PICK n : n = Len(r)
  OBVIOUS
<1>3. /\ r \in Seq(M) /\ n \in Nat /\ Len(q) = n + 1 /\ Head(q) = q[1]
      /\ \A i \in 1 .. n : r[i] = q[i + 1]
  BY <1>1, <1>2
<1> DEFINE Good(k) == Cardinality(PlacesOf(q, k + 1, o))
                        = Cardinality(PlacesOf(r, k, o)) + IF q[1] = o THEN 1 ELSE 0
           Bad == { k \in Nat : k <= n /\ ~Good(k) }
<1>4. Good(0)
  <2>1. Cardinality(PlacesOf(r, 0, o)) = 0 /\ Cardinality(PlacesOf(q, 0, o)) = 0
    BY PlacesFinite
  <2>2. Cardinality(PlacesOf(q, 0 + 1, o))
          = Cardinality(PlacesOf(q, 0, o)) + IF q[0 + 1] = o THEN 1 ELSE 0
    BY <1>b
  <2> QED BY <2>1, <2>2
<1>5. ASSUME NEW k \in Nat, k + 1 <= n, Good(k) PROVE Good(k + 1)
  <2>1. r[k + 1] = q[k + 2]
    BY <1>3, <1>5
  <2>2. Cardinality(PlacesOf(q, (k + 1) + 1, o))
          = Cardinality(PlacesOf(q, k + 1, o)) + IF q[(k + 1) + 1] = o THEN 1 ELSE 0
    <3>1. k + 1 \in Nat
      OBVIOUS
    <3> QED BY <1>b, <3>1
  <2>3. Cardinality(PlacesOf(r, k + 1, o))
          = Cardinality(PlacesOf(r, k, o)) + IF r[k + 1] = o THEN 1 ELSE 0
    BY <1>b
  <2>4. /\ Cardinality(PlacesOf(r, k, o)) \in Nat
        /\ Cardinality(PlacesOf(q, k + 1, o)) \in Nat
    <3>1. k + 1 \in Nat
      OBVIOUS
    <3> QED BY <1>b, <3>1
  <2>5. (k + 1) + 1 = k + 2
    OBVIOUS
  <2> QED BY <1>5, <2>1, <2>2, <2>3, <2>4, <2>5
<1> HIDE DEF Good
<1>6. Bad = {}
  <2> SUFFICES ASSUME Bad # {} PROVE FALSE
    OBVIOUS
  <2>1. PICK k \in Bad : \A y \in Bad : k <= y
    BY LeastElement
  <2>2. k \in Nat /\ k <= n /\ ~Good(k)
    BY <2>1
  <2>3. k # 0
    BY <1>4, <2>2
  <2>4. k - 1 \in Nat /\ (k - 1) + 1 = k /\ k - 1 \notin Bad
    BY <2>1, <2>2, <2>3
  <2>5. Good(k - 1)
    BY <1>3, <2>2, <2>4
  <2> QED BY <1>5, <2>2, <2>4, <2>5
<1>7. Good(n)
  BY <1>3, <1>6
<1>8. Occurrences(q, w, c) = Cardinality(PlacesOf(q, n + 1, o))
  BY <1>a, <1>3, OccurrencesCount
<1>9. Occurrences(r, w, c) = Cardinality(PlacesOf(r, n, o))
  BY <1>a, <1>2, <1>3, OccurrencesCount
<1> QED BY <1>a, <1>1, <1>3, <1>7, <1>8, <1>9 DEF Good

\* A queue of messages of one window has nothing else.
LEMMA OccurrencesOfOne ==
  ASSUME NEW w, NEW q \in Seq({ Of(w, c) : c \in Classes })
  PROVE  Occurrences(q, w, "move") + Occurrences(q, w, "other") = Len(q)
<1>1. PICK n \in Nat : n = Len(q)
  OBVIOUS
<1>2. PICK a : a = PlacesOf(q, n, Of(w, "move"))
  OBVIOUS
<1>3. PICK b : b = PlacesOf(q, n, Of(w, "other"))
  OBVIOUS
<1>4. a \cup b = 1 .. n
  <2>1. \A i \in 1 .. n : q[i] \in { Of(w, c) : c \in Classes }
    BY <1>1
  <2>2. \A i \in 1 .. n : q[i] = Of(w, "move") \/ q[i] = Of(w, "other")
    BY <2>1 DEF Classes
  <2> QED BY <1>2, <1>3, <2>2 DEF PlacesOf
<1>5. a \cap b = {}
  BY <1>2, <1>3 DEF PlacesOf, Of
<1>6. IsFiniteSet(a) /\ IsFiniteSet(b) /\ Cardinality(a) \in Nat /\ Cardinality(b) \in Nat
  BY <1>2, <1>3, PlacesFinite
<1>7. Cardinality(a \cap b) = 0
  BY <1>5, FS_EmptySet
<1>8. Cardinality(a \cup b) = Cardinality(a) + Cardinality(b)
  <2>1. Cardinality(a \cup b) = Cardinality(a) + Cardinality(b) - Cardinality(a \cap b)
    BY <1>6, FS_Union
  <2> QED BY <1>6, <1>7, <2>1
<1>9. Cardinality(1 .. n) = n
  BY FS_Interval
<1> QED BY <1>1, <1>2, <1>3, <1>4, <1>8, <1>9, OccurrencesCount

\* Picked() keeps each message that is picked, as often as it is there.
LEMMA OccurrencesPicked ==
  ASSUME NEW M, NEW q \in Seq(M), NEW S, NEW w, NEW c
  PROVE  Occurrences(Picked(q, S), w, c) = IF Of(w, c) \in S THEN Occurrences(q, w, c) ELSE 0
<1>1. PICK g : /\ Picked(q, S) = g[Len(q)]
               /\ g[0] = <<>>
               /\ \A k \in 1 .. Len(q) :
                     g[k] = IF q[k] \in S THEN Append(g[k-1], q[k]) ELSE g[k-1]
  BY PickedUnfolds
<1>2. PICK n \in Nat : n = Len(q)
  OBVIOUS
<1>3. PICK m : m = Of(w, c)
  OBVIOUS
<1>a. ASSUME NEW s, NEW k \in Nat
      PROVE  /\ Cardinality(PlacesOf(s, k, m)) \in Nat
             /\ Cardinality(PlacesOf(s, k + 1, m))
                  = Cardinality(PlacesOf(s, k, m)) + IF s[k + 1] = m THEN 1 ELSE 0
  BY PlacesFinite, PlacesGrow, Zenon
<1> DEFINE Good(k) == /\ g[k] \in Seq(M)
                      /\ Occurrences(g[k], w, c)
                           = IF m \in S THEN Cardinality(PlacesOf(q, k, m)) ELSE 0
           Bad == { k \in Nat : k <= n /\ ~Good(k) }
<1>4. Good(0)
  <2>1. <<>> \in Seq(M) /\ Len(<<>>) = 0
    OBVIOUS
  <2>2. Occurrences(<<>>, w, c) = Cardinality(PlacesOf(<<>>, 0, m))
    BY <1>3, <2>1, OccurrencesCount
  <2>3. Cardinality(PlacesOf(<<>>, 0, m)) = 0 /\ Cardinality(PlacesOf(q, 0, m)) = 0
    BY PlacesFinite
  <2> QED BY <1>1, <2>1, <2>2, <2>3
<1>5. ASSUME NEW k \in Nat, k + 1 <= n, Good(k) PROVE Good(k + 1)
  <2>1. k + 1 \in 1 .. Len(q) /\ (k + 1) - 1 = k
    BY <1>2, <1>5
  <2>2. PICK x \in M : x = q[k + 1]
    BY <2>1
  <2>3. PICK p : p = g[k]
    OBVIOUS
  <2>4. g[k + 1] = IF x \in S THEN Append(p, x) ELSE p
    BY <1>1, <2>1, <2>2, <2>3
  <2>5. p \in Seq(M) /\ Occurrences(p, w, c) = IF m \in S THEN Cardinality(PlacesOf(q, k, m)) ELSE 0
    BY <1>5, <2>3
  <2>6. /\ Cardinality(PlacesOf(q, k, m)) \in Nat
        /\ Cardinality(PlacesOf(q, k + 1, m))
             = Cardinality(PlacesOf(q, k, m)) + IF x = m THEN 1 ELSE 0
    BY <1>a, <2>2
  <2>7. CASE x \in S
    <3>1. Append(p, x) \in Seq(M)
      BY <2>5
    <3>2. Occurrences(Append(p, x), w, c) = Occurrences(p, w, c) + IF x = m THEN 1 ELSE 0
      BY <1>3, <2>5, OccurrencesAppend
    <3> QED BY <2>4, <2>5, <2>6, <2>7, <3>1, <3>2
  <2>8. CASE x \notin S
    BY <2>4, <2>5, <2>6, <2>8
  <2> QED BY <2>7, <2>8
<1> HIDE DEF Good
<1>6. Bad = {}
  <2> SUFFICES ASSUME Bad # {} PROVE FALSE
    OBVIOUS
  <2>1. PICK k \in Bad : \A y \in Bad : k <= y
    BY LeastElement
  <2>2. k \in Nat /\ k <= n /\ ~Good(k)
    BY <2>1
  <2>3. k # 0
    BY <1>4, <2>2
  <2>4. k - 1 \in Nat /\ (k - 1) + 1 = k /\ k - 1 \notin Bad
    BY <2>1, <2>2, <2>3
  <2>5. Good(k - 1)
    BY <2>2, <2>4
  <2> QED BY <1>5, <2>2, <2>4, <2>5
<1>7. Good(n)
  BY <1>2, <1>6
<1>8. Occurrences(q, w, c) = Cardinality(PlacesOf(q, n, m))
  BY <1>2, <1>3, OccurrencesCount
<1> QED BY <1>1, <1>2, <1>3, <1>7, <1>8 DEF Good

-----------------------------------------------------------------------------

\* The messages of w and c in the shared queues sq, and all that wait.
Shared(sq, w, c) == SumFunction([t \in WindowTasks |-> Occurrences(sq[t], w, c)])
InPortsOrHeld(oq, sq, h, w, c) == Occurrences(oq[w], w, c) + Shared(sq, w, c) + h[w][c]

OwnQueues == [Windows -> Seq(MsgType)]
SharedQueues == [WindowTasks -> Seq(MsgType)]
Counts == [Windows -> [Classes -> Nat]]

\* The parts of a sum of messages that wait, and that it is one of numbers.
LEMMA WaitsParts ==
  ASSUME NEW oq \in OwnQueues, NEW sq \in SharedQueues, NEW h \in Counts,
         NEW w \in Windows, NEW c \in Classes
  PROVE  /\ Occurrences(oq[w], w, c) \in Nat /\ Shared(sq, w, c) \in Nat /\ h[w][c] \in Nat
         /\ \A t \in WindowTasks : /\ Occurrences(sq[t], w, c) \in Nat
                                   /\ Occurrences(sq[t], w, c) <= Shared(sq, w, c)
         /\ InPortsOrHeld(oq, sq, h, w, c) \in Nat
         /\ InPortsOrHeld(oq, sq, h, w, c) = Occurrences(oq[w], w, c) + Shared(sq, w, c) + h[w][c]
<1>1. Occurrences(oq[w], w, c) \in Nat
  <2>1. oq[w] \in Seq(MsgType)
    BY DEF OwnQueues
  <2> QED BY <2>1, OccurrencesCount
<1>2. ASSUME NEW t \in WindowTasks PROVE Occurrences(sq[t], w, c) \in Nat
  <2>1. sq[t] \in Seq(MsgType)
    BY DEF SharedQueues
  <2> QED BY <2>1, OccurrencesCount
<1>3. PICK f : f = [t \in WindowTasks |-> Occurrences(sq[t], w, c)]
  OBVIOUS
<1>4. f \in [WindowTasks -> Nat] /\ \A t \in WindowTasks : f[t] = Occurrences(sq[t], w, c)
  BY <1>2, <1>3
<1>5. Shared(sq, w, c) = SumFunction(f)
  BY <1>3 DEF Shared
<1>6. SumFunction(f) \in Nat /\ \A t \in WindowTasks : f[t] <= SumFunction(f)
  BY <1>4, WindowsAssumption, SumBounds
<1>7. h[w][c] \in Nat
  BY DEF Counts
<1>8. InPortsOrHeld(oq, sq, h, w, c) = Occurrences(oq[w], w, c) + Shared(sq, w, c) + h[w][c]
  BY DEF InPortsOrHeld
<1> QED BY <1>1, <1>2, <1>4, <1>5, <1>6, <1>7, <1>8

\* One shared queue changes.
LEMMA SharedDiffer ==
  ASSUME NEW sq \in SharedQueues, NEW s2 \in SharedQueues, NEW t \in WindowTasks,
         \A u \in WindowTasks \ {t} : s2[u] = sq[u], NEW w, NEW c
  PROVE  /\ Shared(sq, w, c) \in Nat /\ Shared(s2, w, c) \in Nat
         /\ Occurrences(sq[t], w, c) \in Nat /\ Occurrences(s2[t], w, c) \in Nat
         /\ Shared(s2, w, c) + Occurrences(sq[t], w, c)
              = Shared(sq, w, c) + Occurrences(s2[t], w, c)
<1>1. ASSUME NEW u \in WindowTasks
      PROVE  Occurrences(sq[u], w, c) \in Nat /\ Occurrences(s2[u], w, c) \in Nat
  <2>1. sq[u] \in Seq(MsgType) /\ s2[u] \in Seq(MsgType)
    BY DEF SharedQueues
  <2> QED BY <2>1, OccurrencesCount
<1>2. PICK f : f = [u \in WindowTasks |-> Occurrences(sq[u], w, c)]
  OBVIOUS
<1>3. PICK g : g = [u \in WindowTasks |-> Occurrences(s2[u], w, c)]
  OBVIOUS
<1>4. /\ f \in [WindowTasks -> Nat] /\ g \in [WindowTasks -> Nat]
      /\ f[t] = Occurrences(sq[t], w, c) /\ g[t] = Occurrences(s2[t], w, c)
      /\ \A u \in WindowTasks \ {t} : f[u] = g[u]
  BY <1>1, <1>2, <1>3
<1>5. Shared(sq, w, c) = SumFunction(f) /\ Shared(s2, w, c) = SumFunction(g)
  BY <1>2, <1>3 DEF Shared
<1>6. /\ SumFunction(f) \in Nat /\ SumFunction(g) \in Nat
      /\ SumFunction(g) + f[t] = SumFunction(f) + g[t]
  BY <1>4, WindowsAssumption, SumsDiffer
<1> QED BY <1>1, <1>4, <1>5, <1>6

\* A window that no shared queue has a message of.
LEMMA SharedNone ==
  ASSUME NEW sq \in SharedQueues, NEW w, NEW c,
         \A t \in WindowTasks : \A i \in 1 .. Len(sq[t]) : sq[t][i].window # w
  PROVE  Shared(sq, w, c) = 0
<1>1. ASSUME NEW t \in WindowTasks PROVE Occurrences(sq[t], w, c) = 0
  <2>1. sq[t] \in Seq(MsgType)
    BY DEF SharedQueues
  <2>2. ~\E i \in 1 .. Len(sq[t]) : sq[t][i] = Of(w, c)
    BY DEF Of
  <2>3. /\ Occurrences(sq[t], w, c) \in Nat
        /\ Occurrences(sq[t], w, c) > 0 <=> \E i \in 1 .. Len(sq[t]) : sq[t][i] = Of(w, c)
    BY <2>1, OccurrencesCount
  <2> QED BY <2>2, <2>3
<1>2. PICK f : f = [t \in WindowTasks |-> Occurrences(sq[t], w, c)]
  OBVIOUS
<1>3. DOMAIN f = WindowTasks /\ \A t \in WindowTasks : f[t] = 0
  BY <1>1, <1>2
<1>4. SumFunction(f) = 0
  BY <1>3, WindowsAssumption, SumOfZeros
<1> QED BY <1>2, <1>4 DEF Shared

\* The programs that a condition holds of, before and after one of them does a step.
LEMMA OneMoves ==
  ASSUME NEW A \in SUBSET WindowTasks, NEW B \in SUBSET WindowTasks, NEW t \in WindowTasks,
         \A u \in WindowTasks \ {t} : u \in A <=> u \in B
  PROVE  /\ Cardinality(A) \in Nat /\ Cardinality(B) \in Nat /\ Cardinality(WindowTasks) \in Nat
         /\ t \in A /\ t \notin B => Cardinality(B) = Cardinality(A) - 1
         /\ t \notin A /\ t \in B => Cardinality(B) = Cardinality(A) + 1
         /\ (t \in A <=> t \in B) => Cardinality(B) = Cardinality(A)
         /\ Cardinality(B) <= Cardinality(WindowTasks)
         /\ t \notin A => Cardinality(A) < Cardinality(WindowTasks)
<1>1. /\ IsFiniteSet(A) /\ IsFiniteSet(B) /\ Cardinality(B) <= Cardinality(WindowTasks)
      /\ IsFiniteSet(A \cup {t}) /\ Cardinality(A \cup {t}) <= Cardinality(WindowTasks)
  <2>1. A \cup {t} \in SUBSET WindowTasks
    OBVIOUS
  <2> QED BY <2>1, WindowsAssumption, FS_Subset
<1>2. Cardinality(A) \in Nat /\ Cardinality(B) \in Nat /\ Cardinality(WindowTasks) \in Nat
  BY <1>1, WindowsAssumption, FS_CardinalityType
<1>3. t \in A /\ t \notin B => Cardinality(B) = Cardinality(A) - 1
  <2> SUFFICES ASSUME t \in A, t \notin B PROVE Cardinality(B) = Cardinality(A) - 1
    OBVIOUS
  <2>1. B = A \ {t}
    OBVIOUS
  <2> QED BY <1>1, <2>1, FS_RemoveElement
<1>4. t \notin A => Cardinality(A \cup {t}) = Cardinality(A) + 1
  BY <1>1, FS_AddElement
<1>5. t \notin A /\ t \in B => Cardinality(B) = Cardinality(A) + 1
  <2> SUFFICES ASSUME t \notin A, t \in B PROVE Cardinality(B) = Cardinality(A) + 1
    OBVIOUS
  <2>1. B = A \cup {t}
    OBVIOUS
  <2> QED BY <1>4, <2>1
<1>6. (t \in A <=> t \in B) => A = B
  OBVIOUS
<1> QED BY <1>1, <1>2, <1>3, <1>4, <1>5, <1>6

-----------------------------------------------------------------------------

\* What exists of each class, in terms of the queues.
LEMMA CountsNow ==
  ASSUME IdcmpTypes, NEW w \in Windows, NEW c \in Classes
  PROVE  /\ Unanswered(w, c) = InPortsOrHeld(ownQueue, sharedQueue, held, w, c)
         /\ Outstanding(w, c) = Unanswered(w, c) + replied[w][c]
         /\ Unanswered(w, c) \in Nat /\ replied[w][c] \in Nat /\ Outstanding(w, c) \in Nat
<1>1. Unanswered(w, c) = InPortsOrHeld(ownQueue, sharedQueue, held, w, c)
  BY DEF Unanswered, InSharedQueues, InPortsOrHeld, Shared
<1>2. InPortsOrHeld(ownQueue, sharedQueue, held, w, c) \in Nat
  BY WaitsParts DEF IdcmpTypes, OwnQueues, SharedQueues, Counts
<1>3. replied[w][c] \in Nat
  BY DEF IdcmpTypes
<1>4. Outstanding(w, c) = Unanswered(w, c) + replied[w][c]
  BY DEF Outstanding
<1> QED BY <1>1, <1>2, <1>3, <1>4

\* The same after a step.
LEMMA CountsThen ==
  ASSUME IdcmpTypes', NEW w \in Windows, NEW c \in Classes
  PROVE  /\ Unanswered(w, c)' = InPortsOrHeld(ownQueue', sharedQueue', held', w, c)
         /\ Outstanding(w, c)' = Unanswered(w, c)' + replied'[w][c]
         /\ Unanswered(w, c)' \in Nat /\ replied'[w][c] \in Nat /\ Outstanding(w, c)' \in Nat
<1>1. Unanswered(w, c)' = InPortsOrHeld(ownQueue', sharedQueue', held', w, c)
  BY DEF Unanswered, InSharedQueues, InPortsOrHeld, Shared
<1>2. InPortsOrHeld(ownQueue', sharedQueue', held', w, c) \in Nat
  BY WaitsParts DEF IdcmpTypes, OwnQueues, SharedQueues, Counts
<1>3. replied'[w][c] \in Nat
  BY DEF IdcmpTypes
<1>4. Outstanding(w, c)' = Unanswered(w, c)' + replied'[w][c]
  BY DEF Outstanding
<1> QED BY <1>1, <1>2, <1>3, <1>4

\* A window that a step leaves alone.
Untouched(v) ==
    /\ userPort'[v] = userPort[v] /\ windowPort'[v] = windowPort[v] /\ ports'[v] = ports[v]
    /\ ownQueue'[v] = ownQueue[v] /\ held'[v] = held[v] /\ replied'[v] = replied[v]
    /\ pending'[v] = pending[v]
    /\ v \in linked' <=> v \in linked
    /\ \A t \in WindowTasks : v \in owns'[t] <=> v \in owns[t]
    /\ \A c \in Classes : Unanswered(v, c)' = Unanswered(v, c)
    /\ \A t \in WindowTasks : \/ doing'[t] = doing[t]
                              \/ v \notin doing[t].window /\ v \notin doing'[t].window

WindowRight(v) ==
    /\ \A t \in WindowTasks : WorkRight(t, v)
    /\ PortsRight(v) /\ QueueRight(v) /\ MovesRight(v)

\* A window that a step does not touch stays right.
LEMMA UntouchedKept ==
  ASSUME NEW v \in Windows, Untouched(v), WindowRight(v)
  PROVE  WindowRight(v)'
<1>1. \A t \in WindowTasks : Works(t, v, {"count"})' <=> Works(t, v, {"count"})
  BY DEF Untouched, Works
<1>2. \A t \in WindowTasks : /\ Works(t, v, Posting)' <=> Works(t, v, Posting)
                             /\ Works(t, v, Posting) => doing'[t] = doing[t]
  BY DEF Untouched, Works
<1>3. \A t \in WindowTasks : WorkRight(t, v)'
  <2> SUFFICES ASSUME NEW t \in WindowTasks PROVE WorkRight(t, v)'
    OBVIOUS
  <2>1. WorkRight(t, v)
    BY DEF WindowRight
  <2> QED BY <2>1 DEF WorkRight, Untouched, Works
<1>4. /\ Removes(v, {"flushreply"})' <=> Removes(v, {"flushreply"})
      /\ Removes(v, {"flushuser"})' <=> Removes(v, {"flushuser"})
      /\ Removes(v, {"flushreply", "flushuser"})' <=> Removes(v, {"flushreply", "flushuser"})
      /\ Removes(v, {"detach", "flushreply", "flushuser"})'
           <=> Removes(v, {"detach", "flushreply", "flushuser"})
  BY DEF Untouched, Works, Removes
<1>5. PortsRight(v)'
  BY <1>4 DEF PortsRight, WindowRight, Untouched
<1>6. QueueRight(v)'
  BY <1>4 DEF QueueRight, WindowRight, Untouched, Count
<1>7. \A c \in Classes : Outstanding(v, c)' = Outstanding(v, c)
  BY DEF Untouched, Outstanding
<1>8. Posts(v, {"count"})' = Posts(v, {"count"})
  <2>1. { t \in WindowTasks : Works(t, v, {"count"}) }'
          = { t \in WindowTasks : Works(t, v, {"count"}) }
    BY <1>1
  <2> QED BY <2>1 DEF Posts
<1>9. Movers(v)' = Movers(v)
  <2>1. { t \in WindowTasks : Works(t, v, Posting) /\ doing[t].class = "move" }'
          = { t \in WindowTasks : Works(t, v, Posting) /\ doing[t].class = "move" }
    BY <1>2
  <2> QED BY <2>1 DEF Movers
<1>10. MovesRight(v)'
  <2>1. Outstanding(v, "move")' = Outstanding(v, "move") /\ pending'[v] = pending[v]
    BY <1>7 DEF Classes, Untouched
  <2>2. MovesRight(v)
    BY DEF WindowRight
  <2> QED BY <1>4, <1>8, <1>9, <2>1, <2>2 DEF MovesRight
<1> QED BY <1>3, <1>5, <1>6, <1>10 DEF WindowRight

\* Memory is conserved when it is at the window of the step and the one program.
LEMMA ConservedKept ==
  ASSUME IdcmpTypes, IdcmpTypes', Conserved, NEW w \in Windows, NEW t \in WindowTasks,
         \A u \in WindowTasks \ {t} : doing'[u] = doing[u],
         \A v \in Windows \ {w} : \A c \in Classes : Outstanding(v, c)' = Outstanding(v, c),
         messageMem' + Outstanding(w, "move")' + Outstanding(w, "other")'
             + (IF IsAt(t, "put")' THEN 1 ELSE 0)
           = messageMem + Outstanding(w, "move") + Outstanding(w, "other")
             + (IF IsAt(t, "put") THEN 1 ELSE 0)
  PROVE  Conserved' /\ messageMem' <= MaxMessages
<1>1. "move" \in Classes /\ "other" \in Classes
  BY DEF Classes
<1>2. PICK f : f = Existing
  OBVIOUS
<1>3. PICK g : g = Existing'
  OBVIOUS
<1>4. /\ f \in [Windows -> Nat] /\ g \in [Windows -> Nat]
      /\ f[w] = Outstanding(w, "move") + Outstanding(w, "other")
      /\ g[w] = Outstanding(w, "move")' + Outstanding(w, "other")'
      /\ \A v \in Windows \ {w} : f[v] = g[v]
  <2>1. \A v \in Windows : /\ Outstanding(v, "move") \in Nat /\ Outstanding(v, "other") \in Nat
                           /\ Outstanding(v, "move")' \in Nat /\ Outstanding(v, "other")' \in Nat
    BY <1>1, CountsNow, CountsThen
  <2>2. \A v \in Windows \ {w} : /\ Outstanding(v, "move")' = Outstanding(v, "move")
                                 /\ Outstanding(v, "other")' = Outstanding(v, "other")
    BY <1>1
  <2> QED BY <1>2, <1>3, <2>1, <2>2 DEF Existing
<1>5. /\ SumFunction(f) \in Nat /\ SumFunction(g) \in Nat
      /\ SumFunction(g) + f[w] = SumFunction(f) + g[w]
  BY <1>4, WindowsAssumption, SumsDiffer
<1>6. PICK A : A = Putters
  OBVIOUS
<1>7. PICK B : B = Putters'
  OBVIOUS
<1>8. /\ A \in SUBSET WindowTasks /\ B \in SUBSET WindowTasks
      /\ t \in A <=> IsAt(t, "put")
      /\ t \in B <=> IsAt(t, "put")'
      /\ \A u \in WindowTasks \ {t} : u \in A <=> u \in B
  BY <1>6, <1>7 DEF Putters, IsAt
<1>9. /\ Cardinality(A) \in Nat /\ Cardinality(B) \in Nat
      /\ Cardinality(B) + (IF IsAt(t, "put") THEN 1 ELSE 0)
           = Cardinality(A) + (IF IsAt(t, "put")' THEN 1 ELSE 0)
  BY <1>8, OneMoves
<1>10. messageMem + Cardinality(A) + SumFunction(f) = MaxMessages
  BY <1>2, <1>6 DEF Conserved
<1>11. /\ f[w] \in Nat /\ g[w] \in Nat /\ messageMem \in Nat /\ messageMem' \in Nat
       /\ messageMem' + g[w] + (IF IsAt(t, "put")' THEN 1 ELSE 0)
            = messageMem + f[w] + (IF IsAt(t, "put") THEN 1 ELSE 0)
  <2>1. messageMem \in Nat /\ messageMem' \in Nat
    BY DEF IdcmpTypes
  <2>2. /\ Outstanding(w, "move") \in Nat /\ Outstanding(w, "other") \in Nat
        /\ Outstanding(w, "move")' \in Nat /\ Outstanding(w, "other")' \in Nat
    BY <1>1, CountsNow, CountsThen
  <2> QED BY <1>4, <2>1, <2>2
<1>12. messageMem' + Cardinality(B) + SumFunction(g) = MaxMessages
  BY <1>5, <1>9, <1>10, <1>11
<1>13. Conserved'
  BY <1>3, <1>7, <1>12 DEF Conserved
<1>14. messageMem' <= MaxMessages
  BY <1>5, <1>9, <1>11, <1>12, MessagesAssumption
<1> QED BY <1>13, <1>14

-----------------------------------------------------------------------------
(* What the steps do to the counts.                                        *)

\* The types by the names that the lemmas on counts use.
LEMMA QueueTypes ==
  /\ IdcmpTypes => /\ ownQueue \in OwnQueues /\ sharedQueue \in SharedQueues
                   /\ held \in Counts /\ replied \in Counts
  /\ IdcmpTypes' => /\ ownQueue' \in OwnQueues /\ sharedQueue' \in SharedQueues
                    /\ held' \in Counts /\ replied' \in Counts
BY DEF IdcmpTypes, OwnQueues, SharedQueues, Counts

\* All counts of a window and class, before and after a step.
LEMMA CountsBoth ==
  ASSUME IdcmpTypes, IdcmpTypes', NEW v \in Windows, NEW k \in Classes
  PROVE  /\ Unanswered(v, k) = Occurrences(ownQueue[v], v, k) + Shared(sharedQueue, v, k)
                                 + held[v][k]
         /\ Unanswered(v, k)' = Occurrences(ownQueue'[v], v, k) + Shared(sharedQueue', v, k)
                                 + held'[v][k]
         /\ Occurrences(ownQueue[v], v, k) \in Nat /\ Occurrences(ownQueue'[v], v, k) \in Nat
         /\ Shared(sharedQueue, v, k) \in Nat /\ Shared(sharedQueue', v, k) \in Nat
         /\ held[v][k] \in Nat /\ held'[v][k] \in Nat
<1>1. /\ Unanswered(v, k) = Occurrences(ownQueue[v], v, k) + Shared(sharedQueue, v, k)
                              + held[v][k]
      /\ Occurrences(ownQueue[v], v, k) \in Nat /\ Shared(sharedQueue, v, k) \in Nat
      /\ held[v][k] \in Nat
  BY QueueTypes, WaitsParts, CountsNow
<1>2. /\ Unanswered(v, k)' = Occurrences(ownQueue'[v], v, k) + Shared(sharedQueue', v, k)
                              + held'[v][k]
      /\ Occurrences(ownQueue'[v], v, k) \in Nat /\ Shared(sharedQueue', v, k) \in Nat
      /\ held'[v][k] \in Nat
  BY QueueTypes, WaitsParts, CountsThen
<1> QED BY <1>1, <1>2

\* One shared queue changes in a step.
LEMMA SharedBoth ==
  ASSUME IdcmpTypes, IdcmpTypes', NEW t \in WindowTasks,
         \A u \in WindowTasks \ {t} : sharedQueue'[u] = sharedQueue[u], NEW v, NEW k
  PROVE  /\ Occurrences(sharedQueue[t], v, k) \in Nat
         /\ Occurrences(sharedQueue'[t], v, k) \in Nat
         /\ Shared(sharedQueue', v, k) + Occurrences(sharedQueue[t], v, k)
              = Shared(sharedQueue, v, k) + Occurrences(sharedQueue'[t], v, k)
BY QueueTypes, SharedDiffer

\* Nothing moves.
LEMMA NothingMoves ==
  ASSUME ownQueue' = ownQueue, sharedQueue' = sharedQueue, held' = held, NEW v, NEW c
  PROVE  Unanswered(v, c)' = Unanswered(v, c)
BY DEF Unanswered, InSharedQueues

\* PutMsg() of _post_idcmp_message().
LEMMA PutCounts ==
  ASSUME IdcmpTypes, IdcmpTypes', OwnersRight, NEW w \in Windows, w \in linked,
         userPort[w] # "none", NEW c \in Classes, Put(w, c), held' = held
  PROVE  /\ \A v \in Windows, k \in Classes :
               Unanswered(v, k)' = Unanswered(v, k) + IF v = w /\ k = c THEN 1 ELSE 0
         /\ \/ /\ userPort[w] = "own" /\ sharedQueue' = sharedQueue
               /\ ownQueue' = [ownQueue EXCEPT ![w] = Append(@, Of(w, c))]
            \/ /\ userPort[w] = "shared" /\ ownQueue' = ownQueue
               /\ \E t \in WindowTasks :
                     /\ w \in owns[t]
                     /\ sharedQueue' = [sharedQueue EXCEPT ![t] = Append(@, Of(w, c))]
<1>1. PICK m \in MsgType : m = Of(w, c)
  BY DEF MsgType, Of
<1>2. /\ ownQueue \in OwnQueues /\ sharedQueue \in SharedQueues /\ held \in Counts
      /\ ownQueue' \in OwnQueues /\ sharedQueue' \in SharedQueues
  BY QueueTypes
<1>3. userPort[w] = "own" \/ userPort[w] = "shared"
  BY DEF IdcmpTypes
<1>4. ASSUME NEW v \in Windows, NEW k \in Classes
      PROVE  /\ Unanswered(v, k) = Occurrences(ownQueue[v], v, k) + Shared(sharedQueue, v, k)
                                     + held[v][k]
             /\ Unanswered(v, k)' = Occurrences(ownQueue'[v], v, k) + Shared(sharedQueue', v, k)
                                     + held[v][k]
             /\ Occurrences(ownQueue[v], v, k) \in Nat /\ Shared(sharedQueue, v, k) \in Nat
             /\ held[v][k] \in Nat
             /\ m = Of(v, k) <=> v = w /\ k = c
  <2>1. m = Of(v, k) <=> v = w /\ k = c
    BY <1>1 DEF Of
  <2>2. held'[v][k] = held[v][k]
    OBVIOUS
  <2> QED BY <2>1, <2>2, CountsBoth
<1>5. CASE userPort[w] = "own"
  <2>1. ownQueue' = [ownQueue EXCEPT ![w] = Append(@, m)] /\ sharedQueue' = sharedQueue
    BY <1>1, <1>5 DEF Put, Of
  <2>2. ASSUME NEW v \in Windows, NEW k \in Classes
        PROVE  Unanswered(v, k)' = Unanswered(v, k) + IF v = w /\ k = c THEN 1 ELSE 0
    <3>1. CASE v = w
      <4>1. ownQueue'[v] = Append(ownQueue[v], m) /\ ownQueue[v] \in Seq(MsgType)
        BY <1>2, <2>1, <3>1 DEF OwnQueues
      <4>2. Occurrences(ownQueue'[v], v, k)
              = Occurrences(ownQueue[v], v, k) + IF m = Of(v, k) THEN 1 ELSE 0
        BY <4>1, OccurrencesAppend
      <4>3. Shared(sharedQueue', v, k) = Shared(sharedQueue, v, k)
        BY <2>1
      <4>4. m = Of(v, k) <=> v = w /\ k = c
        BY <1>4
      <4>5. Unanswered(v, k)' = Occurrences(ownQueue[v], v, k) + Shared(sharedQueue, v, k)
                                 + held[v][k] + IF v = w /\ k = c THEN 1 ELSE 0
        BY <1>4, <4>2, <4>3, <4>4
      <4> QED BY <1>4, <4>5
    <3>2. CASE v # w
      <4>1. ownQueue'[v] = ownQueue[v]
        BY <1>2, <2>1, <3>2 DEF OwnQueues
      <4> QED BY <1>4, <2>1, <3>2, <4>1
    <3> QED BY <3>1, <3>2
  <2> QED BY <1>1, <1>5, <2>1, <2>2
<1>6. CASE userPort[w] = "shared"
  <2>1. PICK t \in WindowTasks : w \in owns[t]
    BY DEF OwnersRight
  <2>2. \A u \in WindowTasks : w \in owns[u] <=> u = t
    BY <2>1 DEF OwnersRight
  <2>3. /\ sharedQueue' = [u \in WindowTasks |-> IF w \in owns[u]
                               THEN Append(sharedQueue[u], m) ELSE sharedQueue[u]]
        /\ ownQueue' = ownQueue
    BY <1>1, <1>6 DEF Put, Of
  <2>4. sharedQueue' = [sharedQueue EXCEPT ![t] = Append(@, m)]
    BY <1>2, <2>2, <2>3 DEF SharedQueues
  <2>5. /\ sharedQueue'[t] = Append(sharedQueue[t], m) /\ sharedQueue[t] \in Seq(MsgType)
        /\ \A u \in WindowTasks \ {t} : sharedQueue'[u] = sharedQueue[u]
    BY <1>2, <2>4 DEF SharedQueues
  <2>6. ASSUME NEW v \in Windows, NEW k \in Classes
        PROVE  Unanswered(v, k)' = Unanswered(v, k) + IF v = w /\ k = c THEN 1 ELSE 0
    <3>1. Occurrences(sharedQueue'[t], v, k)
            = Occurrences(sharedQueue[t], v, k) + IF m = Of(v, k) THEN 1 ELSE 0
      <4>1. PICK q \in Seq(MsgType) : q = sharedQueue[t]
        BY <2>5
      <4>2. Occurrences(Append(q, m), v, k)
              = Occurrences(q, v, k) + IF m = Of(v, k) THEN 1 ELSE 0
        BY OccurrencesAppend
      <4> QED BY <2>5, <4>1, <4>2
    <3>2. /\ Shared(sharedQueue', v, k) + Occurrences(sharedQueue[t], v, k)
               = Shared(sharedQueue, v, k) + Occurrences(sharedQueue'[t], v, k)
          /\ Occurrences(sharedQueue[t], v, k) \in Nat /\ Shared(sharedQueue', v, k) \in Nat
      BY <2>5, SharedBoth, CountsBoth
    <3>3. m = Of(v, k) <=> v = w /\ k = c
      BY <1>4
    <3>4. Shared(sharedQueue', v, k)
            = Shared(sharedQueue, v, k) + IF v = w /\ k = c THEN 1 ELSE 0
      <4>1. Shared(sharedQueue, v, k) \in Nat
        BY <1>4
      <4> QED BY <3>1, <3>2, <3>3, <4>1
    <3>5. Occurrences(ownQueue'[v], v, k) = Occurrences(ownQueue[v], v, k)
      BY <2>3
    <3> QED BY <1>4, <3>4, <3>5
  <2> QED BY <1>1, <1>6, <2>1, <2>3, <2>4, <2>6
<1> QED BY <1>3, <1>5, <1>6

\* GetMsg() from a port of its own: the message is one of its window.
LEMMA TakeOwnCounts ==
  ASSUME IdcmpTypes, IdcmpTypes', NEW w \in Windows, QueueRight(w), ownQueue[w] # <<>>,
         Take(Head(ownQueue[w])), ownQueue' = [ownQueue EXCEPT ![w] = Tail(@)],
         sharedQueue' = sharedQueue
  PROVE  /\ \A v \in Windows, k \in Classes : Unanswered(v, k)' = Unanswered(v, k)
         /\ \A v \in Windows \ {w} : held'[v] = held[v]
<1>1. PICK q \in Seq({ Of(w, c) : c \in Classes }) : q = ownQueue[w]
  BY DEF QueueRight
<1>2. PICK m : m = Head(q)
  OBVIOUS
<1>3. PICK c \in Classes : m = Of(w, c)
  BY <1>1, <1>2
<1>4. /\ ownQueue \in OwnQueues /\ sharedQueue \in SharedQueues /\ held \in Counts
      /\ ownQueue' \in OwnQueues /\ held' \in Counts
  BY QueueTypes
<1>5. held' = [held EXCEPT ![w][c] = @ + 1]
  <2>1. m.window = w /\ m.class = c
    BY <1>3 DEF Of
  <2> QED BY <1>1, <1>2, <2>1 DEF Take
<1>6. ASSUME NEW v \in Windows, NEW k \in Classes
      PROVE  /\ held'[v][k] = held[v][k] + IF v = w /\ k = c THEN 1 ELSE 0
             /\ v # w => held'[v] = held[v]
             /\ held[v][k] \in Nat
  BY <1>4, <1>5 DEF Counts
<1>7. ownQueue'[w] = Tail(q) /\ \A v \in Windows \ {w} : ownQueue'[v] = ownQueue[v]
  BY <1>1, <1>4 DEF OwnQueues
<1>8. ASSUME NEW v \in Windows, NEW k \in Classes PROVE Unanswered(v, k)' = Unanswered(v, k)
  <2>0. Shared(sharedQueue', v, k) = Shared(sharedQueue, v, k)
    OBVIOUS
  <2>1. /\ Unanswered(v, k) = Occurrences(ownQueue[v], v, k) + Shared(sharedQueue, v, k)
                              + held[v][k]
        /\ Unanswered(v, k)' = Occurrences(ownQueue'[v], v, k) + Shared(sharedQueue, v, k)
                                + held'[v][k]
        /\ Occurrences(ownQueue[v], v, k) \in Nat /\ Shared(sharedQueue, v, k) \in Nat
        /\ Occurrences(ownQueue'[v], v, k) \in Nat
    BY <2>0, CountsBoth
  <2>2. CASE v = w
    <3>1. Occurrences(q, v, k) = Occurrences(Tail(q), v, k) + IF m = Of(v, k) THEN 1 ELSE 0
      BY <1>1, <1>2, OccurrencesTail
    <3>2. m = Of(v, k) <=> k = c
      BY <1>3, <2>2 DEF Of
    <3>3. ownQueue'[v] = Tail(q) /\ ownQueue[v] = q
      BY <1>1, <1>7, <2>2
    <3>4. held'[v][k] = held[v][k] + IF k = c THEN 1 ELSE 0
      BY <1>6, <2>2
    <3>5. Occurrences(ownQueue[v], v, k)
            = Occurrences(ownQueue'[v], v, k) + IF k = c THEN 1 ELSE 0
      BY <3>1, <3>2, <3>3
    <3>6. held[v][k] \in Nat
      BY <1>6
    <3> QED BY <2>1, <3>4, <3>5, <3>6
  <2>3. CASE v # w
    BY <1>6, <1>7, <2>1, <2>3
  <2> QED BY <2>2, <2>3
<1> QED BY <1>6, <1>8

\* GetMsg() from the shared port of a program.
LEMMA TakeSharedCounts ==
  ASSUME IdcmpTypes, IdcmpTypes', NEW t \in WindowTasks, sharedQueue[t] # <<>>,
         Take(Head(sharedQueue[t])), sharedQueue' = [sharedQueue EXCEPT ![t] = Tail(@)],
         ownQueue' = ownQueue
  PROVE  /\ \A v \in Windows, k \in Classes : Unanswered(v, k)' = Unanswered(v, k)
         /\ \A v \in Windows : v # Head(sharedQueue[t]).window => held'[v] = held[v]
<1>1. PICK q \in Seq(MsgType) : q = sharedQueue[t]
  BY DEF IdcmpTypes
<1>2. PICK m \in MsgType : m = Head(q)
  BY <1>1
<1>3. PICK w \in Windows : w = m.window
  BY DEF MsgType
<1>4. PICK c \in Classes : c = m.class
  BY DEF MsgType
<1>5. /\ ownQueue \in OwnQueues /\ sharedQueue \in SharedQueues /\ held \in Counts
      /\ sharedQueue' \in SharedQueues /\ held' \in Counts
  BY QueueTypes
<1>6. held' = [held EXCEPT ![w][c] = @ + 1]
  BY <1>1, <1>2, <1>3, <1>4 DEF Take
<1>7. ASSUME NEW v \in Windows, NEW k \in Classes
      PROVE  /\ held'[v][k] = held[v][k] + IF v = w /\ k = c THEN 1 ELSE 0
             /\ v # w => held'[v] = held[v]
             /\ held[v][k] \in Nat
  BY <1>5, <1>6 DEF Counts
<1>8. sharedQueue'[t] = Tail(q) /\ \A u \in WindowTasks \ {t} : sharedQueue'[u] = sharedQueue[u]
  BY <1>1, <1>5 DEF SharedQueues
<1>9. ASSUME NEW v \in Windows, NEW k \in Classes PROVE Unanswered(v, k)' = Unanswered(v, k)
  <2>0. Occurrences(ownQueue'[v], v, k) = Occurrences(ownQueue[v], v, k)
    OBVIOUS
  <2>1. /\ Unanswered(v, k) = Occurrences(ownQueue[v], v, k) + Shared(sharedQueue, v, k)
                              + held[v][k]
        /\ Unanswered(v, k)' = Occurrences(ownQueue[v], v, k) + Shared(sharedQueue', v, k)
                                + held'[v][k]
        /\ Occurrences(ownQueue[v], v, k) \in Nat /\ Shared(sharedQueue, v, k) \in Nat
        /\ Shared(sharedQueue', v, k) \in Nat
    BY <2>0, CountsBoth
  <2>2. Occurrences(q, v, k) = Occurrences(Tail(q), v, k) + IF m = Of(v, k) THEN 1 ELSE 0
    BY <1>1, <1>2, OccurrencesTail
  <2>3. m = Of(v, k) <=> v = w /\ k = c
    BY <1>3, <1>4 DEF Of, MsgType
  <2>4. /\ Shared(sharedQueue', v, k) + Occurrences(q, v, k)
             = Shared(sharedQueue, v, k) + Occurrences(Tail(q), v, k)
        /\ Occurrences(q, v, k) \in Nat /\ Occurrences(Tail(q), v, k) \in Nat
    BY <1>1, <1>8, SharedBoth
  <2>5. Shared(sharedQueue, v, k)
          = Shared(sharedQueue', v, k) + IF v = w /\ k = c THEN 1 ELSE 0
    BY <2>1, <2>2, <2>3, <2>4
  <2>6. held'[v][k] = held[v][k] + IF v = w /\ k = c THEN 1 ELSE 0
    BY <1>7
  <2> QED BY <1>7, <2>1, <2>5, <2>6
<1> QED BY <1>1, <1>2, <1>3, <1>7, <1>9

\* ReplyMsg(): a message the program has taken is at the window port.
LEMMA ReplyCounts ==
  ASSUME IdcmpTypes, IdcmpTypes', NEW w \in Windows, NEW c \in Classes,
         held' = [held EXCEPT ![w][c] = @ - 1], replied' = [replied EXCEPT ![w][c] = @ + 1],
         ownQueue' = ownQueue, sharedQueue' = sharedQueue
  PROVE  \A v \in Windows, k \in Classes :
            /\ Unanswered(v, k)' = Unanswered(v, k) - IF v = w /\ k = c THEN 1 ELSE 0
            /\ replied'[v][k] = replied[v][k] + IF v = w /\ k = c THEN 1 ELSE 0
            /\ v # w => held'[v] = held[v] /\ replied'[v] = replied[v]
<1> SUFFICES ASSUME NEW v \in Windows, NEW k \in Classes
             PROVE  /\ Unanswered(v, k)' = Unanswered(v, k) - IF v = w /\ k = c THEN 1 ELSE 0
                    /\ replied'[v][k] = replied[v][k] + IF v = w /\ k = c THEN 1 ELSE 0
                    /\ v # w => held'[v] = held[v] /\ replied'[v] = replied[v]
  OBVIOUS
<1>1. held \in Counts /\ replied \in Counts
  BY QueueTypes
<1>2. /\ held'[v][k] = held[v][k] - IF v = w /\ k = c THEN 1 ELSE 0
      /\ replied'[v][k] = replied[v][k] + IF v = w /\ k = c THEN 1 ELSE 0
      /\ v # w => held'[v] = held[v] /\ replied'[v] = replied[v]
  BY <1>1 DEF Counts
<1>3. /\ Occurrences(ownQueue'[v], v, k) = Occurrences(ownQueue[v], v, k)
      /\ Shared(sharedQueue', v, k) = Shared(sharedQueue, v, k)
  OBVIOUS
<1> QED BY <1>2, <1>3, CountsBoth

\* The flush of a port of its own.
LEMMA FlushCounts ==
  ASSUME IdcmpTypes, IdcmpTypes', NEW w \in Windows,
         ownQueue' = [ownQueue EXCEPT ![w] = <<>>], sharedQueue' = sharedQueue, held' = held
  PROVE  \A v \in Windows, k \in Classes :
            /\ Occurrences(ownQueue[w], w, k) \in Nat
            /\ Unanswered(v, k)'
                 = Unanswered(v, k) - IF v = w THEN Occurrences(ownQueue[w], w, k) ELSE 0
            /\ v # w => ownQueue'[v] = ownQueue[v]
<1> SUFFICES ASSUME NEW v \in Windows, NEW k \in Classes
             PROVE  /\ Occurrences(ownQueue[w], w, k) \in Nat
                    /\ Unanswered(v, k)'
                         = Unanswered(v, k) - IF v = w THEN Occurrences(ownQueue[w], w, k) ELSE 0
                    /\ v # w => ownQueue'[v] = ownQueue[v]
  OBVIOUS
<1>1. ownQueue \in OwnQueues
  BY QueueTypes
<1>2. ownQueue'[w] = <<>> /\ (v # w => ownQueue'[v] = ownQueue[v])
  BY <1>1 DEF OwnQueues
<1>3. Occurrences(<<>>, v, k) = 0
  <2>1. <<>> \in Seq(MsgType) /\ ~\E i \in 1 .. Len(<<>>) : <<>>[i] = Of(v, k)
    OBVIOUS
  <2>2. /\ Occurrences(<<>>, v, k) \in Nat
        /\ Occurrences(<<>>, v, k) > 0 <=> \E i \in 1 .. Len(<<>>) : <<>>[i] = Of(v, k)
    BY <2>1, OccurrencesCount
  <2> QED BY <2>1, <2>2
<1>4. Shared(sharedQueue', v, k) = Shared(sharedQueue, v, k) /\ held'[v][k] = held[v][k]
  OBVIOUS
<1>5. Occurrences(ownQueue[w], w, k) \in Nat
  BY CountsBoth
<1>6. CASE v = w
  <2>1. Occurrences(ownQueue'[v], v, k) = 0
    BY <1>2, <1>3, <1>6
  <2> QED BY <1>4, <1>5, <1>6, <2>1, CountsBoth
<1>7. CASE v # w
  <2>1. Occurrences(ownQueue'[v], v, k) = Occurrences(ownQueue[v], v, k)
    BY <1>2, <1>7
  <2> QED BY <1>2, <1>4, <1>5, <1>7, <2>1, CountsBoth
<1> QED BY <1>6, <1>7

\* The messages of the other windows.
LEMMA OfOthers ==
  ASSUME NEW v \in Windows, NEW k \in Classes, NEW w
  PROVE  Of(v, k) \in { Of(x, c) : x \in Windows \ {w}, c \in Classes } <=> v # w
<1>1. ASSUME NEW x, NEW c, Of(v, k) = Of(x, c) PROVE v = x
  BY <1>1 DEF Of
<1>2. Of(v, k) \in { Of(x, c) : x \in Windows \ {w}, c \in Classes }
        => \E x \in Windows \ {w}, c \in Classes : Of(v, k) = Of(x, c)
  OBVIOUS
<1>3. v # w => Of(v, k) \in { Of(x, c) : x \in Windows \ {w}, c \in Classes }
  OBVIOUS
<1> QED BY <1>1, <1>2, <1>3

\* ClearMsgPort() replies to the messages of one window.
LEMMA ClearCounts ==
  ASSUME IdcmpTypes, IdcmpTypes', NEW t \in WindowTasks, NEW w \in Windows,
         NEW S, \A v \in Windows, k \in Classes : Of(v, k) \in S <=> v # w,
         sharedQueue' = [sharedQueue EXCEPT ![t] = Picked(sharedQueue[t], S)],
         ownQueue' = ownQueue, held' = held
  PROVE  \A v \in Windows, k \in Classes :
            /\ Occurrences(sharedQueue[t], w, k) \in Nat
            /\ Unanswered(v, k)'
                 = Unanswered(v, k) - IF v = w THEN Occurrences(sharedQueue[t], w, k) ELSE 0
            /\ Occurrences(sharedQueue[t], w, k) <= Unanswered(w, k)
<1> SUFFICES ASSUME NEW v \in Windows, NEW k \in Classes
             PROVE  /\ Occurrences(sharedQueue[t], w, k) \in Nat
                    /\ Unanswered(v, k)'
                         = Unanswered(v, k) - IF v = w THEN Occurrences(sharedQueue[t], w, k) ELSE 0
                    /\ Occurrences(sharedQueue[t], w, k) <= Unanswered(w, k)
  OBVIOUS
<1>2. PICK q \in Seq(MsgType) : q = sharedQueue[t]
  BY DEF IdcmpTypes
<1>3. /\ sharedQueue'[t] = Picked(q, S)
      /\ \A u \in WindowTasks \ {t} : sharedQueue'[u] = sharedQueue[u]
  BY <1>2 DEF IdcmpTypes
<1>4. Of(v, k) \in S <=> v # w
  OBVIOUS
<1>5. Occurrences(Picked(q, S), v, k) = IF v # w THEN Occurrences(q, v, k) ELSE 0
  BY <1>4, OccurrencesPicked
<1>6. /\ Shared(sharedQueue', v, k) + Occurrences(q, v, k)
           = Shared(sharedQueue, v, k) + Occurrences(Picked(q, S), v, k)
      /\ Occurrences(q, v, k) \in Nat
  BY <1>2, <1>3, SharedBoth
<1>7. Occurrences(sharedQueue[t], w, k) \in Nat /\ Occurrences(sharedQueue[t], w, k) <= Unanswered(w, k)
  <2>1. /\ Occurrences(sharedQueue[t], w, k) \in Nat
        /\ Occurrences(sharedQueue[t], w, k) <= Shared(sharedQueue, w, k)
    BY QueueTypes, WaitsParts
  <2>2. /\ Unanswered(w, k) = Occurrences(ownQueue[w], w, k) + Shared(sharedQueue, w, k)
                                + held[w][k]
        /\ Occurrences(ownQueue[w], w, k) \in Nat /\ Shared(sharedQueue, w, k) \in Nat
        /\ held[w][k] \in Nat
    BY CountsBoth
  <2> QED BY <2>1, <2>2
<1>8. /\ Occurrences(ownQueue'[v], v, k) = Occurrences(ownQueue[v], v, k)
      /\ held'[v][k] = held[v][k]
  OBVIOUS
<1>9. /\ Unanswered(v, k) = Occurrences(ownQueue[v], v, k) + Shared(sharedQueue, v, k)
                              + held[v][k]
      /\ Unanswered(v, k)' = Occurrences(ownQueue[v], v, k) + Shared(sharedQueue', v, k)
                              + held[v][k]
      /\ Occurrences(ownQueue[v], v, k) \in Nat /\ held[v][k] \in Nat
      /\ Shared(sharedQueue, v, k) \in Nat /\ Shared(sharedQueue', v, k) \in Nat
  BY <1>8, CountsBoth
<1>10. CASE v = w
  <2>1. Occurrences(Picked(q, S), v, k) = 0 /\ Occurrences(sharedQueue[t], w, k) = Occurrences(q, v, k)
    BY <1>2, <1>5, <1>10
  <2> QED BY <1>6, <1>7, <1>9, <1>10, <2>1
<1>11. CASE v # w
  <2>1. Occurrences(Picked(q, S), v, k) = Occurrences(q, v, k)
    BY <1>5, <1>11
  <2> QED BY <1>6, <1>7, <1>9, <1>11, <2>1
<1> QED BY <1>10, <1>11

\* What a program does changes, and what the others do does not.
LEMMA DoingKept ==
  ASSUME IdcmpTypes, NEW t \in WindowTasks, NEW d \in DoingType,
         doing' = [doing EXCEPT ![t] = d]
  PROVE  /\ doing' \in [WindowTasks -> DoingType] /\ doing'[t] = d
         /\ \A u \in WindowTasks \ {t} : doing'[u] = doing[u]
BY DEF IdcmpTypes

\* A program goes on with what it does.
LEMMA GoesOn ==
  ASSUME IdcmpTypes, NEW t \in WindowTasks,
         NEW place \in {"program", "poll"} \cup Posting \cup Removal, GoOn(t, place)
  PROVE  /\ doing' \in [WindowTasks -> DoingType]
         /\ doing'[t] = [doing[t] EXCEPT !.at = place]
         /\ doing'[t].at = place /\ doing'[t].window = doing[t].window
         /\ doing'[t].class = doing[t].class /\ doing'[t].then = doing[t].then
         /\ doing'[t].forbid = doing[t].forbid /\ doing'[t].saved = doing[t].saved
         /\ \A u \in WindowTasks \ {t} : doing'[u] = doing[u]
<1>1. doing[t] \in DoingType
  BY DEF IdcmpTypes
<1>2. PICK d : d = [doing[t] EXCEPT !.at = place]
  OBVIOUS
<1>3. /\ d \in DoingType /\ d.at = place /\ d.window = doing[t].window
      /\ d.class = doing[t].class /\ d.then = doing[t].then
      /\ d.forbid = doing[t].forbid /\ d.saved = doing[t].saved
  BY <1>1, <1>2 DEF DoingType
<1>4. doing' = [doing EXCEPT ![t] = d]
  BY <1>2 DEF GoOn
<1> QED BY <1>2, <1>3, <1>4, DoingKept

-----------------------------------------------------------------------------
(* Every step keeps the types, overtaken or not.                           *)

\* A program that has posted is between two calls again.
LEMMA DoneDoing ==
  ASSUME NEW then \in {"program", "poll"}, NEW d,
         d = [at |-> then, window |-> {}, class |-> "other", then |-> "program", forbid |-> FALSE,
              saved |-> FALSE]
  PROVE  d \in DoingType /\ d.at = then /\ d.window = {} /\ d.class = "other" /\ d.forbid = FALSE
BY DEF DoingType, Classes

\* Collecting the replies counts in natural numbers.
LEMMA ReapTypes ==
  ASSUME IdcmpTypes, NEW w \in Windows
  PROVE  /\ PendingAfterReap(w) \in Nat /\ MemAfterReap(w) \in Nat
         /\ MemAfterReap(w) = messageMem + replied[w]["move"] + replied[w]["other"]
         /\ [replied EXCEPT ![w] = NoMessages] \in Counts
         /\ replied[w]["move"] \in Nat /\ replied[w]["other"] \in Nat
<1>1. "move" \in Classes /\ "other" \in Classes
  BY DEF Classes
<1>2. /\ replied[w]["move"] \in Nat /\ replied[w]["other"] \in Nat /\ pending[w] \in Nat
      /\ messageMem \in Nat
  BY <1>1 DEF IdcmpTypes
<1>3. NoMessages \in [Classes -> Nat] /\ replied \in Counts
  BY QueueTypes DEF NoMessages
<1>4. [replied EXCEPT ![w] = NoMessages] \in Counts
  BY <1>3 DEF Counts
<1> QED BY <1>2, <1>4 DEF PendingAfterReap, MemAfterReap, Less, Count

\* A message is added to a sequence of messages.
LEMMA PutTypes ==
  ASSUME IdcmpTypes, NEW w \in Windows, NEW c \in Classes, Put(w, c)
  PROVE  ownQueue' \in OwnQueues /\ sharedQueue' \in SharedQueues
<1>1. PICK m \in MsgType : m = Of(w, c)
  BY DEF MsgType, Of
<1>2. /\ ownQueue' = IF userPort[w] = "own"
                     THEN [ownQueue EXCEPT ![w] = Append(@, m)] ELSE ownQueue
      /\ sharedQueue' = IF userPort[w] = "shared"
                        THEN [t \in WindowTasks |-> IF w \in owns[t]
                                 THEN Append(sharedQueue[t], m) ELSE sharedQueue[t]]
                        ELSE sharedQueue
  BY <1>1 DEF Put, Of
<1>3. ownQueue \in OwnQueues /\ sharedQueue \in SharedQueues
  BY QueueTypes
<1>4. ownQueue' \in OwnQueues
  BY <1>2, <1>3 DEF OwnQueues
<1>5. sharedQueue' \in SharedQueues
  BY <1>2, <1>3 DEF SharedQueues
<1> QED BY <1>4, <1>5

\* A message is taken from a sequence of messages.
LEMMA TakeTypes ==
  ASSUME IdcmpTypes, NEW M \in SUBSET MsgType, NEW q \in Seq(M), q # <<>>, Take(Head(q))
  PROVE  held' \in Counts /\ Tail(q) \in Seq(M)
<1>1. Head(q) \in MsgType /\ Tail(q) \in Seq(M)
  OBVIOUS
<1>2. PICK m \in MsgType : m = Head(q)
  BY <1>1
<1>3. held' = [held EXCEPT ![m.window][m.class] = @ + 1] /\ held \in Counts
  BY <1>2, QueueTypes DEF Take
<1>4. m.window \in Windows /\ m.class \in Classes
  BY DEF MsgType
<1>5. held' \in Counts
  BY <1>3, <1>4 DEF Counts
<1> QED BY <1>1, <1>5

\* IdcmpTypes by the names of the queues.
LEMMA TypesThen ==
  ASSUME owns' \in [WindowTasks -> SUBSET Windows], linked' \in SUBSET Windows,
         userPort' \in [Windows -> {"none", "own", "shared"}], windowPort' \in [Windows -> BOOLEAN],
         idcmp' \in [Windows -> BOOLEAN], pending' \in [Windows -> Nat],
         ports' \in [Windows -> SUBSET {"user", "reply"}],
         ownQueue' \in OwnQueues, sharedQueue' \in SharedQueues, held' \in Counts, replied' \in Counts,
         messageMem' \in Nat, processing' \in BOOLEAN, overtaken' \in BOOLEAN,
         doing' \in [WindowTasks -> DoingType]
  PROVE  IdcmpTypes'
BY DEF IdcmpTypes, OwnQueues, SharedQueues, Counts

\* The types, by the names that the lemmas use.
LEMMA TypesNow ==
  ASSUME IdcmpTypes
  PROVE  /\ owns \in [WindowTasks -> SUBSET Windows] /\ linked \in SUBSET Windows
         /\ userPort \in [Windows -> {"none", "own", "shared"}] /\ windowPort \in [Windows -> BOOLEAN]
         /\ idcmp \in [Windows -> BOOLEAN] /\ pending \in [Windows -> Nat]
         /\ ports \in [Windows -> SUBSET {"user", "reply"}]
         /\ ownQueue \in OwnQueues /\ sharedQueue \in SharedQueues
         /\ held \in Counts /\ replied \in Counts
         /\ messageMem \in Nat /\ processing \in BOOLEAN /\ overtaken \in BOOLEAN
         /\ doing \in [WindowTasks -> DoingType]
BY DEF IdcmpTypes, OwnQueues, SharedQueues, Counts

\* The interrupt keeps the types.
LEMMA VBlankTypes ==
  ASSUME IdcmpTypes, NEW w \in Windows, NEW c \in Classes, VBlankInputHook(w, c)
  PROVE  IdcmpTypes'
<1>1. replied' \in Counts /\ processing' \in BOOLEAN
  BY ReapTypes DEF VBlankInputHook
<1>2. overtaken' \in BOOLEAN
  BY TypesNow DEF VBlankInputHook, Strays, Miscounts
<1>3. ownQueue' \in OwnQueues /\ sharedQueue' \in SharedQueues
  BY TypesNow, PutTypes DEF VBlankInputHook
<1>4. PendingAfterReap(w) \in Nat /\ MemAfterReap(w) \in Nat
  BY ReapTypes
<1>5. messageMem' \in Nat
  BY <1>4 DEF VBlankInputHook
<1>6. pending' \in [Windows -> Nat]
  BY <1>4, TypesNow DEF VBlankInputHook
<1>7. UNCHANGED <<owns, linked, userPort, windowPort, idcmp, ports, held, doing>>
  BY DEF VBlankInputHook
<1> QED BY <1>1, <1>2, <1>3, <1>5, <1>6, <1>7, TypesNow, TypesThen

\* A program that posts keeps the types.
LEMMA PostTypes ==
  ASSUME IdcmpTypes, NEW t \in WindowTasks, NEW w \in Windows, NEW c \in Classes,
         NEW then \in {"program", "poll"}, Post(t, w, c, then)
  PROVE  IdcmpTypes'
<1>1. replied' \in Counts
  BY ReapTypes DEF Post
<1>2. overtaken' \in BOOLEAN
  BY TypesNow DEF Post, Miscounts
<1>3. PendingAfterReap(w) \in Nat /\ MemAfterReap(w) \in Nat
  BY ReapTypes
<1>4. messageMem' \in Nat
  BY <1>3 DEF Post
<1>5. pending' \in [Windows -> Nat]
  BY <1>3, TypesNow DEF Post
<1>6. doing' \in [WindowTasks -> DoingType]
  <2>1. PICK d : d = [Running EXCEPT !.at = "put", !.window = {w}, !.class = c, !.then = then]
    OBVIOUS
  <2>2. d = [at |-> "put", window |-> {w}, class |-> c, then |-> then, forbid |-> FALSE,
             saved |-> FALSE]
    BY <2>1 DEF Running
  <2>3. d \in DoingType
    BY <2>2 DEF DoingType, Posting
  <2>4. doing' = [doing EXCEPT ![t] = d] \/ doing' = doing
    BY <2>1 DEF Post
  <2> QED BY <2>3, <2>4, TypesNow
<1>7. UNCHANGED <<owns, linked, userPort, windowPort, idcmp, ports, ownQueue, sharedQueue, held,
                  processing>>
  BY DEF Post
<1> QED BY <1>1, <1>2, <1>4, <1>5, <1>6, <1>7, TypesNow, TypesThen

\* Posting and the calls that leave the queues alone.
LEMMA CallTypes ==
  ASSUME IdcmpTypes, NEW t \in WindowTasks, NEW w \in Windows, WorkRight(t, w),
         \/ PostPut(t, w) \/ PostCount(t, w) \/ PostCall(t, w) \/ (\E c \in Classes : PollInput(t, w, c))
         \/ (\E flags \in BOOLEAN : OpenWindow(t, w, flags))
         \/ SharePort(t, w) \/ ModifyIDCMP(t, w)
  PROVE  IdcmpTypes'
<1>1. CASE PostPut(t, w)
  <2>1. PICK d \in DoingType : d = doing[t]
    BY TypesNow
  <2>2. d.class \in Classes
    BY DEF DoingType
  <2>3. ownQueue' \in OwnQueues /\ sharedQueue' \in SharedQueues
    BY <1>1, <2>1, <2>2, PutTypes DEF PostPut
  <2>4. PICK e : e = IF d.class = "move" THEN [d EXCEPT !.at = "count"]
                     ELSE [Running EXCEPT !.at = d.then]
    OBVIOUS
  <2>5. e \in DoingType
    <3>1. CASE d.class = "move"
      BY <2>4, <3>1 DEF DoingType, Posting
    <3>2. CASE d.class # "move"
      <4>1. d.then \in {"program", "poll"}
        BY <1>1, <2>1 DEF PostPut, Works, WorkRight, Posting, DoingType
      <4>2. e = [at |-> d.then, window |-> {}, class |-> "other", then |-> "program",
                 forbid |-> FALSE, saved |-> FALSE]
        BY <2>4, <3>2 DEF Running
      <4> QED BY <4>1, <4>2 DEF DoingType, Classes
    <3> QED BY <3>1, <3>2
  <2>6. doing' = [doing EXCEPT ![t] = e]
    BY <1>1, <2>1, <2>4 DEF PostPut
  <2>7. doing' \in [WindowTasks -> DoingType]
    BY <2>5, <2>6, TypesNow
  <2>8. UNCHANGED <<owns, linked, userPort, windowPort, idcmp, pending, ports, held, replied,
                    messageMem, processing, overtaken>>
    BY <1>1 DEF PostPut
  <2> QED BY <2>3, <2>7, <2>8, TypesNow, TypesThen
<1>2. CASE PostCount(t, w)
  <2>1. PICK d \in DoingType : d = doing[t]
    BY TypesNow
  <2>2. d.then \in {"program", "poll"}
    BY <1>2, <2>1 DEF PostCount, Works, WorkRight, Posting, DoingType
  <2>3. PICK e : e = [Running EXCEPT !.at = d.then]
    OBVIOUS
  <2>4. e = [at |-> d.then, window |-> {}, class |-> "other", then |-> "program",
             forbid |-> FALSE, saved |-> FALSE]
    BY <2>3 DEF Running
  <2>5. e \in DoingType
    BY <2>2, <2>4 DEF DoingType, Classes
  <2>6. doing' = [doing EXCEPT ![t] = e]
    BY <1>2, <2>1, <2>3 DEF PostCount
  <2>7. doing' \in [WindowTasks -> DoingType]
    BY <2>5, <2>6, TypesNow
  <2>8. pending' \in [Windows -> Nat]
    BY <1>2, TypesNow DEF PostCount
  <2>9. UNCHANGED <<owns, linked, userPort, windowPort, idcmp, ports, ownQueue, sharedQueue,
                    held, replied, messageMem, processing, overtaken>>
    BY <1>2 DEF PostCount
  <2> QED BY <2>7, <2>8, <2>9, TypesNow, TypesThen
<1>3. CASE PostCall(t, w)
  BY <1>3, PostTypes DEF PostCall, Classes
<1>4. ASSUME NEW c \in Classes, PollInput(t, w, c) PROVE IdcmpTypes'
  BY <1>4, PostTypes DEF PollInput
<1>5. ASSUME NEW flags \in BOOLEAN, OpenWindow(t, w, flags) PROVE IdcmpTypes'
  <2>1. owns' \in [WindowTasks -> SUBSET Windows] /\ linked' \in SUBSET Windows
    BY <1>5, TypesNow DEF OpenWindow
  <2>2. /\ userPort' \in [Windows -> {"none", "own", "shared"}]
        /\ windowPort' \in [Windows -> BOOLEAN] /\ idcmp' \in [Windows -> BOOLEAN]
        /\ pending' \in [Windows -> Nat] /\ ports' \in [Windows -> SUBSET {"user", "reply"}]
    BY <1>5, TypesNow DEF OpenWindow
  <2>3. UNCHANGED <<ownQueue, sharedQueue, held, replied, messageMem, processing, doing, overtaken>>
    BY <1>5 DEF OpenWindow
  <2> QED BY <2>1, <2>2, <2>3, TypesNow, TypesThen
<1>6. CASE SharePort(t, w)
  <2>1. userPort' \in [Windows -> {"none", "own", "shared"}]
    BY <1>6, TypesNow DEF SharePort
  <2>2. UNCHANGED <<owns, linked, windowPort, idcmp, pending, ports, ownQueue, sharedQueue,
                    held, replied, messageMem, processing, doing, overtaken>>
    BY <1>6 DEF SharePort
  <2> QED BY <2>1, <2>2, TypesNow, TypesThen
<1>7. CASE ModifyIDCMP(t, w)
  <2>1. /\ userPort' \in [Windows -> {"none", "own", "shared"}]
        /\ windowPort' \in [Windows -> BOOLEAN] /\ idcmp' \in [Windows -> BOOLEAN]
        /\ ports' \in [Windows -> SUBSET {"user", "reply"}]
    BY <1>7, TypesNow DEF ModifyIDCMP
  <2>2. UNCHANGED <<owns, linked, pending, ownQueue, sharedQueue, held, replied, messageMem,
                    processing, doing, overtaken>>
    BY <1>7 DEF ModifyIDCMP
  <2> QED BY <2>1, <2>2, TypesNow, TypesThen
<1> QED BY <1>1, <1>2, <1>3, <1>4, <1>5, <1>6, <1>7

\* GetMsg() and ReplyMsg().
LEMMA MessageTypes ==
  ASSUME IdcmpTypes, NEW t \in WindowTasks,
         GetMsg(t) \/ (\E w \in Windows, c \in Classes : ReplyMsg(t, w, c))
  PROVE  IdcmpTypes'
<1>1. CASE GetMsg(t)
  <2>1. held' \in Counts /\ ownQueue' \in OwnQueues /\ sharedQueue' \in SharedQueues
    <3>1. ASSUME NEW w \in owns[t], ownQueue[w] # <<>>, Take(Head(ownQueue[w])),
                 ownQueue' = [ownQueue EXCEPT ![w] = Tail(@)], UNCHANGED sharedQueue
          PROVE  held' \in Counts /\ ownQueue' \in OwnQueues /\ sharedQueue' \in SharedQueues
      <4>1. w \in Windows
        BY TypesNow
      <4>2. PICK q \in Seq(MsgType) : q = ownQueue[w]
        BY <4>1, TypesNow DEF OwnQueues
      <4>3. held' \in Counts /\ Tail(q) \in Seq(MsgType)
        BY <3>1, <4>2, TakeTypes
      <4>4. ownQueue' = [ownQueue EXCEPT ![w] = Tail(q)]
        BY <3>1, <4>2
      <4>5. ownQueue' \in OwnQueues
        BY <4>1, <4>3, <4>4, TypesNow DEF OwnQueues
      <4> QED BY <3>1, <4>3, <4>5, TypesNow
    <3>2. ASSUME sharedQueue[t] # <<>>, Take(Head(sharedQueue[t])),
                 sharedQueue' = [sharedQueue EXCEPT ![t] = Tail(@)], UNCHANGED ownQueue
          PROVE  held' \in Counts /\ ownQueue' \in OwnQueues /\ sharedQueue' \in SharedQueues
      <4>2. PICK q \in Seq(MsgType) : q = sharedQueue[t]
        BY TypesNow DEF SharedQueues
      <4>3. held' \in Counts /\ Tail(q) \in Seq(MsgType)
        BY <3>2, <4>2, TakeTypes
      <4>4. sharedQueue' = [sharedQueue EXCEPT ![t] = Tail(q)]
        BY <3>2, <4>2
      <4>5. sharedQueue' \in SharedQueues
        BY <4>3, <4>4, TypesNow DEF SharedQueues
      <4> QED BY <3>2, <4>3, <4>5, TypesNow
    <3> QED BY <1>1, <3>1, <3>2 DEF GetMsg
  <2>2. UNCHANGED <<owns, linked, userPort, windowPort, idcmp, pending, ports, replied,
                    messageMem, processing, doing, overtaken>>
    BY <1>1 DEF GetMsg
  <2> QED BY <2>1, <2>2, TypesNow, TypesThen
<1>2. ASSUME NEW w \in Windows, NEW c \in Classes, ReplyMsg(t, w, c) PROVE IdcmpTypes'
  <2>1. held[w][c] > 0 /\ held[w][c] \in Nat /\ replied[w][c] \in Nat
    BY <1>2, TypesNow DEF ReplyMsg, Counts
  <2>2. /\ held' = [held EXCEPT ![w] = [held[w] EXCEPT ![c] = held[w][c] - 1]]
        /\ replied' = [replied EXCEPT ![w] = [replied[w] EXCEPT ![c] = replied[w][c] + 1]]
    BY <1>2 DEF ReplyMsg
  <2>3. held[w][c] - 1 \in Nat /\ replied[w][c] + 1 \in Nat
    BY <2>1
  <2>4. held' \in Counts
    BY <2>2, <2>3, TypesNow DEF Counts
  <2>5. replied' \in Counts
    BY <2>2, <2>3, TypesNow DEF Counts
  <2>6. UNCHANGED <<owns, linked, userPort, windowPort, idcmp, pending, ports, ownQueue,
                    sharedQueue, messageMem, processing, doing, overtaken>>
    BY <1>2 DEF ReplyMsg
  <2> QED BY <2>4, <2>5, <2>6, TypesNow, TypesThen
<1> QED BY <1>1, <1>2

\* ClearMsgPort() leaves a sequence of messages.
LEMMA PickedTyped ==
  ASSUME NEW S, NEW M, NEW q \in Seq(M)
  PROVE  Picked(q, S) \in Seq(M)
BY PickedHoldsThose, Zenon

\* The beginnings of the removal of ports.
LEMMA RemovalTypes ==
  ASSUME IdcmpTypes, NEW t \in WindowTasks, NEW w \in Windows,
         \/ ClearMsgPort(t, w) \/ ModifyIDCMPZero(t, w) \/ MoveMessages(t, w) \/ CloseWindow(t, w)
         \/ TakeUserPort(t, w) \/ DetachUserPort(t, w)
  PROVE  IdcmpTypes'
<1>1. CASE ClearMsgPort(t, w)
  <2> DEFINE S == { Of(v, c) : v \in Windows \ {w}, c \in Classes }
  <2>2. PICK q \in Seq(MsgType) : q = sharedQueue[t]
    BY TypesNow DEF SharedQueues
  <2>3. Picked(q, S) \in Seq(MsgType)
    <3> HIDE DEF S
    <3> QED BY PickedTyped
  <2>4. sharedQueue' = [sharedQueue EXCEPT ![t] = Picked(q, S)]
    BY <1>1, <2>2 DEF ClearMsgPort
  <2>5. sharedQueue' \in SharedQueues
    BY <2>3, <2>4, TypesNow DEF SharedQueues
  <2>6. \A c \in Classes : replied[w][c] \in Nat /\ Occurrences(sharedQueue[t], w, c) \in Nat
    <3>1. \A c \in Classes : Occurrences(q, w, c) \in Nat
      BY OccurrencesCount
    <3> QED BY <2>2, <3>1, TypesNow DEF Counts
  <2>7. PICK r : r = [c \in Classes |-> replied[w][c] + Occurrences(sharedQueue[t], w, c)]
    OBVIOUS
  <2>8. r \in [Classes -> Nat]
    BY <2>6, <2>7
  <2>9. replied' = [replied EXCEPT ![w] = r]
    BY <1>1, <2>7 DEF ClearMsgPort
  <2>10. replied' \in Counts
    BY <2>8, <2>9, TypesNow DEF Counts
  <2>11. PICK e : e = [Running EXCEPT !.at = "cleared", !.window = {w}, !.forbid = TRUE]
    OBVIOUS
  <2>12. e = [at |-> "cleared", window |-> {w}, class |-> "other", then |-> "program",
              forbid |-> TRUE, saved |-> FALSE]
    BY <2>11 DEF Running
  <2>13. e \in DoingType
    BY <2>12 DEF DoingType, Classes, Removal
  <2>14. doing' = [doing EXCEPT ![t] = e]
    BY <1>1, <2>11 DEF ClearMsgPort
  <2>15. doing' \in [WindowTasks -> DoingType]
    BY <2>13, <2>14, TypesNow
  <2>16. UNCHANGED <<owns, linked, userPort, windowPort, idcmp, pending, ports, ownQueue, held,
                     messageMem, processing, overtaken>>
    BY <1>1 DEF ClearMsgPort
  <2> QED BY <2>5, <2>10, <2>15, <2>16, TypesNow, TypesThen
<1>2. CASE ModifyIDCMPZero(t, w)
  <2>1. PICK e : e = [Running EXCEPT !.at = "modify", !.window = {w}]
    OBVIOUS
  <2>2. e = [at |-> "modify", window |-> {w}, class |-> "other", then |-> "program",
             forbid |-> FALSE, saved |-> FALSE]
    BY <2>1 DEF Running
  <2>3. e \in DoingType
    BY <2>2 DEF DoingType, Classes, Removal
  <2>4. doing' = [doing EXCEPT ![t] = e]
    BY <1>2, <2>1 DEF ModifyIDCMPZero
  <2>5. doing' \in [WindowTasks -> DoingType]
    BY <2>3, <2>4, TypesNow
  <2>6. UNCHANGED <<owns, linked, userPort, windowPort, idcmp, pending, ports, ownQueue,
                    sharedQueue, held, replied, messageMem, processing, overtaken>>
    BY <1>2 DEF ModifyIDCMPZero
  <2> QED BY <2>5, <2>6, TypesNow, TypesThen
<1>3. CASE MoveMessages(t, w)
  <2>1. PICK e : e = [Running EXCEPT !.at = "modify", !.window = {w}]
    OBVIOUS
  <2>2. e = [at |-> "modify", window |-> {w}, class |-> "other", then |-> "program",
             forbid |-> FALSE, saved |-> FALSE]
    BY <2>1 DEF Running
  <2>3. e \in DoingType
    BY <2>2 DEF DoingType, Classes, Removal
  <2>4. doing' = [doing EXCEPT ![t] = e]
    BY <1>3, <2>1 DEF MoveMessages
  <2>5. doing' \in [WindowTasks -> DoingType]
    BY <2>3, <2>4, TypesNow
  <2>6. PICK q \in Seq(MsgType) : q = sharedQueue[t]
    BY TypesNow DEF SharedQueues
  <2>7. PICK o \in Seq(MsgType) : o = ownQueue[w]
    BY TypesNow DEF OwnQueues
  <2>8. q \o o \in Seq(MsgType) /\ <<>> \in Seq(MsgType)
    OBVIOUS
  <2>9. /\ sharedQueue' = [sharedQueue EXCEPT ![t] = q \o o]
        /\ ownQueue' = [ownQueue EXCEPT ![w] = <<>>]
    BY <1>3, <2>6, <2>7 DEF MoveMessages
  <2>10. sharedQueue' \in SharedQueues /\ ownQueue' \in OwnQueues
    BY <2>8, <2>9, TypesNow DEF SharedQueues, OwnQueues
  <2>11. idcmp' \in [Windows -> BOOLEAN] /\ overtaken' \in BOOLEAN
    BY <1>3, TypesNow DEF MoveMessages, Orphans
  <2>12. UNCHANGED <<owns, linked, userPort, windowPort, pending, ports, held, replied, messageMem,
                     processing>>
    BY <1>3 DEF MoveMessages
  <2> QED BY <2>5, <2>10, <2>11, <2>12, TypesNow, TypesThen
<1>4. CASE CloseWindow(t, w)
  <2>1. PICK e : e = [Running EXCEPT !.at = "close", !.window = {w}, !.then = "closed",
                                     !.saved = processing]
    OBVIOUS
  <2>2. e = [at |-> "close", window |-> {w}, class |-> "other", then |-> "closed",
             forbid |-> FALSE, saved |-> processing]
    BY <2>1 DEF Running
  <2>3. processing \in BOOLEAN
    BY TypesNow
  <2>4. e \in DoingType
    BY <2>2, <2>3 DEF DoingType, Classes, Removal
  <2>5. doing' = [doing EXCEPT ![t] = e] /\ processing' = TRUE
    BY <1>4, <2>1 DEF CloseWindow
  <2>6. doing' \in [WindowTasks -> DoingType] /\ processing' \in BOOLEAN
    BY <2>4, <2>5, TypesNow
  <2>7. UNCHANGED <<owns, linked, userPort, windowPort, idcmp, pending, ports, ownQueue,
                    sharedQueue, held, replied, messageMem, overtaken>>
    BY <1>4 DEF CloseWindow
  <2> QED BY <2>6, <2>7, TypesNow, TypesThen
<1>5. CASE TakeUserPort(t, w) \/ DetachUserPort(t, w)
  <2>1. doing' \in [WindowTasks -> DoingType]
    <3>1. "modify" \in Removal /\ "detach" \in Removal
      BY DEF Removal, Detached
    <3>2. GoOn(t, "modify") \/ GoOn(t, "detach")
      BY <1>5 DEF TakeUserPort, DetachUserPort
    <3> QED BY <3>1, <3>2, GoesOn
  <2>2. userPort' \in [Windows -> {"none", "own", "shared"}]
    BY <1>5, TypesNow DEF TakeUserPort, DetachUserPort
  <2>3. overtaken' \in BOOLEAN
    BY <1>5, TypesNow DEF TakeUserPort, DetachUserPort, Overtakes
  <2>4. UNCHANGED <<owns, linked, windowPort, idcmp, pending, ports, ownQueue, sharedQueue, held,
                    replied, messageMem, processing>>
    BY <1>5 DEF TakeUserPort, DetachUserPort
  <2> QED BY <2>1, <2>2, <2>3, <2>4, TypesNow, TypesThen
<1> QED BY <1>1, <1>2, <1>3, <1>4, <1>5

\* The rest of it.
LEMMA FlushTypes ==
  ASSUME IdcmpTypes, NEW t \in WindowTasks, NEW w \in Windows,
         \/ DetachWindowPort(t, w) \/ FlushReplyPort(t, w) \/ FlushUserPort(t, w) \/ RemoveEnd(t, w)
  PROVE  IdcmpTypes'
<1>1. "flushreply" \in Removal /\ "flushuser" \in Removal /\ "end" \in Removal
  BY DEF Removal, Detached
<1>2. CASE DetachWindowPort(t, w)
  <2>1. doing' \in [WindowTasks -> DoingType]
    BY <1>1, <1>2, GoesOn DEF DetachWindowPort
  <2>2. windowPort' \in [Windows -> BOOLEAN] /\ pending' \in [Windows -> Nat]
    BY <1>2, TypesNow DEF DetachWindowPort
  <2>3. UNCHANGED <<owns, linked, userPort, idcmp, ports, ownQueue, sharedQueue, held, replied,
                    messageMem, processing, overtaken>>
    BY <1>2 DEF DetachWindowPort
  <2> QED BY <2>1, <2>2, <2>3, TypesNow, TypesThen
<1>3. CASE FlushReplyPort(t, w)
  <2>1. doing' \in [WindowTasks -> DoingType]
    BY <1>1, <1>3, GoesOn DEF FlushReplyPort
  <2>2. PendingAfterReap(w) \in Nat /\ MemAfterReap(w) \in Nat
    BY ReapTypes
  <2>3. replied' \in Counts /\ messageMem' \in Nat
    BY <1>3, <2>2, ReapTypes DEF FlushReplyPort
  <2>4. pending' \in [Windows -> Nat] /\ ports' \in [Windows -> SUBSET {"user", "reply"}]
    BY <1>3, <2>2, TypesNow DEF FlushReplyPort
  <2>5. UNCHANGED <<owns, linked, userPort, windowPort, idcmp, ownQueue, sharedQueue, held,
                    processing, overtaken>>
    BY <1>3 DEF FlushReplyPort
  <2> QED BY <2>1, <2>3, <2>4, <2>5, TypesNow, TypesThen
<1>4. CASE FlushUserPort(t, w)
  <2>1. doing' \in [WindowTasks -> DoingType]
    BY <1>1, <1>4, GoesOn DEF FlushUserPort
  <2>2. PICK o \in Seq(MsgType) : o = ownQueue[w]
    BY TypesNow DEF OwnQueues
  <2>3. Len(o) \in Nat /\ Occurrences(o, w, "move") \in Nat /\ <<>> \in Seq(MsgType)
    BY OccurrencesCount
  <2>4. ownQueue' \in OwnQueues
    BY <1>4, <2>3, TypesNow DEF FlushUserPort, OwnQueues
  <2>5. messageMem' \in Nat
    BY <1>4, <2>2, <2>3, TypesNow DEF FlushUserPort
  <2>6. pending' \in [Windows -> Nat]
    <3>1. pending[w] \in Nat
      BY TypesNow
    <3>2. Less(pending[w], Occurrences(ownQueue[w], w, "move")) \in Nat
      BY <2>2, <2>3, <3>1 DEF Less
    <3> QED BY <1>4, <3>2, TypesNow DEF FlushUserPort
  <2>7. ports' \in [Windows -> SUBSET {"user", "reply"}]
    BY <1>4, TypesNow DEF FlushUserPort
  <2>8. UNCHANGED <<owns, linked, userPort, windowPort, idcmp, sharedQueue, held, replied,
                    processing, overtaken>>
    BY <1>4 DEF FlushUserPort
  <2> QED BY <2>1, <2>4, <2>5, <2>6, <2>7, <2>8, TypesNow, TypesThen
<1>5. CASE RemoveEnd(t, w)
  <2>1. Running \in DoingType
    BY DEF Running, DoingType, Classes
  <2>2. doing' \in [WindowTasks -> DoingType]
    BY <1>5, <2>1, TypesNow DEF RemoveEnd
  <2>3. owns' \in [WindowTasks -> SUBSET Windows] /\ linked' \in SUBSET Windows
    BY <1>5, TypesNow DEF RemoveEnd
  <2>4. processing' \in BOOLEAN
    BY <1>5, TypesNow DEF RemoveEnd, DoingType
  <2>5. idcmp' \in [Windows -> BOOLEAN]
    BY <1>5, TypesNow DEF RemoveEnd
  <2>6. UNCHANGED <<userPort, windowPort, pending, ports, ownQueue, sharedQueue, held, replied,
                    messageMem, overtaken>>
    BY <1>5 DEF RemoveEnd
  <2> QED BY <2>2, <2>3, <2>4, <2>5, <2>6, TypesNow, TypesThen
<1> QED BY <1>2, <1>3, <1>4, <1>5

-----------------------------------------------------------------------------
(* What a step of one program, at one window, leaves to be shown.          *)

Moving(t, w) == Works(t, w, Posting) /\ doing[t].class = "move"

\* The programs that post to w, when t does a step.
LEMMA TaskCounts ==
  ASSUME NEW t \in WindowTasks, \A u \in WindowTasks \ {t} : doing'[u] = doing[u], NEW w
  PROVE  /\ Posts(w, {"count"}) \in Nat /\ Posts(w, {"count"})' \in Nat
         /\ Movers(w) \in Nat /\ Movers(w)' \in Nat /\ Cardinality(WindowTasks) \in Nat
         /\ Posts(w, {"count"})' + (IF Works(t, w, {"count"}) THEN 1 ELSE 0)
              = Posts(w, {"count"}) + (IF Works(t, w, {"count"})' THEN 1 ELSE 0)
         /\ Movers(w)' + (IF Moving(t, w) THEN 1 ELSE 0)
              = Movers(w) + (IF Moving(t, w)' THEN 1 ELSE 0)
         /\ Movers(w) <= Cardinality(WindowTasks) /\ Movers(w)' <= Cardinality(WindowTasks)
         /\ ~Moving(t, w) => Movers(w) < Cardinality(WindowTasks)
<1>1. PICK A \in SUBSET WindowTasks : A = { u \in WindowTasks : Works(u, w, {"count"}) }
  OBVIOUS
<1>2. PICK B \in SUBSET WindowTasks : B = { u \in WindowTasks : Works(u, w, {"count"})' }
  OBVIOUS
<1>3. PICK C \in SUBSET WindowTasks : C = { u \in WindowTasks : Moving(u, w) }
  OBVIOUS
<1>4. PICK D \in SUBSET WindowTasks : D = { u \in WindowTasks : Moving(u, w)' }
  OBVIOUS
<1>5. /\ Posts(w, {"count"}) = Cardinality(A) /\ Posts(w, {"count"})' = Cardinality(B)
      /\ Movers(w) = Cardinality(C) /\ Movers(w)' = Cardinality(D)
  BY <1>1, <1>2, <1>3, <1>4 DEF Posts, Movers, Moving
<1>6. /\ t \in A <=> Works(t, w, {"count"})
      /\ t \in B <=> Works(t, w, {"count"})'
      /\ t \in C <=> Moving(t, w)
      /\ t \in D <=> Moving(t, w)'
  BY <1>1, <1>2, <1>3, <1>4
<1>7. \A u \in WindowTasks \ {t} : u \in A <=> u \in B
  BY <1>1, <1>2 DEF Works
<1>8. \A u \in WindowTasks \ {t} : u \in C <=> u \in D
  BY <1>3, <1>4 DEF Moving, Works
<1>9. /\ Cardinality(A) \in Nat /\ Cardinality(B) \in Nat /\ Cardinality(WindowTasks) \in Nat
      /\ t \in A /\ t \notin B => Cardinality(B) = Cardinality(A) - 1
      /\ t \notin A /\ t \in B => Cardinality(B) = Cardinality(A) + 1
      /\ (t \in A <=> t \in B) => Cardinality(B) = Cardinality(A)
  BY <1>7, OneMoves
<1>10. /\ Cardinality(C) \in Nat /\ Cardinality(D) \in Nat
       /\ t \in C /\ t \notin D => Cardinality(D) = Cardinality(C) - 1
       /\ t \notin C /\ t \in D => Cardinality(D) = Cardinality(C) + 1
       /\ (t \in C <=> t \in D) => Cardinality(D) = Cardinality(C)
       /\ Cardinality(D) <= Cardinality(WindowTasks)
       /\ t \notin C => Cardinality(C) < Cardinality(WindowTasks)
  BY <1>8, OneMoves
<1>11. Cardinality(C) <= Cardinality(WindowTasks)
  BY OneMoves
<1> QED BY <1>5, <1>6, <1>9, <1>10, <1>11

\* Who counts a mouse move is one of those who post one.
LEMMA CountersMoveThen ==
  ASSUME NEW w, \A t \in WindowTasks : WorkRight(t, w)'
  PROVE  Posts(w, {"count"})' <= Movers(w)'
<1>1. PICK A : A = { u \in WindowTasks : Works(u, w, {"count"})' }
  OBVIOUS
<1>2. PICK C : C = { u \in WindowTasks : Works(u, w, Posting)' /\ doing'[u].class = "move" }
  OBVIOUS
<1>3. A \subseteq C /\ C \subseteq WindowTasks
  BY <1>1, <1>2 DEF WorkRight, Works, Posting
<1>4. Cardinality(A) <= Cardinality(C)
  BY <1>3, WindowsAssumption, FS_Subset, FS_CardinalityType
<1> QED BY <1>1, <1>2, <1>4 DEF Posts, Movers

\* The mouse moves of a window are counted right when they are counted at all.
LEMMA MovesKept ==
  ASSUME NEW w \in Windows, IdcmpTypes', NEW t \in WindowTasks,
         \A u \in WindowTasks \ {t} : doing'[u] = doing[u],
         \A u \in WindowTasks : WorkRight(u, w)',
         \/ pending'[w] + Posts(w, {"count"})' = Outstanding(w, "move")'
         \/ /\ Removes(w, {"flushreply", "flushuser"})'
            /\ Outstanding(w, "move")' <= MouseQueue + Cardinality(WindowTasks),
         pending'[w] + Movers(w)' <= MouseQueue + Cardinality(WindowTasks)
  PROVE  MovesRight(w)'
<1>1. Posts(w, {"count"})' <= Movers(w)'
  BY CountersMoveThen
<1>2. /\ Posts(w, {"count"})' \in Nat /\ Movers(w)' \in Nat /\ Cardinality(WindowTasks) \in Nat
  BY TaskCounts
<1>3. pending'[w] \in Nat
  BY DEF IdcmpTypes
<1>4. CASE pending'[w] + Posts(w, {"count"})' = Outstanding(w, "move")'
  BY <1>1, <1>2, <1>3, <1>4, MouseQueueAssumption DEF MovesRight
<1>5. CASE /\ Removes(w, {"flushreply", "flushuser"})'
           /\ Outstanding(w, "move")' <= MouseQueue + Cardinality(WindowTasks)
  BY <1>5 DEF MovesRight
<1> QED BY <1>4, <1>5

\* A queue that did not change has messages of windows that still share it.
LEMMA SharedKept ==
  ASSUME IdcmpTypes, NEW u \in WindowTasks, SharedRight(u), sharedQueue'[u] = sharedQueue[u],
         \A v \in Windows : v \in owns[u] /\ userPort[v] = "shared" /\ ~Works(u, v, {"cleared"})
             => v \in owns'[u] /\ userPort'[v] = "shared" /\ ~Works(u, v, {"cleared"})'
  PROVE  SharedRight(u)'
<1>1. PICK q \in Seq(MsgType) : q = sharedQueue[u]
  BY TypesNow DEF SharedQueues
<1>2. ASSUME NEW i \in 1 .. Len(q)
      PROVE  /\ q[i].window \in owns'[u] /\ userPort'[q[i].window] = "shared"
             /\ ~Works(u, q[i].window, {"cleared"})'
  <2>1. q[i] \in MsgType
    OBVIOUS
  <2>2. q[i].window \in Windows
    BY <2>1 DEF MsgType
  <2>3. /\ q[i].window \in owns[u] /\ userPort[q[i].window] = "shared"
        /\ ~Works(u, q[i].window, {"cleared"})
    BY <1>1, <1>2 DEF SharedRight
  <2> QED BY <2>2, <2>3
<1> QED BY <1>1, <1>2 DEF SharedRight

\* What there is to show of a step of t at w.
LEMMA StepDone ==
  ASSUME IdcmpTypes, IdcmpTypes', Messages, NEW w \in Windows, NEW t \in WindowTasks,
         \A u \in WindowTasks \ {t} : doing'[u] = doing[u],
         \A v \in Windows \ {w} : Untouched(v),
         OwnersRight', AtRight(t)', WindowRight(w)', \A u \in WindowTasks : SharedRight(u)',
         messageMem' + Outstanding(w, "move")' + Outstanding(w, "other")'
             + (IF IsAt(t, "put")' THEN 1 ELSE 0)
           = messageMem + Outstanding(w, "move") + Outstanding(w, "other")
             + (IF IsAt(t, "put") THEN 1 ELSE 0)
  PROVE  Messages' /\ messageMem' <= MaxMessages
<1>1. \A v \in Windows : WindowRight(v)'
  <2>1. \A v \in Windows : WindowRight(v)
    BY DEF Messages, WindowRight
  <2> QED BY <2>1, UntouchedKept
<1>2. \A u \in WindowTasks : AtRight(u)'
  BY DEF AtRight, Messages
<1>3. \A v \in Windows \ {w} : \A c \in Classes : Outstanding(v, c)' = Outstanding(v, c)
  BY DEF Untouched, Outstanding
<1>4. Conserved
  BY DEF Messages
<1>5. Conserved' /\ messageMem' <= MaxMessages
  BY <1>3, <1>4, ConservedKept
<1> QED BY <1>1, <1>2, <1>5 DEF Messages, WindowRight

\* What there is to show of one that has to do with no window.
LEMMA StepQuiet ==
  ASSUME IdcmpTypes, IdcmpTypes', Messages, \A v \in Windows : Untouched(v),
         UNCHANGED <<owns, linked, userPort, sharedQueue, messageMem>>,
         \A u \in WindowTasks :
            /\ AtRight(u)' /\ (IsAt(u, "put")' <=> IsAt(u, "put"))
            /\ doing'[u].window = doing[u].window
            /\ doing'[u].at = "cleared" => doing[u].at = "cleared"
  PROVE  Messages'
<1>1. \A v \in Windows : WindowRight(v)'
  <2>1. \A v \in Windows : WindowRight(v)
    BY DEF Messages, WindowRight
  <2> QED BY <2>1, UntouchedKept
<1>2. \A u \in WindowTasks : SharedRight(u)'
  <2> SUFFICES ASSUME NEW u \in WindowTasks PROVE SharedRight(u)'
    OBVIOUS
  <2>1. SharedRight(u)
    BY DEF Messages
  <2> QED BY <2>1, SharedKept DEF Works
<1>3. OwnersRight'
  BY DEF Messages, OwnersRight
<1>4. Conserved'
  <2>1. Putters' = Putters
    BY DEF Putters
  <2>2. Existing' = Existing
    <3>1. \A v \in Windows : /\ Outstanding(v, "move")' = Outstanding(v, "move")
                             /\ Outstanding(v, "other")' = Outstanding(v, "other")
      BY DEF Untouched, Outstanding, Classes
    <3> QED BY <3>1 DEF Existing
  <2> QED BY <2>1, <2>2 DEF Conserved, Messages
<1> QED BY <1>1, <1>2, <1>3, <1>4 DEF Messages, WindowRight

\* Nobody but its owner takes the ports of a window away.
LEMMA OwnerAlone ==
  ASSUME Messages, NEW t \in WindowTasks, NEW w \in Windows, w \in owns[t],
         \A u \in WindowTasks \ {t} : doing'[u] = doing[u]
  PROVE  \A u \in WindowTasks \ {t} : ~Works(u, w, Removal) /\ ~Works(u, w, Removal)'
<1> SUFFICES ASSUME NEW u \in WindowTasks \ {t}
             PROVE  ~Works(u, w, Removal) /\ ~Works(u, w, Removal)'
  OBVIOUS
<1>1. w \notin owns[u]
  BY DEF Messages, OwnersRight
<1>2. WorkRight(u, w)
  BY DEF Messages
<1>3. ~Works(u, w, Removal)
  BY <1>1, <1>2 DEF WorkRight
<1> QED BY <1>3 DEF Works

-----------------------------------------------------------------------------
(* The steps, one by one.                                                  *)

\* The event loop of a program begins and ends, and that of the interrupt ends.
LEMMA QuietSteps ==
  ASSUME IdcmpTypes, IdcmpTypes', Messages,
         \/ (\E t \in WindowTasks : WaitTOF(t) \/ PollEnd(t))
         \/ VBlankNoEvent
  PROVE  Messages' /\ messageMem' = messageMem
<1>1. UNCHANGED <<owns, linked, userPort, windowPort, ports, ownQueue, sharedQueue, held, replied,
                  messageMem, pending>>
  BY DEF WaitTOF, PollEnd, VBlankNoEvent
<1>2. \A u \in WindowTasks :
         \/ doing'[u] = doing[u]
         \/ /\ doing[u].at \in {"program", "poll"} /\ doing'[u].at \in {"program", "poll"}
            /\ doing'[u].window = doing[u].window
  <2>1. ASSUME NEW t \in WindowTasks, WaitTOF(t) \/ PollEnd(t)
        PROVE  \A u \in WindowTasks :
                  \/ doing'[u] = doing[u]
                  \/ /\ doing[u].at \in {"program", "poll"} /\ doing'[u].at \in {"program", "poll"}
                     /\ doing'[u].window = doing[u].window
    <3>1. \E place \in {"program", "poll"} : GoOn(t, place)
      BY <2>1 DEF WaitTOF, PollEnd
    <3>2. PICK place \in {"program", "poll"} : GoOn(t, place)
      BY <3>1
    <3>3. doing[t].at \in {"program", "poll"}
      BY <2>1 DEF WaitTOF, PollEnd, IsAt
    <3>4. /\ doing'[t].at = place /\ doing'[t].window = doing[t].window
          /\ \A u \in WindowTasks \ {t} : doing'[u] = doing[u]
      BY <3>2, GoesOn
    <3> QED BY <3>3, <3>4
  <2>2. CASE VBlankNoEvent
    BY <2>2 DEF VBlankNoEvent
  <2> QED BY <2>1, <2>2
<1>3. \A v \in Windows, c \in Classes : Unanswered(v, c)' = Unanswered(v, c)
  BY <1>1, NothingMoves
<1>4. \A u \in WindowTasks : AtRight(u)
  BY DEF Messages
<1>5. \A u \in WindowTasks :
            /\ AtRight(u)' /\ (IsAt(u, "put")' <=> IsAt(u, "put"))
            /\ doing'[u].window = doing[u].window
            /\ doing'[u].at = "cleared" => doing[u].at = "cleared"
  BY <1>2, <1>4 DEF AtRight, IsAt
<1>6. \A v \in Windows : Untouched(v)
  BY <1>1, <1>2, <1>3, <1>4 DEF Untouched, AtRight
<1> QED BY <1>1, <1>5, <1>6, StepQuiet

\* A program at which nothing is going on works at no window.
LEMMA AtNone ==
  ASSUME Messages, NEW t \in WindowTasks, doing[t].at \in {"program", "poll"}
  PROVE  doing[t].window = {} /\ (\A w, places : ~Works(t, w, places))
<1>1. doing[t].window = {}
  BY DEF Messages, AtRight
<1>2. \A w : {w} # {}
  OBVIOUS
<1> QED BY <1>1, <1>2 DEF Works

\* The windows other than the one that a step is at.
LEMMA OthersUntouched ==
  ASSUME NEW w \in Windows, NEW t \in WindowTasks, NEW v \in Windows, v # w,
         \A u \in WindowTasks \ {t} : doing'[u] = doing[u],
         doing[t].window \subseteq {w}, doing'[t].window \subseteq {w},
         userPort'[v] = userPort[v], windowPort'[v] = windowPort[v], ports'[v] = ports[v],
         ownQueue'[v] = ownQueue[v], held'[v] = held[v], replied'[v] = replied[v],
         pending'[v] = pending[v], v \in linked' <=> v \in linked,
         \A u \in WindowTasks : v \in owns'[u] <=> v \in owns[u],
         \A c \in Classes : Unanswered(v, c)' = Unanswered(v, c)
  PROVE  Untouched(v)
BY DEF Untouched

\* A window that nobody has open.
LEMMA NobodysWindow ==
  ASSUME IdcmpTypes, Messages, NEW w \in Windows, \A u \in WindowTasks : w \notin owns[u]
  PROVE  /\ w \notin linked /\ userPort[w] = "none" /\ ~windowPort[w]
         /\ "reply" \notin ports[w] /\ ownQueue[w] = <<>> /\ held[w] = NoMessages
         /\ pending[w] = 0
         /\ \A c \in Classes : Unanswered(w, c) = 0 /\ replied[w][c] = 0 /\ Outstanding(w, c) = 0
         /\ \A u \in WindowTasks : ~Works(u, w, Posting) /\ ~Works(u, w, Removal)
<1>1. w \notin linked
  BY DEF Messages, OwnersRight
<1>2. /\ PortsRight(w) /\ QueueRight(w) /\ MovesRight(w)
      /\ \A u \in WindowTasks : WorkRight(u, w)
  BY DEF Messages
<1>3. \A u \in WindowTasks : ~Works(u, w, Posting) /\ ~Works(u, w, Removal)
  BY <1>1, <1>2 DEF WorkRight
<1>4. /\ ~Removes(w, {"flushreply"}) /\ ~Removes(w, {"flushuser"})
      /\ ~Removes(w, {"flushreply", "flushuser"}) /\ ~Removes(w, {"detach", "flushreply", "flushuser"})
  BY <1>3 DEF Removes, Works, Removal, Detached
<1>5. userPort[w] = "none" /\ ~windowPort[w]
  BY <1>1, <1>2 DEF PortsRight
<1>6. "reply" \notin ports[w]
  BY <1>2, <1>4, <1>5 DEF PortsRight
<1>7. ownQueue[w] = <<>> /\ held[w] = NoMessages
  BY <1>2, <1>4, <1>5 DEF QueueRight
<1>8. "move" \in Classes /\ "other" \in Classes
  BY DEF Classes
<1>9. replied[w]["move"] \in Nat /\ replied[w]["other"] \in Nat
  BY ReapTypes
<1>10. ~(Count(replied[w]) > 0)
  BY <1>2, <1>6 DEF QueueRight
<1>11. replied[w]["move"] = 0 /\ replied[w]["other"] = 0
  BY <1>9, <1>10 DEF Count
<1>12. \A c \in Classes : replied[w][c] = 0
  BY <1>11 DEF Classes
<1>13. \A c \in Classes : ~(Unanswered(w, c) > 0)
  BY <1>2, <1>4, <1>6 DEF QueueRight
<1>14. \A c \in Classes : Unanswered(w, c) = 0 /\ Outstanding(w, c) = 0
  BY <1>12, <1>13, CountsNow
<1>15. pending[w] = 0
  <2>1. pending[w] + Posts(w, {"count"}) = Outstanding(w, "move")
    BY <1>2, <1>4 DEF MovesRight
  <2>2. Outstanding(w, "move") = 0
    BY <1>8, <1>14
  <2>3. Posts(w, {"count"}) \in Nat
    <3>1. { t \in WindowTasks : Works(t, w, {"count"}) } \subseteq WindowTasks
      OBVIOUS
    <3> QED BY <3>1, WindowsAssumption, FS_Subset, FS_CardinalityType DEF Posts
  <2>4. pending[w] \in Nat
    BY DEF IdcmpTypes
  <2> QED BY <2>1, <2>2, <2>3, <2>4
<1> QED BY <1>1, <1>3, <1>5, <1>6, <1>7, <1>12, <1>14, <1>15

\* OpenWindow() of a window that nobody has keeps what is right.
LEMMA OpenWindowStep ==
  ASSUME IdcmpTypes, IdcmpTypes', Messages, NEW t \in WindowTasks, NEW w \in Windows,
         NEW flags \in BOOLEAN, OpenWindow(t, w, flags)
  PROVE  Messages' /\ messageMem' <= MaxMessages
<1>1. /\ doing[t].at = "program" /\ \A u \in WindowTasks : w \notin owns[u]
      /\ UNCHANGED <<ownQueue, sharedQueue, held, replied, messageMem, doing>>
  BY DEF OpenWindow, IsAt
<1>2. /\ w \notin linked /\ userPort[w] = "none" /\ ~windowPort[w]
      /\ "reply" \notin ports[w] /\ ownQueue[w] = <<>> /\ held[w] = NoMessages
      /\ pending[w] = 0
      /\ \A c \in Classes : Unanswered(w, c) = 0 /\ replied[w][c] = 0 /\ Outstanding(w, c) = 0
      /\ \A u \in WindowTasks : ~Works(u, w, Posting) /\ ~Works(u, w, Removal)
  BY <1>1, NobodysWindow
<1>3. /\ owns'[t] = owns[t] \cup {w} /\ \A u \in WindowTasks \ {t} : owns'[u] = owns[u]
      /\ linked' = linked \cup {w}
  BY DEF OpenWindow, IdcmpTypes
<1>4. /\ userPort'[w] = (IF flags THEN "own" ELSE "none")
      /\ windowPort'[w] = flags
      /\ ports'[w] = (IF flags THEN {"user", "reply"} ELSE {}) /\ pending'[w] = 0
  BY DEF OpenWindow, IdcmpTypes
<1>5. \A v \in Windows \ {w} : /\ userPort'[v] = userPort[v] /\ windowPort'[v] = windowPort[v]
                               /\ ports'[v] = ports[v] /\ pending'[v] = pending[v]
  BY DEF OpenWindow, IdcmpTypes
<1>6. \A v \in Windows, c \in Classes :
         Unanswered(v, c)' = Unanswered(v, c) /\ Outstanding(v, c)' = Outstanding(v, c)
  BY <1>1, NothingMoves DEF Outstanding
<1>7. doing[t].window = {}
  BY <1>1, AtNone
<1>8. \A v \in Windows \ {w} : Untouched(v)
  BY <1>1, <1>3, <1>5, <1>6, <1>7, OthersUntouched
<1>9. OwnersRight'
  <2>1. OwnersRight
    BY DEF Messages
  <2> QED BY <1>1, <1>3, <2>1 DEF OwnersRight
<1>10. AtRight(t)'
  BY <1>1 DEF AtRight, Messages
<1>11. \A u \in WindowTasks : ~Works(u, w, Posting)' /\ ~Works(u, w, Removal)'
  BY <1>1, <1>2 DEF Works
<1>12. \A u \in WindowTasks : WorkRight(u, w)'
  BY <1>11 DEF WorkRight, Works, Posting, Removal, Detached
<1>13. PortsRight(w)'
  BY <1>3, <1>4 DEF PortsRight
<1>14. QueueRight(w)'
  <2>1. <<>> \in Seq({ Of(w, c) : c \in Classes })
    OBVIOUS
  <2>2. ~(Count(replied[w]) > 0)
    BY <1>2 DEF Count, Classes
  <2>3. \A c \in Classes : ~(Unanswered(w, c)' > 0)
    BY <1>2, <1>6
  <2> QED BY <1>1, <1>2, <2>1, <2>2, <2>3 DEF QueueRight
<1>15. MovesRight(w)'
  <2>1. MovesRight(w)
    BY DEF Messages
  <2>2. ~Removes(w, {"flushreply", "flushuser"}) /\ ~Removes(w, {"flushreply", "flushuser"})'
    BY <1>2, <1>11 DEF Removes, Works, Removal, Detached
  <2>3. Posts(w, {"count"})' = Posts(w, {"count"}) /\ Movers(w)' = Movers(w)
    BY <1>1 DEF Posts, Movers, Works
  <2>4. Outstanding(w, "move")' = Outstanding(w, "move")
    BY <1>6 DEF Classes
  <2> QED BY <1>2, <1>4, <2>1, <2>2, <2>3, <2>4 DEF MovesRight
<1>16. WindowRight(w)'
  BY <1>12, <1>13, <1>14, <1>15 DEF WindowRight
<1>17. \A u \in WindowTasks : SharedRight(u)'
  <2> SUFFICES ASSUME NEW u \in WindowTasks PROVE SharedRight(u)'
    OBVIOUS
  <2>1. SharedRight(u)
    BY DEF Messages
  <2>2. ASSUME NEW v \in Windows, v \in owns[u], userPort[v] = "shared", ~Works(u, v, {"cleared"})
        PROVE  v \in owns'[u] /\ userPort'[v] = "shared" /\ ~Works(u, v, {"cleared"})'
    <3>1. v # w
      BY <1>1, <2>2
    <3> QED BY <1>1, <1>3, <1>5, <2>2, <3>1 DEF Works
  <2> QED BY <1>1, <2>1, <2>2, SharedKept
<1>18. messageMem' + Outstanding(w, "move")' + Outstanding(w, "other")'
             + (IF IsAt(t, "put")' THEN 1 ELSE 0)
           = messageMem + Outstanding(w, "move") + Outstanding(w, "other")
             + (IF IsAt(t, "put") THEN 1 ELSE 0)
  BY <1>1, <1>6 DEF IsAt, Classes
<1> QED BY <1>1, <1>8, <1>9, <1>10, <1>16, <1>17, <1>18, StepDone

\* The ports of a window that its program makes or gives to it.
LEMMA PortSteps ==
  ASSUME IdcmpTypes, IdcmpTypes', Messages, NEW t \in WindowTasks, NEW w \in Windows,
         SharePort(t, w) \/ ModifyIDCMP(t, w)
  PROVE  Messages' /\ messageMem' <= MaxMessages
<1>1. /\ doing[t].at = "program" /\ w \in owns[t]
      /\ UNCHANGED <<owns, linked, pending, ownQueue, sharedQueue, held, replied, messageMem, doing>>
  BY DEF SharePort, ModifyIDCMP, Owned, IsAt
<1>2. /\ \A v \in Windows \ {w} : /\ userPort'[v] = userPort[v] /\ windowPort'[v] = windowPort[v]
                                  /\ ports'[v] = ports[v]
      /\ userPort[w] # "none" => userPort'[w] = userPort[w]
      /\ userPort'[w] # "none"
      /\ \/ windowPort'[w] = windowPort[w] /\ ports'[w] = ports[w] /\ userPort'[w] = "shared"
         \/ /\ windowPort'[w] = TRUE /\ "reply" \in ports'[w]
            /\ userPort'[w] = "own" => "user" \in ports'[w] \/ userPort[w] = "own"
      /\ ports[w] \subseteq ports'[w]
  <2>1. CASE SharePort(t, w)
    BY <2>1 DEF SharePort, IdcmpTypes
  <2>2. CASE ModifyIDCMP(t, w)
    <3>1. /\ userPort'[w] = IF userPort[w] = "none" THEN "own" ELSE userPort[w]
          /\ ports'[w] = ports[w] \cup {"reply"} \cup IF userPort[w] = "none" THEN {"user"} ELSE {}
          /\ windowPort'[w] = TRUE
      BY <2>2 DEF ModifyIDCMP, IdcmpTypes
    <3>2. \A v \in Windows \ {w} : /\ userPort'[v] = userPort[v] /\ windowPort'[v] = windowPort[v]
                                   /\ ports'[v] = ports[v]
      BY <2>2 DEF ModifyIDCMP, IdcmpTypes
    <3>3. userPort[w] # "none" => userPort'[w] = userPort[w]
      BY <3>1
    <3>4. userPort'[w] # "none"
      BY <3>1
    <3>5. userPort'[w] = "own" => "user" \in ports'[w] \/ userPort[w] = "own"
      BY <3>1
    <3>6. "reply" \in ports'[w] /\ ports[w] \subseteq ports'[w]
      BY <3>1
    <3> QED BY <3>1, <3>2, <3>3, <3>4, <3>5, <3>6
  <2> QED BY <2>1, <2>2
<1>3. \A v \in Windows, c \in Classes :
         Unanswered(v, c)' = Unanswered(v, c) /\ Outstanding(v, c)' = Outstanding(v, c)
  BY <1>1, NothingMoves DEF Outstanding
<1>4. doing[t].window = {} /\ \A places : ~Works(t, w, places)
  BY <1>1, AtNone
<1>5. \A v \in Windows \ {w} : Untouched(v)
  BY <1>1, <1>2, <1>3, <1>4, OthersUntouched
<1>6. OwnersRight' /\ AtRight(t)'
  BY <1>1 DEF OwnersRight, AtRight, Messages
<1>7. /\ \A u \in WindowTasks : WorkRight(u, w)
      /\ PortsRight(w) /\ QueueRight(w) /\ MovesRight(w)
  BY DEF Messages
<1>8. \A u \in WindowTasks : ~Works(u, w, Removal)
  BY <1>1, <1>4, OwnerAlone
<1>9. \A u \in WindowTasks : \A places : Works(u, w, places)' <=> Works(u, w, places)
  BY <1>1 DEF Works
<1>10. w \in linked
  BY <1>1 DEF Messages, OwnersRight
<1>11. \A u \in WindowTasks : WorkRight(u, w)'
  <2> SUFFICES ASSUME NEW u \in WindowTasks PROVE WorkRight(u, w)'
    OBVIOUS
  <2>1. /\ ~Works(u, w, Removal)' /\ ~Works(u, w, Detached)' /\ ~Works(u, w, Detached \ {"detach"})'
        /\ ~Works(u, w, {"cleared"})' /\ ~Works(u, w, {"modify", "close"})'
    BY <1>8, <1>9 DEF Works, Removal, Detached
  <2>2. windowPort[w] => windowPort'[w]
    BY <1>2
  <2>3. Works(u, w, Posting) => windowPort[w] /\ doing[u].then # "closed"
    BY <1>7 DEF WorkRight
  <2>4. Works(u, w, Posting)' =>
          w \in linked' /\ userPort'[w] # "none" /\ windowPort'[w] /\ doing'[u].then # "closed"
    BY <1>1, <1>2, <1>9, <1>10, <2>2, <2>3
  <2>5. Works(u, w, {"count"})' => doing'[u].class = "move"
    BY <1>1, <1>7, <1>9 DEF WorkRight
  <2> QED BY <2>1, <2>4, <2>5 DEF WorkRight
<1>12. PortsRight(w)'
  <2>1. ~Removes(w, {"flushreply"})
    BY <1>8 DEF Removes, Works, Removal, Detached
  <2>2. w \in linked'
    BY <1>1, <1>10
  <2>3. /\ windowPort[w] => "reply" \in ports[w]
        /\ "reply" \in ports[w] => windowPort[w]
        /\ userPort[w] = "own" => "user" \in ports[w]
    BY <1>7, <2>1 DEF PortsRight
  <2> QED BY <1>2, <2>2, <2>3 DEF PortsRight
<1>13. QueueRight(w)'
  <2>1. /\ ~Removes(w, {"detach", "flushreply", "flushuser"}) /\ ~Removes(w, {"flushuser"})
    BY <1>8 DEF Removes, Works, Removal, Detached
  <2>2. /\ ownQueue[w] # <<>> => "user" \in ports[w] /\ userPort[w] = "own"
        /\ held[w] # NoMessages => userPort[w] # "none"
        /\ Count(replied[w]) > 0 => "reply" \in ports[w]
        /\ \A c \in Classes : Unanswered(w, c) > 0 => "reply" \in ports[w]
    BY <1>7, <2>1 DEF QueueRight
  <2>3. ownQueue'[w] \in Seq({ Of(w, c) : c \in Classes })
    BY <1>1, <1>7 DEF QueueRight
  <2> QED BY <1>1, <1>2, <1>3, <2>2, <2>3 DEF QueueRight
<1>14. MovesRight(w)'
  <2>1. Posts(w, {"count"})' = Posts(w, {"count"}) /\ Movers(w)' = Movers(w)
    BY <1>1 DEF Posts, Movers, Works
  <2>2. Outstanding(w, "move")' = Outstanding(w, "move")
    BY <1>3 DEF Classes
  <2>3. Removes(w, {"flushreply", "flushuser"})' <=> Removes(w, {"flushreply", "flushuser"})
    BY <1>9 DEF Removes
  <2> QED BY <1>1, <1>7, <2>1, <2>2, <2>3 DEF MovesRight
<1>15. WindowRight(w)'
  BY <1>11, <1>12, <1>13, <1>14 DEF WindowRight
<1>16. \A u \in WindowTasks : SharedRight(u)'
  <2> SUFFICES ASSUME NEW u \in WindowTasks PROVE SharedRight(u)'
    OBVIOUS
  <2>1. SharedRight(u)
    BY DEF Messages
  <2>2. ASSUME NEW v \in Windows, v \in owns[u], userPort[v] = "shared", ~Works(u, v, {"cleared"})
        PROVE  v \in owns'[u] /\ userPort'[v] = "shared" /\ ~Works(u, v, {"cleared"})'
    <3>1. userPort'[v] = "shared"
      BY <1>2, <2>2
    <3> QED BY <1>1, <2>2, <3>1 DEF Works
  <2> QED BY <1>1, <2>1, <2>2, SharedKept
<1>17. messageMem' + Outstanding(w, "move")' + Outstanding(w, "other")'
             + (IF IsAt(t, "put")' THEN 1 ELSE 0)
           = messageMem + Outstanding(w, "move") + Outstanding(w, "other")
             + (IF IsAt(t, "put") THEN 1 ELSE 0)
  BY <1>1, <1>3 DEF IsAt, Classes
<1> QED BY <1>1, <1>5, <1>6, <1>15, <1>16, <1>17, StepDone

\* A program takes a message of one of its windows, or replies to it.
LEMMA MessageStep ==
  ASSUME IdcmpTypes, IdcmpTypes', Messages, NEW t \in WindowTasks, NEW w \in Windows,
         doing[t].at = "program", w \in owns[t], userPort[w] # "none",
         UNCHANGED <<owns, linked, userPort, windowPort, ports, pending, messageMem, doing>>,
         \A v \in Windows, k \in Classes : Outstanding(v, k)' = Outstanding(v, k),
         \A v \in Windows \ {w} : /\ held'[v] = held[v] /\ ownQueue'[v] = ownQueue[v]
                                  /\ replied'[v] = replied[v]
                                  /\ \A k \in Classes : Unanswered(v, k)' = Unanswered(v, k),
         \A k \in Classes : Unanswered(w, k)' > 0 => Unanswered(w, k) > 0,
         ownQueue'[w] \in Seq({ Of(w, c) : c \in Classes }),
         ownQueue'[w] # <<>> => ownQueue[w] # <<>>,
         Count(replied'[w]) > 0 => "reply" \in ports[w],
         \A u \in WindowTasks : SharedRight(u)'
  PROVE  Messages' /\ messageMem' <= MaxMessages
<1>1. doing[t].window = {} /\ \A places : ~Works(t, w, places)
  BY AtNone
<1>2. \A v \in Windows \ {w} : Untouched(v)
  BY <1>1, OthersUntouched
<1>3. OwnersRight' /\ AtRight(t)'
  BY DEF OwnersRight, AtRight, Messages
<1>4. /\ \A u \in WindowTasks : WorkRight(u, w)
      /\ PortsRight(w) /\ QueueRight(w) /\ MovesRight(w)
  BY DEF Messages
<1>5. \A u \in WindowTasks : ~Works(u, w, Removal)
  BY <1>1, OwnerAlone
<1>6. \A u \in WindowTasks : \A places : Works(u, w, places)' <=> Works(u, w, places)
  BY DEF Works
<1>7. \A u \in WindowTasks : WorkRight(u, w)'
  <2> SUFFICES ASSUME NEW u \in WindowTasks PROVE WorkRight(u, w)'
    OBVIOUS
  <2>1. ~Works(u, w, Removal)'
    BY <1>5, <1>6
  <2>2. WorkRight(u, w)
    BY <1>4
  <2> QED BY <2>1, <2>2 DEF WorkRight, Works
<1>8. PortsRight(w)'
  BY <1>4 DEF PortsRight, Removes, Works
<1>9. QueueRight(w)'
  <2>1. /\ ~Removes(w, {"detach", "flushreply", "flushuser"}) /\ ~Removes(w, {"flushuser"})
    BY <1>5 DEF Removes, Works, Removal, Detached
  <2>2. /\ ownQueue[w] # <<>> => "user" \in ports[w] /\ userPort[w] = "own"
        /\ \A c \in Classes : Unanswered(w, c) > 0 => "reply" \in ports[w]
    BY <1>4, <2>1 DEF QueueRight
  <2> QED BY <2>2 DEF QueueRight
<1>10. MovesRight(w)'
  <2>1. Posts(w, {"count"})' = Posts(w, {"count"}) /\ Movers(w)' = Movers(w)
    BY DEF Posts, Movers, Works
  <2>2. Outstanding(w, "move")' = Outstanding(w, "move")
    BY DEF Classes
  <2>3. Removes(w, {"flushreply", "flushuser"})' <=> Removes(w, {"flushreply", "flushuser"})
    BY <1>6 DEF Removes
  <2> QED BY <1>4, <2>1, <2>2, <2>3 DEF MovesRight
<1>11. WindowRight(w)'
  BY <1>7, <1>8, <1>9, <1>10 DEF WindowRight
<1>12. messageMem' + Outstanding(w, "move")' + Outstanding(w, "other")'
             + (IF IsAt(t, "put")' THEN 1 ELSE 0)
           = messageMem + Outstanding(w, "move") + Outstanding(w, "other")
             + (IF IsAt(t, "put") THEN 1 ELSE 0)
  BY DEF IsAt, Classes
<1> QED BY <1>2, <1>3, <1>11, <1>12, StepDone

\* GetMsg(): the message goes from its port to the program.
LEMMA GetMsgStep ==
  ASSUME IdcmpTypes, IdcmpTypes', Messages, NEW t \in WindowTasks, GetMsg(t)
  PROVE  Messages' /\ messageMem' <= MaxMessages
<1>1. /\ doing[t].at = "program"
      /\ UNCHANGED <<owns, linked, userPort, windowPort, ports, pending, replied, messageMem, doing>>
  BY DEF GetMsg, IsAt
<1>2. \A v \in Windows : QueueRight(v)
  BY DEF Messages
<1>3. ASSUME \A v \in Windows, k \in Classes : Unanswered(v, k)' = Unanswered(v, k)
      PROVE  \A v \in Windows, k \in Classes : Outstanding(v, k)' = Outstanding(v, k)
  BY <1>1, <1>3 DEF Outstanding
<1>4. \A w \in Windows : Count(replied'[w]) > 0 => "reply" \in ports[w]
  BY <1>1, <1>2 DEF QueueRight
<1>5. ASSUME NEW w \in owns[t], userPort[w] = "own", ownQueue[w] # <<>>,
             Take(Head(ownQueue[w])), ownQueue' = [ownQueue EXCEPT ![w] = Tail(@)],
             sharedQueue' = sharedQueue
      PROVE  Messages' /\ messageMem' <= MaxMessages
  <2>1. w \in Windows
    BY TypesNow
  <2>2. /\ \A v \in Windows, k \in Classes : Unanswered(v, k)' = Unanswered(v, k)
        /\ \A v \in Windows \ {w} : held'[v] = held[v]
    BY <1>2, <1>5, <2>1, TakeOwnCounts
  <2>3. PICK q \in Seq({ Of(w, c) : c \in Classes }) : q = ownQueue[w]
    BY <1>2, <2>1 DEF QueueRight
  <2>4. q # <<>> /\ Tail(q) \in Seq({ Of(w, c) : c \in Classes })
    BY <1>5, <2>3
  <2>5. ownQueue'[w] = Tail(q) /\ \A v \in Windows \ {w} : ownQueue'[v] = ownQueue[v]
    BY <1>5, <2>1, <2>3, TypesNow DEF OwnQueues
  <2>6. \A u \in WindowTasks : SharedRight(u)'
    BY <1>1, <1>5 DEF Messages, SharedRight, Works
  <2>7. /\ ownQueue'[w] \in Seq({ Of(w, c) : c \in Classes })
        /\ ownQueue'[w] # <<>> => ownQueue[w] # <<>>
    BY <1>5, <2>4, <2>5
  <2>8. \A k \in Classes : Unanswered(w, k)' > 0 => Unanswered(w, k) > 0
    BY <2>1, <2>2
  <2>9. \A v \in Windows \ {w} : /\ held'[v] = held[v] /\ ownQueue'[v] = ownQueue[v]
                                 /\ replied'[v] = replied[v]
                                 /\ \A k \in Classes : Unanswered(v, k)' = Unanswered(v, k)
    BY <1>1, <2>2, <2>5
  <2> QED BY <1>1, <1>3, <1>4, <1>5, <2>1, <2>2, <2>6, <2>7, <2>8, <2>9, MessageStep
<1>6. ASSUME sharedQueue[t] # <<>>, Take(Head(sharedQueue[t])),
             sharedQueue' = [sharedQueue EXCEPT ![t] = Tail(@)], ownQueue' = ownQueue
      PROVE  Messages' /\ messageMem' <= MaxMessages
  <2>1. PICK q \in Seq(MsgType) : q = sharedQueue[t]
    BY TypesNow DEF SharedQueues
  <2>2. q # <<>> /\ Head(q) = q[1] /\ 1 \in 1 .. Len(q) /\ Head(q) \in MsgType
    BY <1>6, <2>1
  <2>3. PICK w \in Windows : w = Head(q).window
    BY <2>2 DEF MsgType
  <2>4. \A i \in 1 .. Len(q) : /\ q[i].window \in owns[t] /\ userPort[q[i].window] = "shared"
                               /\ ~Works(t, q[i].window, {"cleared"})
    BY <2>1 DEF Messages, SharedRight
  <2>5. w \in owns[t] /\ userPort[w] = "shared"
    BY <2>2, <2>3, <2>4
  <2>6. /\ \A v \in Windows, k \in Classes : Unanswered(v, k)' = Unanswered(v, k)
        /\ \A v \in Windows : v # Head(sharedQueue[t]).window => held'[v] = held[v]
    BY <1>6, TakeSharedCounts
  <2>7. \A v \in Windows \ {w} : held'[v] = held[v]
    BY <2>1, <2>3, <2>6
  <2>8. sharedQueue'[t] = Tail(q) /\ \A u \in WindowTasks \ {t} : sharedQueue'[u] = sharedQueue[u]
    BY <1>6, <2>1, TypesNow DEF SharedQueues
  <2>9. /\ Len(Tail(q)) = Len(q) - 1 /\ Len(q) \in Nat
        /\ \A i \in 1 .. Len(Tail(q)) : Tail(q)[i] = q[i + 1]
    BY <2>2
  <2>10. SharedRight(t)'
    <3>1. \A i \in 1 .. Len(Tail(q)) :
             /\ Tail(q)[i].window \in owns[t] /\ userPort[Tail(q)[i].window] = "shared"
             /\ ~Works(t, Tail(q)[i].window, {"cleared"})
      <4> SUFFICES ASSUME NEW i \in 1 .. Len(Tail(q))
                   PROVE  /\ Tail(q)[i].window \in owns[t] /\ userPort[Tail(q)[i].window] = "shared"
                          /\ ~Works(t, Tail(q)[i].window, {"cleared"})
        OBVIOUS
      <4>1. i + 1 \in 1 .. Len(q) /\ Tail(q)[i] = q[i + 1]
        BY <2>9
      <4> QED BY <2>4, <4>1
    <3> QED BY <1>1, <2>8, <3>1 DEF SharedRight, Works
  <2>11. \A u \in WindowTasks : SharedRight(u)'
    <3> SUFFICES ASSUME NEW u \in WindowTasks \ {t} PROVE SharedRight(u)'
      BY <2>10
    <3>1. SharedRight(u)
      BY DEF Messages
    <3>2. \A v \in Windows : v \in owns[u] /\ userPort[v] = "shared" /\ ~Works(u, v, {"cleared"})
             => v \in owns'[u] /\ userPort'[v] = "shared" /\ ~Works(u, v, {"cleared"})'
      BY <1>1 DEF Works
    <3> QED BY <2>8, <3>1, <3>2, SharedKept
  <2>12. ownQueue'[w] \in Seq({ Of(w, c) : c \in Classes })
    BY <1>2, <1>6 DEF QueueRight
  <2>13. \A k \in Classes : Unanswered(w, k)' > 0 => Unanswered(w, k) > 0
    BY <2>6
  <2>14. \A v \in Windows \ {w} : /\ held'[v] = held[v] /\ ownQueue'[v] = ownQueue[v]
                                  /\ replied'[v] = replied[v]
                                  /\ \A k \in Classes : Unanswered(v, k)' = Unanswered(v, k)
    BY <1>1, <1>6, <2>6, <2>7
  <2>15. userPort[w] # "none" /\ (ownQueue'[w] # <<>> => ownQueue[w] # <<>>)
    BY <1>6, <2>5
  <2> QED BY <1>1, <1>3, <1>4, <2>5, <2>6, <2>11, <2>12, <2>13, <2>14, <2>15, MessageStep
<1> QED BY <1>5, <1>6 DEF GetMsg

\* ReplyMsg(): the message goes from the program to the window port.
LEMMA ReplyMsgStep ==
  ASSUME IdcmpTypes, IdcmpTypes', Messages, NEW t \in WindowTasks, NEW w \in Windows,
         NEW c \in Classes, ReplyMsg(t, w, c)
  PROVE  Messages' /\ messageMem' <= MaxMessages
<1>1. /\ doing[t].at = "program" /\ w \in owns[t] /\ held[w][c] > 0
      /\ held' = [held EXCEPT ![w][c] = @ - 1] /\ replied' = [replied EXCEPT ![w][c] = @ + 1]
      /\ UNCHANGED <<owns, linked, userPort, windowPort, ports, pending, ownQueue, sharedQueue,
                     messageMem, doing>>
  BY DEF ReplyMsg, Owned, IsAt
<1>2. \A v \in Windows, k \in Classes :
            /\ Unanswered(v, k)' = Unanswered(v, k) - IF v = w /\ k = c THEN 1 ELSE 0
            /\ replied'[v][k] = replied[v][k] + IF v = w /\ k = c THEN 1 ELSE 0
            /\ v # w => held'[v] = held[v] /\ replied'[v] = replied[v]
  BY <1>1, ReplyCounts
<1>3. \A v \in Windows, k \in Classes : Outstanding(v, k)' = Outstanding(v, k)
  <2> SUFFICES ASSUME NEW v \in Windows, NEW k \in Classes
               PROVE  Outstanding(v, k)' = Outstanding(v, k)
    OBVIOUS
  <2>1. /\ Outstanding(v, k) = Unanswered(v, k) + replied[v][k]
        /\ Unanswered(v, k) \in Nat /\ replied[v][k] \in Nat
    BY CountsNow
  <2>2. Outstanding(v, k)' = Unanswered(v, k)' + replied'[v][k]
    BY CountsThen
  <2>3. /\ Unanswered(v, k)' = Unanswered(v, k) - IF v = w /\ k = c THEN 1 ELSE 0
        /\ replied'[v][k] = replied[v][k] + IF v = w /\ k = c THEN 1 ELSE 0
    BY <1>2
  <2> QED BY <2>1, <2>2, <2>3
<1>4. /\ \A u \in WindowTasks : ~Works(u, w, Removal)
      /\ ~Removes(w, {"flushuser"})
  <2>1. \A u \in WindowTasks : ~Works(u, w, Removal)
    BY <1>1, AtNone, OwnerAlone
  <2> QED BY <2>1 DEF Removes, Works, Removal, Detached
<1>5. QueueRight(w)
  BY DEF Messages
<1>6. held[w] # NoMessages
  BY <1>1 DEF NoMessages
<1>7. userPort[w] # "none" /\ ownQueue'[w] \in Seq({ Of(w, k) : k \in Classes })
  BY <1>1, <1>5, <1>6 DEF QueueRight
<1>8. "reply" \in ports[w]
  <2>1. /\ Unanswered(w, c) = Occurrences(ownQueue[w], w, c) + Shared(sharedQueue, w, c)
                                + held[w][c]
        /\ Occurrences(ownQueue[w], w, c) \in Nat /\ Shared(sharedQueue, w, c) \in Nat
        /\ held[w][c] \in Nat
    BY CountsBoth
  <2>2. Unanswered(w, c) > 0
    BY <1>1, <2>1
  <2> QED BY <1>4, <1>5, <2>2 DEF QueueRight
<1>9. \A k \in Classes : Unanswered(w, k)' > 0 => Unanswered(w, k) > 0
  <2> SUFFICES ASSUME NEW k \in Classes, Unanswered(w, k)' > 0 PROVE Unanswered(w, k) > 0
    OBVIOUS
  <2>1. Unanswered(w, k)' = Unanswered(w, k) - IF w = w /\ k = c THEN 1 ELSE 0
    BY <1>2
  <2>2. Unanswered(w, k) \in Nat
    BY CountsNow
  <2> QED BY <2>1, <2>2
<1>10. \A u \in WindowTasks : SharedRight(u)'
  BY <1>1 DEF Messages, SharedRight, Works
<1>11. \A v \in Windows \ {w} : /\ held'[v] = held[v] /\ ownQueue'[v] = ownQueue[v]
                                /\ replied'[v] = replied[v]
                                /\ \A k \in Classes : Unanswered(v, k)' = Unanswered(v, k)
  <2> SUFFICES ASSUME NEW v \in Windows \ {w}, NEW k \in Classes
               PROVE  /\ held'[v] = held[v] /\ ownQueue'[v] = ownQueue[v]
                      /\ replied'[v] = replied[v] /\ Unanswered(v, k)' = Unanswered(v, k)
    BY DEF Classes
  <2>1. Unanswered(v, k)' = Unanswered(v, k) - 0
    BY <1>2
  <2>2. Unanswered(v, k) \in Nat
    BY CountsNow
  <2> QED BY <1>1, <1>2, <2>1, <2>2
<1>12. ownQueue'[w] # <<>> => ownQueue[w] # <<>>
  BY <1>1
<1> QED BY <1>1, <1>3, <1>7, <1>8, <1>9, <1>10, <1>11, <1>12, MessageStep

\* Where the message is that _post_idcmp_message() puts at a port.
LEMMA PutPlaces ==
  ASSUME IdcmpTypes, IdcmpTypes', Messages, NEW w \in Windows, NEW c \in Classes,
         w \in linked, userPort[w] # "none", Put(w, c), UNCHANGED <<held, owns, userPort>>,
         \A u \in WindowTasks, v \in Windows : Works(u, v, {"cleared"})' => Works(u, v, {"cleared"}),
         userPort[w] = "shared" => \A u \in WindowTasks : ~Works(u, w, {"cleared"})
  PROVE  /\ \A u \in WindowTasks : SharedRight(u)'
         /\ \A v \in Windows \ {w} : ownQueue'[v] = ownQueue[v]
         /\ ownQueue'[w] \in Seq({ Of(w, k) : k \in Classes })
         /\ ownQueue'[w] # <<>> => ownQueue[w] # <<>> \/ userPort[w] = "own"
<1>1. PICK m \in MsgType : m = Of(w, c)
  BY DEF MsgType, Of
<1>2. m.window = w
  BY <1>1 DEF Of
<1>3. \/ /\ userPort[w] = "own" /\ sharedQueue' = sharedQueue
         /\ ownQueue' = [ownQueue EXCEPT ![w] = Append(@, m)]
      \/ /\ userPort[w] = "shared" /\ ownQueue' = ownQueue
         /\ \E t \in WindowTasks :
               /\ w \in owns[t]
               /\ sharedQueue' = [sharedQueue EXCEPT ![t] = Append(@, m)]
  BY <1>1, PutCounts DEF Messages
<1>4. \A v \in Windows : QueueRight(v)
  BY DEF Messages
<1>5. \A u \in WindowTasks : SharedRight(u)
  BY DEF Messages
<1>6. \A u \in WindowTasks, v \in Windows :
         v \in owns[u] /\ userPort[v] = "shared" /\ ~Works(u, v, {"cleared"})
             => v \in owns'[u] /\ userPort'[v] = "shared" /\ ~Works(u, v, {"cleared"})'
  OBVIOUS
<1>7. \A u \in WindowTasks : sharedQueue'[u] = sharedQueue[u] => SharedRight(u)'
  BY <1>5, <1>6, SharedKept
<1>8. CASE /\ userPort[w] = "own" /\ sharedQueue' = sharedQueue
           /\ ownQueue' = [ownQueue EXCEPT ![w] = Append(@, m)]
  <2>1. PICK q \in Seq({ Of(w, k) : k \in Classes }) : q = ownQueue[w]
    BY <1>4 DEF QueueRight
  <2>2. m \in { Of(w, k) : k \in Classes }
    BY <1>1
  <2>3. Append(q, m) \in Seq({ Of(w, k) : k \in Classes })
    BY <2>2
  <2>4. ownQueue'[w] = Append(q, m) /\ \A v \in Windows \ {w} : ownQueue'[v] = ownQueue[v]
    BY <1>8, <2>1, TypesNow DEF OwnQueues
  <2> QED BY <1>7, <1>8, <2>3, <2>4
<1>9. ASSUME NEW t \in WindowTasks, w \in owns[t], userPort[w] = "shared", ownQueue' = ownQueue,
             sharedQueue' = [sharedQueue EXCEPT ![t] = Append(@, m)]
      PROVE  /\ \A u \in WindowTasks : SharedRight(u)'
             /\ \A v \in Windows \ {w} : ownQueue'[v] = ownQueue[v]
             /\ ownQueue'[w] \in Seq({ Of(w, k) : k \in Classes })
             /\ ownQueue'[w] # <<>> => ownQueue[w] # <<>> \/ userPort[w] = "own"
  <2>1. PICK q \in Seq(MsgType) : q = sharedQueue[t]
    BY TypesNow DEF SharedQueues
  <2>2. /\ sharedQueue'[t] = Append(q, m)
        /\ \A u \in WindowTasks \ {t} : sharedQueue'[u] = sharedQueue[u]
    BY <1>9, <2>1, TypesNow DEF SharedQueues
  <2>3. /\ Len(Append(q, m)) = Len(q) + 1 /\ Len(q) \in Nat
        /\ Append(q, m)[Len(q) + 1] = m
        /\ \A i \in 1 .. Len(q) : Append(q, m)[i] = q[i] /\ q[i] \in MsgType
    OBVIOUS
  <2>4. PICK n \in Nat : n = Len(q)
    BY <2>3
  <2>5. PICK r : r = Append(q, m)
    OBVIOUS
  <2>6. ASSUME NEW i \in 1 .. n + 1
        PROVE  /\ r[i].window \in owns'[t] /\ userPort'[r[i].window] = "shared"
               /\ ~Works(t, r[i].window, {"cleared"})'
    <3>1. CASE i = n + 1
      <4>1. r[i].window = w
        BY <1>2, <2>3, <2>4, <2>5, <3>1
      <4> QED BY <1>9, <4>1
    <3>2. CASE i # n + 1
      <4>1. i \in 1 .. n
        BY <3>2
      <4>2. r[i] = q[i] /\ q[i] \in MsgType
        BY <2>3, <2>4, <2>5, <4>1
      <4>3. q[i].window \in Windows
        BY <4>2 DEF MsgType
      <4>4. /\ q[i].window \in owns[t] /\ userPort[q[i].window] = "shared"
            /\ ~Works(t, q[i].window, {"cleared"})
        BY <1>5, <2>1, <2>4, <4>1 DEF SharedRight
      <4> QED BY <1>6, <4>2, <4>3, <4>4
    <3> QED BY <3>1, <3>2
  <2>7. sharedQueue'[t] = r /\ Len(r) = n + 1
    BY <2>2, <2>3, <2>4, <2>5
  <2>8. SharedRight(t)'
    BY <2>6, <2>7 DEF SharedRight
  <2>9. \A u \in WindowTasks : SharedRight(u)'
    BY <1>7, <2>2, <2>8
  <2>10. ownQueue'[w] \in Seq({ Of(w, k) : k \in Classes })
    BY <1>4, <1>9 DEF QueueRight
  <2> QED BY <1>9, <2>9, <2>10
<1> QED BY <1>3, <1>8, <1>9

\* Who posts to a window and who takes its ports away.
LEMMA PosterAlone ==
  ASSUME Messages, NEW w \in Windows, windowPort[w]
  PROVE  /\ w \in linked /\ "reply" \in ports[w]
         /\ \A u \in WindowTasks : ~Works(u, w, Detached \ {"detach"})
         /\ ~Removes(w, {"flushreply", "flushuser"}) /\ ~Removes(w, {"flushuser"})
         /\ ~Removes(w, {"flushreply"})
<1>1. PortsRight(w) /\ \A u \in WindowTasks : WorkRight(u, w)
  BY DEF Messages
<1>2. \A u \in WindowTasks : ~Works(u, w, Detached \ {"detach"})
  BY <1>1 DEF WorkRight
<1>3. w \in linked /\ "reply" \in ports[w]
  BY <1>1 DEF PortsRight
<1> QED BY <1>2, <1>3 DEF Removes, Works, Detached

\* The mouse move that was put is counted.
LEMMA PostCountStep ==
  ASSUME IdcmpTypes, IdcmpTypes', Messages, NEW t \in WindowTasks, NEW w \in Windows,
         PostCount(t, w)
  PROVE  Messages' /\ messageMem' <= MaxMessages
<1>1. /\ doing[t].at = "count" /\ doing[t].window = {w}
      /\ UNCHANGED <<owns, linked, userPort, windowPort, ports, ownQueue, sharedQueue, held,
                     replied, messageMem>>
  BY DEF PostCount, Works
<1>2. /\ pending'[w] = pending[w] + 1 /\ \A v \in Windows \ {w} : pending'[v] = pending[v]
      /\ pending[w] \in Nat
  BY DEF PostCount, IdcmpTypes
<1>3. /\ \A u \in WindowTasks : WorkRight(u, w)
      /\ PortsRight(w) /\ QueueRight(w) /\ MovesRight(w)
  BY DEF Messages
<1>4. /\ windowPort[w] /\ doing[t].then \in {"program", "poll"} /\ doing[t].class = "move"
  <2>1. doing[t].then \in {"program", "poll", "closed"}
    BY TypesNow DEF DoingType
  <2> QED BY <1>1, <1>3, <2>1 DEF WorkRight, Works, Posting
<1>5. /\ doing'[t].at = doing[t].then /\ doing'[t].window = {}
      /\ \A u \in WindowTasks \ {t} : doing'[u] = doing[u]
  BY TypesNow DEF PostCount, Running
<1>6. \A v \in Windows, c \in Classes :
         Unanswered(v, c)' = Unanswered(v, c) /\ Outstanding(v, c)' = Outstanding(v, c)
  BY <1>1, NothingMoves DEF Outstanding
<1>7. \A v \in Windows \ {w} : Untouched(v)
  BY <1>1, <1>2, <1>5, <1>6, OthersUntouched
<1>8. OwnersRight' /\ AtRight(t)'
  BY <1>1, <1>4, <1>5 DEF OwnersRight, AtRight, Messages
<1>9. \A places : ~Works(t, w, places)'
  BY <1>5 DEF Works
<1>10. \A u \in WindowTasks \ {t} : \A places : Works(u, w, places)' <=> Works(u, w, places)
  BY <1>5 DEF Works
<1>11. \A u \in WindowTasks : ~Works(u, w, Detached \ {"detach"})
  BY <1>4, PosterAlone
<1>12. \A u \in WindowTasks : WorkRight(u, w)'
  <2> SUFFICES ASSUME NEW u \in WindowTasks PROVE WorkRight(u, w)'
    OBVIOUS
  <2>1. CASE u = t
    BY <1>9, <2>1 DEF WorkRight
  <2>2. CASE u # t
    BY <1>1, <1>3, <1>5, <1>10, <1>11, <2>2 DEF WorkRight
  <2> QED BY <2>1, <2>2
<1>13. \A places \in SUBSET Removal : Removes(w, places)' <=> Removes(w, places)
  BY <1>1, <1>9, <1>10 DEF Removes, Works, Removal, Detached
<1>14. /\ Removes(w, {"flushreply"})' <=> Removes(w, {"flushreply"})
       /\ Removes(w, {"flushuser"})' <=> Removes(w, {"flushuser"})
       /\ Removes(w, {"detach", "flushreply", "flushuser"})'
            <=> Removes(w, {"detach", "flushreply", "flushuser"})
  BY <1>13 DEF Removal, Detached
<1>15. PortsRight(w)'
  BY <1>1, <1>3, <1>14 DEF PortsRight
<1>16. QueueRight(w)'
  BY <1>1, <1>3, <1>6, <1>14 DEF QueueRight
<1>17. MovesRight(w)'
  <2>1. ~Removes(w, {"flushreply", "flushuser"})
    BY <1>4, PosterAlone
  <2>2. /\ pending[w] + Posts(w, {"count"}) = Outstanding(w, "move")
        /\ pending[w] + Movers(w) <= MouseQueue + Cardinality(WindowTasks)
    BY <1>3, <2>1 DEF MovesRight
  <2>3. /\ Works(t, w, {"count"}) /\ ~Works(t, w, {"count"})'
        /\ Moving(t, w) /\ ~Moving(t, w)'
    BY <1>1, <1>4, <1>9 DEF Works, Moving, Posting
  <2>4. /\ Posts(w, {"count"}) \in Nat /\ Movers(w) \in Nat
        /\ Posts(w, {"count"})' \in Nat /\ Movers(w)' \in Nat
        /\ Posts(w, {"count"})' + 1 = Posts(w, {"count"}) /\ Movers(w)' + 1 = Movers(w)
        /\ Cardinality(WindowTasks) \in Nat
    BY <1>5, <2>3, TaskCounts
  <2>5. Outstanding(w, "move")' = Outstanding(w, "move")
    BY <1>6 DEF Classes
  <2>6. pending'[w] + Posts(w, {"count"})' = Outstanding(w, "move")'
    BY <1>2, <2>2, <2>4, <2>5
  <2>7. pending'[w] + Movers(w)' <= MouseQueue + Cardinality(WindowTasks)
    BY <1>2, <2>2, <2>4, MouseQueueAssumption
  <2> QED BY <1>5, <1>12, <2>6, <2>7, MovesKept
<1>18. WindowRight(w)'
  BY <1>12, <1>15, <1>16, <1>17 DEF WindowRight
<1>19. \A u \in WindowTasks : SharedRight(u)'
  <2> SUFFICES ASSUME NEW u \in WindowTasks PROVE SharedRight(u)'
    OBVIOUS
  <2>1. SharedRight(u)
    BY DEF Messages
  <2>2. \A v \in Windows : Works(u, v, {"cleared"})' => Works(u, v, {"cleared"})
    BY <1>5 DEF Works
  <2> QED BY <1>1, <2>1, <2>2, SharedKept
<1>20. ~IsAt(t, "put") /\ ~IsAt(t, "put")'
  BY <1>1, <1>4, <1>5 DEF IsAt
<1>21. messageMem' + Outstanding(w, "move")' + Outstanding(w, "other")'
             + (IF IsAt(t, "put")' THEN 1 ELSE 0)
           = messageMem + Outstanding(w, "move") + Outstanding(w, "other")
             + (IF IsAt(t, "put") THEN 1 ELSE 0)
  BY <1>1, <1>6, <1>20 DEF Classes
<1> QED BY <1>5, <1>7, <1>8, <1>18, <1>19, <1>21, StepDone

\* Nobody else is between ClearMsgPort() and the end of ModifyIDCMP() when a program runs.
LEMMA NotCleared ==
  ASSUME Messages, NEW t \in WindowTasks, NotForbidden(t), doing[t].at # "cleared"
  PROVE  \A u \in WindowTasks, v \in Windows : ~Works(u, v, {"cleared"})
<1> SUFFICES ASSUME NEW u \in WindowTasks, NEW v \in Windows, Works(u, v, {"cleared"})
             PROVE  FALSE
  OBVIOUS
<1>1. WorkRight(u, v)
  BY DEF Messages
<1>2. doing[u].forbid /\ u # t
  BY <1>1 DEF WorkRight, Works
<1> QED BY <1>2 DEF NotForbidden

\* PutMsg(): the message goes from the program that filled it in to its port.
LEMMA PostPutStep ==
  ASSUME IdcmpTypes, IdcmpTypes', Messages, NEW t \in WindowTasks, NEW w \in Windows,
         PostPut(t, w), NotForbidden(t)
  PROVE  Messages' /\ messageMem' <= MaxMessages
<1>1. /\ doing[t].at = "put" /\ doing[t].window = {w}
      /\ UNCHANGED <<owns, linked, userPort, windowPort, ports, pending, held, replied, messageMem>>
  BY DEF PostPut, Works
<1>2. PICK c \in Classes : c = doing[t].class
  BY TypesNow DEF DoingType
<1>3. Put(w, c)
  BY <1>2 DEF PostPut
<1>4. /\ \A u \in WindowTasks : WorkRight(u, w)
      /\ PortsRight(w) /\ QueueRight(w) /\ MovesRight(w)
  BY DEF Messages
<1>5. /\ windowPort[w] /\ userPort[w] # "none" /\ w \in linked
      /\ doing[t].then \in {"program", "poll"}
  <2>1. doing[t].then \in {"program", "poll", "closed"}
    BY TypesNow DEF DoingType
  <2> QED BY <1>1, <1>4, <2>1 DEF WorkRight, Works, Posting
<1>6. /\ \A u \in WindowTasks \ {t} : doing'[u] = doing[u]
      /\ \/ /\ c = "move" /\ doing'[t].at = "count" /\ doing'[t].window = {w}
            /\ doing'[t].class = c /\ doing'[t].then = doing[t].then
         \/ /\ c = "other" /\ doing'[t].at = doing[t].then /\ doing'[t].window = {}
  <2>1. PICK d \in DoingType : d = doing[t]
    BY TypesNow
  <2>2. PICK e : e = IF d.class = "move" THEN [d EXCEPT !.at = "count"]
                     ELSE [Running EXCEPT !.at = d.then]
    OBVIOUS
  <2>3. doing' = [doing EXCEPT ![t] = e]
    BY <2>1, <2>2 DEF PostPut
  <2>4. doing'[t] = e /\ \A u \in WindowTasks \ {t} : doing'[u] = doing[u]
    BY <2>3, TypesNow
  <2>5. CASE c = "move"
    <3>1. e = [d EXCEPT !.at = "count"]
      BY <1>2, <2>1, <2>2, <2>5
    <3>2. /\ e.at = "count" /\ e.window = d.window /\ e.class = d.class /\ e.then = d.then
      BY <3>1 DEF DoingType
    <3> QED BY <1>1, <1>2, <2>1, <2>4, <2>5, <3>2
  <2>6. CASE c = "other"
    <3>1. e = [Running EXCEPT !.at = d.then]
      BY <1>2, <2>1, <2>2, <2>6
    <3>2. e.at = d.then /\ e.window = {}
      BY <3>1 DEF Running
    <3> QED BY <2>1, <2>4, <2>6, <3>2
  <2> QED BY <2>5, <2>6, <2>4 DEF Classes
<1>7. \A v \in Windows, k \in Classes :
         Unanswered(v, k)' = Unanswered(v, k) + IF v = w /\ k = c THEN 1 ELSE 0
  BY <1>1, <1>3, <1>5, PutCounts DEF Messages
<1>8. \A v \in Windows, k \in Classes :
         /\ Unanswered(v, k) \in Nat /\ Outstanding(v, k) \in Nat
         /\ Outstanding(v, k)' = Outstanding(v, k) + IF v = w /\ k = c THEN 1 ELSE 0
         /\ v # w => Unanswered(v, k)' = Unanswered(v, k)
  <2> SUFFICES ASSUME NEW v \in Windows, NEW k \in Classes
               PROVE  /\ Unanswered(v, k) \in Nat /\ Outstanding(v, k) \in Nat
                      /\ Outstanding(v, k)' = Outstanding(v, k) + IF v = w /\ k = c THEN 1 ELSE 0
                      /\ v # w => Unanswered(v, k)' = Unanswered(v, k)
    OBVIOUS
  <2>1. /\ Outstanding(v, k) = Unanswered(v, k) + replied[v][k]
        /\ Unanswered(v, k) \in Nat /\ replied[v][k] \in Nat
    BY CountsNow
  <2>2. Outstanding(v, k)' = Unanswered(v, k)' + replied[v][k]
    BY <1>1, CountsThen
  <2> QED BY <1>7, <2>1, <2>2
<1>9. /\ \A u \in WindowTasks : SharedRight(u)'
      /\ \A v \in Windows \ {w} : ownQueue'[v] = ownQueue[v]
      /\ ownQueue'[w] \in Seq({ Of(w, k) : k \in Classes })
      /\ ownQueue'[w] # <<>> => ownQueue[w] # <<>> \/ userPort[w] = "own"
  <2>1. \A u \in WindowTasks, v \in Windows : ~Works(u, v, {"cleared"})
    BY <1>1, NotCleared
  <2>2. \A u \in WindowTasks, v \in Windows : Works(u, v, {"cleared"})' => Works(u, v, {"cleared"})
    BY <1>5, <1>6 DEF Works
  <2> QED BY <1>1, <1>3, <1>5, <2>1, <2>2, PutPlaces
<1>10. \A v \in Windows \ {w} : Untouched(v)
  BY <1>1, <1>6, <1>8, <1>9, OthersUntouched
<1>11. OwnersRight' /\ AtRight(t)'
  BY <1>1, <1>5, <1>6 DEF OwnersRight, AtRight, Messages
<1>12. \A u \in WindowTasks \ {t} : \A places : Works(u, w, places)' <=> Works(u, w, places)
  BY <1>6 DEF Works
<1>13. \A u \in WindowTasks : ~Works(u, w, Detached \ {"detach"})
  BY <1>5, PosterAlone
<1>14. \A u \in WindowTasks : WorkRight(u, w)'
  <2> SUFFICES ASSUME NEW u \in WindowTasks PROVE WorkRight(u, w)'
    OBVIOUS
  <2>1. CASE u = t
    <3>1. /\ ~Works(t, w, Removal)' /\ ~Works(t, w, {"cleared"})'
          /\ ~Works(t, w, {"modify", "close"})' /\ ~Works(t, w, Detached)'
      BY <1>5, <1>6 DEF Works, Removal, Detached
    <3>2. ~Works(t, w, Detached \ {"detach"})'
      BY <3>1 DEF Works
    <3>3. Works(t, w, {"count"})' => doing'[t].class = "move"
      BY <1>5, <1>6 DEF Works
    <3>4. Works(t, w, Posting)' => doing'[t].then # "closed"
      BY <1>5, <1>6 DEF Works, Posting
    <3> QED BY <1>1, <1>5, <2>1, <3>1, <3>2, <3>3, <3>4 DEF WorkRight
  <2>2. CASE u # t
    BY <1>1, <1>4, <1>6, <1>12, <1>13, <2>2 DEF WorkRight
  <2> QED BY <2>1, <2>2
<1>15. /\ Removes(w, {"flushreply"})' <=> Removes(w, {"flushreply"})
       /\ Removes(w, {"flushuser"})' <=> Removes(w, {"flushuser"})
       /\ Removes(w, {"detach", "flushreply", "flushuser"})'
            <=> Removes(w, {"detach", "flushreply", "flushuser"})
  <2>1. ~Works(t, w, Removal) /\ ~Works(t, w, Removal)'
    BY <1>1, <1>5, <1>6 DEF Works, Removal, Detached
  <2> QED BY <1>12, <2>1 DEF Removes, Works, Removal, Detached
<1>16. PortsRight(w)'
  BY <1>1, <1>4, <1>15 DEF PortsRight
<1>17. QueueRight(w)'
  <2>1. "reply" \in ports[w]
    BY <1>5, PosterAlone
  <2>2. userPort[w] = "own" => "user" \in ports[w]
    BY <1>4 DEF PortsRight
  <2>3. ownQueue'[w] # <<>> => /\ "user" \in ports[w]
                               /\ userPort[w] = "own" \/ Removes(w, {"detach", "flushreply", "flushuser"})
    BY <1>4, <1>9, <2>2 DEF QueueRight
  <2> QED BY <1>1, <1>5, <1>9, <1>15, <2>1, <2>3 DEF QueueRight
<1>18. MovesRight(w)'
  <2>1. ~Removes(w, {"flushreply", "flushuser"})
    BY <1>5, PosterAlone
  <2>2. /\ pending[w] + Posts(w, {"count"}) = Outstanding(w, "move")
        /\ pending[w] + Movers(w) <= MouseQueue + Cardinality(WindowTasks)
    BY <1>4, <2>1 DEF MovesRight
  <2>3. /\ ~Works(t, w, {"count"}) /\ (Works(t, w, {"count"})' <=> c = "move")
        /\ Moving(t, w) <=> c = "move"
        /\ Moving(t, w)' <=> c = "move"
    BY <1>1, <1>2, <1>5, <1>6 DEF Works, Moving, Posting
  <2>4. /\ Posts(w, {"count"}) \in Nat /\ Movers(w) \in Nat
        /\ Posts(w, {"count"})' \in Nat /\ Movers(w)' \in Nat
        /\ Posts(w, {"count"})' = Posts(w, {"count"}) + IF c = "move" THEN 1 ELSE 0
        /\ Movers(w)' = Movers(w)
    BY <1>6, <2>3, TaskCounts
  <2>5. /\ Outstanding(w, "move")' = Outstanding(w, "move") + IF c = "move" THEN 1 ELSE 0
        /\ Outstanding(w, "move") \in Nat
    BY <1>8 DEF Classes
  <2>6. pending[w] \in Nat
    BY TypesNow
  <2>7. pending'[w] + Posts(w, {"count"})' = Outstanding(w, "move")'
    BY <1>1, <2>2, <2>4, <2>5, <2>6
  <2>8. pending'[w] + Movers(w)' <= MouseQueue + Cardinality(WindowTasks)
    BY <1>1, <2>2, <2>4
  <2> QED BY <1>6, <1>14, <2>7, <2>8, MovesKept
<1>19. WindowRight(w)'
  BY <1>14, <1>16, <1>17, <1>18 DEF WindowRight
<1>20. messageMem' + Outstanding(w, "move")' + Outstanding(w, "other")'
             + (IF IsAt(t, "put")' THEN 1 ELSE 0)
           = messageMem + Outstanding(w, "move") + Outstanding(w, "other")
             + (IF IsAt(t, "put") THEN 1 ELSE 0)
  <2>1. IsAt(t, "put") /\ ~IsAt(t, "put")'
    BY <1>1, <1>5, <1>6 DEF IsAt
  <2>2. /\ Outstanding(w, "move")' = Outstanding(w, "move") + IF c = "move" THEN 1 ELSE 0
        /\ Outstanding(w, "other")' = Outstanding(w, "other") + IF c = "other" THEN 1 ELSE 0
        /\ Outstanding(w, "move") \in Nat /\ Outstanding(w, "other") \in Nat
    BY <1>8 DEF Classes
  <2>3. messageMem' = messageMem /\ messageMem \in Nat
    BY <1>1, TypesNow
  <2>4. (c = "move" /\ c # "other") \/ (c = "other" /\ c # "move")
    BY <1>2 DEF Classes
  <2> QED BY <2>1, <2>2, <2>3, <2>4
<1> QED BY <1>6, <1>9, <1>10, <1>11, <1>19, <1>20, StepDone

-----------------------------------------------------------------------------

\* The replies that are collected were not free.
LEMMA ReapBound ==
  ASSUME IdcmpTypes, Messages, NEW w \in Windows
  PROVE  MemAfterReap(w) <= MaxMessages
<1>1. "move" \in Classes /\ "other" \in Classes
  BY DEF Classes
<1>2. \A v \in Windows : Outstanding(v, "move") \in Nat /\ Outstanding(v, "other") \in Nat
  BY <1>1, CountsNow
<1>3. PICK f : f = Existing
  OBVIOUS
<1>4. f \in [Windows -> Nat] /\ f[w] = Outstanding(w, "move") + Outstanding(w, "other")
  BY <1>2, <1>3 DEF Existing
<1>5. SumFunction(f) \in Nat /\ f[w] <= SumFunction(f)
  BY <1>4, WindowsAssumption, SumBounds
<1>6. /\ replied[w]["move"] <= Outstanding(w, "move") /\ replied[w]["move"] \in Nat
      /\ replied[w]["other"] <= Outstanding(w, "other") /\ replied[w]["other"] \in Nat
  BY <1>1, CountsNow
<1>7. Cardinality(Putters) \in Nat
  <2>1. Putters \subseteq WindowTasks
    BY DEF Putters
  <2> QED BY <2>1, WindowsAssumption, FS_Subset, FS_CardinalityType
<1>8. messageMem + Cardinality(Putters) + SumFunction(f) = MaxMessages
  BY <1>3 DEF Messages, Conserved
<1>9. MemAfterReap(w) = messageMem + replied[w]["move"] + replied[w]["other"] /\ messageMem \in Nat
  BY ReapTypes, TypesNow
<1> QED BY <1>2, <1>4, <1>5, <1>6, <1>7, <1>8, <1>9

\* Collecting the replies takes the mouse moves among them off the count, when
\* they are on it.
LEMMA Reaped ==
  ASSUME IdcmpTypes, Messages, NEW w \in Windows, windowPort[w], ~Miscounts(w)
  PROVE  /\ PendingAfterReap(w) + Posts(w, {"count"}) = Unanswered(w, "move")
         /\ PendingAfterReap(w) <= pending[w] /\ PendingAfterReap(w) \in Nat
         /\ Posts(w, {"count"}) \in Nat
         /\ pending[w] + Movers(w) <= MouseQueue + Cardinality(WindowTasks)
<1>1. ~Removes(w, {"flushreply", "flushuser"})
  BY PosterAlone
<1>2. /\ pending[w] + Posts(w, {"count"}) = Outstanding(w, "move")
      /\ pending[w] + Movers(w) <= MouseQueue + Cardinality(WindowTasks)
  BY <1>1 DEF Messages, MovesRight
<1>3. /\ Outstanding(w, "move") = Unanswered(w, "move") + replied[w]["move"]
      /\ Unanswered(w, "move") \in Nat /\ replied[w]["move"] \in Nat
  BY CountsNow DEF Classes
<1>4. Posts(w, {"count"}) \in Nat
  <2>1. { t \in WindowTasks : Works(t, w, {"count"}) } \subseteq WindowTasks
    OBVIOUS
  <2> QED BY <2>1, WindowsAssumption, FS_Subset, FS_CardinalityType DEF Posts
<1>5. pending[w] \in Nat
  BY TypesNow
<1>6. CASE replied[w]["move"] > 0
  <2>1. { t \in WindowTasks : Works(t, w, {"count"}) } = {}
    BY <1>6 DEF Miscounts
  <2>2. Posts(w, {"count"}) = 0
    BY <2>1, FS_EmptySet DEF Posts
  <2> QED BY <1>2, <1>3, <1>5, <2>2 DEF PendingAfterReap, Less
<1>7. CASE replied[w]["move"] = 0
  BY <1>2, <1>3, <1>4, <1>5, <1>7 DEF PendingAfterReap, Less
<1> QED BY <1>3, <1>6, <1>7

\* The memory of the replies that are collected is free.
LEMMA ReapConserves ==
  ASSUME IdcmpTypes, IdcmpTypes', NEW t \in WindowTasks, NEW w \in Windows,
         replied'[w] = NoMessages,
         messageMem' + Unanswered(w, "move")' + Unanswered(w, "other")'
             + (IF IsAt(t, "put")' THEN 1 ELSE 0)
           = MemAfterReap(w) + Unanswered(w, "move") + Unanswered(w, "other")
             + (IF IsAt(t, "put") THEN 1 ELSE 0)
  PROVE  messageMem' + Outstanding(w, "move")' + Outstanding(w, "other")'
             + (IF IsAt(t, "put")' THEN 1 ELSE 0)
           = messageMem + Outstanding(w, "move") + Outstanding(w, "other")
             + (IF IsAt(t, "put") THEN 1 ELSE 0)
<1>a. "move" \in Classes /\ "other" \in Classes /\ \A k \in Classes : NoMessages[k] = 0
  BY DEF Classes, NoMessages
<1>b. ASSUME NEW k \in Classes
      PROVE  /\ Outstanding(w, k)' = Unanswered(w, k)'
             /\ Outstanding(w, k) = Unanswered(w, k) + replied[w][k]
             /\ Unanswered(w, k) \in Nat /\ Unanswered(w, k)' \in Nat /\ replied[w][k] \in Nat
  BY <1>a, CountsNow, CountsThen
<1>0. messageMem \in Nat /\ messageMem' \in Nat
  BY DEF IdcmpTypes
<1>1. MemAfterReap(w) = messageMem + replied[w]["move"] + replied[w]["other"]
  BY ReapTypes
<1>2. /\ Outstanding(w, "move")' = Unanswered(w, "move")'
      /\ Outstanding(w, "other")' = Unanswered(w, "other")'
      /\ Outstanding(w, "move") = Unanswered(w, "move") + replied[w]["move"]
      /\ Outstanding(w, "other") = Unanswered(w, "other") + replied[w]["other"]
      /\ Unanswered(w, "move") \in Nat /\ Unanswered(w, "other") \in Nat
      /\ Unanswered(w, "move")' \in Nat /\ Unanswered(w, "other")' \in Nat
      /\ replied[w]["move"] \in Nat /\ replied[w]["other"] \in Nat
  BY <1>a, <1>b
<1>3. PICK x \in Nat : x = IF IsAt(t, "put")' THEN 1 ELSE 0
  OBVIOUS
<1>4. PICK y \in Nat : y = IF IsAt(t, "put") THEN 1 ELSE 0
  OBVIOUS
<1>5. messageMem' + Unanswered(w, "move")' + Unanswered(w, "other")' + x
        = MemAfterReap(w) + Unanswered(w, "move") + Unanswered(w, "other") + y
  BY <1>3, <1>4
<1>6. messageMem' + Outstanding(w, "move")' + Outstanding(w, "other")' + x
        = messageMem + Outstanding(w, "move") + Outstanding(w, "other") + y
  <2>1. messageMem' + Unanswered(w, "move")' + Unanswered(w, "other")' + x
          = (messageMem + replied[w]["move"] + replied[w]["other"])
            + Unanswered(w, "move") + Unanswered(w, "other") + y
    BY <1>1, <1>5
  <2>2. messageMem + (Unanswered(w, "move") + replied[w]["move"])
          + (Unanswered(w, "other") + replied[w]["other"]) + y
        = (messageMem + replied[w]["move"] + replied[w]["other"])
          + Unanswered(w, "move") + Unanswered(w, "other") + y
    BY <1>0, <1>2
  <2> QED BY <1>2, <2>1, <2>2
<1> QED BY <1>3, <1>4, <1>6

\* What a step leaves to be shown that collects the replies of a window and may
\* post a message to it, at once or later.
LEMMA ReapStep ==
  ASSUME IdcmpTypes, IdcmpTypes', Messages, NEW t \in WindowTasks, NEW w \in Windows,
         userPort[w] # "none", windowPort[w],
         \A u \in WindowTasks \ {t} : doing'[u] = doing[u],
         doing[t].window \subseteq {w} \/ doing'[t] = doing[t],
         doing'[t].window \subseteq {w} \/ doing'[t] = doing[t],
         UNCHANGED <<owns, linked, userPort, windowPort, ports, held>>,
         replied' = [replied EXCEPT ![w] = NoMessages],
         \A v \in Windows \ {w} : pending'[v] = pending[v] /\ ownQueue'[v] = ownQueue[v],
         \A v \in Windows \ {w} : \A k \in Classes : Unanswered(v, k)' = Unanswered(v, k),
         \A u \in WindowTasks : WorkRight(u, w)',
         \A u \in WindowTasks : SharedRight(u)',
         \A places \in SUBSET Removal : Removes(w, places)' <=> Removes(w, places),
         AtRight(t)',
         ownQueue'[w] \in Seq({ Of(w, k) : k \in Classes }),
         ownQueue'[w] # <<>> => ownQueue[w] # <<>> \/ userPort[w] = "own",
         pending'[w] + Posts(w, {"count"})' = Unanswered(w, "move")',
         pending'[w] + Movers(w)' <= MouseQueue + Cardinality(WindowTasks),
         messageMem' + Unanswered(w, "move")' + Unanswered(w, "other")'
             + (IF IsAt(t, "put")' THEN 1 ELSE 0)
           = MemAfterReap(w) + Unanswered(w, "move") + Unanswered(w, "other")
             + (IF IsAt(t, "put") THEN 1 ELSE 0)
  PROVE  Messages' /\ messageMem' <= MaxMessages
<1>1. /\ replied'[w] = NoMessages /\ \A v \in Windows \ {w} : replied'[v] = replied[v]
  BY TypesNow DEF Counts
<1>2. "move" \in Classes /\ "other" \in Classes /\ \A k \in Classes : NoMessages[k] = 0
  BY DEF Classes, NoMessages
<1>3. ASSUME NEW k \in Classes
      PROVE  /\ Outstanding(w, k)' = Unanswered(w, k)'
             /\ Outstanding(w, k) = Unanswered(w, k) + replied[w][k]
             /\ Unanswered(w, k) \in Nat /\ Unanswered(w, k)' \in Nat /\ replied[w][k] \in Nat
  BY <1>1, <1>2, CountsNow, CountsThen
<1>4. \A v \in Windows \ {w} : Untouched(v)
  <2> SUFFICES ASSUME NEW v \in Windows \ {w} PROVE Untouched(v)
    OBVIOUS
  <2> QED BY <1>1 DEF Untouched
<1>5. OwnersRight'
  BY DEF OwnersRight, Messages
<1>6. PortsRight(w) /\ QueueRight(w)
  BY DEF Messages
<1>7. "flushreply" \in Removal /\ "flushuser" \in Removal /\ "detach" \in Removal
  BY DEF Removal, Detached
<1>8. PortsRight(w)'
  BY <1>6, <1>7 DEF PortsRight
<1>9. QueueRight(w)'
  <2>1. "reply" \in ports[w]
    BY PosterAlone
  <2>2. userPort[w] = "own" => "user" \in ports[w]
    BY <1>6 DEF PortsRight
  <2>3. ownQueue'[w] # <<>> => /\ "user" \in ports[w]
                               /\ userPort[w] = "own" \/ Removes(w, {"detach", "flushreply", "flushuser"})
    BY <1>6, <2>2 DEF QueueRight
  <2>4. Removes(w, {"detach", "flushreply", "flushuser"})'
           <=> Removes(w, {"detach", "flushreply", "flushuser"})
    BY <1>7
  <2> QED BY <2>1, <2>3, <2>4 DEF QueueRight
<1>10. MovesRight(w)'
  <2>1. pending'[w] + Posts(w, {"count"})' = Outstanding(w, "move")'
    BY <1>2, <1>3
  <2> QED BY <2>1, MovesKept
<1>11. WindowRight(w)'
  BY <1>8, <1>9, <1>10 DEF WindowRight
<1>12. messageMem' + Outstanding(w, "move")' + Outstanding(w, "other")'
             + (IF IsAt(t, "put")' THEN 1 ELSE 0)
           = messageMem + Outstanding(w, "move") + Outstanding(w, "other")
             + (IF IsAt(t, "put") THEN 1 ELSE 0)
  BY <1>1, ReapConserves
<1> QED BY <1>4, <1>5, <1>11, <1>12, StepDone

\* The event loop of the VBlank interrupt posts to a window.
LEMMA VBlankStep ==
  ASSUME IdcmpTypes, IdcmpTypes', Messages, NEW w \in Windows, NEW c \in Classes,
         VBlankInputHook(w, c), ~overtaken'
  PROVE  Messages' /\ messageMem' <= MaxMessages
<1>1. /\ w \in linked /\ userPort[w] # "none" /\ windowPort[w]
      /\ c = "move" => pending[w] < MouseQueue
      /\ ~Miscounts(w) /\ ~Strays(w)
      /\ replied' = [replied EXCEPT ![w] = NoMessages]
      /\ UNCHANGED <<owns, linked, userPort, windowPort, ports, held, doing>>
  BY DEF VBlankInputHook, CanPost
<1>2. PICK t \in WindowTasks : w \in owns[t]
  BY <1>1 DEF Messages, OwnersRight
<1>3. /\ PendingAfterReap(w) + Posts(w, {"count"}) = Unanswered(w, "move")
      /\ PendingAfterReap(w) <= pending[w] /\ PendingAfterReap(w) \in Nat
      /\ Posts(w, {"count"}) \in Nat
      /\ pending[w] + Movers(w) <= MouseQueue + Cardinality(WindowTasks)
  BY <1>1, Reaped
<1>4. MemAfterReap(w) \in Nat /\ pending[w] \in Nat
  BY ReapTypes, TypesNow
<1>5. /\ Movers(w) \in Nat /\ Movers(w) <= Cardinality(WindowTasks)
      /\ Cardinality(WindowTasks) \in Nat
  BY <1>1, TaskCounts
<1>6. /\ Posts(w, {"count"})' = Posts(w, {"count"}) /\ Movers(w)' = Movers(w)
  BY <1>1 DEF Posts, Movers, Works
<1>7. \A u \in WindowTasks, v \in Windows : \A places : Works(u, v, places)' <=> Works(u, v, places)
  BY <1>1 DEF Works
<1>8. \A places \in SUBSET Removal : Removes(w, places)' <=> Removes(w, places)
  BY <1>7 DEF Removes
<1>9. AtRight(t)'
  BY <1>1 DEF AtRight, Messages
<1>10. \A u \in WindowTasks : WorkRight(u, w)'
  <2> SUFFICES ASSUME NEW u \in WindowTasks PROVE WorkRight(u, w)'
    OBVIOUS
  <2>1. WorkRight(u, w)
    BY DEF Messages
  <2>2. ~Works(u, w, Detached \ {"detach"})
    BY <1>1, PosterAlone
  <2> QED BY <1>1, <1>7, <2>1, <2>2 DEF WorkRight
<1>11. "move" \in Classes /\ "other" \in Classes
  BY DEF Classes
<1>12. \A v \in Windows, k \in Classes : Unanswered(v, k) \in Nat
  BY CountsNow
<1>13. IsAt(t, "put")' <=> IsAt(t, "put")
  BY <1>1 DEF IsAt
<1>14. CASE MemAfterReap(w) > 0
  <2>1. /\ Put(w, c) /\ messageMem' = MemAfterReap(w) - 1
        /\ pending' = [pending EXCEPT ![w] = PendingAfterReap(w) + IF c = "move" THEN 1 ELSE 0]
    BY <1>14 DEF VBlankInputHook
  <2>2. /\ pending'[w] = PendingAfterReap(w) + (IF c = "move" THEN 1 ELSE 0)
        /\ \A v \in Windows \ {w} : pending'[v] = pending[v]
    BY <2>1, TypesNow
  <2>3. \A v \in Windows, k \in Classes :
           Unanswered(v, k)' = Unanswered(v, k) + IF v = w /\ k = c THEN 1 ELSE 0
    BY <1>1, <2>1, PutCounts DEF Messages
  <2>4. /\ \A u \in WindowTasks : SharedRight(u)'
        /\ \A v \in Windows \ {w} : ownQueue'[v] = ownQueue[v]
        /\ ownQueue'[w] \in Seq({ Of(w, k) : k \in Classes })
        /\ ownQueue'[w] # <<>> => ownQueue[w] # <<>> \/ userPort[w] = "own"
    <3>1. userPort[w] = "shared" => \A u \in WindowTasks : ~Works(u, w, {"cleared"})
      BY <1>1 DEF Strays
    <3> QED BY <1>1, <1>7, <2>1, <3>1, PutPlaces
  <2>5. \A v \in Windows \ {w} : \A k \in Classes : Unanswered(v, k)' = Unanswered(v, k)
    BY <1>12, <2>3
  <2>6. /\ Unanswered(w, "move")' = Unanswered(w, "move") + (IF c = "move" THEN 1 ELSE 0)
        /\ Unanswered(w, "other")' = Unanswered(w, "other") + (IF c = "move" THEN 0 ELSE 1)
        /\ Unanswered(w, "move") \in Nat /\ Unanswered(w, "other") \in Nat
    BY <1>11, <1>12, <2>3 DEF Classes
  <2>7. pending'[w] + Posts(w, {"count"})' = Unanswered(w, "move")'
    BY <1>3, <1>6, <2>2, <2>6
  <2>8. pending'[w] + Movers(w)' <= MouseQueue + Cardinality(WindowTasks)
    BY <1>1, <1>3, <1>4, <1>5, <1>6, <2>2, MouseQueueAssumption
  <2>9. messageMem' + Unanswered(w, "move")' + Unanswered(w, "other")'
             + (IF IsAt(t, "put")' THEN 1 ELSE 0)
           = MemAfterReap(w) + Unanswered(w, "move") + Unanswered(w, "other")
             + (IF IsAt(t, "put") THEN 1 ELSE 0)
    BY <1>4, <1>13, <2>1, <2>6
  <2>10. /\ \A v \in Windows \ {w} : pending'[v] = pending[v] /\ ownQueue'[v] = ownQueue[v]
         /\ \A u \in WindowTasks \ {t} : doing'[u] = doing[u]
         /\ doing'[t] = doing[t]
    BY <1>1, <2>2, <2>4
  <2> QED BY <1>1, <1>8, <1>9, <1>10, <2>4, <2>5, <2>7, <2>8, <2>9, <2>10, ReapStep, Zenon
<1>15. CASE ~(MemAfterReap(w) > 0)
  <2>1. /\ messageMem' = MemAfterReap(w) /\ UNCHANGED <<ownQueue, sharedQueue>>
        /\ pending' = [pending EXCEPT ![w] = PendingAfterReap(w)]
    BY <1>15 DEF VBlankInputHook
  <2>2. /\ pending'[w] = PendingAfterReap(w)
        /\ \A v \in Windows \ {w} : pending'[v] = pending[v] /\ ownQueue'[v] = ownQueue[v]
    BY <2>1, TypesNow
  <2>3. \A v \in Windows, k \in Classes : Unanswered(v, k)' = Unanswered(v, k)
    BY <1>1, <2>1, NothingMoves
  <2>4. \A u \in WindowTasks : SharedRight(u)'
    BY <1>1, <2>1 DEF Messages, SharedRight, Works
  <2>5. /\ ownQueue'[w] \in Seq({ Of(w, k) : k \in Classes })
        /\ ownQueue'[w] # <<>> => ownQueue[w] # <<>> \/ userPort[w] = "own"
    BY <2>1 DEF Messages, QueueRight
  <2>6. pending'[w] + Posts(w, {"count"})' = Unanswered(w, "move")'
    BY <1>3, <1>6, <1>11, <2>2, <2>3
  <2>7. pending'[w] + Movers(w)' <= MouseQueue + Cardinality(WindowTasks)
    BY <1>3, <1>4, <1>5, <1>6, <2>2, MouseQueueAssumption
  <2>8. messageMem' + Unanswered(w, "move")' + Unanswered(w, "other")'
             + (IF IsAt(t, "put")' THEN 1 ELSE 0)
           = MemAfterReap(w) + Unanswered(w, "move") + Unanswered(w, "other")
             + (IF IsAt(t, "put") THEN 1 ELSE 0)
    BY <1>11, <1>13, <2>1, <2>3
  <2>9. /\ \A u \in WindowTasks \ {t} : doing'[u] = doing[u]
        /\ doing'[t] = doing[t]
        /\ \A v \in Windows \ {w} : \A k \in Classes : Unanswered(v, k)' = Unanswered(v, k)
    BY <1>1, <2>3
  <2> QED BY <1>1, <1>8, <1>9, <1>10, <2>2, <2>4, <2>5, <2>6, <2>7, <2>8, <2>9, ReapStep, Zenon
<1> QED BY <1>14, <1>15

\* A program collects the replies of a window and fills a message for it in.
LEMMA PostStep ==
  ASSUME IdcmpTypes, IdcmpTypes', Messages, NEW t \in WindowTasks, NEW w \in Windows,
         NEW c \in Classes, NEW then \in {"program", "poll"},
         doing[t].at \in {"program", "poll"}, Post(t, w, c, then), ~overtaken'
  PROVE  Messages' /\ messageMem' <= MaxMessages
<1>1. /\ w \in linked /\ userPort[w] # "none" /\ windowPort[w]
      /\ c = "move" => pending[w] < MouseQueue
      /\ ~Miscounts(w)
      /\ replied' = [replied EXCEPT ![w] = NoMessages]
      /\ pending' = [pending EXCEPT ![w] = PendingAfterReap(w)]
      /\ UNCHANGED <<owns, linked, userPort, windowPort, ports, ownQueue, sharedQueue, held>>
  BY DEF Post, CanPost
<1>2. /\ doing[t].window = {} /\ \A v, places : ~Works(t, v, places)
  BY AtNone
<1>3. /\ PendingAfterReap(w) + Posts(w, {"count"}) = Unanswered(w, "move")
      /\ PendingAfterReap(w) <= pending[w] /\ PendingAfterReap(w) \in Nat
      /\ Posts(w, {"count"}) \in Nat
      /\ pending[w] + Movers(w) <= MouseQueue + Cardinality(WindowTasks)
  BY <1>1, Reaped
<1>4. MemAfterReap(w) \in Nat /\ pending[w] \in Nat
  BY ReapTypes, TypesNow
<1>5. \/ /\ MemAfterReap(w) > 0 /\ messageMem' = MemAfterReap(w) - 1
         /\ doing'[t].at = "put" /\ doing'[t].window = {w} /\ doing'[t].class = c
         /\ doing'[t].then = then
      \/ ~(MemAfterReap(w) > 0) /\ messageMem' = MemAfterReap(w) /\ doing'[t] = doing[t]
  <2>1. PICK e : e = [Running EXCEPT !.at = "put", !.window = {w}, !.class = c, !.then = then]
    OBVIOUS
  <2>2. e.at = "put" /\ e.window = {w} /\ e.class = c /\ e.then = then
    BY <2>1 DEF Running
  <2>3. \/ /\ MemAfterReap(w) > 0 /\ messageMem' = MemAfterReap(w) - 1
           /\ doing' = [doing EXCEPT ![t] = e]
        \/ ~(MemAfterReap(w) > 0) /\ messageMem' = MemAfterReap(w) /\ doing' = doing
    BY <2>1 DEF Post
  <2> QED BY <2>2, <2>3, TypesNow
<1>6. \A u \in WindowTasks \ {t} : doing'[u] = doing[u]
  BY TypesNow DEF Post
<1>7. /\ pending'[w] = PendingAfterReap(w) /\ \A v \in Windows \ {w} : pending'[v] = pending[v]
  BY <1>1, TypesNow
<1>8. /\ \A u \in WindowTasks \ {t} : \A v, places : Works(u, v, places)' <=> Works(u, v, places)
      /\ ~Works(t, w, Removal)' /\ ~Works(t, w, {"count"})'
      /\ \A v : ~Works(t, v, {"cleared"})'
      /\ Works(t, w, Posting)' => doing'[t].class = c /\ doing'[t].then = then /\ MemAfterReap(w) > 0
  <2>1. \A u \in WindowTasks \ {t} : \A v, places : Works(u, v, places)' <=> Works(u, v, places)
    BY <1>6 DEF Works
  <2>2. /\ ~Works(t, w, Removal)' /\ ~Works(t, w, {"count"})' /\ \A v : ~Works(t, v, {"cleared"})'
    BY <1>2, <1>5 DEF Works, Removal, Detached
  <2>3. Works(t, w, Posting)' => doing'[t].class = c /\ doing'[t].then = then /\ MemAfterReap(w) > 0
    BY <1>2, <1>5 DEF Works
  <2> QED BY <2>1, <2>2, <2>3
<1>9. \A places \in SUBSET Removal : Removes(w, places)' <=> Removes(w, places)
  BY <1>2, <1>8 DEF Removes, Works
<1>10. AtRight(t)'
  BY <1>2, <1>5 DEF AtRight
<1>11. \A u \in WindowTasks : WorkRight(u, w)'
  <2> SUFFICES ASSUME NEW u \in WindowTasks PROVE WorkRight(u, w)'
    OBVIOUS
  <2>1. WorkRight(u, w)
    BY DEF Messages
  <2>2. ~Works(u, w, Detached \ {"detach"})
    BY <1>1, PosterAlone
  <2>3. CASE u = t
    <3>1. /\ ~Works(t, w, {"cleared"})' /\ ~Works(t, w, {"modify", "close"})'
          /\ ~Works(t, w, Detached)' /\ ~Works(t, w, Detached \ {"detach"})'
      BY <1>8 DEF Works, Removal, Detached
    <3>2. Works(t, w, Posting)' => doing'[t].then # "closed"
      BY <1>8
    <3> QED BY <1>1, <1>8, <2>3, <3>1, <3>2 DEF WorkRight
  <2>4. CASE u # t
    BY <1>1, <1>6, <1>8, <2>1, <2>2, <2>4 DEF WorkRight
  <2> QED BY <2>3, <2>4
<1>12. "move" \in Classes /\ "other" \in Classes
  BY DEF Classes
<1>13. \A v \in Windows, k \in Classes :
          Unanswered(v, k)' = Unanswered(v, k) /\ Unanswered(v, k) \in Nat
  BY <1>1, NothingMoves, CountsNow
<1>14. \A u \in WindowTasks : SharedRight(u)'
  <2> SUFFICES ASSUME NEW u \in WindowTasks PROVE SharedRight(u)'
    OBVIOUS
  <2>1. SharedRight(u)
    BY DEF Messages
  <2>2. \A v \in Windows : Works(u, v, {"cleared"})' => Works(u, v, {"cleared"})
    BY <1>8
  <2> QED BY <1>1, <2>1, <2>2, SharedKept
<1>15. /\ ownQueue'[w] \in Seq({ Of(w, k) : k \in Classes })
       /\ ownQueue'[w] # <<>> => ownQueue[w] # <<>> \/ userPort[w] = "own"
  BY <1>1 DEF Messages, QueueRight
<1>16. /\ Posts(w, {"count"})' = Posts(w, {"count"})
       /\ Movers(w) \in Nat /\ Movers(w)' \in Nat /\ Cardinality(WindowTasks) \in Nat
       /\ Movers(w)' = Movers(w) + (IF Moving(t, w)' THEN 1 ELSE 0)
       /\ Movers(w) < Cardinality(WindowTasks)
       /\ Moving(t, w)' => c = "move"
  <2>1. ~Moving(t, w) /\ ~Works(t, w, {"count"}) /\ ~Works(t, w, {"count"})'
    BY <1>2, <1>8 DEF Moving
  <2>2. Moving(t, w)' => c = "move"
    BY <1>8 DEF Moving
  <2> QED BY <1>6, <2>1, <2>2, TaskCounts
<1>17. pending'[w] + Posts(w, {"count"})' = Unanswered(w, "move")'
  BY <1>3, <1>7, <1>12, <1>13, <1>16
<1>18. pending'[w] + Movers(w)' <= MouseQueue + Cardinality(WindowTasks)
  BY <1>1, <1>3, <1>4, <1>7, <1>16, MouseQueueAssumption
<1>19. messageMem' + Unanswered(w, "move")' + Unanswered(w, "other")'
             + (IF IsAt(t, "put")' THEN 1 ELSE 0)
           = MemAfterReap(w) + Unanswered(w, "move") + Unanswered(w, "other")
             + (IF IsAt(t, "put") THEN 1 ELSE 0)
  <2>1. ~IsAt(t, "put")
    BY DEF IsAt
  <2>2. /\ Unanswered(w, "move")' = Unanswered(w, "move") /\ Unanswered(w, "move") \in Nat
        /\ Unanswered(w, "other")' = Unanswered(w, "other") /\ Unanswered(w, "other") \in Nat
    BY <1>12, <1>13
  <2>3. \/ messageMem' = MemAfterReap(w) - 1 /\ IsAt(t, "put")'
        \/ messageMem' = MemAfterReap(w) /\ ~IsAt(t, "put")'
    BY <1>5, <2>1 DEF IsAt
  <2>4. CASE messageMem' = MemAfterReap(w) - 1 /\ IsAt(t, "put")'
    BY <1>4, <2>1, <2>2, <2>4
  <2>5. CASE messageMem' = MemAfterReap(w) /\ ~IsAt(t, "put")'
    BY <1>4, <2>1, <2>2, <2>5
  <2> QED BY <2>3, <2>4, <2>5
<1>20. /\ doing[t].window \subseteq {w} /\ doing'[t].window \subseteq {w}
       /\ \A v \in Windows \ {w} : pending'[v] = pending[v] /\ ownQueue'[v] = ownQueue[v]
       /\ \A v \in Windows \ {w} : \A k \in Classes : Unanswered(v, k)' = Unanswered(v, k)
  BY <1>1, <1>2, <1>5, <1>7, <1>13
<1> QED BY <1>1, <1>6, <1>9, <1>10, <1>11, <1>14, <1>15, <1>17, <1>18, <1>19, <1>20, ReapStep, Zenon

-----------------------------------------------------------------------------

\* What the beginning of a removal of ports leaves to be shown.
LEMMA BeginStep ==
  ASSUME IdcmpTypes, IdcmpTypes', Messages, NEW t \in WindowTasks, NEW w \in Windows,
         doing[t].at = "program", w \in owns[t], held[w] = NoMessages,
         UNCHANGED <<owns, linked, userPort, windowPort, ports, pending, ownQueue, held, messageMem>>,
         \A u \in WindowTasks \ {t} : doing'[u] = doing[u],
         doing'[t].window = {w},
         \/ doing'[t].at = "cleared" /\ doing'[t].forbid /\ userPort[w] = "shared"
         \/ doing'[t].at \in {"modify", "close"} /\ userPort[w] # "shared",
         \A v \in Windows, k \in Classes : Outstanding(v, k)' = Outstanding(v, k),
         \A v \in Windows \ {w} : /\ replied'[v] = replied[v]
                                  /\ \A k \in Classes : Unanswered(v, k)' = Unanswered(v, k),
         \A k \in Classes : Unanswered(w, k)' > 0 => Unanswered(w, k) > 0,
         Count(replied'[w]) > 0 => "reply" \in ports[w],
         \A u \in WindowTasks : SharedRight(u)'
  PROVE  Messages' /\ messageMem' <= MaxMessages
<1>1. doing[t].window = {} /\ \A places : ~Works(t, w, places)
  BY AtNone
<1>2. \A v \in Windows \ {w} : Untouched(v)
  BY <1>1, OthersUntouched
<1>3. AtRight(t)'
  BY DEF AtRight
<1>4. OwnersRight'
  BY DEF OwnersRight, Messages
<1>5. /\ \A u \in WindowTasks : WorkRight(u, w)
      /\ PortsRight(w) /\ QueueRight(w) /\ MovesRight(w)
  BY DEF Messages
<1>6. \A u \in WindowTasks \ {t} : \A places : Works(u, w, places)' <=> Works(u, w, places)
  BY DEF Works
<1>7. /\ ~Works(t, w, Posting)' /\ ~Works(t, w, {"count"})' /\ ~Works(t, w, Detached)'
      /\ ~Works(t, w, Detached \ {"detach"})'
  BY DEF Works, Posting, Detached
<1>8. /\ Removes(w, {"flushreply"})' <=> Removes(w, {"flushreply"})
      /\ Removes(w, {"flushuser"})' <=> Removes(w, {"flushuser"})
      /\ Removes(w, {"flushreply", "flushuser"})' <=> Removes(w, {"flushreply", "flushuser"})
      /\ Removes(w, {"detach", "flushreply", "flushuser"})'
           <=> Removes(w, {"detach", "flushreply", "flushuser"})
  <2>1. ~Works(t, w, Detached)
    BY <1>1
  <2> QED BY <1>6, <1>7, <2>1 DEF Removes, Works, Detached
<1>9. ~Removes(w, {"flushuser"}) /\ ~Removes(w, {"flushreply", "flushuser"})
  <2>1. \A u \in WindowTasks : ~Works(u, w, Removal)
    BY <1>1, OwnerAlone
  <2> QED BY <2>1 DEF Removes, Works, Removal, Detached
<1>10. \A u \in WindowTasks : WorkRight(u, w)'
  <2> SUFFICES ASSUME NEW u \in WindowTasks PROVE WorkRight(u, w)'
    OBVIOUS
  <2>1. CASE u = t
    <3>1. /\ Works(t, w, {"cleared"})' => doing'[t].forbid /\ userPort'[w] = "shared"
          /\ Works(t, w, {"modify", "close"})' => userPort'[w] # "shared"
      BY DEF Works
    <3>2. w \in owns'[t] /\ held'[w] = NoMessages
      OBVIOUS
    <3> QED BY <1>7, <2>1, <3>1, <3>2 DEF WorkRight
  <2>2. CASE u # t
    BY <1>5, <1>6, <2>2 DEF WorkRight
  <2> QED BY <2>1, <2>2
<1>11. PortsRight(w)'
  BY <1>5, <1>8 DEF PortsRight
<1>12. QueueRight(w)'
  BY <1>5, <1>8, <1>9 DEF QueueRight
<1>13. MovesRight(w)'
  <2>1. ~Moving(t, w) /\ ~Moving(t, w)' /\ ~Works(t, w, {"count"}) /\ ~Works(t, w, {"count"})'
    BY <1>1, <1>7 DEF Moving
  <2>2. Posts(w, {"count"})' = Posts(w, {"count"}) /\ Movers(w)' = Movers(w)
    BY <2>1, TaskCounts
  <2>3. Outstanding(w, "move")' = Outstanding(w, "move")
    BY DEF Classes
  <2> QED BY <1>5, <1>8, <2>2, <2>3 DEF MovesRight
<1>14. WindowRight(w)'
  BY <1>10, <1>11, <1>12, <1>13 DEF WindowRight
<1>15. messageMem' + Outstanding(w, "move")' + Outstanding(w, "other")'
             + (IF IsAt(t, "put")' THEN 1 ELSE 0)
           = messageMem + Outstanding(w, "move") + Outstanding(w, "other")
             + (IF IsAt(t, "put") THEN 1 ELSE 0)
  BY DEF IsAt, Classes
<1> QED BY <1>2, <1>3, <1>4, <1>14, <1>15, StepDone

\* ClearMsgPort() replies to the messages of one window at a shared port.
LEMMA ClearMsgPortStep ==
  ASSUME IdcmpTypes, IdcmpTypes', Messages, NEW t \in WindowTasks, NEW w \in Windows,
         ClearMsgPort(t, w)
  PROVE  Messages' /\ messageMem' <= MaxMessages
<1> DEFINE S == { Of(v, c) : v \in Windows \ {w}, c \in Classes }
<1>0. sharedQueue' = [sharedQueue EXCEPT ![t] = Picked(sharedQueue[t], S)]
  BY DEF ClearMsgPort
<1>a. /\ \A v \in Windows, k \in Classes : Of(v, k) \in S <=> v # w
      /\ \A x \in S : x.window # w
  <2>1. \A v \in Windows, k \in Classes : Of(v, k) \in S <=> v # w
    BY OfOthers
  <2>2. \A x \in S : x.window # w
    BY DEF Of
  <2> QED BY <2>1, <2>2
<1> HIDE DEF S
<1>1. /\ doing[t].at = "program" /\ w \in owns[t] /\ held[w] = NoMessages /\ userPort[w] = "shared"
      /\ UNCHANGED <<owns, linked, userPort, windowPort, ports, pending, ownQueue, held, messageMem>>
      /\ replied' = [replied EXCEPT ![w] = [c \in Classes |-> @[c] + Occurrences(sharedQueue[t], w, c)]]
  BY DEF ClearMsgPort, Owned, IsAt
<1>2. /\ doing'[t].at = "cleared" /\ doing'[t].window = {w} /\ doing'[t].forbid = TRUE
      /\ \A u \in WindowTasks \ {t} : doing'[u] = doing[u]
  <2>1. PICK e : e = [Running EXCEPT !.at = "cleared", !.window = {w}, !.forbid = TRUE]
    OBVIOUS
  <2>2. e.at = "cleared" /\ e.window = {w} /\ e.forbid = TRUE
    BY <2>1 DEF Running
  <2>3. doing' = [doing EXCEPT ![t] = e]
    BY <2>1 DEF ClearMsgPort
  <2> QED BY <2>2, <2>3, TypesNow
<1>3. \A v \in Windows, k \in Classes :
            /\ Occurrences(sharedQueue[t], w, k) \in Nat
            /\ Unanswered(v, k)'
                 = Unanswered(v, k) - IF v = w THEN Occurrences(sharedQueue[t], w, k) ELSE 0
            /\ Occurrences(sharedQueue[t], w, k) <= Unanswered(w, k)
  BY <1>0, <1>1, <1>a, ClearCounts
<1>4. /\ \A v \in Windows \ {w} : replied'[v] = replied[v]
      /\ \A k \in Classes : replied'[w][k] = replied[w][k] + Occurrences(sharedQueue[t], w, k)
  BY <1>1, TypesNow DEF Counts
<1>5. ASSUME NEW v \in Windows, NEW k \in Classes
      PROVE  /\ Unanswered(v, k) \in Nat /\ replied[v][k] \in Nat
             /\ Outstanding(v, k) = Unanswered(v, k) + replied[v][k]
             /\ Outstanding(v, k)' = Unanswered(v, k)' + replied'[v][k]
  BY CountsNow, CountsThen
<1>6. \A v \in Windows, k \in Classes : Outstanding(v, k)' = Outstanding(v, k)
  <2> SUFFICES ASSUME NEW v \in Windows, NEW k \in Classes
               PROVE  Outstanding(v, k)' = Outstanding(v, k)
    OBVIOUS
  <2>1. /\ Occurrences(sharedQueue[t], w, k) \in Nat
        /\ Unanswered(v, k)'
             = Unanswered(v, k) - IF v = w THEN Occurrences(sharedQueue[t], w, k) ELSE 0
    BY <1>3
  <2>2. replied'[v][k] = replied[v][k] + IF v = w THEN Occurrences(sharedQueue[t], w, k) ELSE 0
    BY <1>4, <1>5
  <2> QED BY <1>5, <2>1, <2>2
<1>7. \A v \in Windows \ {w} : /\ replied'[v] = replied[v]
                               /\ \A k \in Classes : Unanswered(v, k)' = Unanswered(v, k)
  <2> SUFFICES ASSUME NEW v \in Windows \ {w}, NEW k \in Classes
               PROVE  replied'[v] = replied[v] /\ Unanswered(v, k)' = Unanswered(v, k)
    BY DEF Classes
  <2>1. Unanswered(v, k)' = Unanswered(v, k) - 0
    BY <1>3
  <2> QED BY <1>4, <1>5, <2>1
<1>8. \A k \in Classes : Unanswered(w, k)' > 0 => Unanswered(w, k) > 0
  <2> SUFFICES ASSUME NEW k \in Classes, Unanswered(w, k)' > 0 PROVE Unanswered(w, k) > 0
    OBVIOUS
  <2>1. Unanswered(w, k)' = Unanswered(w, k) - Occurrences(sharedQueue[t], w, k)
    BY <1>3
  <2> QED BY <1>3, <1>5, <2>1
<1>9. Count(replied'[w]) > 0 => "reply" \in ports[w]
  <2>1. QueueRight(w)
    BY DEF Messages
  <2>2. ~Removes(w, {"flushuser"})
    <3>1. \A u \in WindowTasks : ~Works(u, w, Removal)
      BY <1>1, <1>2, AtNone, OwnerAlone
    <3> QED BY <3>1 DEF Removes, Works, Removal, Detached
  <2>3. "reply" \notin ports[w] =>
           /\ ~(Count(replied[w]) > 0) /\ \A k \in Classes : ~(Unanswered(w, k) > 0)
    BY <2>1, <2>2 DEF QueueRight
  <2>4. "reply" \notin ports[w] => \A k \in Classes : Unanswered(w, k) = 0
    BY <1>5, <2>3
  <2>5. "reply" \notin ports[w] => \A k \in Classes : Occurrences(sharedQueue[t], w, k) = 0
    BY <1>3, <2>4
  <2>6. "reply" \notin ports[w] => \A k \in Classes : replied'[w][k] = replied[w][k]
    BY <1>4, <1>5, <2>5
  <2> QED BY <2>3, <2>6 DEF Count, Classes
<1>10. SharedRight(t)'
  <2>1. PICK q \in Seq(MsgType) : q = sharedQueue[t]
    BY TypesNow DEF SharedQueues
  <2>2. sharedQueue'[t] = Picked(q, S)
    BY <1>0, <2>1, TypesNow DEF SharedQueues
  <2>4. \A x : Holds(Picked(q, S), x) <=> Holds(q, x) /\ x \in S
    BY PickedHoldsThose
  <2>5. \A x : Holds(q, x) => x.window \in owns[t] /\ userPort[x.window] = "shared"
    BY <2>1 DEF Holds, Messages, SharedRight
  <2>6. \A x : Holds(Picked(q, S), x) =>
           x.window \in owns'[t] /\ userPort'[x.window] = "shared" /\ x.window # w
    BY <1>1, <1>a, <2>4, <2>5
  <2>7. \A i \in 1 .. Len(Picked(q, S)) : Holds(Picked(q, S), Picked(q, S)[i])
    BY DEF Holds
  <2>8. \A v : v # w => ~Works(t, v, {"cleared"})'
    BY <1>2 DEF Works
  <2> QED BY <2>2, <2>6, <2>7, <2>8 DEF SharedRight
<1>11. \A u \in WindowTasks : SharedRight(u)'
  <2> SUFFICES ASSUME NEW u \in WindowTasks \ {t} PROVE SharedRight(u)'
    BY <1>10
  <2>1. SharedRight(u)
    BY DEF Messages
  <2>2. sharedQueue'[u] = sharedQueue[u]
    BY <1>0, TypesNow DEF SharedQueues
  <2> QED BY <1>1, <1>2, <2>1, <2>2, SharedKept DEF Works
<1> QED BY <1>1, <1>2, <1>6, <1>7, <1>8, <1>9, <1>11, BeginStep

\* ModifyIDCMP(w, 0) and CloseWindow() begin.
LEMMA RemoveBegins ==
  ASSUME IdcmpTypes, IdcmpTypes', Messages, NEW t \in WindowTasks, NEW w \in Windows,
         ModifyIDCMPZero(t, w) \/ MoveMessages(t, w) \/ CloseWindow(t, w), ~overtaken'
  PROVE  Messages' /\ messageMem' <= MaxMessages
<1>1. /\ doing[t].at = "program" /\ w \in owns[t] /\ held[w] = NoMessages /\ userPort[w] # "shared"
      /\ UNCHANGED <<owns, linked, userPort, windowPort, ports, pending, held, replied, messageMem>>
  BY DEF ModifyIDCMPZero, MoveMessages, CloseWindow, Owned, IsAt
<1>2. ownQueue' = ownQueue /\ sharedQueue' = sharedQueue
  <2>1. CASE ModifyIDCMPZero(t, w) \/ CloseWindow(t, w)
    BY <2>1 DEF ModifyIDCMPZero, CloseWindow
  <2>2. CASE MoveMessages(t, w)
    <3>1. ownQueue[w] = <<>>
      BY <2>2 DEF MoveMessages, Orphans
    <3>2. PICK q \in Seq(MsgType) : q = sharedQueue[t]
      BY TypesNow DEF SharedQueues
    <3>3. q \o <<>> = q
      OBVIOUS
    <3>4. /\ ownQueue' = [ownQueue EXCEPT ![w] = ownQueue[w]]
          /\ sharedQueue' = [sharedQueue EXCEPT ![t] = sharedQueue[t]]
      BY <2>2, <3>1, <3>2, <3>3 DEF MoveMessages
    <3> QED BY <3>4, TypesNow DEF OwnQueues, SharedQueues
  <2> QED BY <2>1, <2>2
<1>3. \E at \in {"modify", "close"} :
         /\ doing'[t].at = at /\ doing'[t].window = {w}
         /\ \A u \in WindowTasks \ {t} : doing'[u] = doing[u]
  <2>1. CASE ModifyIDCMPZero(t, w) \/ MoveMessages(t, w)
    <3>1. PICK e : e = [Running EXCEPT !.at = "modify", !.window = {w}]
      OBVIOUS
    <3>2. e.at = "modify" /\ e.window = {w}
      BY <3>1 DEF Running
    <3>3. doing' = [doing EXCEPT ![t] = e]
      BY <2>1, <3>1 DEF ModifyIDCMPZero, MoveMessages
    <3> QED BY <3>2, <3>3, TypesNow
  <2>2. CASE CloseWindow(t, w)
    <3>1. PICK e : e = [Running EXCEPT !.at = "close", !.window = {w}, !.then = "closed",
                                       !.saved = processing]
      OBVIOUS
    <3>2. e.at = "close" /\ e.window = {w}
      BY <3>1 DEF Running
    <3>3. doing' = [doing EXCEPT ![t] = e]
      BY <2>2, <3>1 DEF CloseWindow
    <3> QED BY <3>2, <3>3, TypesNow
  <2> QED BY <2>1, <2>2
<1>4. \A v \in Windows, k \in Classes :
         Unanswered(v, k)' = Unanswered(v, k) /\ Outstanding(v, k)' = Outstanding(v, k)
  BY <1>1, <1>2, NothingMoves DEF Outstanding
<1>5. Count(replied'[w]) > 0 => "reply" \in ports[w]
  BY <1>1 DEF Messages, QueueRight
<1>6. \A u \in WindowTasks : SharedRight(u)'
  <2> SUFFICES ASSUME NEW u \in WindowTasks PROVE SharedRight(u)'
    OBVIOUS
  <2>1. SharedRight(u)
    BY DEF Messages
  <2>2. \A v \in Windows : Works(u, v, {"cleared"})' => Works(u, v, {"cleared"})
    BY <1>3 DEF Works
  <2> QED BY <1>1, <1>2, <2>1, <2>2, SharedKept
<1> QED BY <1>1, <1>2, <1>3, <1>4, <1>5, <1>6, BeginStep

\* The program that takes the ports of a window away is its owner and the only one.
LEMMA Remover ==
  ASSUME Messages, NEW t \in WindowTasks, NEW w \in Windows, Works(t, w, Removal),
         \A u \in WindowTasks \ {t} : doing'[u] = doing[u]
  PROVE  /\ w \in owns[t] /\ held[w] = NoMessages
         /\ doing[t].at \in Removal /\ doing[t].window = {w}
         /\ \A u \in WindowTasks \ {t} : /\ ~Works(u, w, Removal) /\ ~Works(u, w, Removal)'
                                         /\ w \notin owns[u]
         /\ \A places \in SUBSET Removal : Removes(w, places) <=> doing[t].at \in places
         /\ \A places \in SUBSET Removal : Removes(w, places)' <=> Works(t, w, places)'
         /\ \A u \in WindowTasks \ {t} : \A v, places : Works(u, v, places)' <=> Works(u, v, places)
<1>1. w \in owns[t] /\ held[w] = NoMessages
  <2>1. WorkRight(t, w)
    BY DEF Messages
  <2> QED BY <2>1 DEF WorkRight
<1>2. doing[t].at \in Removal /\ doing[t].window = {w}
  BY DEF Works
<1>3. \A u \in WindowTasks \ {t} : ~Works(u, w, Removal) /\ ~Works(u, w, Removal)'
  BY <1>1, OwnerAlone
<1>4. \A u \in WindowTasks \ {t} : w \notin owns[u]
  BY <1>1 DEF Messages, OwnersRight
<1>5. \A u \in WindowTasks \ {t} : \A v, places : Works(u, v, places)' <=> Works(u, v, places)
  BY DEF Works
<1>6. \A places \in SUBSET Removal : Removes(w, places) <=> doing[t].at \in places
  BY <1>2, <1>3 DEF Removes, Works
<1>7. \A places \in SUBSET Removal : Removes(w, places)' <=> Works(t, w, places)'
  BY <1>3 DEF Removes, Works
<1> QED BY <1>1, <1>2, <1>3, <1>4, <1>5, <1>6, <1>7

\* No message of a window is at a shared port that the window does not share.
LEMMA NotShared ==
  ASSUME Messages, NEW u \in WindowTasks, NEW w, userPort[w] # "shared" \/ Works(u, w, {"cleared"})
  PROVE  \A i \in 1 .. Len(sharedQueue[u]) : sharedQueue[u][i].window # w
BY DEF Messages, SharedRight

\* A window loses its user port.
LEMMA UserPortStep ==
  ASSUME IdcmpTypes, IdcmpTypes', Messages, NEW t \in WindowTasks, NEW w \in Windows,
         TakeUserPort(t, w) \/ DetachUserPort(t, w), ~overtaken'
  PROVE  Messages' /\ messageMem' <= MaxMessages
<1>1. /\ UNCHANGED <<owns, linked, windowPort, ports, pending, ownQueue, sharedQueue, held, replied,
                     messageMem>>
      /\ userPort' = [userPort EXCEPT ![w] = "none"]
      /\ ~Overtakes(t, w)
  BY DEF TakeUserPort, DetachUserPort
<1>2. /\ \/ /\ Works(t, w, {"cleared"}) /\ userPort[w] = "shared"
            /\ doing'[t].at = "modify" /\ doing'[t].window = doing[t].window
         \/ /\ Works(t, w, {"modify", "close"}) /\ userPort[w] # "shared"
            /\ doing'[t].at = "detach" /\ doing'[t].window = doing[t].window
      /\ \A u \in WindowTasks \ {t} : doing'[u] = doing[u]
  <2>1. "modify" \in Removal /\ "detach" \in Removal
    BY DEF Removal, Detached
  <2>2. WorkRight(t, w)
    BY DEF Messages
  <2>3. CASE TakeUserPort(t, w)
    <3>1. Works(t, w, {"cleared"}) /\ GoOn(t, "modify")
      BY <2>3 DEF TakeUserPort
    <3>2. /\ doing'[t].at = "modify" /\ doing'[t].window = doing[t].window
          /\ \A u \in WindowTasks \ {t} : doing'[u] = doing[u]
      BY <2>1, <3>1, GoesOn
    <3> QED BY <2>2, <3>1, <3>2 DEF WorkRight
  <2>4. CASE DetachUserPort(t, w)
    <3>1. Works(t, w, {"modify", "close"}) /\ GoOn(t, "detach")
      BY <2>4 DEF DetachUserPort
    <3>2. /\ doing'[t].at = "detach" /\ doing'[t].window = doing[t].window
          /\ \A u \in WindowTasks \ {t} : doing'[u] = doing[u]
      BY <2>1, <3>1, GoesOn
    <3> QED BY <2>2, <3>1, <3>2 DEF WorkRight
  <2> QED BY <2>3, <2>4
<1>3. Works(t, w, Removal)
  BY <1>2 DEF Works, Removal
<1>4. /\ w \in owns[t] /\ held[w] = NoMessages /\ doing[t].window = {w} /\ doing'[t].window = {w}
      /\ \A u \in WindowTasks \ {t} : /\ ~Works(u, w, Removal) /\ ~Works(u, w, Removal)'
                                      /\ w \notin owns[u]
      /\ \A places \in SUBSET Removal : Removes(w, places) <=> doing[t].at \in places
      /\ \A places \in SUBSET Removal : Removes(w, places)' <=> Works(t, w, places)'
      /\ \A u \in WindowTasks \ {t} : \A v, places : Works(u, v, places)' <=> Works(u, v, places)
  BY <1>2, <1>3, Remover
<1>5. userPort'[w] = "none" /\ \A v \in Windows \ {w} : userPort'[v] = userPort[v]
  BY <1>1, TypesNow
<1>6. \A v \in Windows, k \in Classes :
         Unanswered(v, k)' = Unanswered(v, k) /\ Outstanding(v, k)' = Outstanding(v, k)
  BY <1>1, NothingMoves DEF Outstanding
<1>7. \A v \in Windows \ {w} : Untouched(v)
  BY <1>1, <1>2, <1>4, <1>5, <1>6, OthersUntouched
<1>8. OwnersRight'
  BY <1>1 DEF OwnersRight, Messages
<1>9. AtRight(t)'
  BY <1>2, <1>4 DEF AtRight
<1>10. /\ \A u \in WindowTasks : WorkRight(u, w)
       /\ PortsRight(w) /\ QueueRight(w) /\ MovesRight(w)
  BY DEF Messages
<1>11. \A u \in WindowTasks : ~Works(u, w, Posting)' /\ ~Works(u, w, Posting)
  <2>1. \A u \in WindowTasks \ {t} : ~Works(u, w, Posting)
    BY <1>1 DEF Overtakes
  <2>2. ~Works(t, w, Posting) /\ ~Works(t, w, Posting)'
    BY <1>2 DEF Works, Posting
  <2> QED BY <1>4, <2>1, <2>2
<1>12. \A u \in WindowTasks : WorkRight(u, w)'
  <2> SUFFICES ASSUME NEW u \in WindowTasks PROVE WorkRight(u, w)'
    OBVIOUS
  <2>1. ~Works(u, w, {"count"})'
    BY <1>11 DEF Works, Posting
  <2>2. CASE u = t
    <3>1. ~Works(t, w, {"cleared"})' /\ ~Works(t, w, Detached \ {"detach"})'
      BY <1>2 DEF Works, Detached
    <3> QED BY <1>1, <1>4, <1>5, <1>11, <2>1, <2>2, <3>1 DEF WorkRight
  <2>3. CASE u # t
    <3>1. ~Works(u, w, Removal)'
      BY <1>4, <2>3
    <3>2. /\ ~Works(u, w, {"cleared"})' /\ ~Works(u, w, {"modify", "close"})' /\ ~Works(u, w, Detached)'
          /\ ~Works(u, w, Detached \ {"detach"})'
      BY <3>1 DEF Works, Removal, Detached
    <3> QED BY <1>11, <2>1, <3>1, <3>2 DEF WorkRight
  <2> QED BY <2>2, <2>3
<1>13. /\ ~Removes(w, {"flushreply"}) /\ ~Removes(w, {"flushreply"})'
       /\ ~Removes(w, {"flushuser"}) /\ ~Removes(w, {"flushuser"})'
       /\ ~Removes(w, {"flushreply", "flushuser"}) /\ ~Removes(w, {"flushreply", "flushuser"})'
       /\ ~Removes(w, {"detach", "flushreply", "flushuser"})
       /\ userPort[w] = "own" => Removes(w, {"detach", "flushreply", "flushuser"})'
  <2>1. /\ {"flushreply"} \in SUBSET Removal /\ {"flushuser"} \in SUBSET Removal
        /\ {"flushreply", "flushuser"} \in SUBSET Removal
        /\ {"detach", "flushreply", "flushuser"} \in SUBSET Removal
    BY DEF Removal, Detached
  <2>2. doing[t].at \in {"cleared", "modify", "close"} /\ doing'[t].at \in {"modify", "detach"}
    BY <1>2 DEF Works
  <2>3. /\ doing[t].at \notin {"detach", "flushreply", "flushuser"}
        /\ doing'[t].at \notin {"flushreply", "flushuser"}
    BY <2>2
  <2>4. userPort[w] = "own" => Works(t, w, {"detach", "flushreply", "flushuser"})'
    BY <1>2, <1>4 DEF Works
  <2>5. /\ ~Works(t, w, {"flushreply"})' /\ ~Works(t, w, {"flushuser"})'
        /\ ~Works(t, w, {"flushreply", "flushuser"})'
    BY <2>3 DEF Works
  <2> QED BY <1>4, <2>1, <2>3, <2>4, <2>5
<1>14. PortsRight(w)'
  BY <1>1, <1>5, <1>10, <1>13 DEF PortsRight
<1>15. QueueRight(w)'
  BY <1>1, <1>4, <1>6, <1>10, <1>13 DEF QueueRight
<1>16. MovesRight(w)'
  <2>1. /\ ~Moving(t, w) /\ ~Moving(t, w)' /\ ~Works(t, w, {"count"}) /\ ~Works(t, w, {"count"})'
    BY <1>11 DEF Moving, Works, Posting
  <2>2. Posts(w, {"count"})' = Posts(w, {"count"}) /\ Movers(w)' = Movers(w)
    BY <1>2, <2>1, TaskCounts
  <2>3. Outstanding(w, "move")' = Outstanding(w, "move")
    BY <1>6 DEF Classes
  <2> QED BY <1>1, <1>10, <1>13, <2>2, <2>3 DEF MovesRight
<1>17. WindowRight(w)'
  BY <1>12, <1>14, <1>15, <1>16 DEF WindowRight
<1>18. \A u \in WindowTasks : SharedRight(u)'
  <2> SUFFICES ASSUME NEW u \in WindowTasks PROVE SharedRight(u)'
    OBVIOUS
  <2>1. SharedRight(u)
    BY DEF Messages
  <2>2. \A v \in Windows : Works(u, v, {"cleared"})' => Works(u, v, {"cleared"})
    BY <1>2 DEF Works
  <2>3. \A v \in Windows : v \in owns[u] /\ userPort[v] = "shared" /\ ~Works(u, v, {"cleared"}) => v # w
    BY <1>2, <1>4
  <2> QED BY <1>1, <1>5, <2>1, <2>2, <2>3, SharedKept
<1>19. messageMem' + Outstanding(w, "move")' + Outstanding(w, "other")'
             + (IF IsAt(t, "put")' THEN 1 ELSE 0)
           = messageMem + Outstanding(w, "move") + Outstanding(w, "other")
             + (IF IsAt(t, "put") THEN 1 ELSE 0)
  <2>1. ~IsAt(t, "put") /\ ~IsAt(t, "put")'
    BY <1>2 DEF IsAt, Works
  <2> QED BY <1>1, <1>6, <2>1 DEF Classes
<1> QED BY <1>2, <1>7, <1>8, <1>9, <1>17, <1>18, <1>19, StepDone

\* Nobody posts to a window that has lost its user port.
LEMMA Lonely ==
  ASSUME Messages, NEW t \in WindowTasks, NEW w \in Windows, Works(t, w, Detached),
         \A u \in WindowTasks \ {t} : doing'[u] = doing[u],
         doing'[t].at \notin Posting
  PROVE  /\ userPort[w] = "none" /\ Works(t, w, Removal) /\ doing[t].window = {w}
         /\ \A u \in WindowTasks : ~Works(u, w, Posting) /\ ~Works(u, w, Posting)'
         /\ Posts(w, {"count"})' = Posts(w, {"count"}) /\ Movers(w)' = Movers(w)
         /\ \A u \in WindowTasks : \A i \in 1 .. Len(sharedQueue[u]) : sharedQueue[u][i].window # w
<1>1. \A u \in WindowTasks : WorkRight(u, w)
  BY DEF Messages
<1>2. userPort[w] = "none"
  BY <1>1 DEF WorkRight
<1>3. \A u \in WindowTasks : ~Works(u, w, Posting)
  BY <1>1, <1>2 DEF WorkRight
<1>4. \A u \in WindowTasks : ~Works(u, w, Posting)'
  BY <1>3 DEF Works
<1>5. Posts(w, {"count"})' = Posts(w, {"count"}) /\ Movers(w)' = Movers(w)
  <2>1. ~Moving(t, w) /\ ~Moving(t, w)' /\ ~Works(t, w, {"count"}) /\ ~Works(t, w, {"count"})'
    BY <1>3, <1>4 DEF Moving, Works, Posting
  <2> QED BY <2>1, TaskCounts
<1>6. \A u \in WindowTasks : \A i \in 1 .. Len(sharedQueue[u]) : sharedQueue[u][i].window # w
  BY <1>2, NotShared
<1>7. Works(t, w, Removal) /\ doing[t].window = {w}
  BY DEF Works, Removal
<1> QED BY <1>2, <1>3, <1>4, <1>5, <1>6, <1>7

\* What the steps leave to be shown that take the ports of a window away.
LEMMA DetachedStep ==
  ASSUME IdcmpTypes, IdcmpTypes', Messages, NEW t \in WindowTasks, NEW w \in Windows,
         Works(t, w, Detached), \A u \in WindowTasks \ {t} : doing'[u] = doing[u],
         doing'[t].at \in {"flushreply", "flushuser", "end"}, doing'[t].window = {w},
         UNCHANGED <<owns, linked, userPort, sharedQueue, held>>,
         ~windowPort'[w], pending'[w] = 0,
         \A v \in Windows \ {w} : /\ windowPort'[v] = windowPort[v] /\ ports'[v] = ports[v]
                                  /\ ownQueue'[v] = ownQueue[v] /\ replied'[v] = replied[v]
                                  /\ pending'[v] = pending[v],
         \A v \in Windows \ {w} : \A k \in Classes : Unanswered(v, k)' = Unanswered(v, k),
         PortsRight(w)', QueueRight(w)',
         \/ pending'[w] + Posts(w, {"count"}) = Outstanding(w, "move")'
         \/ /\ Removes(w, {"flushreply", "flushuser"})'
            /\ Outstanding(w, "move")' <= MouseQueue + Cardinality(WindowTasks),
         messageMem' + Outstanding(w, "move")' + Outstanding(w, "other")'
           = messageMem + Outstanding(w, "move") + Outstanding(w, "other")
  PROVE  Messages' /\ messageMem' <= MaxMessages
<1>1. doing'[t].at \notin Posting /\ doing'[t].at \in Detached \ {"detach"}
  BY DEF Posting, Detached
<1>2. /\ userPort[w] = "none" /\ Works(t, w, Removal) /\ doing[t].window = {w}
      /\ \A u \in WindowTasks : ~Works(u, w, Posting) /\ ~Works(u, w, Posting)'
      /\ Posts(w, {"count"})' = Posts(w, {"count"}) /\ Movers(w)' = Movers(w)
  BY <1>1, Lonely
<1>3. /\ w \in owns[t] /\ held[w] = NoMessages
      /\ \A u \in WindowTasks \ {t} : ~Works(u, w, Removal) /\ ~Works(u, w, Removal)'
  BY <1>2, Remover
<1>4. \A v \in Windows \ {w} : Untouched(v)
  BY <1>2, OthersUntouched
<1>5. OwnersRight'
  BY DEF OwnersRight, Messages
<1>6. AtRight(t)'
  BY DEF AtRight
<1>7. \A u \in WindowTasks : WorkRight(u, w)'
  <2> SUFFICES ASSUME NEW u \in WindowTasks PROVE WorkRight(u, w)'
    OBVIOUS
  <2>1. ~Works(u, w, {"count"})' /\ ~Works(u, w, Posting)'
    BY <1>2 DEF Works, Posting
  <2>2. ~Works(u, w, {"cleared"})' /\ ~Works(u, w, {"modify", "close"})'
    <3>1. CASE u = t
      BY <3>1 DEF Works
    <3>2. CASE u # t
      BY <1>3, <3>2 DEF Works, Removal
    <3> QED BY <3>1, <3>2
  <2>3. Works(u, w, Removal)' => w \in owns'[u] /\ held'[w] = NoMessages
    BY <1>3
  <2> QED BY <1>2, <2>1, <2>2, <2>3 DEF WorkRight
<1>8. MovesRight(w)'
  <2>1. pending[w] + Movers(w) <= MouseQueue + Cardinality(WindowTasks)
    BY DEF Messages, MovesRight
  <2>2. pending'[w] + Movers(w)' <= MouseQueue + Cardinality(WindowTasks)
    <3>1. pending[w] \in Nat /\ Movers(w) \in Nat /\ MouseQueue \in Nat /\ Cardinality(WindowTasks) \in Nat
      BY TypesNow, TaskCounts, MouseQueueAssumption
    <3> QED BY <1>2, <2>1, <3>1
  <2>3. \/ pending'[w] + Posts(w, {"count"})' = Outstanding(w, "move")'
        \/ /\ Removes(w, {"flushreply", "flushuser"})'
           /\ Outstanding(w, "move")' <= MouseQueue + Cardinality(WindowTasks)
    BY <1>2
  <2> QED BY <1>7, <2>2, <2>3, MovesKept
<1>9. WindowRight(w)'
  BY <1>7, <1>8 DEF WindowRight
<1>10. \A u \in WindowTasks : SharedRight(u)'
  <2> SUFFICES ASSUME NEW u \in WindowTasks PROVE SharedRight(u)'
    OBVIOUS
  <2>1. SharedRight(u)
    BY DEF Messages
  <2>2. \A v \in Windows : Works(u, v, {"cleared"})' => Works(u, v, {"cleared"})
    BY DEF Works
  <2> QED BY <2>1, <2>2, SharedKept
<1>11. ~IsAt(t, "put") /\ ~IsAt(t, "put")'
  BY DEF IsAt, Works, Detached
<1>12. messageMem' + Outstanding(w, "move")' + Outstanding(w, "other")'
             + (IF IsAt(t, "put")' THEN 1 ELSE 0)
           = messageMem + Outstanding(w, "move") + Outstanding(w, "other")
             + (IF IsAt(t, "put") THEN 1 ELSE 0)
  BY <1>11
<1> QED BY <1>4, <1>5, <1>6, <1>9, <1>10, <1>12, StepDone

\* A window loses its window port.
LEMMA DetachWindowPortStep ==
  ASSUME IdcmpTypes, IdcmpTypes', Messages, NEW t \in WindowTasks, NEW w \in Windows,
         DetachWindowPort(t, w)
  PROVE  Messages' /\ messageMem' <= MaxMessages
<1>1. /\ Works(t, w, {"detach"}) /\ GoOn(t, "flushreply")
      /\ windowPort' = [windowPort EXCEPT ![w] = FALSE] /\ pending' = [pending EXCEPT ![w] = 0]
      /\ UNCHANGED <<owns, linked, userPort, ports, ownQueue, sharedQueue, held, replied, messageMem>>
  BY DEF DetachWindowPort
<1>2. doing'[t].at = "flushreply" /\ doing'[t].window = doing[t].window
      /\ \A u \in WindowTasks \ {t} : doing'[u] = doing[u]
  <2>1. "flushreply" \in Removal
    BY DEF Removal, Detached
  <2> QED BY <1>1, <2>1, GoesOn
<1>3. doing[t].at = "detach" /\ doing[t].window = {w} /\ Works(t, w, Detached)
  BY <1>1 DEF Works, Detached
<1>4. /\ ~windowPort'[w] /\ pending'[w] = 0
      /\ \A v \in Windows \ {w} : windowPort'[v] = windowPort[v] /\ pending'[v] = pending[v]
  BY <1>1, TypesNow
<1>5. \A v \in Windows, k \in Classes :
         Unanswered(v, k)' = Unanswered(v, k) /\ Outstanding(v, k)' = Outstanding(v, k)
  BY <1>1, NothingMoves DEF Outstanding
<1>6. userPort[w] = "none"
  BY <1>2, <1>3, Lonely DEF Posting
<1>7. Works(t, w, {"flushreply"})' /\ Works(t, w, {"flushreply", "flushuser"})'
      /\ Works(t, w, {"detach", "flushreply", "flushuser"})'
  BY <1>2, <1>3 DEF Works
<1>8. /\ Removes(w, {"flushreply"})' /\ Removes(w, {"flushreply", "flushuser"})'
      /\ Removes(w, {"detach", "flushreply", "flushuser"})'
  BY <1>7 DEF Removes
<1>9. PortsRight(w) /\ QueueRight(w) /\ MovesRight(w)
  BY DEF Messages
<1>10. PortsRight(w)'
  BY <1>1, <1>4, <1>6, <1>8, <1>9 DEF PortsRight
<1>11. QueueRight(w)'
  <2>1. ~Removes(w, {"flushuser"})
    <3>1. doing[t].at \notin {"flushuser"} /\ {"flushuser"} \in SUBSET Removal
      BY <1>3 DEF Removal, Detached
    <3>2. Works(t, w, Removal)
      BY <1>3 DEF Works, Removal, Detached
    <3> QED BY <1>2, <3>1, <3>2, Remover
  <2> QED BY <1>1, <1>5, <1>8, <1>9, <2>1 DEF QueueRight
<1>12. Outstanding(w, "move")' <= MouseQueue + Cardinality(WindowTasks)
  BY <1>5, <1>9 DEF MovesRight, Classes
<1>13. messageMem' + Outstanding(w, "move")' + Outstanding(w, "other")'
           = messageMem + Outstanding(w, "move") + Outstanding(w, "other")
  BY <1>1, <1>5 DEF Classes
<1> QED BY <1>1, <1>2, <1>3, <1>4, <1>5, <1>8, <1>10, <1>11, <1>12, <1>13, DetachedStep

\* The replies are freed with their port.
LEMMA FlushReplyPortStep ==
  ASSUME IdcmpTypes, IdcmpTypes', Messages, NEW t \in WindowTasks, NEW w \in Windows,
         FlushReplyPort(t, w)
  PROVE  Messages' /\ messageMem' <= MaxMessages
<1>1. /\ Works(t, w, {"flushreply"}) /\ GoOn(t, "flushuser")
      /\ replied' = [replied EXCEPT ![w] = NoMessages] /\ messageMem' = MemAfterReap(w)
      /\ pending' = [pending EXCEPT ![w] = PendingAfterReap(w)]
      /\ ports' = [ports EXCEPT ![w] = ports[w] \ {"reply"}]
      /\ UNCHANGED <<owns, linked, userPort, windowPort, ownQueue, sharedQueue, held>>
  BY DEF FlushReplyPort
<1>2. doing'[t].at = "flushuser" /\ doing'[t].window = doing[t].window
      /\ \A u \in WindowTasks \ {t} : doing'[u] = doing[u]
  <2>1. "flushuser" \in Removal
    BY DEF Removal, Detached
  <2> QED BY <1>1, <2>1, GoesOn
<1>3. /\ doing[t].at = "flushreply" /\ doing[t].window = {w} /\ Works(t, w, Detached)
      /\ Works(t, w, Detached \ {"detach"})
  BY <1>1 DEF Works, Detached
<1>4. ~windowPort[w] /\ pending[w] = 0 /\ userPort[w] = "none"
  BY <1>3 DEF Messages, WorkRight
<1>5. PendingAfterReap(w) = 0
  <2>1. PICK r \in Nat : r = replied[w]["move"]
    BY ReapTypes
  <2>2. ~(0 > r)
    OBVIOUS
  <2> QED BY <1>4, <2>1, <2>2 DEF PendingAfterReap, Less
<1>6. /\ pending'[w] = 0 /\ replied'[w] = NoMessages /\ ports'[w] = ports[w] \ {"reply"}
      /\ \A v \in Windows \ {w} : /\ ports'[v] = ports[v] /\ replied'[v] = replied[v]
                                  /\ pending'[v] = pending[v]
  BY <1>1, <1>5, TypesNow DEF Counts
<1>7. \A v \in Windows, k \in Classes : Unanswered(v, k)' = Unanswered(v, k)
  BY <1>1, NothingMoves
<1>8. Works(t, w, {"flushuser"})' /\ Works(t, w, {"flushreply", "flushuser"})'
      /\ Works(t, w, {"detach", "flushreply", "flushuser"})'
  BY <1>2, <1>3 DEF Works
<1>9. /\ Removes(w, {"flushuser"})' /\ Removes(w, {"flushreply", "flushuser"})'
      /\ Removes(w, {"detach", "flushreply", "flushuser"})'
  BY <1>8 DEF Removes
<1>10. PortsRight(w) /\ QueueRight(w) /\ MovesRight(w)
  BY DEF Messages
<1>11. PortsRight(w)'
  BY <1>1, <1>4, <1>6 DEF PortsRight
<1>12. QueueRight(w)'
  <2>1. Count(replied'[w]) = 0
    BY <1>6 DEF Count, NoMessages, Classes
  <2> QED BY <1>1, <1>6, <1>9, <1>10, <2>1 DEF QueueRight
<1>13. Outstanding(w, "move")' <= MouseQueue + Cardinality(WindowTasks)
  <2>1. "move" \in Classes /\ NoMessages["move"] = 0
    BY DEF Classes, NoMessages
  <2>2. Outstanding(w, "move")' = Unanswered(w, "move") /\ Unanswered(w, "move") \in Nat
    BY <1>6, <1>7, <2>1, CountsNow, CountsThen
  <2>3. Outstanding(w, "move") = Unanswered(w, "move") + replied[w]["move"] /\ replied[w]["move"] \in Nat
    BY <2>1, CountsNow
  <2>4. Outstanding(w, "move") <= MouseQueue + Cardinality(WindowTasks)
    BY <1>10 DEF MovesRight
  <2>5. MouseQueue \in Nat /\ Cardinality(WindowTasks) \in Nat
    BY MouseQueueAssumption, WindowsAssumption, FS_CardinalityType
  <2> QED BY <2>2, <2>3, <2>4, <2>5
<1>14. messageMem' + Outstanding(w, "move")' + Outstanding(w, "other")'
           = messageMem + Outstanding(w, "move") + Outstanding(w, "other")
  <2>1. ~IsAt(t, "put") /\ ~IsAt(t, "put")'
    BY <1>2, <1>3 DEF IsAt
  <2>2. /\ Unanswered(w, "move")' = Unanswered(w, "move")
        /\ Unanswered(w, "other")' = Unanswered(w, "other")
    BY <1>7 DEF Classes
  <2>3. messageMem' + Unanswered(w, "move")' + Unanswered(w, "other")'
             + (IF IsAt(t, "put")' THEN 1 ELSE 0)
           = MemAfterReap(w) + Unanswered(w, "move") + Unanswered(w, "other")
             + (IF IsAt(t, "put") THEN 1 ELSE 0)
    BY <1>1, <2>1, <2>2
  <2>4. messageMem' + Outstanding(w, "move")' + Outstanding(w, "other")'
             + (IF IsAt(t, "put")' THEN 1 ELSE 0)
           = messageMem + Outstanding(w, "move") + Outstanding(w, "other")
             + (IF IsAt(t, "put") THEN 1 ELSE 0)
    BY <1>6, <2>3, ReapConserves
  <2>5. ASSUME NEW k \in Classes PROVE Outstanding(w, k) \in Nat /\ Outstanding(w, k)' \in Nat
    BY CountsNow, CountsThen
  <2>6. "move" \in Classes /\ "other" \in Classes /\ messageMem \in Nat /\ messageMem' \in Nat
    BY DEF Classes, IdcmpTypes
  <2> QED BY <2>1, <2>4, <2>5, <2>6
<1> QED BY <1>1, <1>2, <1>3, <1>4, <1>6, <1>7, <1>9, <1>11, <1>12, <1>13, <1>14, DetachedStep

\* The program that flushes a port of a window is past what comes before.
LEMMA PastFlush ==
  ASSUME IdcmpTypes, Messages, NEW t \in WindowTasks, NEW w \in Windows, NEW place \in Detached \ {"detach"},
         Works(t, w, {place}), \A u \in WindowTasks \ {t} : doing'[u] = doing[u]
  PROVE  /\ ~windowPort[w] /\ pending[w] = 0 /\ userPort[w] = "none" /\ w \in owns[t]
         /\ doing[t].at = place /\ doing[t].window = {w}
         /\ Works(t, w, Detached) /\ Works(t, w, Removal) /\ held[w] = NoMessages
         /\ place # "flushreply" => "reply" \notin ports[w] /\ Count(replied[w]) = 0 
         /\ place = "end" => \A c \in Classes : Unanswered(w, c) = 0
<1>1. /\ doing[t].at = place /\ doing[t].window = {w}
      /\ Works(t, w, Detached) /\ Works(t, w, Removal) /\ Works(t, w, Detached \ {"detach"})
  BY DEF Works, Removal, Detached
<1>2. ~windowPort[w] /\ pending[w] = 0 /\ userPort[w] = "none" /\ w \in owns[t] /\ held[w] = NoMessages
  BY <1>1 DEF Messages, WorkRight
<1>3. PortsRight(w) /\ QueueRight(w)
  BY DEF Messages
<1>4. {"flushreply"} \in SUBSET Removal /\ {"flushuser"} \in SUBSET Removal
  BY DEF Removal, Detached
<1>5. \A places \in SUBSET Removal : Removes(w, places) <=> doing[t].at \in places
  BY <1>1, Remover
<1>6. ASSUME place # "flushreply" PROVE "reply" \notin ports[w]
  <2>1. ~Removes(w, {"flushreply"})
    BY <1>1, <1>4, <1>5, <1>6
  <2> QED BY <1>2, <1>3, <2>1 DEF PortsRight
<1>7. ASSUME place = "end", NEW c \in Classes PROVE ~(Unanswered(w, c) > 0)
  <2>1. ~Removes(w, {"flushuser"})
    BY <1>1, <1>4, <1>5, <1>7
  <2>2. "reply" \notin ports[w]
    BY <1>6, <1>7
  <2> QED BY <1>3, <2>1, <2>2 DEF QueueRight
<1>8. ASSUME NEW c \in Classes PROVE Unanswered(w, c) \in Nat /\ replied[w][c] \in Nat
  BY CountsNow
<1>9. place # "flushreply" => Count(replied[w]) = 0
  <2>1. replied[w]["move"] \in Nat /\ replied[w]["other"] \in Nat
    BY <1>8 DEF Classes
  <2>2. place # "flushreply" => ~(Count(replied[w]) > 0)
    BY <1>3, <1>6 DEF QueueRight
  <2> QED BY <2>1, <2>2 DEF Count
<1>10. ASSUME place = "end", NEW c \in Classes PROVE Unanswered(w, c) = 0
  BY <1>7, <1>8, <1>10
<1> QED BY <1>1, <1>2, <1>6, <1>9, <1>10

\* The messages at a user port are freed with it.
LEMMA FlushUserPortStep ==
  ASSUME IdcmpTypes, IdcmpTypes', Messages, NEW t \in WindowTasks, NEW w \in Windows,
         FlushUserPort(t, w)
  PROVE  Messages' /\ messageMem' <= MaxMessages
<1>1. /\ Works(t, w, {"flushuser"}) /\ GoOn(t, "end")
      /\ ownQueue' = [ownQueue EXCEPT ![w] = <<>>] /\ messageMem' = messageMem + Len(ownQueue[w])
      /\ pending' = [pending EXCEPT ![w] = Less(pending[w], Occurrences(ownQueue[w], w, "move"))]
      /\ ports' = [ports EXCEPT ![w] = ports[w] \ {"user"}]
      /\ UNCHANGED <<owns, linked, userPort, windowPort, sharedQueue, held, replied>>
  BY DEF FlushUserPort
<1>2. doing'[t].at = "end" /\ doing'[t].window = doing[t].window
      /\ \A u \in WindowTasks \ {t} : doing'[u] = doing[u]
  <2>1. "end" \in Removal
    BY DEF Removal, Detached
  <2> QED BY <1>1, <2>1, GoesOn
<1>3. /\ ~windowPort[w] /\ pending[w] = 0 /\ userPort[w] = "none" /\ w \in owns[t]
      /\ doing[t].window = {w} /\ Works(t, w, Detached) /\ held[w] = NoMessages
      /\ "reply" \notin ports[w] /\ Count(replied[w]) = 0
  <2>1. "flushuser" \in Detached \ {"detach"} /\ "flushuser" # "flushreply"
    BY DEF Detached
  <2> QED BY <1>1, <1>2, <2>1, PastFlush
<1>4. /\ \A u \in WindowTasks : \A i \in 1 .. Len(sharedQueue[u]) : sharedQueue[u][i].window # w
      /\ Posts(w, {"count"}) = 0
  <2>1. doing'[t].at \notin Posting
    BY <1>2 DEF Posting
  <2>2. /\ \A u \in WindowTasks : ~Works(u, w, Posting)
        /\ \A u \in WindowTasks : \A i \in 1 .. Len(sharedQueue[u]) : sharedQueue[u][i].window # w
    BY <1>2, <1>3, <2>1, Lonely
  <2>3. { u \in WindowTasks : Works(u, w, {"count"}) } = {}
    BY <2>2 DEF Works, Posting
  <2> QED BY <2>2, <2>3, FS_EmptySet DEF Posts
<1>5. ASSUME NEW k \in Classes
      PROVE  /\ Occurrences(ownQueue[w], w, k) \in Nat
             /\ Unanswered(w, k) = Occurrences(ownQueue[w], w, k)
             /\ Unanswered(w, k)' = 0
             /\ \A v \in Windows \ {w} : Unanswered(v, k)' = Unanswered(v, k)
  <2>1. Shared(sharedQueue, w, k) = 0
    BY <1>4, QueueTypes, SharedNone
  <2>2. held[w][k] = 0
    BY <1>3 DEF NoMessages
  <2>3. Unanswered(w, k) = Occurrences(ownQueue[w], w, k) /\ Occurrences(ownQueue[w], w, k) \in Nat
    <3>1. Unanswered(w, k) = Occurrences(ownQueue[w], w, k) + Shared(sharedQueue, w, k) + held[w][k]
          /\ Occurrences(ownQueue[w], w, k) \in Nat
      BY CountsBoth
    <3> QED BY <2>1, <2>2, <3>1
  <2>4. \A v \in Windows : Unanswered(v, k)'
                 = Unanswered(v, k) - IF v = w THEN Occurrences(ownQueue[w], w, k) ELSE 0
    BY <1>1, FlushCounts
  <2>5. Unanswered(w, k)' = 0
    BY <2>3, <2>4
  <2>6. ASSUME NEW v \in Windows \ {w} PROVE Unanswered(v, k)' = Unanswered(v, k)
    <3>1. Unanswered(v, k)' = Unanswered(v, k) - 0
      BY <2>4
    <3>2. Unanswered(v, k) \in Nat
      BY CountsNow
    <3> QED BY <3>1, <3>2
  <2> QED BY <2>3, <2>5, <2>6
<1>6. /\ ports'[w] = ports[w] \ {"user"} /\ ownQueue'[w] = <<>>
      /\ pending'[w] = Less(pending[w], Occurrences(ownQueue[w], w, "move"))
      /\ \A v \in Windows \ {w} : /\ ports'[v] = ports[v] /\ ownQueue'[v] = ownQueue[v]
                                  /\ pending'[v] = pending[v]
  BY <1>1, TypesNow DEF OwnQueues
<1>7. pending'[w] = 0
  <2>1. PICK r \in Nat : r = Occurrences(ownQueue[w], w, "move")
    BY <1>5 DEF Classes
  <2>2. ~(0 > r)
    OBVIOUS
  <2> QED BY <1>3, <1>6, <2>1, <2>2 DEF Less
<1>8. PortsRight(w)'
  <2>1. PortsRight(w)
    BY DEF Messages
  <2> QED BY <1>1, <1>3, <1>6, <2>1 DEF PortsRight
<1>9. QueueRight(w)'
  <2>1. /\ ownQueue'[w] \in Seq({ Of(w, c) : c \in Classes })
        /\ Count(replied'[w]) = 0 /\ held'[w] = NoMessages
    <3>1. \A S : <<>> \in Seq(S)
      OBVIOUS
    <3>2. ownQueue'[w] \in Seq({ Of(w, c) : c \in Classes })
      BY <1>6, <3>1, Zenon
    <3> QED BY <1>1, <1>3, <3>2
  <2>2. \A c \in Classes : Unanswered(w, c)' = 0
    BY <1>5
  <2> QED BY <1>6, <2>1, <2>2 DEF QueueRight
<1>10. /\ replied[w]["move"] = 0 /\ replied[w]["other"] = 0
  <2>1. ASSUME NEW c \in Classes PROVE replied[w][c] \in Nat
    BY CountsNow
  <2>2. replied[w]["move"] \in Nat /\ replied[w]["other"] \in Nat
    BY <2>1 DEF Classes
  <2> QED BY <1>3, <2>2 DEF Count
<1>11. ASSUME NEW k \in Classes
       PROVE  Outstanding(w, k)' = 0 /\ Outstanding(w, k) = Occurrences(ownQueue[w], w, k)
  <2>1. replied[w][k] = 0 /\ replied'[w][k] = 0
    BY <1>1, <1>10 DEF Classes
  <2> QED BY <1>5, <2>1, CountsNow, CountsThen
<1>12. Occurrences(ownQueue[w], w, "move") + Occurrences(ownQueue[w], w, "other") = Len(ownQueue[w])
  BY OccurrencesOfOne DEF Messages, QueueRight
<1>13. messageMem' + Outstanding(w, "move")' + Outstanding(w, "other")'
           = messageMem + Outstanding(w, "move") + Outstanding(w, "other")
  <2>1. /\ Outstanding(w, "move")' = 0 /\ Outstanding(w, "other")' = 0
        /\ Outstanding(w, "move") = Occurrences(ownQueue[w], w, "move")
        /\ Outstanding(w, "other") = Occurrences(ownQueue[w], w, "other")
        /\ Occurrences(ownQueue[w], w, "move") \in Nat /\ Occurrences(ownQueue[w], w, "other") \in Nat
    BY <1>5, <1>11 DEF Classes
  <2>2. messageMem \in Nat
    BY TypesNow
  <2>3. PICK m, a, b : m = messageMem /\ a = Occurrences(ownQueue[w], w, "move")
                       /\ b = Occurrences(ownQueue[w], w, "other")
    OBVIOUS
  <2>4. m \in Nat /\ a \in Nat /\ b \in Nat /\ messageMem' = m + (a + b)
    BY <1>1, <1>12, <2>1, <2>2, <2>3
  <2>5. m + (a + b) + 0 + 0 = m + a + b
    BY <2>4
  <2> QED BY <2>1, <2>3, <2>4, <2>5
<1>14. pending'[w] + Posts(w, {"count"}) = Outstanding(w, "move")'
  BY <1>4, <1>7, <1>11 DEF Classes
<1>15. doing'[t].at \in {"flushreply", "flushuser", "end"} /\ doing'[t].window = {w}
  BY <1>2, <1>3
<1> QED BY <1>1, <1>2, <1>3, <1>5, <1>6, <1>7, <1>8, <1>9, <1>13, <1>14, <1>15, DetachedStep

\* The ports are gone, and the window perhaps.
LEMMA RemoveEndStep ==
  ASSUME IdcmpTypes, IdcmpTypes', Messages, NEW t \in WindowTasks, NEW w \in Windows,
         RemoveEnd(t, w)
  PROVE  Messages' /\ messageMem' <= MaxMessages
<1>1. /\ Works(t, w, {"end"}) /\ doing' = [doing EXCEPT ![t] = Running]
      /\ UNCHANGED <<userPort, windowPort, pending, ports, ownQueue, sharedQueue, held, replied,
                     messageMem>>
  BY DEF RemoveEnd
<1>2. doing'[t].at = "program" /\ doing'[t].window = {}
      /\ \A u \in WindowTasks \ {t} : doing'[u] = doing[u]
  <2>1. doing'[t] = Running
    BY <1>1, TypesNow
  <2> QED BY <1>1, <2>1, TypesNow DEF Running
<1>3. /\ ~windowPort[w] /\ pending[w] = 0 /\ userPort[w] = "none" /\ w \in owns[t]
      /\ doing[t].window = {w} /\ Works(t, w, Detached) /\ Works(t, w, Removal)
      /\ held[w] = NoMessages /\ doing[t].at = "end"
      /\ "reply" \notin ports[w] /\ \A c \in Classes : Unanswered(w, c) = 0
  <2>1. "end" \in Detached \ {"detach"} /\ "end" # "flushreply"
    BY DEF Detached
  <2> QED BY <1>1, <1>2, <2>1, PastFlush
<1>4. /\ \A u \in WindowTasks : ~Works(u, w, Posting) /\ ~Works(u, w, Posting)'
      /\ \A u \in WindowTasks : \A i \in 1 .. Len(sharedQueue[u]) : sharedQueue[u][i].window # w
      /\ Posts(w, {"count"})' = Posts(w, {"count"}) /\ Movers(w)' = Movers(w)
  <2>1. doing'[t].at \notin Posting
    BY <1>2 DEF Posting
  <2> QED BY <1>2, <1>3, <2>1, Lonely
<1>5. \A u \in WindowTasks \ {t} : ~Works(u, w, Removal) /\ ~Works(u, w, Removal)' /\ w \notin owns[u]
  BY <1>2, <1>3, Remover
<1>6. /\ \A u \in WindowTasks \ {t} : owns'[u] = owns[u]
      /\ \/ owns'[t] = owns[t] /\ linked' = linked
         \/ owns'[t] = owns[t] \ {w} /\ linked' = linked \ {w}
  BY TypesNow DEF RemoveEnd
<1>7. \A v \in Windows, k \in Classes :
         Unanswered(v, k)' = Unanswered(v, k) /\ Outstanding(v, k)' = Outstanding(v, k)
  BY <1>1, NothingMoves DEF Outstanding
<1>8. \A v \in Windows \ {w} : Untouched(v)
  BY <1>1, <1>2, <1>3, <1>6, <1>7, OthersUntouched
<1>9. OwnersRight'
  <2>1. OwnersRight
    BY DEF Messages
  <2>2. \A u \in WindowTasks : owns'[u] \subseteq owns[u]
    BY <1>6
  <2>3. \A u1, u2 \in WindowTasks : u1 # u2 => owns'[u1] \cap owns'[u2] = {}
    BY <2>1, <2>2 DEF OwnersRight
  <2>4. ASSUME NEW v \in Windows PROVE v \in linked' <=> \E u \in WindowTasks : v \in owns'[u]
    <3>1. v \in linked <=> \E u \in WindowTasks : v \in owns[u]
      BY <2>1 DEF OwnersRight
    <3> QED BY <1>3, <1>5, <1>6, <3>1
  <2> QED BY <2>3, <2>4 DEF OwnersRight
<1>10. AtRight(t)'
  BY <1>2 DEF AtRight
<1>12. ASSUME NEW u \in WindowTasks, NEW places \in SUBSET Removal PROVE ~Works(u, w, places)'
  BY <1>2, <1>5 DEF Works
<1>13. \A u \in WindowTasks : WorkRight(u, w)'
  <2> SUFFICES ASSUME NEW u \in WindowTasks PROVE WorkRight(u, w)'
    OBVIOUS
  <2>1. ~Works(u, w, {"count"})' /\ ~Works(u, w, Posting)'
    BY <1>4 DEF Works, Posting
  <2>2. /\ {"cleared"} \in SUBSET Removal /\ {"modify", "close"} \in SUBSET Removal
        /\ Detached \in SUBSET Removal /\ Detached \ {"detach"} \in SUBSET Removal
        /\ Removal \in SUBSET Removal
    BY DEF Removal
  <2>3. /\ ~Works(u, w, {"cleared"})' /\ ~Works(u, w, {"modify", "close"})'
        /\ ~Works(u, w, Detached)' /\ ~Works(u, w, Detached \ {"detach"})'
        /\ ~Works(u, w, Removal)'
    BY <1>12, <2>2
  <2> QED BY <2>1, <2>3 DEF WorkRight
<1>14. PortsRight(w) /\ QueueRight(w) /\ MovesRight(w)
  BY DEF Messages
<1>15. PortsRight(w)'
  BY <1>1, <1>3, <1>14 DEF PortsRight
<1>16. QueueRight(w)'
  <2>1. ownQueue[w] = <<>>
    <3>1. {"detach", "flushreply", "flushuser"} \in SUBSET Removal
      BY DEF Removal, Detached
    <3>2. Removes(w, {"detach", "flushreply", "flushuser"})
            <=> doing[t].at \in {"detach", "flushreply", "flushuser"}
      BY <1>2, <1>3, <3>1, Remover
    <3>3. ~Removes(w, {"detach", "flushreply", "flushuser"})
      BY <1>3, <3>2
    <3> QED BY <1>3, <1>14, <3>3 DEF QueueRight
  <2>2. \A c \in Classes : ~(Unanswered(w, c)' > 0)
    BY <1>3, <1>7
  <2> QED BY <1>1, <1>3, <1>14, <2>1, <2>2 DEF QueueRight
<1>17. MovesRight(w)'
  <2>1. ~Removes(w, {"flushreply", "flushuser"})
    <3>1. {"flushreply", "flushuser"} \in SUBSET Removal
      BY DEF Removal, Detached
    <3>2. Removes(w, {"flushreply", "flushuser"}) <=> doing[t].at \in {"flushreply", "flushuser"}
      BY <1>2, <1>3, <3>1, Remover
    <3> QED BY <1>3, <3>2
  <2>2. Outstanding(w, "move")' = Outstanding(w, "move")
    BY <1>7 DEF Classes
  <2> QED BY <1>1, <1>4, <1>14, <2>1, <2>2 DEF MovesRight
<1>18. WindowRight(w)'
  BY <1>13, <1>15, <1>16, <1>17 DEF WindowRight
<1>19. \A u \in WindowTasks : SharedRight(u)'
  <2> SUFFICES ASSUME NEW u \in WindowTasks PROVE SharedRight(u)'
    OBVIOUS
  <2>1. SharedRight(u)
    BY DEF Messages
  <2>2. \A v \in Windows : Works(u, v, {"cleared"})' => Works(u, v, {"cleared"})
    BY <1>2 DEF Works
  <2>3. \A v \in Windows : v \in owns[u] /\ userPort[v] = "shared" => v \in owns'[u]
    BY <1>3, <1>6
  <2> QED BY <1>1, <2>1, <2>2, <2>3, SharedKept
<1>20. messageMem' + Outstanding(w, "move")' + Outstanding(w, "other")'
             + (IF IsAt(t, "put")' THEN 1 ELSE 0)
           = messageMem + Outstanding(w, "move") + Outstanding(w, "other")
             + (IF IsAt(t, "put") THEN 1 ELSE 0)
  <2>1. ~IsAt(t, "put") /\ ~IsAt(t, "put")'
    BY <1>2, <1>3 DEF IsAt
  <2> QED BY <1>1, <1>7, <2>1 DEF Classes
<1> QED BY <1>2, <1>8, <1>9, <1>10, <1>18, <1>19, <1>20, StepDone

\* Nothing is open or posted at first.
LEMMA InitIdcmpInv ==
  ASSUME IdcmpInit
  PROVE  IdcmpInv
<1>1. IdcmpTypes
  <2>1. Running \in DoingType
    <3>1. PICK d : d = [at |-> "program", window |-> {}, class |-> "other", then |-> "program",
                        forbid |-> FALSE, saved |-> FALSE]
      OBVIOUS
    <3>2. d = Running
      BY <3>1 DEF Running
    <3> QED BY <3>1, <3>2, DoneDoing
  <2>2. NoMessages \in [Classes -> Nat]
    BY DEF NoMessages
  <2>3. \A S : <<>> \in Seq(S)
    OBVIOUS
  <2>4. /\ ownQueue \in [Windows -> Seq(MsgType)] /\ sharedQueue \in [WindowTasks -> Seq(MsgType)]
    BY <2>3 DEF IdcmpInit
  <2> QED BY <2>1, <2>2, <2>4, MessagesAssumption DEF IdcmpInit, IdcmpTypes
<1>2. ASSUME NEW w \in Windows, NEW c \in Classes
      PROVE  Unanswered(w, c) = 0 /\ Outstanding(w, c) = 0
  <2>1. \A t \in WindowTasks : \A i \in 1 .. Len(sharedQueue[t]) : sharedQueue[t][i].window # w
    BY DEF IdcmpInit
  <2>2. Shared(sharedQueue, w, c) = 0
    BY <1>1, <2>1, QueueTypes, SharedNone
  <2>3. Occurrences(ownQueue[w], w, c) = 0
    <3>1. ownQueue[w] = <<>>
      BY DEF IdcmpInit
    <3>2. { i \in 1 .. Len(ownQueue[w]) : ownQueue[w][i] = Of(w, c) } = {}
      BY <3>1
    <3> QED BY <3>2, FS_EmptySet DEF Occurrences
  <2>4. held[w][c] = 0 /\ replied[w][c] = 0
    BY DEF IdcmpInit, NoMessages
  <2>5. /\ Unanswered(w, c) = InPortsOrHeld(ownQueue, sharedQueue, held, w, c)
        /\ Outstanding(w, c) = Unanswered(w, c) + replied[w][c]
    BY <1>1, CountsNow
  <2> QED BY <2>2, <2>3, <2>4, <2>5 DEF InPortsOrHeld
<1>3. \A t \in WindowTasks : doing[t] = Running
  BY DEF IdcmpInit
<1>4. \A t \in WindowTasks : \A w, places : ~Works(t, w, places)
  BY <1>3 DEF Works, Running
<1>5. OwnersRight
  BY DEF IdcmpInit, OwnersRight
<1>6. ASSUME NEW w \in Windows
      PROVE  (\A t \in WindowTasks : WorkRight(t, w)) /\ PortsRight(w) /\ QueueRight(w) /\ MovesRight(w)
  <2>1. \A t \in WindowTasks : WorkRight(t, w)
    BY <1>4 DEF WorkRight
  <2>2. \A places : ~Removes(w, places)
    BY <1>4 DEF Removes
  <2>3. PortsRight(w)
    BY DEF IdcmpInit, PortsRight
  <2>4. QueueRight(w)
    <3>1. \A S : <<>> \in Seq(S)
      OBVIOUS
    <3>2. ownQueue[w] = <<>> /\ held[w] = NoMessages /\ replied[w] = NoMessages
      BY DEF IdcmpInit
    <3>3. ownQueue[w] \in Seq({ Of(w, c) : c \in Classes })
      BY <3>1, <3>2, Zenon
    <3>4. Count(replied[w]) = 0
      BY <3>2 DEF Count, NoMessages, Classes
    <3>5. \A c \in Classes : Unanswered(w, c) = 0
      BY <1>2
    <3> QED BY <3>2, <3>3, <3>4, <3>5 DEF QueueRight
  <2>5. MovesRight(w)
    <3>1. { t \in WindowTasks : Works(t, w, {"count"}) } = {}
      BY <1>4
    <3>2. { t \in WindowTasks : Works(t, w, Posting) /\ doing[t].class = "move" } = {}
      BY <1>4
    <3>3. Posts(w, {"count"}) = 0 /\ Movers(w) = 0
      BY <3>1, <3>2, FS_EmptySet DEF Posts, Movers
    <3>4. Outstanding(w, "move") = 0 /\ pending[w] = 0
      BY <1>2 DEF Classes, IdcmpInit
    <3>5. MouseQueue \in Nat /\ Cardinality(WindowTasks) \in Nat
      BY MouseQueueAssumption, WindowsAssumption, FS_CardinalityType
    <3> QED BY <3>3, <3>4, <3>5 DEF MovesRight
  <2> QED BY <2>1, <2>3, <2>4, <2>5
<1>7. ASSUME NEW t \in WindowTasks PROVE AtRight(t) /\ SharedRight(t)
  <2>1. AtRight(t)
    BY <1>3 DEF AtRight, Running
  <2>2. Len(sharedQueue[t]) = 0
    BY DEF IdcmpInit
  <2> QED BY <2>1, <2>2 DEF SharedRight
<1>8. Conserved
  <2>1. PICK f : f = Existing
    OBVIOUS
  <2>2. DOMAIN f = Windows /\ \A w \in Windows : f[w] = 0
    BY <1>2, <2>1 DEF Existing, Classes
  <2>3. SumFunction(f) = 0
    BY <2>2, WindowsAssumption, SumOfZeros
  <2>4. Putters = {}
    BY <1>3 DEF Putters, IsAt, Running
  <2>5. Cardinality(Putters) = 0
    BY <2>4, FS_EmptySet
  <2>6. messageMem = MaxMessages
    BY DEF IdcmpInit
  <2> QED BY <2>1, <2>3, <2>5, <2>6, MessagesAssumption DEF Conserved
<1>9. messageMem <= MaxMessages
  BY MessagesAssumption DEF IdcmpInit
<1> QED BY <1>1, <1>5, <1>6, <1>7, <1>8, <1>9 DEF IdcmpInv, Messages

\* The steps that are about no window.
LEMMA QuietTypes ==
  ASSUME IdcmpTypes, (\E t \in WindowTasks : WaitTOF(t) \/ PollEnd(t)) \/ VBlankNoEvent
  PROVE  IdcmpTypes'
<1>0. /\ owns \in [WindowTasks -> SUBSET Windows] /\ linked \in SUBSET Windows
      /\ userPort \in [Windows -> {"none", "own", "shared"}] /\ windowPort \in [Windows -> BOOLEAN]
      /\ idcmp \in [Windows -> BOOLEAN] /\ pending \in [Windows -> Nat]
      /\ ports \in [Windows -> SUBSET {"user", "reply"}]
      /\ ownQueue \in OwnQueues /\ sharedQueue \in SharedQueues
      /\ held \in Counts /\ replied \in Counts
      /\ messageMem \in Nat /\ processing \in BOOLEAN /\ overtaken \in BOOLEAN
      /\ doing \in [WindowTasks -> DoingType]
  BY TypesNow
<1>1. /\ UNCHANGED <<owns, linked, userPort, windowPort, idcmp, pending, ports, ownQueue,
                     sharedQueue, held, replied, messageMem, overtaken>>
      /\ processing' \in BOOLEAN
  BY DEF WaitTOF, PollEnd, VBlankNoEvent
<1>2. doing' \in [WindowTasks -> DoingType]
  <2>1. CASE VBlankNoEvent
    BY <1>0, <2>1 DEF VBlankNoEvent
  <2>2. ASSUME NEW t \in WindowTasks, WaitTOF(t) \/ PollEnd(t)
        PROVE  doing' \in [WindowTasks -> DoingType]
    <3>1. GoOn(t, "poll") \/ GoOn(t, "program")
      BY <2>2 DEF WaitTOF, PollEnd
    <3> QED BY <3>1, GoesOn
  <2> QED BY <2>1, <2>2
<1> QED BY <1>0, <1>1, <1>2, TypesThen, Zenon

\* A program that posts takes no memory that there is not.
LEMMA PostBound ==
  ASSUME IdcmpTypes, Messages, NEW t, NEW w \in Windows, NEW c, NEW then, Post(t, w, c, then)
  PROVE  messageMem' <= MaxMessages
<1>1. PICK m \in Nat : m = MemAfterReap(w)
  BY ReapTypes
<1>2. m <= MaxMessages
  BY <1>1, ReapBound
<1>3. messageMem' = m \/ messageMem' = m - 1
  BY <1>1 DEF Post
<1> QED BY <1>1, <1>2, <1>3, MessagesAssumption

\* Nor does the interrupt.
LEMMA VBlankBound ==
  ASSUME IdcmpTypes, Messages, NEW w \in Windows, NEW c, VBlankInputHook(w, c)
  PROVE  messageMem' <= MaxMessages
<1>1. PICK m \in Nat : m = MemAfterReap(w)
  BY ReapTypes
<1>2. m <= MaxMessages
  BY <1>1, ReapBound
<1>3. messageMem' = m \/ messageMem' = m - 1
  BY <1>1 DEF VBlankInputHook
<1> QED BY <1>1, <1>2, <1>3, MessagesAssumption

\* What the steps of a program keep.
LEMMA ProgramStep ==
  ASSUME IdcmpTypes, Messages, messageMem <= MaxMessages, NEW t \in WindowTasks, NotForbidden(t),
         IdcmpStep(t)
  PROVE  IdcmpInv'
<1> DEFINE Kept == IdcmpTypes' /\ messageMem' <= MaxMessages /\ (overtaken' \/ Messages')
<1> SUFFICES Kept
  BY DEF IdcmpInv
<1>1. \A w \in Windows : WorkRight(t, w)
  BY DEF Messages
<1>2. CASE WaitTOF(t) \/ PollEnd(t)
  <2>1. IdcmpTypes'
    BY <1>2, QuietTypes
  <2>2. Messages' /\ messageMem' = messageMem
    BY <1>2, <2>1, QuietSteps
  <2> QED BY <2>1, <2>2
<1>3. CASE GetMsg(t)
  <2>1. IdcmpTypes'
    BY <1>3, MessageTypes
  <2> QED BY <1>3, <2>1, GetMsgStep
<1>4. ASSUME NEW w \in Windows, NEW c \in Classes, PollInput(t, w, c)
      PROVE  Kept
  <2>1. IdcmpTypes'
    BY <1>1, <1>4, CallTypes
  <2>2. doing[t].at \in {"program", "poll"} /\ Post(t, w, c, "poll")
    BY <1>4 DEF PollInput, IsAt
  <2>3. ~overtaken' => Messages'
    BY <2>1, <2>2, PostStep
  <2> QED BY <2>1, <2>2, <2>3, PostBound
<1>5. ASSUME NEW w \in Windows, NEW c \in Classes, ReplyMsg(t, w, c)
      PROVE  Kept
  <2>1. IdcmpTypes'
    BY <1>5, MessageTypes
  <2> QED BY <1>5, <2>1, ReplyMsgStep
<1>6. ASSUME NEW w \in Windows, NEW flags \in BOOLEAN, OpenWindow(t, w, flags)
      PROVE  Kept
  <2>1. IdcmpTypes'
    BY <1>1, <1>6, CallTypes
  <2> QED BY <1>6, <2>1, OpenWindowStep
<1>7. ASSUME NEW w \in Windows, PostPut(t, w)
      PROVE  Kept
  <2>1. IdcmpTypes'
    BY <1>1, <1>7, CallTypes
  <2> QED BY <1>7, <2>1, PostPutStep
<1>8. ASSUME NEW w \in Windows, PostCount(t, w)
      PROVE  Kept
  <2>1. IdcmpTypes'
    BY <1>1, <1>8, CallTypes
  <2> QED BY <1>8, <2>1, PostCountStep
<1>9. ASSUME NEW w \in Windows, PostCall(t, w)
      PROVE  Kept
  <2>1. IdcmpTypes'
    BY <1>1, <1>9, CallTypes
  <2>2. doing[t].at \in {"program", "poll"} /\ Post(t, w, "other", "program") /\ "other" \in Classes
    BY <1>9 DEF PostCall, IsAt, Classes
  <2>3. ~overtaken' => Messages'
    BY <2>1, <2>2, PostStep
  <2> QED BY <2>1, <2>2, <2>3, PostBound
<1>10. ASSUME NEW w \in Windows, SharePort(t, w) \/ ModifyIDCMP(t, w)
       PROVE  Kept
  <2>1. IdcmpTypes'
    BY <1>1, <1>10, CallTypes
  <2> QED BY <1>10, <2>1, PortSteps
<1>11. ASSUME NEW w \in Windows, ModifyIDCMPZero(t, w) \/ MoveMessages(t, w) \/ CloseWindow(t, w)
       PROVE  Kept
  <2>1. IdcmpTypes'
    BY <1>11, RemovalTypes
  <2>2. messageMem' = messageMem
    BY <1>11 DEF ModifyIDCMPZero, MoveMessages, CloseWindow
  <2>3. ~overtaken' => Messages'
    BY <1>11, <2>1, RemoveBegins
  <2> QED BY <2>1, <2>2, <2>3
<1>12. ASSUME NEW w \in Windows, ClearMsgPort(t, w)
       PROVE  Kept
  <2>1. IdcmpTypes'
    BY <1>12, RemovalTypes
  <2> QED BY <1>12, <2>1, ClearMsgPortStep
<1>13. ASSUME NEW w \in Windows, TakeUserPort(t, w) \/ DetachUserPort(t, w)
       PROVE  Kept
  <2>1. IdcmpTypes'
    BY <1>13, RemovalTypes
  <2>2. messageMem' = messageMem
    BY <1>13 DEF TakeUserPort, DetachUserPort
  <2>3. ~overtaken' => Messages'
    BY <1>13, <2>1, UserPortStep
  <2> QED BY <2>1, <2>2, <2>3
<1>14. ASSUME NEW w \in Windows, DetachWindowPort(t, w) \/ FlushReplyPort(t, w)
       PROVE  Kept
  <2>1. IdcmpTypes'
    BY <1>14, FlushTypes
  <2> QED BY <1>14, <2>1, DetachWindowPortStep, FlushReplyPortStep
<1>15. ASSUME NEW w \in Windows, FlushUserPort(t, w) \/ RemoveEnd(t, w)
       PROVE  Kept
  <2>1. IdcmpTypes'
    BY <1>15, FlushTypes
  <2> QED BY <1>15, <2>1, FlushUserPortStep, RemoveEndStep
<1> HIDE DEF Kept
<1> QED
  <2>1. \/ WaitTOF(t) \/ PollEnd(t) \/ GetMsg(t)
        \/ \E w \in Windows, c \in Classes : PollInput(t, w, c) \/ ReplyMsg(t, w, c)
        \/ \E w \in Windows, flags \in BOOLEAN : OpenWindow(t, w, flags)
        \/ \E w \in Windows : \/ PostPut(t, w) \/ PostCount(t, w) \/ PostCall(t, w)
                              \/ SharePort(t, w) \/ ModifyIDCMP(t, w) \/ ModifyIDCMPZero(t, w)
                              \/ CloseWindow(t, w) \/ ClearMsgPort(t, w) \/ TakeUserPort(t, w)
                              \/ MoveMessages(t, w) \/ DetachUserPort(t, w) \/ DetachWindowPort(t, w)
                              \/ FlushReplyPort(t, w) \/ FlushUserPort(t, w) \/ RemoveEnd(t, w)
    BY DEF IdcmpStep
  <2> QED BY <1>2, <1>3, <1>4, <1>5, <1>6, <1>7, <1>8, <1>9, <1>10, <1>11, <1>12, <1>13, <1>14, <1>15, <2>1

\* Every step keeps the invariant.
LEMMA NextIdcmpInv ==
  ASSUME IdcmpInv, [IdcmpNext]_idcmpVars
  PROVE  IdcmpInv'
<1>1. CASE UNCHANGED idcmpVars
  <2>1. IdcmpTypes'
    BY <1>1 DEF IdcmpInv, idcmpVars, IdcmpTypes
  <2>2. messageMem' <= MaxMessages
    BY <1>1 DEF IdcmpInv, idcmpVars
  <2>3. ASSUME Messages PROVE Messages'
    <3>1. \A v \in Windows, c \in Classes : Unanswered(v, c)' = Unanswered(v, c)
      BY <1>1, NothingMoves DEF idcmpVars
    <3>2. \A v \in Windows : Untouched(v)
      BY <1>1, <3>1 DEF idcmpVars, Untouched
    <3>3. \A u \in WindowTasks : AtRight(u)' /\ (IsAt(u, "put")' <=> IsAt(u, "put"))
      BY <1>1, <2>3 DEF idcmpVars, Messages, AtRight, IsAt
    <3> QED BY <1>1, <2>1, <2>3, <3>2, <3>3, StepQuiet DEF IdcmpInv, idcmpVars
  <2>4. overtaken' = overtaken
    BY <1>1 DEF idcmpVars
  <2> QED BY <2>1, <2>2, <2>3, <2>4 DEF IdcmpInv
<1>2. CASE IdcmpNext /\ ~overtaken
  <2>1. IdcmpTypes /\ Messages /\ messageMem <= MaxMessages
    BY <1>2 DEF IdcmpInv
  <2>2. ASSUME NEW t \in WindowTasks, NotForbidden(t), IdcmpStep(t) PROVE IdcmpInv'
    BY <2>1, <2>2, ProgramStep
  <2>3. ASSUME NEW w \in Windows, NEW c \in Classes, VBlankInputHook(w, c) PROVE IdcmpInv'
    <3>1. IdcmpTypes'
      BY <2>1, <2>3, VBlankTypes
    <3>2. messageMem' <= MaxMessages
      BY <2>1, <2>3, VBlankBound
    <3>3. ~overtaken' => Messages'
      BY <2>1, <2>3, <3>1, VBlankStep
    <3> QED BY <3>1, <3>2, <3>3 DEF IdcmpInv
  <2>4. ASSUME VBlankNoEvent PROVE IdcmpInv'
    <3>1. IdcmpTypes'
      BY <2>1, <2>4, QuietTypes
    <3>2. Messages' /\ messageMem' = messageMem
      BY <2>1, <2>4, <3>1, QuietSteps
    <3> QED BY <2>1, <3>1, <3>2 DEF IdcmpInv
  <2> QED BY <1>2, <2>2, <2>3, <2>4 DEF IdcmpNext
<1>3. CASE IdcmpNext /\ overtaken
  BY <1>1, <1>3 DEF IdcmpNext
<1> QED BY <1>1, <1>2, <1>3

\* The invariant always holds.
LEMMA AlwaysIdcmpInv == IdcmpSpec => []IdcmpInv
<1>1. IdcmpInit => IdcmpInv
  BY InitIdcmpInv
<1>2. IdcmpInv /\ [IdcmpNext]_idcmpVars => IdcmpInv'
  BY NextIdcmpInv
<1> QED BY <1>1, <1>2, PTL DEF IdcmpSpec

\* Every variable has its type: no message is counted below zero, nor is more
\* memory freed than there was.
THEOREM IdcmpTypeCorrect == IdcmpSpec => []IdcmpTypeOK
<1>1. IdcmpInv => IdcmpTypeOK
  <2> SUFFICES ASSUME IdcmpInv PROVE IdcmpTypeOK
    OBVIOUS
  <2>1. ASSUME NEW t \in WindowTasks PROVE Cardinality(doing[t].window) <= 1
    <3>1. doing[t] \in DoingType
      BY DEF IdcmpInv, IdcmpTypes
    <3>2. doing[t].window = {} \/ \E w \in Windows : doing[t].window = {w}
      BY <3>1 DEF DoingType
    <3>3. Cardinality({}) = 0 /\ \A w : Cardinality({w}) = 1
      BY FS_EmptySet, FS_Singleton
    <3>4. CASE doing[t].window = {}
      BY <3>3, <3>4
    <3>5. ASSUME NEW w \in Windows, doing[t].window = {w} PROVE Cardinality(doing[t].window) <= 1
      <4>1. Cardinality({w}) = 1
        BY <3>3
      <4> QED BY <3>5, <4>1
    <3> QED BY <3>2, <3>4, <3>5
  <2>2. messageMem \in 0 .. MaxMessages
    BY MessagesAssumption DEF IdcmpInv, IdcmpTypes
  <2> QED BY <2>1, <2>2 DEF IdcmpInv, IdcmpTypes, IdcmpTypeOK
<1> QED BY <1>1, AlwaysIdcmpInv, PTL

\* _dispose_window_idcmp_ports() and _post_idcmp_message(): unless one of the four
\* cases occurs, a port with messages exists, and the messages at the user port or
\* with the program have a port to be replied to.
THEOREM MessagesCanReturn == IdcmpSpec => []MessagesHavePorts
<1>1. IdcmpInv => MessagesHavePorts
  BY DEF IdcmpInv, Messages, QueueRight, MessagesHavePorts
<1> QED BY <1>1, AlwaysIdcmpInv, PTL

\* Nor is the memory of a message lost or freed twice.
THEOREM MessagesNeverLeak == IdcmpSpec => []NoMessageLeaks
<1>1. IdcmpInv => NoMessageLeaks
  BY DEF IdcmpInv, Messages, Conserved, Putters, Existing, NoMessageLeaks
<1> QED BY <1>1, AlwaysIdcmpInv, PTL

\* pending_mousemoves counts the mouse moves that have not come back, and there are
\* never more of these than the queue allows and the programs that post at once.
THEOREM MouseMovesBounded == IdcmpSpec => []MouseMovesCounted
<1>1. IdcmpInv => MouseMovesCounted
  BY DEF IdcmpInv, Messages, MovesRight, MouseMovesCounted
<1> QED BY <1>1, AlwaysIdcmpInv, PTL

=============================================================================
