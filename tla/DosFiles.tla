------------------------------ MODULE DosFiles ------------------------------
(***************************************************************************)
(* File handles of dos.library on descriptors of the host, and the record  *)
(* locks that the host program keeps for them (src/rom/lxa_dos.c,          *)
(* src/lxa/lxa_dos_host.c).  An emulator call is one step, as the 68000    *)
(* stands still during it; between two of them another program may run.    *)
(*                                                                         *)
(* A handle is known by its address, which the next Open() may get again,  *)
(* and the lock table knows the owner of a record by this address alone.   *)
(***************************************************************************)
EXTENDS Integers, Sequences, FiniteSets

CONSTANTS
    Programs,
    Handles,            \* the addresses at which a file handle can be
    Files,
    HostFile,           \* what the host's standard descriptors stand for
    NoFile,
    NoProgram,
    MaxFd,              \* the largest descriptor that the host gives out
    MaxRecordLocks,     \* MAX_RECORD_LOCKS
    Records             \* the [offset, length] that programs lock

ASSUME FilesAssumption == HostFile \notin Files /\ NoFile \notin Files \cup {HostFile}
ASSUME NoProgramAssumption == NoProgram \notin Programs
ASSUME RecordsAssumption == Records \subseteq [offset : Nat, length : Nat]
ASSUME LimitsAssumption == MaxFd \in Nat /\ MaxFd >= 2 /\ MaxRecordLocks \in Nat

VARIABLES
    fh,             \* kind, descriptor, file and program of the handle at an address
    fdFile,         \* what a descriptor of the host stands for
    recordLocks,    \* g_record_locks: the entries in use
    locking,        \* a program's LockRecords(): the records it has locked, the next one
                    \* to give back, and the records that were locked before
    stdClosed       \* a standard descriptor of the host has been closed

fileVars == <<fh, fdFile, recordLocks, locking, stdClosed>>

NoFh == [kind |-> "free", fd |-> 0, file |-> NoFile, program |-> NoProgram]
NotLocking == [at |-> "program", done |-> <<>>, back |-> 1, before |-> {}]
Fds == 0 .. MaxFd
Entries == 1 .. MaxRecordLocks

FilesInit ==
    /\ fh = [h \in Handles |-> NoFh]
    /\ fdFile = [d \in Fds |-> IF d <= 2 THEN HostFile ELSE NoFile]
    /\ recordLocks = <<>>
    /\ locking = [p \in Programs |-> NotLocking]
    /\ stdClosed = FALSE

-----------------------------------------------------------------------------
(* Open() and Close().                                                     *)

Idle(p) == locking[p].at = "program"
FreeFds == { d \in Fds : fdFile[d] = NoFile }

\* open() of the host gives the lowest free descriptor.
OpensAs(d) == d \in FreeFds /\ \A e \in FreeFds : d <= e

Open(p, h, f) ==
    \E d \in Fds :
        /\ Idle(p) /\ fh[h].kind = "free" /\ OpensAs(d)
        /\ fh' = [fh EXCEPT ![h] = [kind |-> "regular", fd |-> d, file |-> f, program |-> p]]
        /\ fdFile' = [fdFile EXCEPT ![d] = f]
        /\ UNCHANGED <<recordLocks, locking, stdClosed>>

\* No memory for the buffer: the handle is freed, the descriptor stays open.
OpenNoBuffer(p, h, f) ==
    \E d \in Fds :
        /\ Idle(p) /\ fh[h].kind = "free" /\ OpensAs(d)
        /\ fdFile' = [fdFile EXCEPT ![d] = f]
        /\ UNCHANGED <<fh, recordLocks, locking, stdClosed>>

\* "*" and CONSOLE: are descriptor 1.  A CON: window has the address of its
\* ConHandle in fh_Arg1, the place of the descriptor, which Close() clears.
OpenConsole(p, h) ==
    \E kind \in {"console", "window"} :
        /\ Idle(p) /\ fh[h].kind = "free"
        /\ fh' = [fh EXCEPT ![h] = [NoFh EXCEPT !.kind = kind, !.program = p,
                                                !.fd = IF kind = "console" THEN 1 ELSE 0]]
        /\ UNCHANGED <<fdFile, recordLocks, locking, stdClosed>>

HandleOf(p, h) == Idle(p) /\ fh[h].kind # "free" /\ fh[h].program = p

InUse == DOMAIN recordLocks
RecordsWithout(h) == [i \in { j \in InUse : recordLocks[j].owner # h } |-> recordLocks[i]]

\* Mutant: the records stay locked.
CloseKeepsRecords(p, h) ==
    /\ HandleOf(p, h)
    /\ fdFile' = [fdFile EXCEPT ![fh[h].fd] = NoFile]
    /\ stdClosed' = (stdClosed \/ fh[h].kind # "regular")
    /\ fh' = [fh EXCEPT ![h] = NoFh]
    /\ UNCHANGED <<recordLocks, locking>>

\* Close(): the host closes whatever fh_Arg1 says.
Close(p, h) ==
    /\ HandleOf(p, h)
    /\ recordLocks' = RecordsWithout(h)
    /\ fdFile' = [fdFile EXCEPT ![fh[h].fd] = NoFile]
    /\ stdClosed' = (stdClosed \/ fh[h].kind # "regular")
    /\ fh' = [fh EXCEPT ![h] = NoFh]
    /\ UNCHANGED locking

-----------------------------------------------------------------------------
(* The table of record locks.                                              *)

\* fstat() of the descriptor.
FileOf(h) == fdFile[fh[h].fd]
CanLock(p, h) == fh[h].kind = "regular" /\ fh[h].program = p /\ FileOf(h) # NoFile

\* Mutant: the end of a record belongs to it, and the beginning does not.
RecordsOverlapOneOff(a, b) ==
    a.length # 0 /\ b.length # 0 /\ a.offset + 1 < b.offset + b.length
                                 /\ b.offset + 1 < a.offset + a.length

RecordsOverlap(a, b) ==
    a.length # 0 /\ b.length # 0 /\ a.offset < b.offset + b.length
                                 /\ b.offset < a.offset + a.length

Conflict(h, r, exclusive) ==
    \E i \in InUse :
        /\ recordLocks[i].file = FileOf(h) /\ recordLocks[i].owner # h
        /\ RecordsOverlap(recordLocks[i].record, r)
        /\ recordLocks[i].exclusive \/ exclusive

Least(S) == CHOOSE i \in S : \A j \in S : i <= j

\* LockRecord() with a timeout looks again until the time is over.  Nobody can
\* unlock anything meanwhile, so it ends like one without.
Lockable(h, r, exclusive) == ~Conflict(h, r, exclusive) /\ InUse # Entries

RecordsWith(h, r, exclusive) ==
    LET n == Least(Entries \ InUse)
    IN  [i \in InUse \cup {n} |->
            IF i = n THEN [file |-> FileOf(h), owner |-> h, record |-> r, exclusive |-> exclusive]
                     ELSE recordLocks[i]]

Matching(h, r) ==
    { i \in InUse : recordLocks[i].file = FileOf(h) /\ recordLocks[i].owner = h
                    /\ recordLocks[i].record = r }

RecordsAfterUnlock(h, r) ==
    [i \in InUse \ {Least(Matching(h, r))} |-> recordLocks[i]]

\* A call that fails changes nothing but the error code.
LockRecord(p, h, r, exclusive) ==
    /\ Idle(p) /\ CanLock(p, h) /\ Lockable(h, r, exclusive)
    /\ recordLocks' = RecordsWith(h, r, exclusive)
    /\ UNCHANGED <<fh, fdFile, locking, stdClosed>>

\* UnLockRecords() is one of these after the other, up to the first that fails.
UnLockRecord(p, h, r) ==
    /\ Idle(p) /\ CanLock(p, h) /\ Matching(h, r) # {}
    /\ recordLocks' = RecordsAfterUnlock(h, r)
    /\ UNCHANGED <<fh, fdFile, locking, stdClosed>>

-----------------------------------------------------------------------------
(* LockRecords(): all of a list or none.  The list is made up as it is read. *)

\* The records of a program, without the mode they are locked in.
RecordsOf(p) ==
    { <<h, r, Cardinality(Matching(h, r))>> : h \in { k \in Handles : fh[k].program = p }, r \in Records }

LockRecords(p) ==
    /\ Idle(p)
    /\ locking' = [locking EXCEPT ![p] = [NotLocking EXCEPT !.at = "next", !.before = RecordsOf(p)]]
    /\ UNCHANGED <<fh, fdFile, recordLocks, stdClosed>>

LockRecordsNext(p, h, r, exclusive) ==
    /\ locking[p].at = "next" /\ CanLock(p, h) /\ Lockable(h, r, exclusive)
    /\ recordLocks' = RecordsWith(h, r, exclusive)
    /\ locking' = [locking EXCEPT ![p].done = Append(@, <<h, r>>)]
    /\ UNCHANGED <<fh, fdFile, stdClosed>>

LockRecordsReturn(p) ==
    /\ locking[p].at = "next"
    /\ locking' = [locking EXCEPT ![p] = NotLocking]
    /\ UNCHANGED <<fh, fdFile, recordLocks, stdClosed>>

\* Mutant: the rollback starts with the second record.
LockRecordsFailShort(p, h, r, exclusive) ==
    /\ locking[p].at = "next" /\ fh[h].program = p
    /\ ~(CanLock(p, h) /\ Lockable(h, r, exclusive))
    /\ locking' = [locking EXCEPT ![p].at = "rollback",
                                  ![p].done = IF @ = <<>> THEN @ ELSE Tail(@)]
    /\ UNCHANGED <<fh, fdFile, recordLocks, stdClosed>>

\* A conflict, no entry left, or a handle that is no file.
LockRecordsFail(p, h, r, exclusive) ==
    /\ locking[p].at = "next" /\ fh[h].program = p
    /\ ~(CanLock(p, h) /\ Lockable(h, r, exclusive))
    /\ locking' = [locking EXCEPT ![p].at = "rollback"]
    /\ UNCHANGED <<fh, fdFile, recordLocks, stdClosed>>

\* The records are given back in the order they were locked.
Rollback(p) ==
    \E i \in 1 .. Len(locking[p].done) :
        LET h == locking[p].done[i][1]
            r == locking[p].done[i][2]
        IN  /\ locking[p].at = "rollback" /\ i = locking[p].back
            /\ CanLock(p, h) /\ Matching(h, r) # {}
            /\ recordLocks' = RecordsAfterUnlock(h, r)
            /\ locking' = [locking EXCEPT ![p].back = i + 1]
            /\ UNCHANGED <<fh, fdFile, stdClosed>>

\* Up to the end, or to a record that cannot be unlocked.
RollbackEnd(p) ==
    /\ locking[p].at = "rollback"
    /\ \A i \in 1 .. Len(locking[p].done) : i = locking[p].back =>
            LET rec == locking[p].done[i]
            IN  ~CanLock(p, rec[1]) \/ Matching(rec[1], rec[2]) = {}
    /\ locking' = [locking EXCEPT ![p] = NotLocking]
    /\ UNCHANGED <<fh, fdFile, recordLocks, stdClosed>>

-----------------------------------------------------------------------------
FileStep(p) ==
    \/ \E h \in Handles, f \in Files : Open(p, h, f) \/ OpenNoBuffer(p, h, f)
    \/ \E h \in Handles : OpenConsole(p, h) \/ Close(p, h)
    \/ \E h \in Handles, r \in Records, exclusive \in BOOLEAN :
          \/ LockRecord(p, h, r, exclusive)
          \/ LockRecordsNext(p, h, r, exclusive) \/ LockRecordsFail(p, h, r, exclusive)
    \/ \E h \in Handles, r \in Records : UnLockRecord(p, h, r)
    \/ LockRecords(p) \/ LockRecordsReturn(p) \/ Rollback(p) \/ RollbackEnd(p)

\* What becomes of the files of a program that has a descriptor closed under it
\* is not modelled.
FilesNext ==
    \/ ~stdClosed /\ \E p \in Programs : FileStep(p)
    \/ stdClosed /\ UNCHANGED fileVars

FilesSpec == FilesInit /\ [][FilesNext]_fileVars

-----------------------------------------------------------------------------
(* Properties.                                                             *)

\* Every variable has its type.
FilesTypeOK ==
    /\ fh \in [Handles -> [kind : {"free", "regular", "console", "window"}, fd : Fds,
                           file : Files \cup {NoFile}, program : Programs \cup {NoProgram}]]
    /\ fdFile \in [Fds -> Files \cup {HostFile, NoFile}]
    /\ InUse \subseteq Entries
    /\ \A i \in InUse : recordLocks[i] \in
          [file : Files \cup {HostFile}, owner : Handles, record : Records, exclusive : BOOLEAN]
    /\ stdClosed \in BOOLEAN

Bytes(record) == record.offset .. record.offset + record.length - 1

\* No byte of a file is locked by two handles, unless both share it.
RecordsExclude ==
    \A i, j \in InUse :
        recordLocks[i].file = recordLocks[j].file /\ recordLocks[i].owner # recordLocks[j].owner
            /\ Bytes(recordLocks[i].record) \cap Bytes(recordLocks[j].record) # {}
        => ~recordLocks[i].exclusive /\ ~recordLocks[j].exclusive

\* As long as no console handle and no CON: window has been closed, an open
\* file has a descriptor of its own, and a locked record belongs to a handle
\* that has its file open: a handle at the same address inherits nothing.
OwnersHaveFileOpen ==
    stdClosed \/
      /\ \A h \in Handles : fh[h].kind = "regular" =>
            /\ FileOf(h) = fh[h].file
            /\ \A k \in Handles \ {h} : fh[k].kind = "regular" => fh[k].fd # fh[h].fd
      /\ \A i \in InUse : LET e == recordLocks[i]
                          IN  fh[e.owner].kind = "regular" /\ fh[e.owner].file = e.file

\* When LockRecords() fails, its program has the same records locked as
\* before.  The mode is left out: of a record that was locked before as well,
\* the rollback unlocks the older entry.
FailedLockRecordsUndone ==
    [][ \A p \in Programs :
          locking[p].at = "rollback" /\ locking'[p].at = "program" =>
              stdClosed \/ RecordsOf(p) = locking[p].before ]_fileVars

=============================================================================
