----------------------------- MODULE AudioDevice -----------------------------
(***************************************************************************)
(* audio.device (src/rom/lxa_dev_audio.c): allocation of channels by       *)
(* precedence, the queue of writes of each channel, the requests that wait *)
(* for the end of a cycle, and the vertical blank hook that counts cycles. *)
(*                                                                         *)
(* A program keeps the key that its first ADCMD_ALLOCATE returns, and      *)
(* stands for it here.  A command is one step, and so is the end of a      *)
(* cycle; what is played and when a cycle ends is left open.               *)
(***************************************************************************)
EXTENDS Integers, Sequences, SequencesExt, FiniteSetsExt

CONSTANTS
    AudioTasks,     \* the programs, and their keys
    Channels,
    AudioPris,      \* the precedences that programs give
    AudioWants,     \* the lists of channel combinations they ask for
    MaxWrites       \* bound: how many writes a program has in the device

ASSUME AudioWantsAssumption ==
    \A want \in AudioWants : want \in Seq(SUBSET Channels)
ASSUME ChannelsAssumption == IsFiniteSet(Channels)
ASSUME MaxWritesAssumption == MaxWrites \in Nat

VARIABLES
    owner,          \* ac_AllocKey: nobody's or one program's
    precedence,     \* ac_Precedence
    writes,         \* ac_WriteList: whose write it is
    playing,        \* ac_Playing
    misc,           \* ap_MiscRequests, one of a program at most
    allocs          \* ap_PendingAllocations

channelVars == <<owner, precedence, writes, playing, misc>>
audioVars == <<channelVars, allocs>>

MinPrec == -128  \* ADALLOC_MINPREC

AudioInit ==
    /\ owner = [ch \in Channels |-> {}] /\ precedence = [ch \in Channels |-> MinPrec]
    /\ writes = [ch \in Channels |-> <<>>] /\ playing = [ch \in Channels |-> FALSE]
    /\ misc = {} /\ allocs = <<>>

\* The channels and the requests that wait for them, as one value.
Device == [owner |-> owner, precedence |-> precedence, writes |-> writes,
           playing |-> playing, misc |-> misc]
DeviceBecomes(d) ==
    /\ owner' = d.owner /\ precedence' = d.precedence /\ writes' = d.writes
    /\ playing' = d.playing /\ misc' = d.misc

\* f with the value v for all channels of mask.
Set(f, mask, v) == [ch \in Channels |-> IF ch \in mask THEN v ELSE f[ch]]

Matched(t, mask) == { ch \in mask : owner[ch] = {t} }

-----------------------------------------------------------------------------
(* Channels.                                                               *)

\* audio_abort_channel() of each: all its requests are answered.
AbortChannels(d, mask) ==
    [d EXCEPT !.writes = Set(@, mask, <<>>), !.playing = Set(@, mask, FALSE),
              !.misc = { m \in @ : m.mask \cap mask = {} }]

Release(d, mask) ==
    [AbortChannels(d, mask) EXCEPT !.owner = Set(@, mask, {}),
                                   !.precedence = Set(@, mask, MinPrec)]

\* audio_start_channel_if_possible().
Start(d, ch) == [d EXCEPT !.playing[ch] = @ \/ d.writes[ch] # <<>>]

\* audio_complete_current_write(): the next one starts.
CompleteWrite(d, ch) ==
    IF d.writes[ch] = <<>> THEN [d EXCEPT !.playing[ch] = FALSE]
    ELSE Start([d EXCEPT !.writes[ch] = Tail(@), !.playing[ch] = FALSE], ch)

-----------------------------------------------------------------------------
(* ADCMD_ALLOCATE.                                                         *)

Stolen(d, mask) == { ch \in mask : d.owner[ch] # {} }
CanTake(d, mask, pri) == \A ch \in Stolen(d, mask) : d.precedence[ch] < pri
Cost(d, mask) == MapThenSumSet(LAMBDA ch : d.precedence[ch] - MinPrec, Stolen(d, mask))

\* audio_choose_allocation(): the first combination that is free, or else the
\* one of lowest precedences, the first of those; no element if there is none.
Choice(d, r) ==
    LET can == { i \in DOMAIN r.want : CanTake(d, r.want[i], r.pri) }
        free == { i \in can : Stolen(d, r.want[i]) = {} }
        best == { i \in can : \A j \in can : Cost(d, r.want[i]) <= Cost(d, r.want[j]) }
    IN  IF can = {} THEN {} ELSE { r.want[Min(IF free # {} THEN free ELSE best)] }

\* audio_commit_allocation() of mask, what it takes from others released.
Commit(d, r, mask) ==
    [Release(d, Stolen(d, mask)) EXCEPT !.owner = Set(@, mask, {r.task}),
                                        !.precedence = Set(@, mask, r.pri)]

AllocateNow(d, r) == IF Choice(d, r) = {} THEN d ELSE Commit(d, r, UNION Choice(d, r))

\* audio_try_pending_allocations(): each is answered, also the one that fails.
TryPending(d) == DeviceBecomes(FoldLeft(AllocateNow, d, allocs)) /\ allocs' = <<>>

AudioAllocate(t, want, pri) ==
    LET r == [task |-> t, want |-> want, pri |-> pri]
    IN  /\ \A i \in DOMAIN allocs : allocs[i].task # t
        /\ DeviceBecomes(AllocateNow(Device, r))
        /\ allocs' = IF Choice(Device, r) = {} THEN Append(allocs, r) ELSE allocs

\* ADCMD_FREE, and CloseDevice() with all channels.
AudioFree(t, mask) == Matched(t, mask) # {} /\ TryPending(Release(Device, Matched(t, mask)))

AudioSetPrec(t, mask, pri) ==
    TryPending([Device EXCEPT !.precedence = Set(@, Matched(t, mask), pri)])

-----------------------------------------------------------------------------
(* CMD_WRITE, CMD_FLUSH and CMD_RESET, AbortIO().                          *)

WritesOf(t, ch) == SelectSeq(writes[ch], LAMBDA w : w = t)

AudioWrite(t, ch) ==
    /\ owner[ch] = {t} /\ Len(WritesOf(t, ch)) < MaxWrites
    /\ DeviceBecomes(Start([Device EXCEPT !.writes[ch] = Append(@, t)], ch))
    /\ UNCHANGED allocs

AudioFlush(t, mask) ==
    /\ DeviceBecomes(AbortChannels(Device, Matched(t, mask)))
    /\ UNCHANGED allocs

\* Mutant: the channel is stopped, whichever write is aborted.
AbortWriteStops(t, ch, i) ==
    /\ i \in DOMAIN writes[ch] /\ writes[ch][i] = t
    /\ DeviceBecomes([Device EXCEPT !.writes[ch] = RemoveAt(@, i), !.playing[ch] = i # 1])
    /\ UNCHANGED allocs

\* When the write that plays is aborted the next one starts.
AbortWrite(t, ch, i) ==
    /\ i \in DOMAIN writes[ch] /\ writes[ch][i] = t
    /\ DeviceBecomes(Start([Device EXCEPT !.writes[ch] = RemoveAt(@, i),
                                          !.playing[ch] = @ /\ i # 1], ch))
    /\ UNCHANGED allocs

AbortMisc(m) == misc' = misc \ {m} /\ UNCHANGED <<owner, precedence, writes, playing, allocs>>

AbortAllocate(i) == allocs' = RemoveAt(allocs, i) /\ UNCHANGED channelVars

-----------------------------------------------------------------------------
(* ADCMD_WAITCYCLE, ADCMD_PERVOL and ADCMD_FINISH, the end of a cycle.     *)

\* One that waits for the end of a cycle (the last two with ADIOF_SYNCCYCLE);
\* with no cycle to wait for they are answered at once and change nothing here.
AudioWait(t, cmd, mask) ==
    /\ \A m \in misc : m.task # t
    /\ cmd = "ADCMD_WAITCYCLE" => mask \in { {ch} : ch \in Channels }
    /\ \E ch \in Matched(t, mask) : playing[ch]
    /\ misc' = misc \cup {[task |-> t, cmd |-> cmd, mask |-> Matched(t, mask)]}
    /\ UNCHANGED <<owner, precedence, writes, playing, allocs>>

\* ADCMD_FINISH without ADIOF_SYNCCYCLE.
AudioFinish(t, mask) ==
    /\ DeviceBecomes(FoldSet(LAMBDA ch, d : CompleteWrite(d, ch), Device, Matched(t, mask)))
    /\ UNCHANGED allocs

\* audio_tick_channel(), one round: the hook finds that a cycle is over, which may
\* be the last one of its write.
AudioCycle(ch, last) ==
    LET due == { m \in misc : ch \in m.mask }
        d == [Device EXCEPT !.misc = @ \ due]
    IN  /\ playing[ch] /\ writes[ch] # <<>>
        /\ DeviceBecomes(IF last \/ \E m \in due : m.cmd = "ADCMD_FINISH"
                         THEN CompleteWrite(d, ch) ELSE d)
        /\ UNCHANGED allocs

-----------------------------------------------------------------------------
\* The units that a program can name, without the channels that are not its own:
\* those drop out of every command.
Masks(t) == SUBSET Matched(t, Channels)
Commands == {"ADCMD_WAITCYCLE", "ADCMD_PERVOL", "ADCMD_FINISH"}

AudioNext ==
    \/ \E t \in AudioTasks, pri \in AudioPris :
          \/ \E want \in AudioWants : AudioAllocate(t, want, pri)
          \/ \E mask \in Masks(t) : AudioSetPrec(t, mask, pri)
    \/ \E t \in AudioTasks : \E mask \in Masks(t) \ {{}} :
          \/ AudioFree(t, mask) \/ AudioFlush(t, mask) \/ AudioFinish(t, mask)
          \/ \E cmd \in Commands : AudioWait(t, cmd, mask)
    \/ \E t \in AudioTasks, ch \in Channels :
          AudioWrite(t, ch) \/ \E i \in 1 .. Len(writes[ch]) : AbortWrite(t, ch, i)
    \/ \E m \in misc : AbortMisc(m)
    \/ \E i \in DOMAIN allocs : AbortAllocate(i)
    \/ \E ch \in Channels, last \in BOOLEAN : AudioCycle(ch, last)

AudioSpec == AudioInit /\ [][AudioNext]_audioVars

-----------------------------------------------------------------------------
(* Properties.                                                             *)

\* A write that the device has taken is going to be played: its channel plays,
\* and still belongs to its program.  No abort, theft, finish or end of a cycle
\* stops a channel with writes in its queue or leaves one to the next owner.
QueuedWritesPlay ==
    \A ch \in Channels :
        /\ playing[ch] <=> writes[ch] # <<>>
        /\ \A i \in 1 .. Len(writes[ch]) : owner[ch] = {writes[ch][i]}

=============================================================================
