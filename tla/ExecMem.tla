------------------------------- MODULE ExecMem ------------------------------
(***************************************************************************)
(* The memory of exec.library (src/rom/exec.c): the free list of the one   *)
(* MemHeader that coldstart sets up, AllocMem() and FreeMem(), AllocAbs(), *)
(* the lists of AllocEntry() and FreeEntry(), and memory pools.            *)
(*                                                                         *)
(* Addresses and sizes are in longwords, of which MEM_BLOCKSIZE has two.   *)
(* AllocMem(), FreeMem() and AllocAbs() run under Forbid() and are one     *)
(* step each; the loops of AllocEntry(), FreeEntry() and DeletePool()      *)
(* call them and can be preempted in between.                              *)
(***************************************************************************)
EXTENDS Integers, Sequences, SequencesExt, FiniteSets

CONSTANTS
    MemLower, MemUpper,     \* the memory is MemLower .. MemUpper - 1
    MemCallers,             \* the tasks that use memory lists
    MemSizes,               \* the sizes that programs ask for
    MemLengths,             \* the me_Length fields that programs put into one MemList
    AbsUnit,                \* programs call AllocAbs() for multiples of this
    MemListSize,            \* sizeof(struct MemList) with its entries
    PoolHeaderSize, PoolPuddleSize,     \* sizeof(struct PoolHeader), PoolPuddle
    PuddleSize, ThreshSize  \* the arguments of CreatePool()

Block == 2
Aligned(n) == n % Block = 0

ASSUME MemBoundsAssumption ==
    MemLower \in Nat \ {0} /\ MemUpper \in Nat /\ MemLower < MemUpper
    /\ Aligned(MemLower) /\ Aligned(MemUpper)
ASSUME MemSizesAssumption ==
    MemSizes \subseteq Nat \ {0} /\ MemLengths \subseteq Seq(Nat) /\ AbsUnit \in Nat \ {0}
ASSUME MemStructsAssumption ==
    /\ MemListSize \in Nat \ {0} /\ PoolHeaderSize \in Nat \ {0} /\ PoolPuddleSize \in Nat \ {0}
    /\ PuddleSize \in Nat \ {0} /\ ThreshSize \in Nat \ {0}

VARIABLES
    mh_First,       \* the free chunks, in the order of the list
    mh_Free,        \* the counter of free memory
    memBlocks,      \* what programs got and will give back: address and size
    memEntry,       \* each caller's MemList and where its call is
    memPool,        \* the pool: header, puddles, and whether it is being deleted
    poolBlocks      \* what AllocPooled() has handed out of the pool: FreePooled()
                    \* does nothing, so it stays handed out

memVars == <<mh_First, mh_Free, memBlocks, memEntry, memPool, poolBlocks>>

NULL == 0
Regions == [addr : Nat, size : Nat]
Region(a, n) == [addr |-> a, size |-> n]
End(r) == r.addr + r.size
Overlap(r, s) == r.addr < End(s) /\ s.addr < End(r)
RoundUp(n, unit) == ((n + unit - 1) \div unit) * unit

NoEntry == [ml |-> NULL, lengths |-> <<>>, addrs |-> <<>>, at |-> "none"]
NoPool == [header |-> NULL, puddles |-> <<>>, at |-> "none"]

MemInit ==
    /\ mh_First = <<Region(MemLower, MemUpper - MemLower)>>
    /\ mh_Free = MemUpper - MemLower
    /\ memBlocks = {}
    /\ memEntry = [c \in MemCallers |-> NoEntry]
    /\ memPool = NoPool /\ poolBlocks = {}

-----------------------------------------------------------------------------
(* Allocate().                                                             *)

\* The first chunk that is large enough; Len(list) + 1 when there is none.
FirstFit(list, n) ==
    CHOOSE k \in 1 .. Len(list) + 1 :
        /\ k <= Len(list) => list[k].size >= n
        /\ \A i \in 1 .. k - 1 : list[i].size < n

Found(n) == n > 0 /\ mh_Free >= n /\ FirstFit(mh_First, n) <= Len(mh_First)

\* A chunk of the very size leaves the list, a larger one loses its front.
Carve(list, k, n) ==
    IF list[k].size = n THEN RemoveAt(list, k)
    ELSE [list EXCEPT ![k] = Region(list[k].addr + n, list[k].size - n)]

\* The address that AllocMem(size) returns, and what it does to the list.
\* AllocVec() asks for a longword more, in which it keeps the size.
AllocMemResult(size) ==
    LET n == RoundUp(size, Block)
    IN  IF Found(n) THEN mh_First[FirstFit(mh_First, n)].addr ELSE NULL
AllocMem(size) ==
    LET n == RoundUp(size, Block)
    IN  IF Found(n)
        THEN /\ mh_First' = Carve(mh_First, FirstFit(mh_First, n), n)
             /\ mh_Free' = mh_Free - n
        ELSE UNCHANGED <<mh_First, mh_Free>>

-----------------------------------------------------------------------------
(* Deallocate() and FreeMem().                                             *)

\* The chunks in front of an address: the walk ends at the first that is not.
ChunksBefore(list, a) ==
    CHOOSE k \in 0 .. Len(list) :
        /\ k < Len(list) => list[k + 1].addr >= a
        /\ \A i \in 1 .. k : list[i].addr < a

OverlapsFree(list, r) ==
    LET p == ChunksBefore(list, r.addr)
    IN  \/ p > 0 /\ End(list[p]) > r.addr
        \/ p < Len(list) /\ End(r) > list[p + 1].addr

JoinsPrev(list, r) ==
    LET p == ChunksBefore(list, r.addr) IN p > 0 /\ End(list[p]) = r.addr

\* Mutant: a region is never merged with the next chunk.
JoinsNextNever(list, r) == FALSE

JoinsNext(list, r) ==
    LET p == ChunksBefore(list, r.addr) IN p < Len(list) /\ End(r) = list[p + 1].addr

\* A region is linked in between its neighbours, or merged with one or both.
Link(list, r) ==
    LET p == ChunksBefore(list, r.addr)
    IN  CASE JoinsPrev(list, r) /\ JoinsNext(list, r) ->
                [RemoveAt(list, p + 1) EXCEPT ![p] =
                    Region(list[p].addr, list[p].size + r.size + list[p + 1].size)]
        [] JoinsPrev(list, r) /\ ~JoinsNext(list, r) ->
                [list EXCEPT ![p] = Region(list[p].addr, list[p].size + r.size)]
        [] ~JoinsPrev(list, r) /\ JoinsNext(list, r) ->
                [list EXCEPT ![p + 1] = Region(r.addr, r.size + list[p + 1].size)]
        [] OTHER -> InsertAt(list, p + 1, r)

\* A region that overlaps a free neighbour is left alone.
Deallocate(list, r) == IF OverlapsFree(list, r) THEN list ELSE Link(list, r)

FreeMem(addr, size) ==
    LET r == Region(addr, RoundUp(size, Block))
    IN  IF size = 0 \/ addr = NULL \/ MemLower > addr \/ MemUpper < addr + size
        THEN UNCHANGED <<mh_First, mh_Free>>
        ELSE /\ mh_First' = Deallocate(mh_First, r)
             /\ mh_Free' = IF OverlapsFree(mh_First, r) THEN mh_Free ELSE mh_Free + r.size

-----------------------------------------------------------------------------
(* Programs: AllocMem(), AllocAbs(), FreeMem().                            *)

MemAlloc(size) ==
    /\ AllocMemResult(size) # NULL
    /\ memBlocks' = memBlocks \cup {Region(AllocMemResult(size), size)}
    /\ AllocMem(size)
    /\ UNCHANGED <<memEntry, memPool, poolBlocks>>

\* AllocAbs() cuts its region out of the chunk that contains it: the chunk
\* keeps what is in front, and what is behind becomes a chunk of its own.
CutOut(list, k, r) ==
    LET before == Region(list[k].addr, r.addr - list[k].addr)
        after == Region(End(r), End(list[k]) - End(r))
    IN  CASE before.size > 0 /\ after.size > 0 ->
                InsertAt([list EXCEPT ![k] = before], k + 1, after)
        [] before.size > 0 /\ after.size = 0 -> [list EXCEPT ![k] = before]
        [] before.size = 0 /\ after.size > 0 -> [list EXCEPT ![k] = after]
        [] OTHER -> RemoveAt(list, k)

MemAllocAbs(addr, size) ==
    LET r == Region(addr, size)
    IN  \E k \in 1 .. Len(mh_First) :
            /\ mh_First[k].addr <= addr /\ End(mh_First[k]) >= End(r)
            /\ mh_First' = CutOut(mh_First, k, r)
            /\ mh_Free' = mh_Free - size
            /\ memBlocks' = memBlocks \cup {r}
            /\ UNCHANGED <<memEntry, memPool, poolBlocks>>

MemFree(b) ==
    /\ memBlocks' = memBlocks \ {b}
    /\ FreeMem(b.addr, b.size)
    /\ UNCHANGED <<memEntry, memPool, poolBlocks>>

\* "Applications occasionally free memory with incorrect sizes or free the
\* same block twice": some of the region is free.
MemFreeWrongly(addr, size) ==
    /\ \E k \in 1 .. Len(mh_First) : Overlap(mh_First[k], Region(addr, size))
    /\ FreeMem(addr, size)
    /\ UNCHANGED <<memBlocks, memEntry, memPool, poolBlocks>>

-----------------------------------------------------------------------------
(* AllocEntry() and FreeEntry().                                           *)

SetEntry(c, e) == memEntry' = [memEntry EXCEPT ![c] = e]

\* The MemList itself comes first.
AllocEntry(c, lengths) ==
    /\ memEntry[c] = NoEntry
    /\ AllocMemResult(MemListSize) # NULL
    /\ SetEntry(c, [ml |-> AllocMemResult(MemListSize), lengths |-> lengths,
                    addrs |-> <<>>, at |-> "alloc"])
    /\ AllocMem(MemListSize)
    /\ UNCHANGED <<memBlocks, memPool, poolBlocks>>

NextLength(e) == e.lengths[Len(e.addrs) + 1]
Complete(e) == Len(e.addrs) = Len(e.lengths)

\* Mutant: an entry that cannot be had is left out of the list.
AllocEntryNextSkips(c) ==
    LET e == memEntry[c]
        a == AllocMemResult(NextLength(e))
    IN  /\ e.at = "alloc" /\ ~Complete(e)
        /\ IF a = NULL
           THEN SetEntry(c, [e EXCEPT !.at = "done"])
           ELSE SetEntry(c, [e EXCEPT !.addrs = Append(@, a)])
        /\ AllocMem(NextLength(e))
        /\ UNCHANGED <<memBlocks, memPool, poolBlocks>>

\* One entry of the list: an entry of no length gets no memory; when there is
\* no memory, what was allocated is given back.
AllocEntryNext(c) ==
    LET e == memEntry[c]
        a == AllocMemResult(NextLength(e))
    IN  /\ e.at = "alloc" /\ ~Complete(e)
        /\ IF NextLength(e) > 0 /\ a = NULL
           THEN SetEntry(c, [e EXCEPT !.at = "free"])
           ELSE SetEntry(c, [e EXCEPT !.addrs = Append(@, a)])
        /\ AllocMem(NextLength(e))
        /\ UNCHANGED <<memBlocks, memPool, poolBlocks>>

AllocEntryReturn(c) ==
    /\ memEntry[c].at = "alloc" /\ Complete(memEntry[c])
    /\ SetEntry(c, [memEntry[c] EXCEPT !.at = "done"])
    /\ UNCHANGED <<mh_First, mh_Free, memBlocks, memPool, poolBlocks>>

FreeEntry(c) ==
    /\ memEntry[c].at = "done"
    /\ SetEntry(c, [memEntry[c] EXCEPT !.at = "free"])
    /\ UNCHANGED <<mh_First, mh_Free, memBlocks, memPool, poolBlocks>>

\* The entries are given back in their order, then the MemList.
FreeEntryNext(c) ==
    LET e == memEntry[c]
    IN  /\ e.at = "free" /\ e.addrs # <<>>
        /\ FreeMem(Head(e.addrs), Head(e.lengths))
        /\ SetEntry(c, [e EXCEPT !.addrs = Tail(@), !.lengths = Tail(@)])
        /\ UNCHANGED <<memBlocks, memPool, poolBlocks>>

\* Mutant: the MemList is not given back.
FreeEntryKeepsList(c) ==
    /\ memEntry[c].at = "free" /\ memEntry[c].addrs = <<>>
    /\ SetEntry(c, NoEntry)
    /\ UNCHANGED <<mh_First, mh_Free, memBlocks, memPool, poolBlocks>>

FreeEntryReturn(c) ==
    /\ memEntry[c].at = "free" /\ memEntry[c].addrs = <<>>
    /\ FreeMem(memEntry[c].ml, MemListSize)
    /\ SetEntry(c, NoEntry)
    /\ UNCHANGED <<memBlocks, memPool, poolBlocks>>

-----------------------------------------------------------------------------
(* Pools.                                                                  *)

CreatePool ==
    /\ memPool = NoPool /\ AllocMemResult(PoolHeaderSize) # NULL
    /\ memPool' = [header |-> AllocMemResult(PoolHeaderSize), puddles |-> <<>>, at |-> "open"]
    /\ AllocMem(PoolHeaderSize)
    /\ UNCHANGED <<memBlocks, memEntry, poolBlocks>>

Room(puddle) == puddle.pp_Size - puddle.pp_BytesUsed
Data(puddle) == puddle.addr + PoolPuddleSize
HandOut(a, n) == poolBlocks' = poolBlocks \cup {Region(a, n)}

\* Mutant: the puddle is taken as it is, whatever room it has.
AllocPooledHereAnyway(size) ==
    LET n == RoundUp(size, Block)
    IN  \E k \in 1 .. Len(memPool.puddles) :
            /\ memPool.at = "open" /\ n < ThreshSize
            /\ k = 1
            /\ HandOut(Data(memPool.puddles[k]) + memPool.puddles[k].pp_BytesUsed, n)
            /\ memPool' = [memPool EXCEPT !.puddles[k].pp_BytesUsed = @ + n]
            /\ UNCHANGED <<mh_First, mh_Free, memBlocks, memEntry>>

\* The first puddle with enough room, for sizes below the threshold.
AllocPooledHere(size) ==
    LET n == RoundUp(size, Block)
    IN  \E k \in 1 .. Len(memPool.puddles) :
            /\ memPool.at = "open" /\ n < ThreshSize
            /\ Room(memPool.puddles[k]) >= n
            /\ \A i \in 1 .. k - 1 : Room(memPool.puddles[i]) < n
            /\ HandOut(Data(memPool.puddles[k]) + memPool.puddles[k].pp_BytesUsed, n)
            /\ memPool' = [memPool EXCEPT !.puddles[k].pp_BytesUsed = @ + n]
            /\ UNCHANGED <<mh_First, mh_Free, memBlocks, memEntry>>

\* A puddle of its own for a large block, a new puddle when none has room.
AllocPooledNew(size) ==
    LET n == RoundUp(size, Block)
        data == IF n >= ThreshSize \/ n > PuddleSize THEN n ELSE PuddleSize
        a == AllocMemResult(PoolPuddleSize + data)
    IN  /\ memPool.at = "open" /\ a # NULL
        /\ n < ThreshSize => \A i \in 1 .. Len(memPool.puddles) : Room(memPool.puddles[i]) < n
        /\ memPool' = [memPool EXCEPT !.puddles =
                <<[addr |-> a, pp_Size |-> data, pp_BytesUsed |-> n]>> \o @]
        /\ HandOut(a + PoolPuddleSize, n)
        /\ AllocMem(PoolPuddleSize + data)
        /\ UNCHANGED <<memBlocks, memEntry>>

DeletePool ==
    /\ memPool.at = "open"
    /\ memPool' = [memPool EXCEPT !.at = "delete"] /\ poolBlocks' = {}
    /\ UNCHANGED <<mh_First, mh_Free, memBlocks, memEntry>>

DeletePuddle ==
    LET puddle == Head(memPool.puddles)
    IN  /\ memPool.at = "delete" /\ memPool.puddles # <<>>
        /\ FreeMem(puddle.addr, puddle.pp_Size + PoolPuddleSize)
        /\ memPool' = [memPool EXCEPT !.puddles = Tail(@)]
        /\ UNCHANGED <<memBlocks, memEntry, poolBlocks>>

DeletePoolReturn ==
    /\ memPool.at = "delete" /\ memPool.puddles = <<>>
    /\ FreeMem(memPool.header, PoolHeaderSize)
    /\ memPool' = NoPool
    /\ UNCHANGED <<memBlocks, memEntry, poolBlocks>>

-----------------------------------------------------------------------------
AbsRegions ==
    { Region(a * AbsUnit, n * AbsUnit) : a \in 0 .. MemUpper \div AbsUnit, n \in 1 .. Block \div AbsUnit }

MemNext ==
    \/ \E size \in MemSizes : MemAlloc(size) \/ AllocPooledHere(size) \/ AllocPooledNew(size)
    \/ \E r \in AbsRegions : MemAllocAbs(r.addr, r.size)
    \/ \E b \in memBlocks : MemFree(b)
    \/ \E a \in MemLower .. MemUpper - 1, size \in MemSizes : Aligned(a) /\ MemFreeWrongly(a, size)
    \/ \E c \in MemCallers :
          \/ \E lengths \in MemLengths : AllocEntry(c, lengths)
          \/ AllocEntryNext(c) \/ AllocEntryReturn(c)
          \/ FreeEntry(c) \/ FreeEntryNext(c) \/ FreeEntryReturn(c)
    \/ CreatePool \/ DeletePool \/ DeletePuddle \/ DeletePoolReturn

MemSpec == MemInit /\ [][MemNext]_memVars

-----------------------------------------------------------------------------
(* Properties.                                                             *)

Chunks == { mh_First[i] : i \in 1 .. Len(mh_First) }

\* Every variable has its type.
MemTypeOK ==
    /\ mh_First \in Seq(Regions) /\ mh_Free \in Int
    /\ memBlocks \subseteq Regions /\ poolBlocks \subseteq Regions
    /\ memEntry \in [MemCallers -> [ml : Nat, lengths : Seq(Nat), addrs : Seq(Nat),
                                    at : {"none", "alloc", "done", "free"}]]
    /\ memPool \in [header : Nat, at : {"none", "open", "delete"},
                    puddles : Seq([addr : Nat, pp_Size : Nat, pp_BytesUsed : Nat])]

\* The chunks are in the order of their addresses and not empty, and no two of
\* them touch: free neighbours have been merged, whatever regions are freed.
FreeListSorted ==
    /\ \A i \in 1 .. Len(mh_First) : mh_First[i].size > 0
    /\ \A i, j \in 1 .. Len(mh_First) : i < j => End(mh_First[i]) < mh_First[j].addr

\* Memory has one owner: what is free, what programs hold, what memory lists
\* and pools consist of are apart from each other, and together they are all
\* the memory, so nothing is ever handed out twice or lost, whatever call
\* failed half way or freed a block again.
Given(a, n) == IF n = 0 THEN {} ELSE {Region(a, RoundUp(n, Block))}
EntryRegions(c) ==
    LET e == memEntry[c]
    IN  IF e = NoEntry THEN {}
        ELSE Given(e.ml, MemListSize)
             \cup UNION { Given(e.addrs[i], e.lengths[i]) : i \in 1 .. Len(e.addrs) }
PoolRegions ==
    IF memPool = NoPool THEN {}
    ELSE Given(memPool.header, PoolHeaderSize)
         \cup UNION { Given(memPool.puddles[i].addr, memPool.puddles[i].pp_Size + PoolPuddleSize) :
                        i \in 1 .. Len(memPool.puddles) }
BlockRegions == UNION { Given(b.addr, b.size) : b \in memBlocks }
ListRegions == UNION { EntryRegions(c) : c \in MemCallers }
Used == BlockRegions \cup ListRegions \cup PoolRegions

Addresses(r) == r.addr .. End(r) - 1
OneOwner ==
    /\ \A r \in Chunks \cup Used : MemLower <= r.addr /\ End(r) <= MemUpper
    /\ \A a \in MemLower .. MemUpper - 1 :
          \E r \in Chunks \cup Used :
              /\ a \in Addresses(r)
              /\ \A s \in Chunks \cup Used : a \in Addresses(s) => s = r
    /\ Cardinality(UNION { Addresses(r) : r \in Chunks }) = mh_Free

\* What a pool hands out are different parts of its puddles.
PoolBlocksApart ==
    /\ \A b, d \in poolBlocks : b # d => ~Overlap(b, d)
    /\ \A b \in poolBlocks : \E i \in 1 .. Len(memPool.puddles) :
          LET puddle == memPool.puddles[i]
          IN  Data(puddle) <= b.addr /\ End(b) <= Data(puddle) + puddle.pp_Size

\* AllocEntry() gives up only when the memory has no free room of the size in
\* one piece, and a list it returns has memory for every entry.
RoomFor(n) ==
    \E a \in MemLower .. MemUpper - n :
        \A x \in a .. a + n - 1 : \A r \in Used : x \notin Addresses(r)
GivesUpOnlyWhenFull ==
    [][ \A c \in MemCallers :
          /\ memEntry[c].at = "alloc" /\ memEntry'[c].at = "free" =>
                ~RoomFor(RoundUp(NextLength(memEntry[c]), Block))
          /\ memEntry'[c].at = "done" => Complete(memEntry'[c]) ]_memVars

=============================================================================
