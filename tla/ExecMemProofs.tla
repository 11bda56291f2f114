---------------------------- MODULE ExecMemProofs ----------------------------
(***************************************************************************)
(* The free list stays sorted, disjoint and merged, for a memory of any    *)
(* size and for every choice of sizes, also when programs free memory that *)
(* is not theirs; each operation on the list takes out or puts in exactly  *)
(* the memory it is about; and so the free chunks, the blocks, the memory  *)
(* lists and the puddles of the pool share all memory out: every byte has  *)
(* one owner, and AllocEntry() gives up only when there is no room.        *)
(***************************************************************************)
EXTENDS ExecMem, ExecListLemmas, FiniteSetTheorems

\* A list like the one that FreeListSorted requires.
FreeList(list) ==
    /\ list \in Seq(Regions)
    /\ \A i \in 1 .. Len(list) : list[i].size > 0
    /\ \A i, j \in 1 .. Len(list) : i < j => End(list[i]) < list[j].addr

\* Address a is free.
IsFree(list, a) == \E i \in 1 .. Len(list) : list[i].addr <= a /\ a < End(list[i])
Within(r, a) == r.addr <= a /\ a < End(r)

\* What a region is made of.
LEMMA RegionType ==
  ASSUME NEW a \in Nat, NEW n \in Nat
  PROVE  Region(a, n) \in Regions /\ Region(a, n).addr = a /\ Region(a, n).size = n
BY DEF Region, Regions

\* A chunk of a list is a region.
LEMMA ChunkType ==
  ASSUME NEW list \in Seq(Regions), NEW i \in 1 .. Len(list)
  PROVE  list[i] \in Regions /\ list[i].addr \in Nat /\ list[i].size \in Nat
<1>1. list[i] \in Regions
  OBVIOUS
<1> HIDE DEF Regions
<1>2. \A r \in Regions : r.addr \in Nat /\ r.size \in Nat
  BY DEF Regions
<1> QED BY <1>1, <1>2

\* Sizes are rounded up to at least themselves.
LEMMA RoundUpBlock ==
  ASSUME NEW n \in Nat
  PROVE  RoundUp(n, Block) \in Nat /\ RoundUp(n, Block) >= n
BY DEF RoundUp, Block

-----------------------------------------------------------------------------
(* Searching.                                                              *)

\* Allocate() stops at the first chunk that is large enough, or after the last.
LEMMA FirstFitFound ==
  ASSUME NEW list \in Seq(Regions), NEW n \in Nat
  PROVE  /\ FirstFit(list, n) \in 1 .. Len(list) + 1
         /\ FirstFit(list, n) <= Len(list) => list[FirstFit(list, n)].size >= n
         /\ \A i \in 1 .. FirstFit(list, n) - 1 : list[i].size < n
<1> DEFINE T == { k \in 1 .. Len(list) + 1 : k <= Len(list) => list[k].size >= n }
           P(k) == /\ k <= Len(list) => list[k].size >= n
                   /\ \A i \in 1 .. k - 1 : list[i].size < n
<1>1. Len(list) \in Nat /\ Len(list) + 1 \in T /\ T \subseteq Nat
  OBVIOUS
<1>2. PICK k \in T : \A j \in T : k <= j
  BY <1>1, LeastElement, Zenon
<1>3. \A i \in 1 .. k - 1 : i \notin T /\ i \in 1 .. Len(list)
  BY <1>1, <1>2
<1>4. \A i \in 1 .. Len(list) : list[i].size \in Nat
  BY ChunkType
<1>5. \A i \in 1 .. k - 1 : list[i].size < n
  BY <1>1, <1>3, <1>4
<1>6. k \in 1 .. Len(list) + 1 /\ P(k)
  BY <1>2, <1>5
<1> HIDE DEF P
<1>7. FirstFit(list, n) = CHOOSE m \in 1 .. Len(list) + 1 : P(m)
  BY DEF FirstFit, P
<1>8. FirstFit(list, n) \in 1 .. Len(list) + 1 /\ P(FirstFit(list, n))
  BY <1>6, <1>7, Zenon
<1> QED BY <1>8 DEF P

\* Deallocate() stops behind the last chunk below its address.
LEMMA ChunksBeforeFound ==
  ASSUME NEW list \in Seq(Regions), NEW a \in Nat
  PROVE  LET p == ChunksBefore(list, a)
         IN  /\ p \in 0 .. Len(list)
             /\ p < Len(list) => list[p + 1].addr >= a
             /\ \A i \in 1 .. p : list[i].addr < a
<1> DEFINE T == { k \in 0 .. Len(list) : k < Len(list) => list[k + 1].addr >= a }
           P(k) == /\ k < Len(list) => list[k + 1].addr >= a
                   /\ \A i \in 1 .. k : list[i].addr < a
<1>1. Len(list) \in Nat /\ Len(list) \in T /\ T \subseteq Nat
  OBVIOUS
<1>2. PICK k \in T : \A j \in T : k <= j
  BY <1>1, LeastElement, Zenon
<1>3. \A i \in 1 .. k : i - 1 \notin T /\ i - 1 \in 0 .. Len(list) - 1 /\ i \in 1 .. Len(list)
  <2> TAKE i \in 1 .. k
  <2>1. k \in 0 .. Len(list) /\ i - 1 \in 0 .. Len(list) - 1 /\ i \in 1 .. Len(list)
    BY <1>1, <1>2
  <2>2. i - 1 \in T => k <= i - 1
    BY <1>2, Zenon
  <2>3. i - 1 \notin T
    BY <2>1, <2>2
  <2> QED BY <2>1, <2>3
<1>4. \A i \in 1 .. Len(list) : list[i].addr \in Nat
  BY ChunkType
<1>5. \A i \in 1 .. k : list[i].addr < a
  <2> TAKE i \in 1 .. k
  <2>1. i - 1 \notin T /\ i - 1 \in 0 .. Len(list) - 1 /\ i \in 1 .. Len(list)
    BY <1>3
  <2>2. ~(list[i - 1 + 1].addr >= a)
    BY <2>1, <1>1
  <2>3. i - 1 + 1 = i
    BY <1>2
  <2> QED BY <2>1, <2>2, <2>3, <1>4
<1>6. k \in 0 .. Len(list) /\ P(k)
  BY <1>2, <1>5
<1> HIDE DEF P
<1>7. ChunksBefore(list, a) = CHOOSE m \in 0 .. Len(list) : P(m)
  BY DEF ChunksBefore, P
<1>8. ChunksBefore(list, a) \in 0 .. Len(list) /\ P(ChunksBefore(list, a))
  BY <1>6, <1>7, Zenon
<1> QED BY <1>8 DEF P

-----------------------------------------------------------------------------
(* The three ways to change a list: a chunk leaves, becomes another region, *)
(* or a region comes in.                                                   *)

\* A chunk leaves the list.
LEMMA RemoveKeeps ==
  ASSUME NEW list, FreeList(list), NEW k \in 1 .. Len(list)
  PROVE  /\ FreeList(RemoveAt(list, k))
         /\ \A a \in Nat : IsFree(RemoveAt(list, k), a) <=> IsFree(list, a) /\ ~Within(list[k], a)
<1> DEFINE q == RemoveAt(list, k)
<1>0. list \in Seq(Regions) /\ Len(list) \in Nat
  BY DEF FreeList
<1>1. /\ list \in Seq(Regions) /\ Len(list) \in Nat
      /\ q \in Seq(Regions) /\ Len(q) = Len(list) - 1
      /\ \A i \in 1 .. Len(list) - 1 : q[i] = IF i < k THEN list[i] ELSE list[i + 1]
  BY <1>0, RemoveAtElements, Zenon
<1> HIDE DEF q
<1>2. \A i \in 1 .. Len(list) : list[i].addr \in Nat /\ list[i].size \in Nat /\ list[i].size > 0
  BY <1>1, ChunkType DEF FreeList
<1>3. \A i, j \in 1 .. Len(list) : i < j => End(list[i]) < list[j].addr
  BY DEF FreeList
<1>4. FreeList(q)
  <2>1. \A i \in 1 .. Len(q) : q[i].size > 0
    BY <1>1, <1>2
  <2>2. \A i, j \in 1 .. Len(q) : i < j => End(q[i]) < q[j].addr
    BY <1>1, <1>3
  <2> QED BY <1>1, <2>1, <2>2 DEF FreeList
<1>5. ASSUME NEW a \in Nat PROVE IsFree(q, a) <=> IsFree(list, a) /\ ~Within(list[k], a)
  <2>1. ASSUME IsFree(q, a) PROVE IsFree(list, a) /\ ~Within(list[k], a)
    <3>1. PICK i \in 1 .. Len(q) : q[i].addr <= a /\ a < End(q[i])
      BY <2>1 DEF IsFree
    <3>2. PICK j \in 1 .. Len(list) : j # k /\ list[j].addr <= a /\ a < End(list[j])
      BY <3>1, <1>1
    <3>3. j < k => End(list[j]) < list[k].addr
      BY <3>2, <1>3
    <3>4. k < j => End(list[k]) < list[j].addr
      BY <3>2, <1>3
    <3> QED BY <3>2, <3>3, <3>4, <1>1, <1>2 DEF IsFree, Within, End
  <2>2. ASSUME IsFree(list, a), ~Within(list[k], a) PROVE IsFree(q, a)
    <3>1. PICK j \in 1 .. Len(list) : list[j].addr <= a /\ a < End(list[j])
      BY <2>2 DEF IsFree
    <3>2. j # k
      BY <3>1, <2>2 DEF Within
    <3>3. CASE j < k
      BY <3>1, <3>3, <1>1 DEF IsFree
    <3>4. CASE j > k
      <4>1. j - 1 \in 1 .. Len(q) /\ q[j - 1] = list[j]
        BY <3>1, <3>4, <1>1
      <4> QED BY <3>1, <4>1 DEF IsFree
    <3> QED BY <3>2, <3>3, <3>4
  <2> QED BY <2>1, <2>2
<1> QED BY <1>4, <1>5 DEF q

\* A chunk becomes another region that fits between its neighbours.
LEMMA ReplaceKeeps ==
  ASSUME NEW list, FreeList(list), NEW k \in 1 .. Len(list), NEW r \in Regions, r.size > 0,
         \A i \in 1 .. k - 1 : End(list[i]) < r.addr,
         \A i \in k + 1 .. Len(list) : End(r) < list[i].addr
  PROVE  LET q == [list EXCEPT ![k] = r]
         IN  /\ FreeList(q)
             /\ \A a \in Nat : IsFree(q, a) <=>
                    Within(r, a) \/ (IsFree(list, a) /\ ~Within(list[k], a))
<1> DEFINE q == [list EXCEPT ![k] = r]
<1>1. /\ list \in Seq(Regions) /\ Len(list) \in Nat
      /\ q \in Seq(Regions) /\ Len(q) = Len(list)
      /\ \A i \in 1 .. Len(list) : q[i] = IF i = k THEN r ELSE list[i]
  BY DEF FreeList
<1> HIDE DEF q
<1>2. \A i \in 1 .. Len(list) : list[i].addr \in Nat /\ list[i].size \in Nat /\ list[i].size > 0
  BY <1>1, ChunkType DEF FreeList
<1>3. \A i, j \in 1 .. Len(list) : i < j => End(list[i]) < list[j].addr
  BY DEF FreeList
<1>4. FreeList(q)
  <2>1. \A i \in 1 .. Len(q) : q[i].size > 0
    BY <1>1, <1>2
  <2>2. ASSUME NEW i \in 1 .. Len(q), NEW j \in 1 .. Len(q), i < j
        PROVE  End(q[i]) < q[j].addr
    <3>1. CASE i = k
      BY <2>2, <3>1, <1>1
    <3>2. CASE j = k
      BY <2>2, <3>2, <1>1
    <3>3. CASE i # k /\ j # k
      BY <2>2, <3>3, <1>1, <1>3
    <3> QED BY <3>1, <3>2, <3>3
  <2> QED BY <1>1, <2>1, <2>2 DEF FreeList
<1>5. ASSUME NEW a \in Nat
      PROVE  IsFree(q, a) <=> Within(r, a) \/ (IsFree(list, a) /\ ~Within(list[k], a))
  <2>1. ASSUME IsFree(q, a), ~Within(r, a) PROVE IsFree(list, a) /\ ~Within(list[k], a)
    <3>1. PICK j \in 1 .. Len(list) : j # k /\ list[j].addr <= a /\ a < End(list[j])
      BY <2>1, <1>1 DEF IsFree, Within
    <3>2. j < k => End(list[j]) < list[k].addr
      BY <3>1, <1>3
    <3>3. k < j => End(list[k]) < list[j].addr
      BY <3>1, <1>3
    <3> QED BY <3>1, <3>2, <3>3, <1>1, <1>2 DEF IsFree, Within, End
  <2>2. ASSUME IsFree(list, a), ~Within(list[k], a) PROVE IsFree(q, a)
    BY <2>2, <1>1 DEF IsFree, Within
  <2>3. ASSUME Within(r, a) PROVE IsFree(q, a)
    BY <2>3, <1>1 DEF IsFree, Within
  <2> QED BY <2>1, <2>2, <2>3
<1> QED BY <1>4, <1>5 DEF q

\* A region comes in between two chunks that it does not touch.
LEMMA InsertKeeps ==
  ASSUME NEW list, FreeList(list), NEW k \in 1 .. Len(list) + 1, NEW r \in Regions, r.size > 0,
         \A i \in 1 .. k - 1 : End(list[i]) < r.addr,
         \A i \in k .. Len(list) : End(r) < list[i].addr
  PROVE  /\ FreeList(InsertAt(list, k, r))
         /\ \A a \in Nat : IsFree(InsertAt(list, k, r), a) <=> Within(r, a) \/ IsFree(list, a)
<1> DEFINE q == InsertAt(list, k, r)
<1>0. list \in Seq(Regions) /\ Len(list) \in Nat
  BY DEF FreeList
<1>a. q \in Seq(Regions)
  BY <1>0, InsertAtElements
<1>b. Len(q) = Len(list) + 1
  BY <1>0, InsertAtElements
<1>c. \A i \in 1 .. Len(list) + 1 :
         q[i] = IF i < k THEN list[i] ELSE IF i = k THEN r ELSE list[i - 1]
  BY <1>0, InsertAtElements
<1>1. /\ list \in Seq(Regions) /\ Len(list) \in Nat
      /\ q \in Seq(Regions) /\ Len(q) = Len(list) + 1
      /\ \A i \in 1 .. Len(list) + 1 :
            q[i] = IF i < k THEN list[i] ELSE IF i = k THEN r ELSE list[i - 1]
  BY <1>0, <1>a, <1>b, <1>c
<1> HIDE DEF q
<1>2. \A i \in 1 .. Len(list) : list[i].size > 0
  BY DEF FreeList
<1>3. \A i, j \in 1 .. Len(list) : i < j => End(list[i]) < list[j].addr
  BY DEF FreeList
<1>4. FreeList(q)
  <2>1. ASSUME NEW i \in 1 .. Len(q) PROVE q[i].size > 0
    <3>1. CASE i < k
      BY <3>1, <1>1, <1>2
    <3>2. CASE i = k
      BY <3>2, <1>1
    <3>3. CASE i > k
      <4>1. q[i] = list[i - 1] /\ i - 1 \in 1 .. Len(list)
        BY <3>3, <1>1
      <4> QED BY <4>1, <1>2
    <3> QED BY <3>1, <3>2, <3>3
  <2>2. ASSUME NEW i \in 1 .. Len(q), NEW j \in 1 .. Len(q), i < j
        PROVE  End(q[i]) < q[j].addr
    <3>1. CASE j < k
      BY <2>2, <3>1, <1>1, <1>3
    <3>2. CASE j = k
      BY <2>2, <3>2, <1>1
    <3>3. CASE j > k /\ i < k
      <4>1. q[j] = list[j - 1] /\ q[i] = list[i] /\ (i < j - 1 \/ j - 1 = i)
        BY <2>2, <3>3, <1>1
      <4> QED BY <2>2, <3>3, <4>1, <1>1, <1>3
    <3>4. CASE i = k
      <4>1. q[j] = list[j - 1] /\ j - 1 \in k .. Len(list)
        BY <2>2, <3>4, <1>1
      <4> QED BY <3>4, <4>1, <1>1
    <3>5. CASE i > k
      <4>1. q[j] = list[j - 1] /\ q[i] = list[i - 1] /\ i - 1 < j - 1
            /\ i - 1 \in 1 .. Len(list) /\ j - 1 \in 1 .. Len(list)
        BY <2>2, <3>5, <1>1
      <4> QED BY <4>1, <1>3
    <3> QED BY <2>2, <3>1, <3>2, <3>3, <3>4, <3>5, <1>1
  <2> QED BY <1>1, <2>1, <2>2 DEF FreeList
<1>5. ASSUME NEW a \in Nat PROVE IsFree(q, a) <=> Within(r, a) \/ IsFree(list, a)
  <2>1. ASSUME IsFree(q, a), ~Within(r, a) PROVE IsFree(list, a)
    <3>1. PICK i \in 1 .. Len(q) : q[i].addr <= a /\ a < End(q[i])
      BY <2>1 DEF IsFree
    <3>2. CASE i < k
      BY <3>1, <3>2, <1>1 DEF IsFree
    <3>3. CASE i > k
      <4>1. i - 1 \in 1 .. Len(list) /\ q[i] = list[i - 1]
        BY <3>1, <3>3, <1>1
      <4> QED BY <3>1, <4>1 DEF IsFree
    <3> QED BY <3>1, <3>2, <3>3, <2>1, <1>1 DEF Within
  <2>2. ASSUME IsFree(list, a) PROVE IsFree(q, a)
    <3>1. PICK i \in 1 .. Len(list) : list[i].addr <= a /\ a < End(list[i])
      BY <2>2 DEF IsFree
    <3>2. CASE i < k
      BY <3>1, <3>2, <1>1 DEF IsFree
    <3>3. CASE i >= k
      <4>1. i + 1 \in 1 .. Len(q) /\ q[i + 1] = list[i]
        BY <3>1, <3>3, <1>1
      <4> QED BY <3>1, <4>1 DEF IsFree
    <3> QED BY <3>1, <3>2, <3>3
  <2>3. ASSUME Within(r, a) PROVE IsFree(q, a)
    BY <2>3, <1>1 DEF IsFree, Within
  <2> QED BY <2>1, <2>2, <2>3
<1> QED BY <1>4, <1>5 DEF q

-----------------------------------------------------------------------------
(* The operations of exec.                                                 *)

\* Allocate() takes a block of n longwords out of the chunk it finds, and
\* nothing else; what is left is a list without gaps and overlaps.
THEOREM CarveTakesBlock ==
  ASSUME NEW list, FreeList(list), NEW k \in 1 .. Len(list),
         NEW n \in Nat, n > 0, list[k].size >= n
  PROVE  LET q == Carve(list, k, n)
             block == Region(list[k].addr, n)
         IN  /\ FreeList(q)
             /\ \A a \in Nat : Within(block, a) => IsFree(list, a)
             /\ \A a \in Nat : IsFree(q, a) <=> IsFree(list, a) /\ ~Within(block, a)
<1> DEFINE q == Carve(list, k, n)
           block == Region(list[k].addr, n)
           rest == Region(list[k].addr + n, list[k].size - n)
<1>1. list \in Seq(Regions) /\ Len(list) \in Nat
      /\ list[k].addr \in Nat /\ list[k].size \in Nat /\ list[k].size > 0
  BY ChunkType DEF FreeList
<1>2. block \in Regions /\ block.addr = list[k].addr /\ block.size = n
  BY <1>1, RegionType
<1>3. ASSUME NEW a \in Nat, Within(block, a) PROVE IsFree(list, a)
  BY <1>1, <1>2, <1>3 DEF Within, IsFree, End
<1>4. CASE list[k].size = n
  <2>1. q = RemoveAt(list, k)
    BY <1>4 DEF Carve
  <2>2. \A a : Within(block, a) <=> Within(list[k], a)
    BY <1>2, <1>4 DEF Within, End
  <2> QED BY <2>1, <2>2, <1>3, RemoveKeeps, Zenon
<1>5. CASE list[k].size > n
  <2>1. q = [list EXCEPT ![k] = rest]
    BY <1>5, <1>1 DEF Carve
  <2>2. rest \in Regions /\ rest.addr = list[k].addr + n /\ rest.size = list[k].size - n
    BY <1>1, <1>5, RegionType
  <2>3. rest.size > 0 /\ End(rest) = End(list[k])
    BY <2>2, <1>1, <1>5 DEF End
  <2>4. \A i \in 1 .. k - 1 : End(list[i]) < rest.addr
    <3> TAKE i \in 1 .. k - 1
    <3>1. i \in 1 .. Len(list) /\ list[i].addr \in Nat /\ list[i].size \in Nat
      BY <1>1, ChunkType
    <3>2. End(list[i]) < list[k].addr
      BY <3>1 DEF FreeList
    <3> QED BY <2>2, <3>1, <3>2, <1>1 DEF End
  <2>5. \A i \in k + 1 .. Len(list) : End(rest) < list[i].addr
    BY <2>3, <1>1 DEF FreeList
  <2> HIDE DEF rest
  <2> DEFINE s == [list EXCEPT ![k] = rest]
  <2>6. /\ FreeList(s)
        /\ \A a \in Nat : IsFree(s, a) <=>
                Within(rest, a) \/ (IsFree(list, a) /\ ~Within(list[k], a))
    BY <2>2, <2>3, <2>4, <2>5, ReplaceKeeps, Zenon
  <2>7. \A a \in Nat : Within(list[k], a) <=> Within(block, a) \/ Within(rest, a)
    BY <2>2, <2>3, <1>1, <1>2, <1>5 DEF Within, End
  <2>8. \A a \in Nat : ~(Within(block, a) /\ Within(rest, a))
    BY <2>2, <1>1, <1>2 DEF Within, End
  <2>9. \A a \in Nat : Within(list[k], a) => IsFree(list, a)
    BY DEF Within, IsFree
  <2> QED BY <2>1, <2>6, <2>7, <2>8, <2>9, <1>3, Zenon
<1> QED BY <1>1, <1>4, <1>5

\* AllocAbs() takes the region it was asked for out of the chunk around it.
THEOREM CutOutTakesRegion ==
  ASSUME NEW list, FreeList(list), NEW k \in 1 .. Len(list),
         NEW r \in Regions, r.size > 0, list[k].addr <= r.addr, End(r) <= End(list[k])
  PROVE  /\ FreeList(CutOut(list, k, r))
         /\ \A a \in Nat : IsFree(CutOut(list, k, r), a) <=> IsFree(list, a) /\ ~Within(r, a)
<1> DEFINE before == Region(list[k].addr, r.addr - list[k].addr)
           after == Region(End(r), End(list[k]) - End(r))
           q == CutOut(list, k, r)
<1>1. list \in Seq(Regions) /\ Len(list) \in Nat
      /\ list[k].addr \in Nat /\ list[k].size \in Nat /\ list[k].size > 0
  BY ChunkType DEF FreeList
<1>2. r.addr \in Nat /\ r.size \in Nat
  BY DEF Regions
<1>3. before \in Regions /\ before.addr = list[k].addr /\ before.size = r.addr - list[k].addr
  BY <1>1, <1>2, RegionType
<1>4. after \in Regions /\ after.addr = End(r) /\ after.size = End(list[k]) - End(r)
  BY <1>1, <1>2, RegionType DEF End
<1>5. End(before) = r.addr /\ End(after) = End(list[k])
  BY <1>1, <1>2, <1>3, <1>4 DEF End
<1>6. q = CASE before.size > 0 /\ after.size > 0 ->
                   InsertAt([list EXCEPT ![k] = before], k + 1, after)
          [] before.size > 0 /\ after.size = 0 -> [list EXCEPT ![k] = before]
          [] before.size = 0 /\ after.size > 0 -> [list EXCEPT ![k] = after]
          [] OTHER -> RemoveAt(list, k)
  BY DEF CutOut
<1> HIDE DEF before, after, q
<1>7. \A i \in 1 .. k - 1 : i \in 1 .. Len(list) /\ End(list[i]) < list[k].addr
      /\ list[i].addr \in Nat /\ list[i].size \in Nat
  BY <1>1, ChunkType DEF FreeList
<1>8. \A i \in k + 1 .. Len(list) : i \in 1 .. Len(list) /\ End(list[k]) < list[i].addr
      /\ list[i].addr \in Nat /\ list[i].size \in Nat
  BY <1>1, ChunkType DEF FreeList
<1>9. \A a \in Nat : Within(list[k], a) <=> Within(before, a) \/ Within(r, a) \/ Within(after, a)
  BY <1>1, <1>2, <1>3, <1>4, <1>5 DEF Within, End
<1>10. \A a \in Nat : /\ Within(r, a) => ~Within(before, a) /\ ~Within(after, a)
                      /\ Within(list[k], a) => IsFree(list, a)
  <2> TAKE a \in Nat
  <2>1. Within(r, a) => ~Within(before, a) /\ ~Within(after, a)
    BY <1>1, <1>2, <1>3, <1>4, <1>5 DEF Within, End
  <2>2. Within(list[k], a) => IsFree(list, a)
    BY Zenon DEF Within, IsFree
  <2> QED BY <2>1, <2>2
<1>11. \A a \in Nat : /\ before.size = 0 => ~Within(before, a)
                      /\ after.size = 0 => ~Within(after, a)
  <2> TAKE a \in Nat
  <2>1. before.size = 0 => End(before) = before.addr
    BY <1>1, <1>3 DEF End
  <2>2. after.size = 0 => End(after) = after.addr /\ after.addr \in Nat
    BY <1>1, <1>2, <1>4 DEF End
  <2> QED BY <2>1, <2>2, <1>1, <1>3 DEF Within
<1>12. before.size \in Nat /\ after.size \in Nat
  BY <1>1, <1>2, <1>3, <1>4 DEF End
<1>13. \A i \in 1 .. k - 1 : End(list[i]) < before.addr /\ End(list[i]) < after.addr
  BY <1>1, <1>2, <1>3, <1>4, <1>7, SMTT(30) DEF End
<1>14. \A i \in k + 1 .. Len(list) : End(before) < list[i].addr /\ End(after) < list[i].addr
  BY <1>1, <1>2, <1>5, <1>8 DEF End
<1>15. CASE before.size > 0
  <2> DEFINE s == [list EXCEPT ![k] = before]
  <2>1. FreeList(s) /\ \A a \in Nat : IsFree(s, a) <=>
            Within(before, a) \/ (IsFree(list, a) /\ ~Within(list[k], a))
    BY <1>3, <1>13, <1>14, <1>15, ReplaceKeeps, Zenon
  <2>2. CASE after.size = 0
    <3>1. q = s
      BY <1>6, <1>15, <2>2
    <3> QED BY <3>1, <2>1, <2>2, <1>9, <1>10, <1>11, Zenon DEF q
  <2>3. CASE after.size > 0
    <3>1. q = InsertAt(s, k + 1, after)
      BY <1>6, <1>15, <2>3
    <3>2. Len(s) = Len(list) /\ \A i \in 1 .. Len(list) : s[i] = IF i = k THEN before ELSE list[i]
      BY <1>1
    <3> HIDE DEF s
    <3>3. k + 1 \in 1 .. Len(s) + 1
      BY <3>2, <1>1
    <3>4. \A i \in 1 .. (k + 1) - 1 : End(s[i]) < after.addr
      <4>1. End(before) < after.addr
        BY <1>2, <1>4, <1>5 DEF End
      <4> QED BY <3>2, <4>1, <1>1, <1>13
    <3>5. \A i \in k + 1 .. Len(s) : End(after) < s[i].addr
      BY <3>2, <1>1, <1>14
    <3>6. /\ FreeList(InsertAt(s, k + 1, after))
          /\ \A a \in Nat : IsFree(InsertAt(s, k + 1, after), a) <=> Within(after, a) \/ IsFree(s, a)
      BY <2>1, <2>3, <3>3, <3>4, <3>5, <1>4, InsertKeeps, Zenon
    <3> QED BY <3>1, <3>6, <2>1, <1>9, <1>10, Zenon DEF q
  <2> QED BY <2>2, <2>3, <1>12
<1>16. CASE before.size = 0 /\ after.size > 0
  <2>1. q = [list EXCEPT ![k] = after]
    BY <1>6, <1>16
  <2>2. FreeList(q) /\ \A a \in Nat : IsFree(q, a) <=>
            Within(after, a) \/ (IsFree(list, a) /\ ~Within(list[k], a))
    BY <2>1, <1>4, <1>13, <1>14, <1>16, ReplaceKeeps, Zenon
  <2> QED BY <2>2, <1>9, <1>10, <1>11, <1>16, Zenon DEF q
<1>17. CASE before.size = 0 /\ after.size = 0
  <2>1. q = RemoveAt(list, k)
    BY <1>6, <1>17
  <2> QED BY <2>1, <1>9, <1>10, <1>11, <1>17, RemoveKeeps, Zenon DEF q
<1> QED BY <1>12, <1>15, <1>16, <1>17

\* Deallocate() refuses exactly the regions in which some memory is free.
THEOREM RefusesFreeMemory ==
  ASSUME NEW list, FreeList(list), NEW r \in Regions, r.size > 0
  PROVE  OverlapsFree(list, r) <=> \E a \in Nat : Within(r, a) /\ IsFree(list, a)
<1> DEFINE p == ChunksBefore(list, r.addr)
<1>1. list \in Seq(Regions) /\ Len(list) \in Nat /\ r.addr \in Nat /\ r.size \in Nat
  BY DEF FreeList, Regions
<1>2. /\ p \in 0 .. Len(list)
      /\ p < Len(list) => list[p + 1].addr >= r.addr
      /\ \A i \in 1 .. p : list[i].addr < r.addr
  BY <1>1, ChunksBeforeFound, Zenon
<1>3. \A i \in 1 .. Len(list) : list[i].addr \in Nat /\ list[i].size \in Nat /\ list[i].size > 0
  BY <1>1, ChunkType DEF FreeList
<1>4. \A i, j \in 1 .. Len(list) : i < j => End(list[i]) < list[j].addr
  BY DEF FreeList
<1>5. OverlapsFree(list, r) <=>
          \/ p > 0 /\ End(list[p]) > r.addr
          \/ p < Len(list) /\ End(r) > list[p + 1].addr
  BY DEF OverlapsFree
<1> HIDE DEF p
<1>6. CASE p > 0 /\ End(list[p]) > r.addr
  <2>1. p \in 1 .. Len(list) /\ list[p].addr <= r.addr
    BY <1>1, <1>2, <1>3, <1>6
  <2>2. Within(r, r.addr) /\ IsFree(list, r.addr)
    BY <2>1, <1>1, <1>6 DEF Within, IsFree, End
  <2> QED BY <2>2, <1>1, <1>5, <1>6
<1>7. CASE p < Len(list) /\ End(r) > list[p + 1].addr
  <2>1. p + 1 \in 1 .. Len(list) /\ list[p + 1].addr >= r.addr
    BY <1>1, <1>2, <1>7
  <2> DEFINE a == list[p + 1].addr
  <2>2. a \in Nat /\ a < End(list[p + 1])
    BY <2>1, <1>3 DEF End
  <2>3. Within(r, a) /\ IsFree(list, a)
    BY <2>1, <2>2, <1>1, <1>7 DEF Within, IsFree
  <2> QED BY <2>2, <2>3, <1>5, <1>7
<1>8. ASSUME NEW a \in Nat, Within(r, a), IsFree(list, a) PROVE OverlapsFree(list, r)
  <2>1. PICK i \in 1 .. Len(list) : list[i].addr <= a /\ a < End(list[i])
    BY <1>8 DEF IsFree
  <2>2. r.addr <= a /\ a < End(r)
    BY <1>8 DEF Within
  <2>3. CASE i <= p
    <3>1. p \in 1 .. Len(list) /\ list[p].addr < r.addr /\ p > 0
      BY <2>3, <1>1, <1>2
    <3>2. ~(i < p)
      <4>1. i < p => End(list[i]) < list[p].addr
        BY <3>1, <1>4
      <4> QED BY <4>1, <3>1, <2>1, <2>2, <1>1, <1>3 DEF End
    <3>3. End(list[p]) > r.addr
      <4>1. i = p
        BY <3>1, <3>2, <2>3
      <4> QED BY <4>1, <2>1, <2>2, <1>1, <1>3 DEF End
    <3> QED BY <3>1, <3>3, <1>5
  <2>4. CASE i > p
    <3>1. p + 1 \in 1 .. Len(list) /\ p < Len(list) /\ i >= p + 1
      BY <2>4, <1>1, <1>2
    <3>2. list[p + 1].addr <= list[i].addr
      <4>1. p + 1 < i => End(list[p + 1]) < list[i].addr
        BY <3>1, <1>4
      <4>2. p + 1 < i \/ p + 1 = i
        BY <3>1
      <4> QED BY <4>1, <4>2, <3>1, <1>3 DEF End
    <3>3. End(r) > list[p + 1].addr
      BY <3>1, <3>2, <2>1, <2>2, <1>1, <1>3 DEF End
    <3> QED BY <3>1, <3>3, <1>5
  <2> QED BY <2>3, <2>4, <1>2
<1> QED BY <1>5, <1>6, <1>7, <1>8

\* Deallocate() puts a region into the list and nothing else, merged with its
\* free neighbours, or leaves the list as it is.
THEOREM DeallocateGivesRegion ==
  ASSUME NEW list, FreeList(list), NEW r \in Regions, r.size > 0
  PROVE  /\ FreeList(Deallocate(list, r))
         /\ ~OverlapsFree(list, r) =>
                \A a \in Nat : IsFree(Deallocate(list, r), a) <=> IsFree(list, a) \/ Within(r, a)
<1> DEFINE p == ChunksBefore(list, r.addr)
           Gives(q) == /\ FreeList(q)
                       /\ \A a \in Nat : IsFree(q, a) <=> IsFree(list, a) \/ Within(r, a)
<1>0. SUFFICES ASSUME ~OverlapsFree(list, r) PROVE Gives(Link(list, r))
  BY DEF Deallocate
<1>1. list \in Seq(Regions) /\ Len(list) \in Nat /\ r.addr \in Nat /\ r.size \in Nat
  BY DEF FreeList, Regions
<1>2. /\ p \in 0 .. Len(list)
      /\ p < Len(list) => list[p + 1].addr >= r.addr
      /\ \A i \in 1 .. p : list[i].addr < r.addr
  BY <1>1, ChunksBeforeFound, Zenon
<1>3. \A i \in 1 .. Len(list) : list[i].addr \in Nat /\ list[i].size \in Nat /\ list[i].size > 0
  BY <1>1, ChunkType DEF FreeList
<1>4. \A i, j \in 1 .. Len(list) : i < j => End(list[i]) < list[j].addr
  BY DEF FreeList
<1>5. /\ p > 0 => End(list[p]) <= r.addr
      /\ p < Len(list) => End(r) <= list[p + 1].addr
  BY <1>0, <1>1, <1>2, <1>3 DEF OverlapsFree, End
<1>6. /\ JoinsPrev(list, r) <=> p > 0 /\ End(list[p]) = r.addr
      /\ JoinsNext(list, r) <=> p < Len(list) /\ End(r) = list[p + 1].addr
  BY DEF JoinsPrev, JoinsNext
<1>7. /\ p > 0 /\ ~JoinsPrev(list, r) => End(list[p]) < r.addr
      /\ p < Len(list) /\ ~JoinsNext(list, r) => End(r) < list[p + 1].addr
  <2>1. ASSUME p > 0, End(list[p]) # r.addr PROVE End(list[p]) < r.addr
    <3>1. p \in 1 .. Len(list)
      BY <2>1, <1>1, <1>2
    <3>2. list[p].addr \in Nat /\ list[p].size \in Nat
      BY <3>1, <1>3
    <3> QED BY <2>1, <3>2, <1>1, <1>5 DEF End
  <2>2. ASSUME p < Len(list), End(r) # list[p + 1].addr PROVE End(r) < list[p + 1].addr
    <3>1. p + 1 \in 1 .. Len(list)
      BY <2>2, <1>1, <1>2
    <3>2. list[p + 1].addr \in Nat
      BY <3>1, <1>3
    <3> QED BY <2>2, <3>2, <1>1, <1>5 DEF End
  <2> QED BY <2>1, <2>2, <1>6
<1>8. Link(list, r) =
        CASE JoinsPrev(list, r) /\ JoinsNext(list, r) ->
                [RemoveAt(list, p + 1) EXCEPT ![p] =
                    Region(list[p].addr, list[p].size + r.size + list[p + 1].size)]
        [] JoinsPrev(list, r) /\ ~JoinsNext(list, r) ->
                [list EXCEPT ![p] = Region(list[p].addr, list[p].size + r.size)]
        [] ~JoinsPrev(list, r) /\ JoinsNext(list, r) ->
                [list EXCEPT ![p + 1] = Region(r.addr, r.size + list[p + 1].size)]
        [] OTHER -> InsertAt(list, p + 1, r)
  BY DEF Link
<1> HIDE DEF p
<1>9. \A i \in 1 .. p - 1 : End(list[i]) < r.addr /\ End(list[i]) < list[p].addr
  <2> TAKE i \in 1 .. p - 1
  <2>1. i \in 1 .. Len(list) /\ p \in 1 .. Len(list) /\ i < p
    BY <1>1, <1>2
  <2>2. End(list[i]) < list[p].addr /\ list[p].addr < r.addr
    BY <2>1, <1>2, <1>4
  <2> QED BY <2>1, <2>2, <1>1, <1>3 DEF End
<1>10. \A i \in p + 2 .. Len(list) : End(r) < list[i].addr /\ End(list[p + 1]) < list[i].addr
  <2> TAKE i \in p + 2 .. Len(list)
  <2>1. i \in 1 .. Len(list) /\ p + 1 \in 1 .. Len(list) /\ p + 1 < i /\ p < Len(list)
    BY <1>1, <1>2
  <2>2. End(list[p + 1]) < list[i].addr /\ End(r) <= list[p + 1].addr
    BY <2>1, <1>4, <1>5
  <2> QED BY <2>1, <2>2, <1>1, <1>3 DEF End
<1>11. \A i \in 1 .. Len(list) : \A a \in Nat : Within(list[i], a) => IsFree(list, a)
  BY Zenon DEF Within, IsFree
<1>12. CASE ~JoinsPrev(list, r) /\ ~JoinsNext(list, r)
  <2>1. \A i \in 1 .. (p + 1) - 1 : End(list[i]) < r.addr
    <3> TAKE i \in 1 .. (p + 1) - 1
    <3>1. i = p \/ i \in 1 .. p - 1
      BY <1>2
    <3>2. p \in 1 .. Len(list) /\ p > 0
      BY <1>1, <1>2
    <3>3. End(list[p]) < r.addr
      BY <3>2, <1>7, <1>12, Zenon
    <3> QED BY <3>1, <3>3, <1>9
  <2>2. \A i \in p + 1 .. Len(list) : End(r) < list[i].addr
    <3> TAKE i \in p + 1 .. Len(list)
    <3>1. i = p + 1 \/ i \in p + 2 .. Len(list)
      BY <1>1, <1>2
    <3>2. p < Len(list) /\ p + 1 \in 1 .. Len(list)
      BY <1>1, <1>2
    <3>3. End(r) < list[p + 1].addr
      BY <3>2, <1>7, <1>12, Zenon
    <3> QED BY <3>1, <3>3, <1>10
  <2>3. p + 1 \in 1 .. Len(list) + 1
    BY <1>1, <1>2
  <2>4. Gives(InsertAt(list, p + 1, r))
    BY <2>1, <2>2, <2>3, InsertKeeps, Zenon
  <2>5. Link(list, r) = InsertAt(list, p + 1, r)
    BY <1>8, <1>12, Zenon
  <2> QED BY <2>4, <2>5, Zenon
<1>13. CASE ~JoinsPrev(list, r) /\ JoinsNext(list, r)
  <2> DEFINE m == Region(r.addr, r.size + list[p + 1].size)
             s == [list EXCEPT ![p + 1] = m]
  <2>1. p + 1 \in 1 .. Len(list) /\ End(r) = list[p + 1].addr
    BY <1>1, <1>2, <1>6, <1>13
  <2>2. m \in Regions /\ m.addr = r.addr /\ m.size = r.size + list[p + 1].size
    BY <2>1, <1>1, <1>3, RegionType
  <2> HIDE DEF m
  <2>3. m.size > 0 /\ End(m) = End(list[p + 1])
    BY <2>1, <2>2, <1>1, <1>3 DEF End
  <2>4. \A i \in 1 .. (p + 1) - 1 : End(list[i]) < m.addr
    <3> TAKE i \in 1 .. (p + 1) - 1
    <3>1. i = p \/ i \in 1 .. p - 1
      BY <1>2
    <3>2. p \in 1 .. Len(list) /\ p > 0
      BY <1>1, <1>2
    <3>3. End(list[p]) < r.addr
      BY <3>2, <1>7, <1>13, Zenon
    <3> QED BY <3>1, <3>3, <2>2, <1>9
  <2>5. \A i \in (p + 1) + 1 .. Len(list) : End(m) < list[i].addr
    BY <2>3, <1>1, <1>2, <1>10
  <2>6. /\ FreeList(s)
        /\ \A a \in Nat : IsFree(s, a) <=>
                Within(m, a) \/ (IsFree(list, a) /\ ~Within(list[p + 1], a))
    BY <2>1, <2>2, <2>3, <2>4, <2>5, ReplaceKeeps, Zenon
  <2>7. \A a \in Nat : Within(m, a) <=> Within(r, a) \/ Within(list[p + 1], a)
    BY <2>1, <2>2, <2>3, <1>1, <1>3 DEF Within, End
  <2>8. Link(list, r) = s
    BY <1>8, <1>13, Zenon DEF m
  <2> HIDE DEF s
  <2> QED BY <2>1, <2>6, <2>7, <2>8, <1>11, Zenon
<1>14. CASE JoinsPrev(list, r) /\ ~JoinsNext(list, r)
  <2> DEFINE m == Region(list[p].addr, list[p].size + r.size)
             s == [list EXCEPT ![p] = m]
  <2>1. p \in 1 .. Len(list) /\ End(list[p]) = r.addr
    BY <1>1, <1>2, <1>6, <1>14
  <2>2. m \in Regions /\ m.addr = list[p].addr /\ m.size = list[p].size + r.size
    BY <2>1, <1>1, <1>3, RegionType
  <2> HIDE DEF m
  <2>3. m.size > 0 /\ End(m) = End(r)
    BY <2>1, <2>2, <1>1, <1>3 DEF End
  <2>4. \A i \in 1 .. p - 1 : End(list[i]) < m.addr
    BY <2>2, <1>9
  <2>5. \A i \in p + 1 .. Len(list) : End(m) < list[i].addr
    <3> TAKE i \in p + 1 .. Len(list)
    <3>1. i = p + 1 \/ i \in p + 2 .. Len(list)
      BY <1>1, <1>2
    <3>2. p < Len(list) /\ p + 1 \in 1 .. Len(list)
      BY <1>1, <1>2
    <3>3. End(r) < list[p + 1].addr
      BY <3>2, <1>7, <1>14, Zenon
    <3> QED BY <3>1, <3>3, <2>3, <1>10
  <2>6. /\ FreeList(s)
        /\ \A a \in Nat : IsFree(s, a) <=>
                Within(m, a) \/ (IsFree(list, a) /\ ~Within(list[p], a))
    BY <2>1, <2>2, <2>3, <2>4, <2>5, ReplaceKeeps, Zenon
  <2>7. \A a \in Nat : Within(m, a) <=> Within(r, a) \/ Within(list[p], a)
    BY <2>1, <2>2, <2>3, <1>1, <1>3 DEF Within, End
  <2>8. Link(list, r) = s
    BY <1>8, <1>14, Zenon DEF m
  <2> HIDE DEF s
  <2> QED BY <2>1, <2>6, <2>7, <2>8, <1>11, Zenon
<1>15. CASE JoinsPrev(list, r) /\ JoinsNext(list, r)
  <2> DEFINE m == Region(list[p].addr, list[p].size + r.size + list[p + 1].size)
             s == RemoveAt(list, p + 1)
             t == [s EXCEPT ![p] = m]
  <2>1. /\ p \in 1 .. Len(list) /\ End(list[p]) = r.addr
        /\ p + 1 \in 1 .. Len(list) /\ End(r) = list[p + 1].addr
    BY <1>1, <1>2, <1>6, <1>15
  <2>2. m \in Regions /\ m.addr = list[p].addr /\ m.size = list[p].size + r.size + list[p + 1].size
    BY <2>1, <1>1, <1>3, RegionType, SMTT(30)
  <2>3. /\ FreeList(s)
        /\ \A a \in Nat : IsFree(s, a) <=> IsFree(list, a) /\ ~Within(list[p + 1], a)
    BY <2>1, RemoveKeeps, Zenon
  <2>4. /\ Len(s) = Len(list) - 1
        /\ \A i \in 1 .. Len(list) - 1 : s[i] = IF i < p + 1 THEN list[i] ELSE list[i + 1]
    BY <2>1, <1>1, RemoveAtElements, Zenon
  <2> HIDE DEF m, s
  <2>5. m.size > 0 /\ End(m) = End(list[p + 1])
    BY <2>1, <2>2, <1>1, <1>3 DEF End
  <2>6. p \in 1 .. Len(s) /\ s[p] = list[p]
    BY <2>1, <2>4, <1>1
  <2>7. \A i \in 1 .. p - 1 : End(s[i]) < m.addr
    BY <2>1, <2>2, <2>4, <1>1, <1>9
  <2>8. \A i \in p + 1 .. Len(s) : End(m) < s[i].addr
    <3> TAKE i \in p + 1 .. Len(s)
    <3>1. s[i] = list[i + 1] /\ i + 1 \in p + 2 .. Len(list)
      BY <2>1, <2>4, <1>1
    <3> QED BY <3>1, <2>5, <1>10
  <2>9. /\ FreeList(t)
        /\ \A a \in Nat : IsFree(t, a) <=> Within(m, a) \/ (IsFree(s, a) /\ ~Within(s[p], a))
    BY <2>2, <2>3, <2>5, <2>6, <2>7, <2>8, ReplaceKeeps, Zenon
  <2>10. \A a \in Nat : Within(m, a) <=>
             Within(r, a) \/ Within(list[p], a) \/ Within(list[p + 1], a)
    <3> TAKE a \in Nat
    <3>1. /\ list[p].addr \in Nat /\ list[p].size \in Nat
          /\ list[p + 1].addr \in Nat /\ list[p + 1].size \in Nat
      BY <2>1, <1>3
    <3>2. list[p].addr <= r.addr /\ r.addr <= list[p + 1].addr
          /\ list[p + 1].addr <= End(list[p + 1])
      BY <2>1, <3>1, <1>1, SMTT(30) DEF End
    <3>3. Within(m, a) <=> list[p].addr <= a /\ a < End(list[p + 1])
      BY <2>2, <2>5 DEF Within
    <3>4. /\ Within(r, a) <=> r.addr <= a /\ a < list[p + 1].addr
          /\ Within(list[p], a) <=> list[p].addr <= a /\ a < r.addr
          /\ Within(list[p + 1], a) <=> list[p + 1].addr <= a /\ a < End(list[p + 1])
      BY <2>1 DEF Within
    <3>5. End(list[p + 1]) \in Nat
      BY <3>1 DEF End
    <3> QED BY <3>1, <3>2, <3>3, <3>4, <3>5, <1>1
  <2>11. Link(list, r) = t
    BY <1>8, <1>15, Zenon DEF m, s
  <2> HIDE DEF t
  <2> QED BY <2>1, <2>3, <2>6, <2>9, <2>10, <2>11, <1>11, Zenon
<1> QED BY <1>12, <1>13, <1>14, <1>15

-----------------------------------------------------------------------------
(* The invariant.                                                          *)

\* The entries that have memory are entries of the list.
EntriesInRange == \A c \in MemCallers : Len(memEntry[c].addrs) <= Len(memEntry[c].lengths)

MemIInv == MemTypeOK /\ FreeListSorted /\ EntriesInRange

\* AllocMem() keeps the list in order, whether it finds a chunk or not.
LEMMA AllocMemKeeps ==
  ASSUME FreeList(mh_First), mh_Free \in Int, NEW size \in Nat
  PROVE  /\ AllocMemResult(size) \in Nat
         /\ AllocMem(size) => FreeList(mh_First') /\ mh_Free' \in Int
<1> DEFINE n == RoundUp(size, Block)
           k == FirstFit(mh_First, n)
<1>1. mh_First \in Seq(Regions) /\ n \in Nat
  BY RoundUpBlock DEF FreeList
<1>2. AllocMemResult(size) = (IF Found(n) THEN mh_First[k].addr ELSE NULL)
  BY DEF AllocMemResult
<1>3. AllocMem(size) =>
        IF Found(n) THEN mh_First' = Carve(mh_First, k, n) /\ mh_Free' = mh_Free - n
        ELSE UNCHANGED <<mh_First, mh_Free>>
  BY DEF AllocMem
<1> HIDE DEF n
<1>4. Found(n) => n > 0 /\ k \in 1 .. Len(mh_First) /\ mh_First[k].size >= n
  <2>1. k \in 1 .. Len(mh_First) + 1 /\ (k <= Len(mh_First) => mh_First[k].size >= n)
    BY <1>1, FirstFitFound, Zenon
  <2>2. Found(n) => n > 0 /\ k <= Len(mh_First)
    BY DEF Found
  <2>3. Len(mh_First) \in Nat
    BY <1>1
  <2> HIDE DEF k
  <2> QED BY <2>1, <2>2, <2>3
<1>5. Found(n) => mh_First[k].addr \in Nat
  BY <1>1, <1>4, ChunkType
<1> HIDE DEF k
<1>6. ASSUME Found(n) PROVE FreeList(Carve(mh_First, k, n))
  BY <1>1, <1>4, <1>6, CarveTakesBlock, Zenon
<1>7. NULL \in Nat
  BY DEF NULL
<1>8. mh_Free - n \in Int
  BY <1>1
<1> QED BY <1>2, <1>3, <1>5, <1>6, <1>7, <1>8, Zenon

\* FreeMem() keeps it in order, whatever it is given.
LEMMA FreeMemKeeps ==
  ASSUME FreeList(mh_First), mh_Free \in Int, NEW addr \in Nat, NEW size \in Nat,
         FreeMem(addr, size)
  PROVE  FreeList(mh_First') /\ mh_Free' \in Int
<1> DEFINE n == RoundUp(size, Block)
           r == Region(addr, n)
<1>1. CASE UNCHANGED <<mh_First, mh_Free>>
  BY <1>1
<1>2. CASE /\ size # 0
           /\ mh_First' = Deallocate(mh_First, r)
           /\ mh_Free' = IF OverlapsFree(mh_First, r) THEN mh_Free ELSE mh_Free + r.size
  <2>1. n \in Nat /\ n > 0
    BY <1>2, RoundUpBlock
  <2> HIDE DEF n
  <2>2. r \in Regions /\ r.size = n
    BY <2>1, RegionType
  <2> HIDE DEF r
  <2>3. FreeList(Deallocate(mh_First, r))
    BY <2>1, <2>2, DeallocateGivesRegion, Zenon
  <2> QED BY <1>2, <2>1, <2>2, <2>3
<1> QED BY <1>1, <1>2 DEF FreeMem

\* The parts of the invariant.
Entries == [ml : Nat, lengths : Seq(Nat), addrs : Seq(Nat), at : {"none", "alloc", "done", "free"}]
Puddles == [addr : Nat, pp_Size : Nat, pp_BytesUsed : Nat]
PoolStates == [header : Nat, at : {"none", "open", "delete"}, puddles : Seq(Puddles)]

ListPart == FreeList(mh_First) /\ mh_Free \in Int
BlocksPart == memBlocks \subseteq Regions /\ poolBlocks \subseteq Regions
EntryPart == memEntry \in [MemCallers -> Entries] /\ EntriesInRange
PoolPart == memPool \in PoolStates

\* The invariant in parts that each concern other variables.
LEMMA InvariantParts ==
  /\ MemIInv <=> ListPart /\ BlocksPart /\ EntryPart /\ PoolPart
  /\ MemIInv' <=> (ListPart /\ BlocksPart /\ EntryPart /\ PoolPart)'
<1>1. MemIInv <=> ListPart /\ BlocksPart /\ EntryPart /\ PoolPart
  BY DEF MemIInv, MemTypeOK, FreeListSorted, FreeList, ListPart, BlocksPart, EntryPart, PoolPart,
         Entries, Puddles, PoolStates
<1>2. MemIInv' <=> (ListPart /\ BlocksPart /\ EntryPart /\ PoolPart)'
  BY DEF MemIInv, MemTypeOK, FreeListSorted, FreeList, ListPart, BlocksPart, EntryPart, PoolPart,
         Entries, Puddles, PoolStates
<1> QED BY <1>1, <1>2

\* A call that changes the memory list of one caller.
LEMMA SetEntryKeeps ==
  ASSUME EntryPart, NEW c \in MemCallers, NEW e \in Entries, Len(e.addrs) <= Len(e.lengths),
         SetEntry(c, e)
  PROVE  EntryPart'
<1>1. memEntry' = [memEntry EXCEPT ![c] = e]
  BY DEF SetEntry
<1>2. memEntry' \in [MemCallers -> Entries]
  BY <1>1 DEF EntryPart
<1>3. ASSUME NEW d \in MemCallers PROVE Len(memEntry'[d].addrs) <= Len(memEntry'[d].lengths)
  BY <1>1 DEF EntryPart, EntriesInRange
<1> QED BY <1>2, <1>3 DEF EntryPart, EntriesInRange

\* What the type says of one memory list,
LEMMA EntryTypes ==
  ASSUME EntryPart, NEW c \in MemCallers
  PROVE  /\ memEntry[c] \in Entries
         /\ memEntry[c].ml \in Nat /\ memEntry[c].lengths \in Seq(Nat) /\ memEntry[c].addrs \in Seq(Nat)
         /\ Len(memEntry[c].addrs) <= Len(memEntry[c].lengths)
<1>1. memEntry[c] \in Entries
  BY DEF EntryPart
<1>2. \A e \in Entries : e.ml \in Nat /\ e.lengths \in Seq(Nat) /\ e.addrs \in Seq(Nat)
  BY DEF Entries
<1> QED BY <1>1, <1>2 DEF EntryPart, EntriesInRange

\* and of the pool.
LEMMA PoolTypes ==
  ASSUME PoolPart
  PROVE  /\ memPool.header \in Nat /\ memPool.at \in {"none", "open", "delete"}
         /\ memPool.puddles \in Seq(Puddles)
         /\ \A k \in 1 .. Len(memPool.puddles) :
               /\ memPool.puddles[k] \in Puddles
               /\ memPool.puddles[k].addr \in Nat /\ memPool.puddles[k].pp_Size \in Nat
               /\ memPool.puddles[k].pp_BytesUsed \in Nat
<1>1. memPool.header \in Nat /\ memPool.at \in {"none", "open", "delete"}
      /\ memPool.puddles \in Seq(Puddles)
  BY DEF PoolPart, PoolStates
<1>2. \A u \in Puddles : u.addr \in Nat /\ u.pp_Size \in Nat /\ u.pp_BytesUsed \in Nat
  BY DEF Puddles
<1>3. \A k \in 1 .. Len(memPool.puddles) : memPool.puddles[k] \in Puddles
  BY <1>1
<1> QED BY <1>1, <1>2, <1>3

-----------------------------------------------------------------------------
(* Each operation keeps the invariant.                                     *)

\* Calls for single blocks.
LEMMA BlocksKeep ==
  ASSUME MemIInv,
         \/ \E size \in MemSizes : MemAlloc(size)
         \/ \E r \in AbsRegions : MemAllocAbs(r.addr, r.size)
         \/ \E b \in memBlocks : MemFree(b)
         \/ \E a \in MemLower .. MemUpper - 1, size \in MemSizes : Aligned(a) /\ MemFreeWrongly(a, size)
  PROVE  MemIInv'
<1>1. ListPart /\ BlocksPart /\ EntryPart /\ PoolPart
  BY InvariantParts
<1>2. \A size \in MemSizes : size \in Nat
  BY MemSizesAssumption
<1>3. ASSUME NEW size \in MemSizes, MemAlloc(size) PROVE MemIInv'
  <2>1. ListPart' /\ AllocMemResult(size) \in Nat
    BY <1>1, <1>2, <1>3, AllocMemKeeps DEF MemAlloc, ListPart
  <2>2. BlocksPart'
    BY <1>1, <1>2, <1>3, <2>1, RegionType DEF MemAlloc, BlocksPart
  <2>3. EntryPart' /\ PoolPart'
    BY <1>1, <1>3 DEF MemAlloc, EntryPart, EntriesInRange, PoolPart
  <2> QED BY <2>1, <2>2, <2>3, InvariantParts
<1>4. ASSUME NEW r \in AbsRegions, MemAllocAbs(r.addr, r.size) PROVE MemIInv'
  <2>1. PICK a \in 0 .. MemUpper \div AbsUnit, n \in 1 .. Block \div AbsUnit :
            r = Region(a * AbsUnit, n * AbsUnit)
    BY <1>4 DEF AbsRegions
  <2>2. a \in Nat /\ n \in Nat \ {0} /\ AbsUnit \in Nat \ {0}
    BY <2>1, MemSizesAssumption
  <2>3. a * AbsUnit \in Nat /\ n * AbsUnit \in Nat /\ n * AbsUnit > 0
    BY <2>2
  <2>4. r \in Regions /\ r.addr \in Nat /\ r.size \in Nat /\ r.size > 0
    BY <2>1, <2>3, RegionType
  <2>5. Region(r.addr, r.size) = r
    BY <2>4 DEF Region, Regions
  <2>6. PICK k \in 1 .. Len(mh_First) :
            /\ mh_First[k].addr <= r.addr /\ End(mh_First[k]) >= End(r)
            /\ mh_First' = CutOut(mh_First, k, r)
            /\ mh_Free' = mh_Free - r.size
            /\ memBlocks' = memBlocks \cup {r}
            /\ UNCHANGED <<memEntry, memPool, poolBlocks>>
    BY <1>4, <2>5 DEF MemAllocAbs
  <2>7. mh_First[k].addr \in Nat /\ mh_First[k].size \in Nat
    BY <1>1, ChunkType DEF ListPart, FreeList
  <2>8. End(r) <= End(mh_First[k])
    BY <2>4, <2>6, <2>7 DEF End
  <2>9. FreeList(CutOut(mh_First, k, r))
    BY <1>1, <2>4, <2>6, <2>8, CutOutTakesRegion, Zenon DEF ListPart
  <2>10. ListPart'
    BY <1>1, <2>4, <2>6, <2>9 DEF ListPart
  <2>11. BlocksPart' /\ EntryPart' /\ PoolPart'
    BY <1>1, <2>4, <2>6 DEF BlocksPart, EntryPart, EntriesInRange, PoolPart
  <2> QED BY <2>10, <2>11, InvariantParts
<1>5. ASSUME NEW b \in memBlocks, MemFree(b) PROVE MemIInv'
  <2>1. b.addr \in Nat /\ b.size \in Nat
    BY <1>1 DEF BlocksPart, Regions
  <2>2. ListPart'
    BY <1>1, <1>5, <2>1, FreeMemKeeps DEF MemFree, ListPart
  <2>3. BlocksPart' /\ EntryPart' /\ PoolPart'
    BY <1>1, <1>5 DEF MemFree, BlocksPart, EntryPart, EntriesInRange, PoolPart
  <2> QED BY <2>2, <2>3, InvariantParts
<1>6. ASSUME NEW a \in MemLower .. MemUpper - 1, NEW size \in MemSizes, MemFreeWrongly(a, size)
      PROVE  MemIInv'
  <2>1. a \in Nat /\ size \in Nat
    BY <1>2, MemBoundsAssumption
  <2>2. ListPart'
    BY <1>1, <1>6, <2>1, FreeMemKeeps DEF MemFreeWrongly, ListPart
  <2>3. BlocksPart' /\ EntryPart' /\ PoolPart'
    BY <1>1, <1>6 DEF MemFreeWrongly, BlocksPart, EntryPart, EntriesInRange, PoolPart
  <2> QED BY <2>2, <2>3, InvariantParts
<1> QED BY <1>3, <1>4, <1>5, <1>6

\* AllocEntry() and FreeEntry().
LEMMA EntriesKeep ==
  ASSUME MemIInv, NEW c \in MemCallers,
         \/ \E lengths \in MemLengths : AllocEntry(c, lengths)
         \/ AllocEntryNext(c) \/ AllocEntryReturn(c)
         \/ FreeEntry(c) \/ FreeEntryNext(c) \/ FreeEntryReturn(c)
  PROVE  MemIInv'
<1> DEFINE e == memEntry[c]
<1>1. ListPart /\ BlocksPart /\ EntryPart /\ PoolPart
  BY InvariantParts
<1>2. /\ e \in Entries /\ e.ml \in Nat /\ e.lengths \in Seq(Nat) /\ e.addrs \in Seq(Nat)
      /\ Len(e.addrs) <= Len(e.lengths)
  BY <1>1, EntryTypes
<1>3. NoEntry \in Entries /\ Len(NoEntry.addrs) <= Len(NoEntry.lengths)
  BY DEF NoEntry, Entries, NULL
<1>4. MemListSize \in Nat
  BY MemStructsAssumption
<1>5. ASSUME NEW lengths \in MemLengths, AllocEntry(c, lengths) PROVE MemIInv'
  <2> DEFINE a == AllocMemResult(MemListSize)
             f == [ml |-> a, lengths |-> lengths, addrs |-> <<>>, at |-> "alloc"]
  <2>1. ListPart' /\ a \in Nat
    BY <1>1, <1>4, <1>5, AllocMemKeeps DEF AllocEntry, ListPart
  <2> HIDE DEF a
  <2>2. f \in Entries /\ Len(f.addrs) <= Len(f.lengths)
    BY <2>1, MemSizesAssumption DEF Entries
  <2>3. SetEntry(c, f)
    BY <1>5 DEF AllocEntry, a
  <2>4. EntryPart'
    BY <1>1, <2>2, <2>3, SetEntryKeeps
  <2>5. BlocksPart' /\ PoolPart'
    BY <1>1, <1>5 DEF AllocEntry, BlocksPart, PoolPart
  <2> QED BY <2>1, <2>4, <2>5, InvariantParts
<1>6. ASSUME AllocEntryNext(c) PROVE MemIInv'
  <2> DEFINE n == NextLength(e)
             a == AllocMemResult(n)
             f == [e EXCEPT !.at = "free"]
             g == [e EXCEPT !.addrs = Append(@, a)]
  <2>1. Len(e.addrs) + 1 <= Len(e.lengths) /\ Len(e.addrs) + 1 \in 1 .. Len(e.lengths)
    BY <1>2, <1>6 DEF AllocEntryNext, Complete
  <2>2. n \in Nat
    BY <1>2, <2>1, SMTT(30) DEF NextLength
  <2> HIDE DEF n
  <2>3. ListPart' /\ a \in Nat
    BY <1>1, <1>6, <2>2, AllocMemKeeps DEF AllocEntryNext, ListPart, n
  <2> HIDE DEF a
  <2>4. f \in Entries /\ Len(f.addrs) <= Len(f.lengths)
    BY <1>2 DEF Entries
  <2>5. g \in Entries /\ Len(g.addrs) <= Len(g.lengths)
    <3>1. Append(e.addrs, a) \in Seq(Nat) /\ Len(Append(e.addrs, a)) = Len(e.addrs) + 1
      BY <1>2, <2>3
    <3>2. g \in Entries /\ g.addrs = Append(e.addrs, a) /\ g.lengths = e.lengths
      BY <1>2, <3>1 DEF Entries
    <3> QED BY <3>1, <3>2, <2>1
  <2>6. SetEntry(c, f) \/ SetEntry(c, g)
    BY <1>6, Zenon DEF AllocEntryNext, a, n
  <2> HIDE DEF f, g
  <2>7. EntryPart'
    BY <1>1, <2>4, <2>5, <2>6, SetEntryKeeps
  <2>8. BlocksPart' /\ PoolPart'
    BY <1>1, <1>6 DEF AllocEntryNext, BlocksPart, PoolPart
  <2> QED BY <2>3, <2>7, <2>8, InvariantParts
<1>7. ASSUME AllocEntryReturn(c) \/ FreeEntry(c) PROVE MemIInv'
  <2> DEFINE f(at) == [e EXCEPT !.at = at]
  <2>1. \A at \in {"done", "free"} : f(at) \in Entries /\ Len(f(at).addrs) <= Len(f(at).lengths)
    BY <1>2 DEF Entries
  <2>2. SetEntry(c, f("done")) \/ SetEntry(c, f("free"))
    BY <1>7, Zenon DEF AllocEntryReturn, FreeEntry
  <2> HIDE DEF f
  <2>3. EntryPart'
    BY <1>1, <2>1, <2>2, SetEntryKeeps
  <2>4. ListPart' /\ BlocksPart' /\ PoolPart'
    BY <1>1, <1>7 DEF AllocEntryReturn, FreeEntry, ListPart, BlocksPart, PoolPart
  <2> QED BY <2>3, <2>4, InvariantParts
<1>8. ASSUME FreeEntryNext(c) PROVE MemIInv'
  <2> DEFINE f == [e EXCEPT !.addrs = Tail(@), !.lengths = Tail(@)]
  <2>1. e.addrs # <<>> /\ e.lengths # <<>>
    BY <1>2, <1>8 DEF FreeEntryNext
  <2>2. /\ Head(e.addrs) \in Nat /\ Head(e.lengths) \in Nat
        /\ Tail(e.addrs) \in Seq(Nat) /\ Tail(e.lengths) \in Seq(Nat)
        /\ Len(Tail(e.addrs)) <= Len(Tail(e.lengths))
    <3>1. \A q \in Seq(Nat) : q # <<>> =>
              Head(q) \in Nat /\ Tail(q) \in Seq(Nat) /\ Len(Tail(q)) = Len(q) - 1 /\ Len(q) \in Nat
      OBVIOUS
    <3>2. /\ Head(e.addrs) \in Nat /\ Tail(e.addrs) \in Seq(Nat)
          /\ Len(Tail(e.addrs)) = Len(e.addrs) - 1 /\ Len(e.addrs) \in Nat
      BY <1>2, <2>1, <3>1, Zenon
    <3>3. /\ Head(e.lengths) \in Nat /\ Tail(e.lengths) \in Seq(Nat)
          /\ Len(Tail(e.lengths)) = Len(e.lengths) - 1 /\ Len(e.lengths) \in Nat
      BY <1>2, <2>1, <3>1, Zenon
    <3> HIDE DEF e
    <3> QED BY <1>2, <3>2, <3>3
  <2>3. ListPart'
    BY <1>1, <1>8, <2>2, FreeMemKeeps DEF FreeEntryNext, ListPart
  <2>4. f \in Entries /\ f.addrs = Tail(e.addrs) /\ f.lengths = Tail(e.lengths)
    BY <1>2, <2>2 DEF Entries
  <2>5. SetEntry(c, f)
    BY <1>8, Zenon DEF FreeEntryNext
  <2> HIDE DEF f
  <2>6. EntryPart'
    BY <1>1, <2>2, <2>4, <2>5, SetEntryKeeps
  <2>7. BlocksPart' /\ PoolPart'
    BY <1>1, <1>8 DEF FreeEntryNext, BlocksPart, PoolPart
  <2> QED BY <2>3, <2>6, <2>7, InvariantParts
<1>9. ASSUME FreeEntryReturn(c) PROVE MemIInv'
  <2>1. ListPart'
    BY <1>1, <1>2, <1>4, <1>9, FreeMemKeeps DEF FreeEntryReturn, ListPart
  <2>2. EntryPart'
    BY <1>1, <1>3, <1>9, SetEntryKeeps DEF FreeEntryReturn
  <2>3. BlocksPart' /\ PoolPart'
    BY <1>1, <1>9 DEF FreeEntryReturn, BlocksPart, PoolPart
  <2> QED BY <2>1, <2>2, <2>3, InvariantParts
<1> QED BY <1>5, <1>6, <1>7, <1>8, <1>9

\* The pool calls.
LEMMA PoolsKeep ==
  ASSUME MemIInv,
         \/ \E size \in MemSizes : AllocPooledHere(size) \/ AllocPooledNew(size)
         \/ CreatePool \/ DeletePool \/ DeletePuddle \/ DeletePoolReturn
  PROVE  MemIInv'
<1>1. ListPart /\ BlocksPart /\ EntryPart /\ PoolPart
  BY InvariantParts
<1>2. /\ memPool.header \in Nat /\ memPool.at \in {"none", "open", "delete"}
      /\ memPool.puddles \in Seq(Puddles) /\ memPool \in PoolStates
      /\ \A k \in 1 .. Len(memPool.puddles) :
            /\ memPool.puddles[k] \in Puddles
            /\ memPool.puddles[k].addr \in Nat /\ memPool.puddles[k].pp_Size \in Nat
            /\ memPool.puddles[k].pp_BytesUsed \in Nat
  BY <1>1, PoolTypes DEF PoolPart
<1>3. PoolPuddleSize \in Nat /\ PoolHeaderSize \in Nat /\ PuddleSize \in Nat
  BY MemStructsAssumption
<1>4. ASSUME NEW size \in MemSizes, AllocPooledHere(size) PROVE MemIInv'
  <2> DEFINE n == RoundUp(size, Block)
  <2>1. n \in Nat
    BY MemSizesAssumption, RoundUpBlock
  <2>2. PICK k \in 1 .. Len(memPool.puddles) :
            /\ HandOut(Data(memPool.puddles[k]) + memPool.puddles[k].pp_BytesUsed, n)
            /\ memPool' = [memPool EXCEPT !.puddles[k].pp_BytesUsed = @ + n]
            /\ UNCHANGED <<mh_First, mh_Free, memBlocks, memEntry>>
    BY <1>4 DEF AllocPooledHere
  <2> HIDE DEF n
  <2> DEFINE puddle == [memPool.puddles[k] EXCEPT !.pp_BytesUsed = @ + n]
             puddles == [memPool.puddles EXCEPT ![k] = puddle]
  <2>3. puddle \in Puddles
    <3>1. \A u \in Puddles, m \in Nat : [u EXCEPT !.pp_BytesUsed = @ + m] \in Puddles
      BY DEF Puddles
    <3> QED BY <1>2, <2>1, <3>1, Zenon
  <2>4. memPool' = [memPool EXCEPT !.puddles = puddles]
    BY <2>2
  <2> HIDE DEF puddle
  <2>5. puddles \in Seq(Puddles)
    BY <1>2, <2>3
  <2> HIDE DEF puddles
  <2>6. PoolPart'
    BY <1>2, <2>4, <2>5 DEF PoolPart, PoolStates
  <2>7. Data(memPool.puddles[k]) + memPool.puddles[k].pp_BytesUsed \in Nat
    BY <1>2, <1>3 DEF Data
  <2>8. BlocksPart'
    BY <1>1, <2>1, <2>2, <2>7, RegionType DEF HandOut, BlocksPart
  <2>9. ListPart' /\ EntryPart'
    BY <1>1, <2>2 DEF ListPart, EntryPart, EntriesInRange
  <2> QED BY <2>6, <2>8, <2>9, InvariantParts
<1>5. ASSUME NEW size \in MemSizes, AllocPooledNew(size) PROVE MemIInv'
  <2> DEFINE n == RoundUp(size, Block)
             data == IF n >= ThreshSize \/ n > PuddleSize THEN n ELSE PuddleSize
             a == AllocMemResult(PoolPuddleSize + data)
             puddle == [addr |-> a, pp_Size |-> data, pp_BytesUsed |-> n]
  <2>1. n \in Nat
    BY MemSizesAssumption, RoundUpBlock
  <2>2. data \in Nat /\ PoolPuddleSize + data \in Nat
    BY <1>3, <2>1
  <2>3. /\ memPool' = [memPool EXCEPT !.puddles = <<puddle>> \o @]
        /\ HandOut(a + PoolPuddleSize, n)
        /\ AllocMem(PoolPuddleSize + data)
        /\ UNCHANGED <<memBlocks, memEntry>>
    BY <1>5 DEF AllocPooledNew
  <2> HIDE DEF n, data
  <2>4. ListPart' /\ a \in Nat
    BY <1>1, <2>2, <2>3, AllocMemKeeps DEF ListPart
  <2> HIDE DEF a
  <2>5. puddle \in Puddles
    BY <2>1, <2>2, <2>4 DEF Puddles
  <2> HIDE DEF puddle
  <2>6. <<puddle>> \o memPool.puddles \in Seq(Puddles)
    BY <1>2, <2>5
  <2>7. PoolPart'
    BY <1>2, <2>3, <2>6 DEF PoolPart, PoolStates
  <2>8. BlocksPart'
    <3>1. Region(a + PoolPuddleSize, n) \in Regions
      BY <1>3, <2>1, <2>4, RegionType
    <3> QED BY <1>1, <2>3, <3>1 DEF HandOut, BlocksPart
  <2>9. EntryPart'
    BY <1>1, <2>3 DEF EntryPart, EntriesInRange
  <2> QED BY <2>4, <2>7, <2>8, <2>9, InvariantParts
<1>6. ASSUME CreatePool PROVE MemIInv'
  <2>1. ListPart' /\ AllocMemResult(PoolHeaderSize) \in Nat
    BY <1>1, <1>3, <1>6, AllocMemKeeps DEF CreatePool, ListPart
  <2>2. PoolPart'
    BY <1>6, <2>1 DEF CreatePool, PoolPart, PoolStates
  <2>3. BlocksPart' /\ EntryPart'
    BY <1>1, <1>6 DEF CreatePool, BlocksPart, EntryPart, EntriesInRange
  <2> QED BY <2>1, <2>2, <2>3, InvariantParts
<1>7. ASSUME DeletePool PROVE MemIInv'
  <2>1. PoolPart'
    BY <1>2, <1>7 DEF DeletePool, PoolPart, PoolStates
  <2>2. ListPart' /\ BlocksPart' /\ EntryPart'
    BY <1>1, <1>7 DEF DeletePool, ListPart, BlocksPart, EntryPart, EntriesInRange
  <2> QED BY <2>1, <2>2, InvariantParts
<1>8. ASSUME DeletePuddle PROVE MemIInv'
  <2> DEFINE puddle == Head(memPool.puddles)
  <2>1. memPool.puddles # <<>> /\ Tail(memPool.puddles) \in Seq(Puddles) /\ puddle \in Puddles
    BY <1>2, <1>8 DEF DeletePuddle
  <2>2. puddle.addr \in Nat /\ puddle.pp_Size + PoolPuddleSize \in Nat
    BY <1>3, <2>1, SMTT(30) DEF Puddles
  <2>3. FreeMem(puddle.addr, puddle.pp_Size + PoolPuddleSize)
    BY <1>8 DEF DeletePuddle
  <2>4. ListPart'
    BY <1>1, <2>2, <2>3, FreeMemKeeps DEF ListPart
  <2>5. memPool' = [memPool EXCEPT !.puddles = Tail(@)]
    BY <1>8 DEF DeletePuddle
  <2>6. PoolPart'
    BY <1>2, <2>1, <2>5 DEF PoolPart, PoolStates
  <2>7. BlocksPart' /\ EntryPart'
    BY <1>1, <1>8 DEF DeletePuddle, BlocksPart, EntryPart, EntriesInRange
  <2> QED BY <2>4, <2>6, <2>7, InvariantParts
<1>9. ASSUME DeletePoolReturn PROVE MemIInv'
  <2>1. ListPart'
    BY <1>1, <1>2, <1>3, <1>9, FreeMemKeeps DEF DeletePoolReturn, ListPart
  <2>2. PoolPart'
    BY <1>9 DEF DeletePoolReturn, PoolPart, PoolStates, NoPool, NULL
  <2>3. BlocksPart' /\ EntryPart'
    BY <1>1, <1>9 DEF DeletePoolReturn, BlocksPart, EntryPart, EntriesInRange
  <2> QED BY <2>1, <2>2, <2>3, InvariantParts
<1> QED BY <1>4, <1>5, <1>6, <1>7, <1>8, <1>9

\* All memory is one chunk at first.
LEMMA InvariantHoldsAtFirst ==
  ASSUME MemInit PROVE MemIInv
<1> DEFINE all == Region(MemLower, MemUpper - MemLower)
<1>1. all \in Regions /\ all.size > 0
  BY MemBoundsAssumption, RegionType
<1>2. mh_First = <<all>> /\ mh_Free \in Int
  BY MemBoundsAssumption DEF MemInit
<1> HIDE DEF all
<1>3. ListPart
  BY <1>1, <1>2 DEF ListPart, FreeList
<1>4. BlocksPart
  BY DEF MemInit, BlocksPart
<1>5. EntryPart
  BY DEF MemInit, EntryPart, EntriesInRange, NoEntry, Entries, NULL
<1>6. PoolPart
  BY DEF MemInit, PoolPart, PoolStates, NoPool, NULL
<1> QED BY <1>3, <1>4, <1>5, <1>6, InvariantParts

\* Every variable has its type, the free list is sorted and merged, and memory
\* lists never hold more memory than entries, in every reachable state.
THEOREM MemInvariant == MemSpec => []MemIInv
<1>1. MemInit => MemIInv
  BY InvariantHoldsAtFirst
<1>2. MemIInv /\ [MemNext]_memVars => MemIInv'
  <2> SUFFICES ASSUME MemIInv, [MemNext]_memVars PROVE MemIInv'
    OBVIOUS
  <2>1. CASE UNCHANGED memVars
    BY <2>1 DEF memVars, MemIInv, MemTypeOK, FreeListSorted, EntriesInRange
  <2>2. CASE MemNext
    <3>1. CASE \/ \E size \in MemSizes : MemAlloc(size)
               \/ \E r \in AbsRegions : MemAllocAbs(r.addr, r.size)
               \/ \E b \in memBlocks : MemFree(b)
               \/ \E a \in MemLower .. MemUpper - 1, size \in MemSizes :
                     Aligned(a) /\ MemFreeWrongly(a, size)
      BY <3>1, BlocksKeep, Zenon
    <3>2. CASE \E c \in MemCallers :
                  \/ \E lengths \in MemLengths : AllocEntry(c, lengths)
                  \/ AllocEntryNext(c) \/ AllocEntryReturn(c)
                  \/ FreeEntry(c) \/ FreeEntryNext(c) \/ FreeEntryReturn(c)
      BY <3>2, EntriesKeep, Zenon
    <3>3. CASE \/ \E size \in MemSizes : AllocPooledHere(size) \/ AllocPooledNew(size)
               \/ CreatePool \/ DeletePool \/ DeletePuddle \/ DeletePoolReturn
      BY <3>3, PoolsKeep, Zenon
    <3> QED BY <2>2, <3>1, <3>2, <3>3, Zenon DEF MemNext
  <2> QED BY <2>1, <2>2
<1> QED BY <1>1, <1>2, PTL DEF MemSpec

\* Whatever is allocated and freed, wrong frees included, the free chunks stay
\* in order, apart and merged.
THEOREM FreeListStaysSorted == MemSpec => []FreeListSorted
<1>1. MemIInv => FreeListSorted
  BY DEF MemIInv
<1> QED BY <1>1, MemInvariant, PTL

-----------------------------------------------------------------------------
(* Who has which memory.                                                   *)

\* What a program, a memory list or the pool holds: of which kind, who, which of
\* its parts, and the memory.  Entries and puddles are numbered from the end,
\* where the numbers stay when they leave the front or come to it.
Holding(kind, who, nr, addr, size) == <<kind, who, nr, Region(addr, RoundUp(size, Block))>>
Mem(h) == h[4]

BlockHolding(b) == Holding("block", b, 0, b.addr, b.size)
ListHolding(c, e) == Holding("list", c, 0, e.ml, MemListSize)
EntryHolding(c, e, i) == Holding("entry", c, Len(e.lengths) - i, e.addrs[i], e.lengths[i])
HeaderHolding(p) == Holding("header", 0, 0, p.header, PoolHeaderSize)
PuddleHolding(p, i) ==
    Holding("puddle", 0, Len(p.puddles) - i, p.puddles[i].addr, p.puddles[i].pp_Size + PoolPuddleSize)

EntryHoldings(c, e) ==
    IF e = NoEntry THEN {}
    ELSE {ListHolding(c, e)}
         \cup { EntryHolding(c, e, i) : i \in { j \in 1 .. Len(e.addrs) : e.lengths[j] > 0 } }
PoolHoldings(p) ==
    IF p = NoPool THEN {}
    ELSE {HeaderHolding(p)} \cup { PuddleHolding(p, i) : i \in 1 .. Len(p.puddles) }
BlockHoldings(blocks) == { BlockHolding(b) : b \in blocks }
ListHoldings(entries) == UNION { EntryHoldings(c, entries[c]) : c \in MemCallers }
Held(blocks, entries, pool) == BlockHoldings(blocks) \cup ListHoldings(entries) \cup PoolHoldings(pool)
Holdings == Held(memBlocks, memEntry, memPool)

\* A holder more, and one less.
With(S, h) == S \cup {h}
Without(S, h) == S \ {h}

FreeAddresses(list) == { a \in MemLower .. MemUpper - 1 : IsFree(list, a) }

\* Every address of the memory is free or has one holder, and no other address
\* is; free is the number of those that are free.
SharedOut(list, free, H) ==
    /\ \A h \in H : Mem(h) \in Regions /\ Mem(h).size > 0
    /\ \A g, h \in H, a \in Nat : Within(Mem(g), a) /\ Within(Mem(h), a) => g = h
    /\ \A h \in H, a \in Nat : Within(Mem(h), a) => ~IsFree(list, a)
    /\ \A a \in Nat :
          a \in MemLower .. MemUpper - 1 <=> IsFree(list, a) \/ \E h \in H : Within(Mem(h), a)
    /\ Cardinality(FreeAddresses(list)) = free

\* The addresses of a region are as many as its size.
LEMMA RegionCount ==
    ASSUME NEW r \in Regions
    PROVE  /\ IsFiniteSet({ a \in Nat : Within(r, a) })
           /\ Cardinality({ a \in Nat : Within(r, a) }) = r.size
<1>1. r.addr \in Nat /\ r.size \in Nat
  BY DEF Regions
<1>2. { a \in Nat : Within(r, a) } = r.addr .. r.addr + r.size - 1
  BY <1>1 DEF Within, End
<1>3. PICK lo \in Int, hi \in Int : lo = r.addr /\ hi = r.addr + r.size - 1
  BY <1>1
<1>4. IsFiniteSet(lo .. hi) /\ Cardinality(lo .. hi) = IF lo > hi THEN 0 ELSE hi - lo + 1
  BY FS_Interval, Zenon
<1>5. (IF lo > hi THEN 0 ELSE hi - lo + 1) = r.size
  BY <1>1, <1>3
<1> QED BY <1>2, <1>3, <1>4, <1>5

\* There are finitely many free addresses.
LEMMA FreeFinite == \A list : IsFiniteSet(FreeAddresses(list)) /\ FreeAddresses(list) \subseteq Nat
<1> TAKE list
<1>1. MemLower \in Nat /\ MemUpper \in Nat /\ MemUpper - 1 \in Int /\ MemLower \in Int
  BY MemBoundsAssumption
<1>2. IsFiniteSet(MemLower .. MemUpper - 1)
  BY <1>1, FS_Interval
<1>3. FreeAddresses(list) \in SUBSET (MemLower .. MemUpper - 1)
  BY DEF FreeAddresses
<1>4. MemLower .. MemUpper - 1 \subseteq Nat
  BY <1>1
<1> QED BY <1>2, <1>3, <1>4, FS_Subset

\* Free memory is taken out of the list for h.
LEMMA TakenByOne ==
    ASSUME NEW list, NEW free \in Int, NEW H, SharedOut(list, free, H),
           NEW q, NEW h, Mem(h) \in Regions, Mem(h).size > 0,
           \A a \in Nat : Within(Mem(h), a) => IsFree(list, a),
           \A a \in Nat : IsFree(q, a) <=> IsFree(list, a) /\ ~Within(Mem(h), a)
    PROVE  SharedOut(q, free - Mem(h).size, With(H, h))
<1> DEFINE G == H \cup {h}
           T == { a \in Nat : Within(Mem(h), a) }
<1>1. \A g \in G : Mem(g) \in Regions /\ Mem(g).size > 0
  BY DEF SharedOut
<1>2. \A g \in H, a \in Nat : Within(Mem(g), a) => ~Within(Mem(h), a)
  BY DEF SharedOut
<1>3. \A g, k \in G, a \in Nat : Within(Mem(g), a) /\ Within(Mem(k), a) => g = k
  BY <1>2 DEF SharedOut
<1>4. \A g \in G, a \in Nat : Within(Mem(g), a) => ~IsFree(q, a)
  BY DEF SharedOut
<1>5. \A a \in Nat :
        a \in MemLower .. MemUpper - 1 <=> IsFree(q, a) \/ \E g \in G : Within(Mem(g), a)
  BY DEF SharedOut
<1>6. Cardinality(FreeAddresses(q)) = free - Mem(h).size
  <2>1. FreeAddresses(q) = FreeAddresses(list) \ T
    BY FreeFinite DEF FreeAddresses
  <2>2. FreeAddresses(list) \cap T = T
    BY DEF FreeAddresses, SharedOut
  <2>3. Cardinality(T) = Mem(h).size
    BY RegionCount
  <2> HIDE DEF T
  <2>4. Cardinality(FreeAddresses(list)) = free
    BY DEF SharedOut
  <2>5. IsFiniteSet(FreeAddresses(list))
    BY FreeFinite, Zenon
  <2>6. Cardinality(FreeAddresses(list) \ T)
            = Cardinality(FreeAddresses(list)) - Cardinality(FreeAddresses(list) \cap T)
    BY <2>5, FS_Difference, Zenon
  <2> QED BY <2>1, <2>2, <2>3, <2>4, <2>6, Zenon
<1> HIDE DEF G
<1>7. SharedOut(q, free - Mem(h).size, G)
  BY <1>1, <1>3, <1>4, <1>5, <1>6 DEF SharedOut
<1> QED BY <1>7 DEF G, With

\* h gives its memory back to the list.
LEMMA GivenBackByOne ==
    ASSUME NEW list, NEW free \in Int, NEW H, SharedOut(list, free, H),
           NEW q, NEW h \in H,
           \A a \in Nat : IsFree(q, a) <=> IsFree(list, a) \/ Within(Mem(h), a)
    PROVE  SharedOut(q, free + Mem(h).size, Without(H, h))
<1> DEFINE G == H \ {h}
           T == { a \in Nat : Within(Mem(h), a) }
<1>1. \A g \in G : Mem(g) \in Regions /\ Mem(g).size > 0 /\ g \in H
  BY DEF SharedOut
<1>2. \A g, k \in G, a \in Nat : Within(Mem(g), a) /\ Within(Mem(k), a) => g = k
  BY DEF SharedOut
<1>3. \A g \in G, a \in Nat : Within(Mem(g), a) => ~IsFree(q, a)
  BY DEF SharedOut
<1>4. \A a \in Nat :
        a \in MemLower .. MemUpper - 1 <=> IsFree(q, a) \/ \E g \in G : Within(Mem(g), a)
  BY DEF SharedOut
<1>5. Cardinality(FreeAddresses(q)) = free + Mem(h).size
  <2>1. FreeAddresses(q) = FreeAddresses(list) \cup T
    BY FreeFinite DEF FreeAddresses, SharedOut
  <2>2. FreeAddresses(list) \cap T = {}
    BY DEF FreeAddresses, SharedOut
  <2>3. Mem(h) \in Regions /\ Mem(h).size \in Nat
    BY DEF SharedOut, Regions
  <2>4. Cardinality(T) = Mem(h).size /\ IsFiniteSet(T)
    BY <2>3, RegionCount
  <2> HIDE DEF T
  <2>5. Cardinality(FreeAddresses(list)) = free
    BY DEF SharedOut
  <2>6. Cardinality({}) = 0
    BY FS_EmptySet
  <2>7. Cardinality(FreeAddresses(list) \cup T)
            = Cardinality(FreeAddresses(list)) + Cardinality(T) - Cardinality(FreeAddresses(list) \cap T)
    BY <2>4, FreeFinite, FS_Union
  <2>8. Cardinality(FreeAddresses(q)) = free + Mem(h).size - 0
    BY <2>1, <2>2, <2>4, <2>5, <2>6, <2>7, Zenon
  <2> QED BY <2>3, <2>8
<1> HIDE DEF G
<1>6. SharedOut(q, free + Mem(h).size, G)
  BY <1>1, <1>2, <1>3, <1>4, <1>5 DEF SharedOut
<1> QED BY <1>6 DEF G, Without

\* AllocMem() takes the memory it returns, for h, or nothing.
LEMMA AllocMemShares ==
    ASSUME FreeList(mh_First), mh_Free \in Int, NEW H, SharedOut(mh_First, mh_Free, H),
           NEW size \in Nat, AllocMem(size),
           NEW h, Mem(h) = Region(AllocMemResult(size), RoundUp(size, Block))
    PROVE  IF AllocMemResult(size) # NULL
           THEN size > 0 /\ SharedOut(mh_First', mh_Free', With(H, h))
           ELSE UNCHANGED <<mh_First, mh_Free>>
<1> DEFINE n == RoundUp(size, Block)
           k == FirstFit(mh_First, n)
<1>1. mh_First \in Seq(Regions) /\ n \in Nat /\ n >= size /\ (n > 0 => size > 0)
  BY RoundUpBlock DEF FreeList, RoundUp, Block
<1>2. AllocMemResult(size) = (IF Found(n) THEN mh_First[k].addr ELSE NULL)
  BY DEF AllocMemResult
<1>3. IF Found(n) THEN mh_First' = Carve(mh_First, k, n) /\ mh_Free' = mh_Free - n
      ELSE UNCHANGED <<mh_First, mh_Free>>
  BY DEF AllocMem
<1>4. Mem(h) = Region(AllocMemResult(size), n)
  OBVIOUS
<1> HIDE DEF n
<1>5. Found(n) => n > 0 /\ k \in 1 .. Len(mh_First) /\ mh_First[k].size >= n
  <2>1. k \in 1 .. Len(mh_First) + 1 /\ (k <= Len(mh_First) => mh_First[k].size >= n)
    BY <1>1, FirstFitFound, Zenon
  <2>2. Found(n) => n > 0 /\ k <= Len(mh_First)
    BY DEF Found
  <2>3. Len(mh_First) \in Nat
    BY <1>1
  <2> HIDE DEF k
  <2> QED BY <2>1, <2>2, <2>3
<1> HIDE DEF k
<1>6. ASSUME Found(n)
      PROVE  mh_First[k].addr # NULL /\ SharedOut(mh_First', mh_Free', With(H, h))
  <2>1. mh_First[k].addr \in Nat /\ mh_First[k].size \in Nat
    BY <1>1, <1>5, <1>6, ChunkType
  <2>2. IsFree(mh_First, mh_First[k].addr)
    BY <1>5, <1>6, <2>1, <1>1 DEF IsFree, End
  <2>3. mh_First[k].addr \in MemLower .. MemUpper - 1
    BY <2>1, <2>2 DEF SharedOut
  <2>4. mh_First[k].addr > 0
    BY <2>1, <2>3, MemBoundsAssumption
  <2>5. Mem(h) = Region(mh_First[k].addr, n)
    BY <1>2, <1>4, <1>6
  <2>6. Mem(h) \in Regions /\ Mem(h).size = n
    BY <2>1, <2>5, <1>1, RegionType
  <2>7. /\ \A a \in Nat : Within(Mem(h), a) => IsFree(mh_First, a)
        /\ \A a \in Nat : IsFree(mh_First', a) <=> IsFree(mh_First, a) /\ ~Within(Mem(h), a)
    <3>1. /\ \A a \in Nat : Within(Region(mh_First[k].addr, n), a) => IsFree(mh_First, a)
          /\ \A a \in Nat : IsFree(Carve(mh_First, k, n), a)
                                <=> IsFree(mh_First, a) /\ ~Within(Region(mh_First[k].addr, n), a)
      BY <1>1, <1>5, <1>6, CarveTakesBlock, Zenon
    <3> QED BY <3>1, <2>5, <1>3, <1>6
  <2>8. SharedOut(mh_First', mh_Free - Mem(h).size, With(H, h))
    BY <2>6, <2>7, <1>5, <1>6, TakenByOne
  <2> QED BY <2>4, <2>6, <2>8, <1>3, <1>6 DEF NULL
<1> QED BY <1>1, <1>2, <1>3, <1>5, <1>6

\* The memory of a holding is inside the memory.
LEMMA HeldInside ==
    ASSUME NEW list, NEW free, NEW H, SharedOut(list, free, H), NEW h \in H
    PROVE  /\ Mem(h).addr \in Nat /\ Mem(h).size \in Nat /\ Mem(h).size > 0
           /\ MemLower <= Mem(h).addr /\ End(Mem(h)) <= MemUpper
<1>1. Mem(h) \in Regions /\ Mem(h).size > 0
  BY DEF SharedOut
<1>2. PICK r \in Regions : r = Mem(h)
  BY <1>1
<1>3. r.addr \in Nat /\ r.size \in Nat /\ r.size > 0
  BY <1>1, <1>2 DEF Regions
<1>4. \A a \in Nat : Within(r, a) => a \in MemLower .. MemUpper - 1
  BY <1>2 DEF SharedOut
<1>5. r.addr \in Nat /\ Within(r, r.addr) /\ r.addr + r.size - 1 \in Nat /\ Within(r, r.addr + r.size - 1)
  BY <1>3 DEF Within, End
<1>6. r.addr \in MemLower .. MemUpper - 1 /\ r.addr + r.size - 1 \in MemLower .. MemUpper - 1
  BY <1>4, <1>5
<1>7. MemLower <= r.addr /\ End(r) <= MemUpper
  BY <1>3, <1>6, MemBoundsAssumption DEF End
<1> QED BY <1>2, <1>3, <1>7

\* FreeMem() of what h holds gives it back: the range is inside the memory, and
\* no part of it is free.
LEMMA FreeMemShares ==
    ASSUME FreeList(mh_First), mh_Free \in Int, NEW H, SharedOut(mh_First, mh_Free, H),
           NEW addr \in Nat, NEW size \in Nat, size > 0, FreeMem(addr, size),
           NEW h \in H, Mem(h) = Region(addr, RoundUp(size, Block))
    PROVE  SharedOut(mh_First', mh_Free', Without(H, h))
<1> DEFINE n == RoundUp(size, Block)
           r == Region(addr, n)
<1>1. n \in Nat /\ n >= size
  BY RoundUpBlock
<1>2. IF size = 0 \/ addr = NULL \/ MemLower > addr \/ MemUpper < addr + size
      THEN UNCHANGED <<mh_First, mh_Free>>
      ELSE /\ mh_First' = Deallocate(mh_First, r)
           /\ mh_Free' = IF OverlapsFree(mh_First, r) THEN mh_Free ELSE mh_Free + r.size
  BY DEF FreeMem
<1>3. Mem(h) = r
  OBVIOUS
<1> HIDE DEF n
<1>4. r \in Regions /\ r.addr = addr /\ r.size = n
  BY <1>1, RegionType
<1> HIDE DEF r
<1>5. MemLower <= r.addr /\ End(r) <= MemUpper
  BY <1>3, HeldInside
<1>6. ~(size = 0 \/ addr = NULL \/ MemLower > addr \/ MemUpper < addr + size)
  BY <1>1, <1>4, <1>5, MemBoundsAssumption DEF End, NULL
<1>7. \A a \in Nat : Within(r, a) => ~IsFree(mh_First, a)
  BY <1>3 DEF SharedOut
<1>8. ~OverlapsFree(mh_First, r)
  BY <1>1, <1>4, <1>7, RefusesFreeMemory
<1>9. \A a \in Nat : IsFree(Deallocate(mh_First, r), a) <=> IsFree(mh_First, a) \/ Within(r, a)
  BY <1>1, <1>4, <1>8, DeallocateGivesRegion
<1>10. mh_First' = Deallocate(mh_First, r) /\ mh_Free' = mh_Free + Mem(h).size
  BY <1>2, <1>3, <1>6, <1>8
<1>11. SharedOut(Deallocate(mh_First, r), mh_Free + Mem(h).size, Without(H, h))
  BY <1>3, <1>9, GivenBackByOne
<1> QED BY <1>10, <1>11

\* FreeMem() of nothing does nothing.
LEMMA FreeNothing ==
    ASSUME NEW addr, FreeMem(addr, 0)
    PROVE  UNCHANGED <<mh_First, mh_Free>>
BY DEF FreeMem

\* FreeMem() of a region of which some is free does nothing.
LEMMA FreeWrongNothing ==
    ASSUME FreeList(mh_First), NEW addr \in Nat, NEW size \in Nat, size > 0,
           MemFreeWrongly(addr, size)
    PROVE  UNCHANGED <<mh_First, mh_Free>>
<1> DEFINE n == RoundUp(size, Block)
           r == Region(addr, n)
<1>1. n \in Nat /\ n >= size
  BY RoundUpBlock
<1>2. \/ UNCHANGED <<mh_First, mh_Free>>
      \/ /\ mh_First' = Deallocate(mh_First, r)
         /\ mh_Free' = IF OverlapsFree(mh_First, r) THEN mh_Free ELSE mh_Free + r.size
  BY DEF FreeMem, MemFreeWrongly
<1> HIDE DEF n
<1>3. r \in Regions /\ r.addr = addr /\ r.size = n
  BY <1>1, RegionType
<1> HIDE DEF r
<1>4. PICK k \in 1 .. Len(mh_First) : Overlap(mh_First[k], Region(addr, size))
  BY DEF MemFreeWrongly
<1>5. mh_First[k].addr \in Nat /\ mh_First[k].size \in Nat /\ mh_First[k].size > 0
  BY <1>4, ChunkType DEF FreeList
<1>6. mh_First[k].addr < addr + size /\ addr < mh_First[k].addr + mh_First[k].size
  BY <1>4, RegionType DEF Overlap, End
<1>7. \E a \in Nat : Within(r, a) /\ IsFree(mh_First, a)
  <2>1. CASE mh_First[k].addr <= addr
    BY <2>1, <1>1, <1>3, <1>4, <1>5, <1>6 DEF Within, IsFree, End
  <2>2. CASE mh_First[k].addr > addr
    <3>1. Within(r, mh_First[k].addr)
      BY <2>2, <1>1, <1>3, <1>5, <1>6 DEF Within, End
    <3>2. IsFree(mh_First, mh_First[k].addr)
      BY <2>2, <1>4, <1>5, <1>6 DEF IsFree, End
    <3> QED BY <3>1, <3>2, <1>5
  <2> QED BY <2>1, <2>2, <1>5
<1>8. OverlapsFree(mh_First, r)
  BY <1>1, <1>3, <1>7, RefusesFreeMemory
<1> QED BY <1>2, <1>8 DEF Deallocate

\* AllocAbs() takes the region it was asked for.
LEMMA AllocAbsShares ==
    ASSUME FreeList(mh_First), mh_Free \in Int, NEW H, SharedOut(mh_First, mh_Free, H),
           NEW r \in Regions, r.size > 0, MemAllocAbs(r.addr, r.size), NEW h, Mem(h) = r
    PROVE  SharedOut(mh_First', mh_Free', With(H, h))
<1>1. PICK k \in 1 .. Len(mh_First) :
          /\ mh_First[k].addr <= r.addr /\ End(mh_First[k]) >= End(Region(r.addr, r.size))
          /\ mh_First' = CutOut(mh_First, k, Region(r.addr, r.size))
          /\ mh_Free' = mh_Free - r.size
  BY DEF MemAllocAbs
<1>2. r.addr \in Nat /\ r.size \in Nat /\ Region(r.addr, r.size) = r
  BY DEF Regions, Region
<1>3. mh_First[k].addr \in Nat /\ mh_First[k].size \in Nat
  BY ChunkType DEF FreeList
<1>4. End(r) <= End(mh_First[k])
  BY <1>1, <1>2, <1>3 DEF End
<1>5. \A a \in Nat : IsFree(CutOut(mh_First, k, r), a) <=> IsFree(mh_First, a) /\ ~Within(r, a)
  BY <1>1, <1>4, CutOutTakesRegion
<1>6. \A a \in Nat : Within(r, a) => IsFree(mh_First, a)
  BY <1>1, <1>2, <1>3, <1>4, SMTT(30) DEF Within, IsFree, End
<1>7. SharedOut(CutOut(mh_First, k, r), mh_Free - Mem(h).size, With(H, h))
  BY <1>5, <1>6, TakenByOne
<1> QED BY <1>1, <1>2, <1>7

-----------------------------------------------------------------------------
(* What each call does to who has which memory.                            *)

\* The kind of a holding and its holder.
LEMMA HoldingParts ==
    /\ \A b : BlockHolding(b)[1] = "block" /\ BlockHolding(b)[2] = b
    /\ \A c, e : ListHolding(c, e)[1] = "list" /\ ListHolding(c, e)[2] = c
    /\ \A c, e, i : EntryHolding(c, e, i)[1] = "entry" /\ EntryHolding(c, e, i)[2] = c
                    /\ EntryHolding(c, e, i)[3] = Len(e.lengths) - i
    /\ \A p : HeaderHolding(p)[1] = "header"
    /\ \A p, i : PuddleHolding(p, i)[1] = "puddle" /\ PuddleHolding(p, i)[3] = Len(p.puddles) - i
BY DEF BlockHolding, ListHolding, EntryHolding, HeaderHolding, PuddleHolding, Holding

\* The memory of a holding.
LEMMA HoldingMemory ==
    /\ \A b : Mem(BlockHolding(b)) = Region(b.addr, RoundUp(b.size, Block))
    /\ \A c, e : Mem(ListHolding(c, e)) = Region(e.ml, RoundUp(MemListSize, Block))
    /\ \A c, e, i : Mem(EntryHolding(c, e, i)) = Region(e.addrs[i], RoundUp(e.lengths[i], Block))
    /\ \A p : Mem(HeaderHolding(p)) = Region(p.header, RoundUp(PoolHeaderSize, Block))
    /\ \A p, i : Mem(PuddleHolding(p, i))
            = Region(p.puddles[i].addr, RoundUp(p.puddles[i].pp_Size + PoolPuddleSize, Block))
BY DEF BlockHolding, ListHolding, EntryHolding, HeaderHolding, PuddleHolding, Holding, Mem

\* The memory of a list is marked with its caller,
LEMMA EntryHoldingsOf ==
    ASSUME NEW c, NEW e, NEW h \in EntryHoldings(c, e)
    PROVE  h[1] \in {"list", "entry"} /\ h[2] = c
<1>1. h = ListHolding(c, e) \/ \E i \in 1 .. Len(e.addrs) : h = EntryHolding(c, e, i)
  BY DEF EntryHoldings
<1> QED BY <1>1, HoldingParts

\* and that of the pool as the pool's.
LEMMA PoolHoldingsOf ==
    ASSUME NEW p, NEW h \in PoolHoldings(p)
    PROVE  h[1] \in {"header", "puddle"}
<1>1. h = HeaderHolding(p) \/ \E i \in 1 .. Len(p.puddles) : h = PuddleHolding(p, i)
  BY DEF PoolHoldings
<1> QED BY <1>1, HoldingParts

\* Who holds something: blocks, lists and pool.
LEMMA HeldMember ==
    ASSUME NEW B, NEW E, NEW p, NEW g
    PROVE  g \in Held(B, E, p) <=> \/ \E b \in B : g = BlockHolding(b)
                                   \/ \E c \in MemCallers : g \in EntryHoldings(c, E[c])
                                   \/ g \in PoolHoldings(p)
<1>1. g \in BlockHoldings(B) <=> \E b \in B : g = BlockHolding(b)
  BY DEF BlockHoldings
<1>2. g \in ListHoldings(E) <=> \E c \in MemCallers : g \in EntryHoldings(c, E[c])
  BY DEF ListHoldings
<1>3. Held(B, E, p) = BlockHoldings(B) \cup ListHoldings(E) \cup PoolHoldings(p)
  BY DEF Held
<1>4. g \in Held(B, E, p) <=> g \in BlockHoldings(B) \/ g \in ListHoldings(E) \/ g \in PoolHoldings(p)
  BY <1>3
<1> QED BY <1>1, <1>2, <1>4, Zenon

\* A program gets a block, or gives one back.
LEMMA HeldMoreBlocks ==
    ASSUME NEW B, NEW E, NEW p, NEW b
    PROVE  Held(B \cup {b}, E, p) = With(Held(B, E, p), BlockHolding(b))
<1>1. ASSUME NEW g
      PROVE  g \in Held(B \cup {b}, E, p) <=> g \in Held(B, E, p) \/ g = BlockHolding(b)
  <2>1. (\E d \in B \cup {b} : g = BlockHolding(d))
            <=> (\E d \in B : g = BlockHolding(d)) \/ g = BlockHolding(b)
    BY Zenon
  <2> QED BY <2>1, HeldMember, Zenon
<1> QED BY <1>1 DEF With

\* A block less is a holding less.
LEMMA HeldFewerBlocks ==
    ASSUME NEW B, NEW E, NEW p, NEW b \in B
    PROVE  Held(B \ {b}, E, p) = Without(Held(B, E, p), BlockHolding(b))
<1>1. ASSUME NEW g
      PROVE  g \in Held(B \ {b}, E, p) <=> g \in Held(B, E, p) /\ g # BlockHolding(b)
  <2>1. (\E d \in B \ {b} : g = BlockHolding(d))
            <=> (\E d \in B : g = BlockHolding(d)) /\ g # BlockHolding(b)
    BY HoldingParts
  <2>2. g = BlockHolding(b) => ~ \E c \in MemCallers : g \in EntryHoldings(c, E[c])
    BY HoldingParts, EntryHoldingsOf
  <2>3. g = BlockHolding(b) => g \notin PoolHoldings(p)
    BY HoldingParts, PoolHoldingsOf
  <2> QED BY <2>1, <2>2, <2>3, HeldMember, Zenon
<1> QED BY <1>1 DEF Without

\* A memory list gets another part, loses one, or changes otherwise.
LEMMA HeldMoreEntries ==
    ASSUME NEW B, NEW E, NEW p, NEW D, NEW h, NEW c \in MemCallers,
           /\ \A d \in MemCallers : d # c => D[d] = E[d]
           /\ EntryHoldings(c, D[c]) = With(EntryHoldings(c, E[c]), h)
    PROVE  Held(B, D, p) = With(Held(B, E, p), h)
<1>1. ASSUME NEW g
      PROVE  g \in Held(B, D, p) <=> g \in Held(B, E, p) \/ g = h
  <2>1. \A d \in MemCallers : d # c => (g \in EntryHoldings(d, D[d]) <=> g \in EntryHoldings(d, E[d]))
    OBVIOUS
  <2>2. g \in EntryHoldings(c, D[c]) <=> g \in EntryHoldings(c, E[c]) \/ g = h
    BY DEF With
  <2>3. (\E d \in MemCallers : g \in EntryHoldings(d, D[d]))
            <=> (\E d \in MemCallers : g \in EntryHoldings(d, E[d])) \/ g = h
    BY <2>1, <2>2, Zenon
  <2> QED BY <2>3, HeldMember, Zenon
<1> QED BY <1>1 DEF With

\* An entry or a header less is a holding less.
LEMMA HeldFewerEntries ==
    ASSUME NEW B, NEW E, NEW p, NEW D, NEW h, NEW c \in MemCallers,
           /\ h \in EntryHoldings(c, E[c])
           /\ \A d \in MemCallers : d # c => D[d] = E[d]
           /\ EntryHoldings(c, D[c]) = Without(EntryHoldings(c, E[c]), h)
    PROVE  Held(B, D, p) = Without(Held(B, E, p), h)
<1>1. h[1] \in {"list", "entry"} /\ h[2] = c
  BY EntryHoldingsOf
<1>2. \A d \in MemCallers : h \in EntryHoldings(d, D[d]) => d = c
  BY <1>1, EntryHoldingsOf
<1>3. ASSUME NEW g
      PROVE  g \in Held(B, D, p) <=> g \in Held(B, E, p) /\ g # h
  <2>1. \A d \in MemCallers : d # c => (g \in EntryHoldings(d, D[d]) <=> g \in EntryHoldings(d, E[d]))
    OBVIOUS
  <2>2. g \in EntryHoldings(c, D[c]) <=> g \in EntryHoldings(c, E[c]) /\ g # h
    BY DEF Without
  <2>3. (\E d \in MemCallers : g \in EntryHoldings(d, D[d]))
            <=> (\E d \in MemCallers : g \in EntryHoldings(d, E[d])) /\ g # h
    BY <1>2, <2>1, <2>2, Zenon
  <2>4. g = h => g \notin PoolHoldings(p)
    BY <1>1, PoolHoldingsOf
  <2>5. g = h => ~ \E b \in B : g = BlockHolding(b)
    BY <1>1, HoldingParts
  <2> QED BY <2>3, <2>4, <2>5, HeldMember, Zenon
<1> QED BY <1>3 DEF Without

\* A list that keeps its memory changes nothing.
LEMMA HeldSameEntries ==
    ASSUME NEW B, NEW E, NEW p, NEW D, NEW c \in MemCallers,
           \A d \in MemCallers : d # c => D[d] = E[d],
           EntryHoldings(c, D[c]) = EntryHoldings(c, E[c])
    PROVE  Held(B, D, p) = Held(B, E, p)
<1>1. \A d \in MemCallers : EntryHoldings(d, D[d]) = EntryHoldings(d, E[d])
  OBVIOUS
<1>2. ListHoldings(D) = ListHoldings(E)
  BY <1>1 DEF ListHoldings
<1> QED BY <1>2 DEF Held

\* The pool gets another part, or loses one.
LEMMA HeldMorePool ==
    ASSUME NEW B, NEW E, NEW p, NEW q, NEW h, PoolHoldings(q) = With(PoolHoldings(p), h)
    PROVE  Held(B, E, q) = With(Held(B, E, p), h)
<1>1. ASSUME NEW g
      PROVE  g \in Held(B, E, q) <=> g \in Held(B, E, p) \/ g = h
  <2>1. g \in PoolHoldings(q) <=> g \in PoolHoldings(p) \/ g = h
    BY DEF With
  <2> QED BY <2>1, HeldMember, Zenon
<1> QED BY <1>1 DEF With

\* A puddle or a header less is a holding less.
LEMMA HeldLessPool ==
    ASSUME NEW B, NEW E, NEW p, NEW q, NEW h \in PoolHoldings(p),
           PoolHoldings(q) = Without(PoolHoldings(p), h)
    PROVE  Held(B, E, q) = Without(Held(B, E, p), h)
<1>1. h[1] \in {"header", "puddle"}
  BY PoolHoldingsOf
<1>2. ASSUME NEW g
      PROVE  g \in Held(B, E, q) <=> g \in Held(B, E, p) /\ g # h
  <2>1. g \in PoolHoldings(q) <=> g \in PoolHoldings(p) /\ g # h
    BY DEF Without
  <2>2. g = h => ~ \E c \in MemCallers : g \in EntryHoldings(c, E[c])
    BY <1>1, EntryHoldingsOf
  <2>3. g = h => ~ \E b \in B : g = BlockHolding(b)
    BY <1>1, HoldingParts
  <2> QED BY <2>1, <2>2, <2>3, HeldMember, Zenon
<1> QED BY <1>2 DEF Without

\* How the parts of one memory list change.
LEMMA ListStarts ==
    ASSUME NEW c, NEW a, NEW lengths
    PROVE  LET e == [ml |-> a, lengths |-> lengths, addrs |-> <<>>, at |-> "alloc"]
           IN  EntryHoldings(c, e) = With(EntryHoldings(c, NoEntry), ListHolding(c, e))
<1> DEFINE e == [ml |-> a, lengths |-> lengths, addrs |-> <<>>, at |-> "alloc"]
<1>1. e # NoEntry
  BY DEF NoEntry
<1>2. { j \in 1 .. Len(e.addrs) : e.lengths[j] > 0 } = {}
  OBVIOUS
<1>3. EntryHoldings(c, NoEntry) = {}
  BY DEF EntryHoldings
<1> HIDE DEF e
<1>4. EntryHoldings(c, e) = {ListHolding(c, e)}
  BY <1>1, <1>2 DEF EntryHoldings
<1> QED BY <1>3, <1>4 DEF e, With

\* AllocEntry() adds the memory of an entry, if it has a length.
LEMMA ListGrows ==
    ASSUME NEW c, NEW e \in Entries, NEW d \in Entries, NEW a \in Nat,
           e # NoEntry, d # NoEntry,
           d.ml = e.ml, d.lengths = e.lengths, d.addrs = Append(e.addrs, a),
           Len(e.addrs) < Len(e.lengths)
    PROVE  LET k == Len(e.addrs) + 1
           IN  /\ d.addrs[k] = a
               /\ EntryHoldings(c, d) = IF e.lengths[k] > 0
                                        THEN With(EntryHoldings(c, e), EntryHolding(c, d, k))
                                        ELSE EntryHoldings(c, e)
<1> DEFINE k == Len(e.addrs) + 1
           I(f) == { j \in 1 .. Len(f.addrs) : f.lengths[j] > 0 }
<1>1. e.addrs \in Seq(Nat) /\ e.lengths \in Seq(Nat) /\ Len(e.addrs) \in Nat
  BY DEF Entries
<1>2. Len(d.addrs) = k /\ d.addrs[k] = a /\ \A i \in 1 .. Len(e.addrs) : d.addrs[i] = e.addrs[i]
  BY <1>1
<1>3. ListHolding(c, d) = ListHolding(c, e)
  BY DEF ListHolding
<1>4. \A i \in 1 .. Len(e.addrs) : EntryHolding(c, d, i) = EntryHolding(c, e, i)
  BY <1>2 DEF EntryHolding
<1>5. k \in 1 .. k /\ \A i \in 1 .. k : i \in 1 .. Len(e.addrs) \/ i = k
  BY <1>1
<1>6. \A i \in 1 .. Len(e.addrs) : i \in 1 .. k
  BY <1>1
<1> HIDE DEF k
<1>7. ASSUME NEW h
      PROVE  h \in EntryHoldings(c, d)
             <=> h \in EntryHoldings(c, e) \/ (e.lengths[k] > 0 /\ h = EntryHolding(c, d, k))
  <2>1. h \in EntryHoldings(c, d) <=> h = ListHolding(c, d) \/ \E i \in I(d) : h = EntryHolding(c, d, i)
    BY DEF EntryHoldings
  <2>2. h \in EntryHoldings(c, e) <=> h = ListHolding(c, e) \/ \E i \in I(e) : h = EntryHolding(c, e, i)
    BY DEF EntryHoldings
  <2>3. ASSUME NEW i
        PROVE  i \in I(d) <=> i \in I(e) \/ (i = k /\ e.lengths[k] > 0)
    <3>1. i \in I(d) <=> i \in 1 .. k /\ e.lengths[i] > 0
      BY <1>2
    <3>2. i \in I(e) <=> i \in 1 .. Len(e.addrs) /\ e.lengths[i] > 0
      OBVIOUS
    <3>3. i \in 1 .. k <=> i \in 1 .. Len(e.addrs) \/ i = k
      BY <1>5, <1>6
    <3> QED BY <3>1, <3>2, <3>3, Zenon
  <2>4. \A i \in I(e) : EntryHolding(c, d, i) = EntryHolding(c, e, i)
    BY <1>4
  <2> HIDE DEF I
  <2>5. (\E i \in I(d) : h = EntryHolding(c, d, i))
        <=> (\E i \in I(e) : h = EntryHolding(c, e, i)) \/ (e.lengths[k] > 0 /\ h = EntryHolding(c, d, k))
    BY <2>3, <2>4, Zenon
  <2> QED BY <2>1, <2>2, <2>5, <1>3, Zenon
<1>8. IF e.lengths[k] > 0 THEN EntryHoldings(c, d) = With(EntryHoldings(c, e), EntryHolding(c, d, k))
      ELSE EntryHoldings(c, d) = EntryHoldings(c, e)
  <2>1. CASE e.lengths[k] > 0
    BY <1>7, <2>1 DEF With
  <2>2. CASE ~(e.lengths[k] > 0)
    <3>1. \A h : h \in EntryHoldings(c, d) <=> h \in EntryHoldings(c, e)
      BY <1>7, <2>2, Zenon
    <3>2. EntryHoldings(c, d) = EntryHoldings(c, e)
      BY <3>1
    <3> QED BY <3>2, <2>2, Zenon
  <2> QED BY <2>1, <2>2
<1> QED BY <1>2, <1>8, Zenon DEF k

\* FreeEntry() gives the memory of the first entry back, if it has a length.
LEMMA ListShrinks ==
    ASSUME NEW c, NEW e \in Entries, NEW d \in Entries,
           e # NoEntry, d # NoEntry,
           d.ml = e.ml, d.lengths = Tail(e.lengths), d.addrs = Tail(e.addrs),
           e.addrs # <<>>, Len(e.addrs) <= Len(e.lengths)
    PROVE  IF e.lengths[1] > 0
           THEN /\ EntryHolding(c, e, 1) \in EntryHoldings(c, e)
                /\ EntryHoldings(c, d) = Without(EntryHoldings(c, e), EntryHolding(c, e, 1))
           ELSE EntryHoldings(c, d) = EntryHoldings(c, e)
<1> DEFINE I(f) == { j \in 1 .. Len(f.addrs) : f.lengths[j] > 0 }
<1>1. e.addrs \in Seq(Nat) /\ e.lengths \in Seq(Nat) /\ Len(e.addrs) \in Nat /\ Len(e.lengths) \in Nat
  BY DEF Entries
<1>2. Len(e.addrs) > 0 /\ Len(e.lengths) > 0 /\ e.lengths # <<>>
  BY <1>1
<1>3. /\ Len(d.addrs) = Len(e.addrs) - 1 /\ Len(d.lengths) = Len(e.lengths) - 1
      /\ \A i \in 1 .. Len(d.addrs) : d.addrs[i] = e.addrs[i + 1]
      /\ \A i \in 1 .. Len(d.lengths) : d.lengths[i] = e.lengths[i + 1]
  BY <1>1, <1>2
<1>4. ListHolding(c, d) = ListHolding(c, e)
  BY DEF ListHolding
<1>5. \A i \in 1 .. Len(d.addrs) : EntryHolding(c, d, i) = EntryHolding(c, e, i + 1)
  <2> TAKE i \in 1 .. Len(d.addrs)
  <2>1. i \in 1 .. Len(d.lengths) /\ Len(d.lengths) - i = Len(e.lengths) - (i + 1)
    BY <1>1, <1>3
  <2>2. d.addrs[i] = e.addrs[i + 1] /\ d.lengths[i] = e.lengths[i + 1]
    BY <1>3, <2>1
  <2> QED BY <2>1, <2>2 DEF EntryHolding
<1>6. \A i : i \in I(d) <=> i \in Nat \ {0} /\ i + 1 \in I(e)
  <2>1. \A i \in 1 .. Len(d.addrs) : d.lengths[i] = e.lengths[i + 1]
    BY <1>1, <1>3
  <2>2. ASSUME NEW i
        PROVE  i \in I(d) <=> i \in 1 .. Len(d.addrs) /\ e.lengths[i + 1] > 0
    BY <2>1
  <2>3. ASSUME NEW i
        PROVE  i \in 1 .. Len(d.addrs) <=> i \in Nat \ {0} /\ i + 1 \in 1 .. Len(e.addrs)
    BY <1>1, <1>3
  <2>4. \A i : i + 1 \in I(e) <=> i + 1 \in 1 .. Len(e.addrs) /\ e.lengths[i + 1] > 0
    OBVIOUS
  <2> HIDE DEF I
  <2> QED BY <2>2, <2>3, <2>4, Zenon
<1>7. \A j \in I(e) : j # 1 => j - 1 \in I(d) /\ (j - 1) + 1 = j
  BY <1>1, <1>6
<1>8. 1 \in I(e) <=> e.lengths[1] > 0
  BY <1>1, <1>2
<1>9. I(e) \subseteq Nat /\ I(d) \subseteq 1 .. Len(d.addrs)
  OBVIOUS
<1>10. \A j \in I(e) : j # 1 => EntryHolding(c, e, j) # EntryHolding(c, e, 1)
  <2> TAKE j \in I(e)
  <2>1. EntryHolding(c, e, j)[3] = Len(e.lengths) - j /\ EntryHolding(c, e, 1)[3] = Len(e.lengths) - 1
    BY HoldingParts
  <2> QED BY <2>1, <1>1, <1>9
<1>11. \A h : h \in EntryHoldings(c, d) <=> h = ListHolding(c, d) \/ \E i \in I(d) : h = EntryHolding(c, d, i)
  BY DEF EntryHoldings
<1>12. \A h : h \in EntryHoldings(c, e) <=> h = ListHolding(c, e) \/ \E i \in I(e) : h = EntryHolding(c, e, i)
  BY DEF EntryHoldings
<1>13. EntryHolding(c, e, 1) # ListHolding(c, e)
  BY HoldingParts
<1> HIDE DEF I
<1>14. ASSUME NEW h
       PROVE  (\E i \in I(d) : h = EntryHolding(c, d, i))
              <=> \E j \in I(e) : j # 1 /\ h = EntryHolding(c, e, j)
  <2>1. ASSUME NEW i \in I(d), h = EntryHolding(c, d, i)
        PROVE  \E j \in I(e) : j # 1 /\ h = EntryHolding(c, e, j)
    BY <2>1, <1>5, <1>6, <1>9
  <2>2. ASSUME NEW j \in I(e), j # 1, h = EntryHolding(c, e, j)
        PROVE  \E i \in I(d) : h = EntryHolding(c, d, i)
    <3>1. j - 1 \in I(d) /\ (j - 1) + 1 = j
      BY <2>2, <1>7
    <3>2. EntryHolding(c, d, j - 1) = EntryHolding(c, e, j)
      BY <3>1, <1>5, <1>9
    <3> QED BY <3>1, <3>2, <2>2
  <2> QED BY <2>1, <2>2
<1>15. CASE e.lengths[1] > 0
  <2>1. EntryHolding(c, e, 1) \in EntryHoldings(c, e)
    BY <1>8, <1>12, <1>15
  <2>2. ASSUME NEW h
        PROVE  h \in EntryHoldings(c, d) <=> h \in EntryHoldings(c, e) /\ h # EntryHolding(c, e, 1)
    <3>1. (\E j \in I(e) : j # 1 /\ h = EntryHolding(c, e, j))
          <=> (\E j \in I(e) : h = EntryHolding(c, e, j)) /\ h # EntryHolding(c, e, 1)
      BY <1>10, Zenon
    <3>2. h = ListHolding(c, e) => h # EntryHolding(c, e, 1)
      BY <1>13
    <3> QED BY <3>1, <3>2, <1>4, <1>11, <1>12, <1>14, Zenon
  <2> QED BY <2>1, <2>2, <1>15 DEF Without
<1>16. CASE ~(e.lengths[1] > 0)
  <2>1. ASSUME NEW h
        PROVE  h \in EntryHoldings(c, d) <=> h \in EntryHoldings(c, e)
    BY <1>4, <1>8, <1>11, <1>12, <1>14, <1>16, Zenon
  <2>2. EntryHoldings(c, d) = EntryHoldings(c, e)
    BY <2>1
  <2> QED BY <2>2, <1>16, Zenon
<1> QED BY <1>15, <1>16

\* The header goes last.
LEMMA ListEnds ==
    ASSUME NEW c, NEW e, e # NoEntry, e.addrs = <<>>
    PROVE  /\ ListHolding(c, e) \in EntryHoldings(c, e)
           /\ EntryHoldings(c, NoEntry) = Without(EntryHoldings(c, e), ListHolding(c, e))
<1>1. { j \in 1 .. Len(e.addrs) : e.lengths[j] > 0 } = {}
  OBVIOUS
<1> QED BY <1>1 DEF EntryHoldings, Without

\* A list whose parts stay.
LEMMA ListKeepsParts ==
    ASSUME NEW c, NEW e, NEW d, e # NoEntry, d # NoEntry,
           d.ml = e.ml, d.lengths = e.lengths, d.addrs = e.addrs
    PROVE  EntryHoldings(c, d) = EntryHoldings(c, e)
BY DEF EntryHoldings, ListHolding, EntryHolding

\* How the parts of the pool change.
LEMMA PoolStarts ==
    ASSUME NEW a
    PROVE  LET p == [header |-> a, puddles |-> <<>>, at |-> "open"]
           IN  PoolHoldings(p) = With(PoolHoldings(NoPool), HeaderHolding(p))
<1> DEFINE p == [header |-> a, puddles |-> <<>>, at |-> "open"]
<1>1. p # NoPool
  BY DEF NoPool
<1>2. 1 .. Len(p.puddles) = {}
  OBVIOUS
<1>3. PoolHoldings(NoPool) = {}
  BY DEF PoolHoldings
<1> HIDE DEF p
<1>4. PoolHoldings(p) = {HeaderHolding(p)}
  BY <1>1, <1>2 DEF PoolHoldings
<1> QED BY <1>3, <1>4 DEF p, With

\* What the pool holds: its header and its puddles.
LEMMA PoolMember ==
    ASSUME NEW p, p # NoPool, NEW h
    PROVE  h \in PoolHoldings(p)
           <=> h = HeaderHolding(p) \/ \E i \in 1 .. Len(p.puddles) : h = PuddleHolding(p, i)
BY DEF PoolHoldings

\* A new puddle comes first.
LEMMA PoolGrows ==
    ASSUME NEW p \in PoolStates, NEW q \in PoolStates, NEW u \in Puddles,
           p # NoPool, q # NoPool,
           q.header = p.header, q.puddles = <<u>> \o p.puddles
    PROVE  /\ Len(q.puddles) = Len(p.puddles) + 1 /\ q.puddles[1] = u
           /\ \A i \in 1 .. Len(p.puddles) : q.puddles[i + 1] = p.puddles[i]
           /\ PoolHoldings(q) = With(PoolHoldings(p), PuddleHolding(q, 1))
<1>1. p.puddles \in Seq(Puddles) /\ Len(p.puddles) \in Nat
  BY DEF PoolStates
<1> HIDE DEF Puddles
<1>2. /\ Len(q.puddles) = Len(p.puddles) + 1 /\ q.puddles[1] = u
      /\ \A i \in 1 .. Len(p.puddles) : q.puddles[i + 1] = p.puddles[i]
  BY <1>1
<1>3. HeaderHolding(q) = HeaderHolding(p)
  BY DEF HeaderHolding
<1>4. \A i \in 1 .. Len(p.puddles) : PuddleHolding(q, i + 1) = PuddleHolding(p, i)
  <2> TAKE i \in 1 .. Len(p.puddles)
  <2>1. Len(q.puddles) - (i + 1) = Len(p.puddles) - i
    BY <1>1, <1>2
  <2> QED BY <2>1, <1>2 DEF PuddleHolding
<1>5. ASSUME NEW h
      PROVE  (\E i \in 1 .. Len(q.puddles) : h = PuddleHolding(q, i))
             <=> (\E i \in 1 .. Len(p.puddles) : h = PuddleHolding(p, i)) \/ h = PuddleHolding(q, 1)
  <2>1. ASSUME NEW i \in 1 .. Len(q.puddles), h = PuddleHolding(q, i), i # 1
        PROVE  \E k \in 1 .. Len(p.puddles) : h = PuddleHolding(p, k)
    <3>1. i - 1 \in 1 .. Len(p.puddles) /\ (i - 1) + 1 = i
      BY <2>1, <1>1, <1>2
    <3>2. PuddleHolding(q, i) = PuddleHolding(p, i - 1)
      BY <3>1, <1>4
    <3> QED BY <3>1, <3>2, <2>1
  <2>2. ASSUME NEW i \in 1 .. Len(p.puddles), h = PuddleHolding(p, i)
        PROVE  \E k \in 1 .. Len(q.puddles) : h = PuddleHolding(q, k)
    <3>1. i + 1 \in 1 .. Len(q.puddles)
      BY <1>1, <1>2
    <3> QED BY <3>1, <2>2, <1>4
  <2>3. 1 \in 1 .. Len(q.puddles)
    BY <1>1, <1>2
  <2> QED BY <2>1, <2>2, <2>3, Zenon
<1>6. ASSUME NEW h
      PROVE  h \in PoolHoldings(q) <=> h \in PoolHoldings(p) \/ h = PuddleHolding(q, 1)
  <2>1. h \in PoolHoldings(p) <=> h = HeaderHolding(p) \/ \E i \in 1 .. Len(p.puddles) : h = PuddleHolding(p, i)
    BY PoolMember
  <2>2. h \in PoolHoldings(q) <=> h = HeaderHolding(q) \/ \E i \in 1 .. Len(q.puddles) : h = PuddleHolding(q, i)
    BY PoolMember
  <2> QED BY <2>1, <2>2, <1>3, <1>5, Zenon
<1> QED BY <1>2, <1>6 DEF With

\* DeletePool() takes the first puddle.
LEMMA PoolShrinks ==
    ASSUME NEW p \in PoolStates, NEW q \in PoolStates, p # NoPool, q # NoPool,
           q.header = p.header, p.puddles # <<>>, q.puddles = Tail(p.puddles)
    PROVE  /\ PuddleHolding(p, 1) \in PoolHoldings(p)
           /\ PoolHoldings(q) = Without(PoolHoldings(p), PuddleHolding(p, 1))
<1>1. p.puddles \in Seq(Puddles) /\ Len(p.puddles) \in Nat /\ Len(p.puddles) > 0
  BY DEF PoolStates
<1> HIDE DEF Puddles
<1>2. /\ Len(q.puddles) = Len(p.puddles) - 1
      /\ \A i \in 1 .. Len(q.puddles) : q.puddles[i] = p.puddles[i + 1]
  BY <1>1
<1>3. HeaderHolding(q) = HeaderHolding(p)
  BY DEF HeaderHolding
<1>4. \A i \in 1 .. Len(q.puddles) : PuddleHolding(q, i) = PuddleHolding(p, i + 1)
  <2> TAKE i \in 1 .. Len(q.puddles)
  <2>1. Len(q.puddles) - i = Len(p.puddles) - (i + 1)
    BY <1>1, <1>2
  <2> QED BY <2>1, <1>2 DEF PuddleHolding
<1>5. \A i \in 1 .. Len(p.puddles) : i # 1 => PuddleHolding(p, i) # PuddleHolding(p, 1)
  <2> TAKE i \in 1 .. Len(p.puddles)
  <2>1. PuddleHolding(p, i)[3] = Len(p.puddles) - i /\ PuddleHolding(p, 1)[3] = Len(p.puddles) - 1
    BY HoldingParts
  <2> QED BY <2>1, <1>1
<1>6. HeaderHolding(p) # PuddleHolding(p, 1)
  BY HoldingParts
<1>7. ASSUME NEW h
      PROVE  (\E i \in 1 .. Len(q.puddles) : h = PuddleHolding(q, i))
             <=> (\E i \in 1 .. Len(p.puddles) : h = PuddleHolding(p, i)) /\ h # PuddleHolding(p, 1)
  <2>1. ASSUME NEW i \in 1 .. Len(p.puddles), h = PuddleHolding(p, i), h # PuddleHolding(p, 1)
        PROVE  \E k \in 1 .. Len(q.puddles) : h = PuddleHolding(q, k)
    <3>1. i # 1
      BY <2>1
    <3>2. i - 1 \in 1 .. Len(q.puddles) /\ (i - 1) + 1 = i
      BY <3>1, <1>1, <1>2
    <3>3. PuddleHolding(p, i) = PuddleHolding(q, i - 1)
      BY <3>2, <1>4
    <3> QED BY <3>2, <3>3, <2>1
  <2>2. ASSUME NEW i \in 1 .. Len(q.puddles), h = PuddleHolding(q, i)
        PROVE  (\E k \in 1 .. Len(p.puddles) : h = PuddleHolding(p, k)) /\ h # PuddleHolding(p, 1)
    <3>1. i + 1 \in 1 .. Len(p.puddles) /\ i + 1 # 1
      BY <1>1, <1>2
    <3>2. h = PuddleHolding(p, i + 1)
      BY <2>2, <1>4
    <3> QED BY <3>1, <3>2, <1>5
  <2> QED BY <2>1, <2>2, Zenon
<1>8. 1 \in 1 .. Len(p.puddles)
  BY <1>1
<1>9. PuddleHolding(p, 1) \in PoolHoldings(p)
  BY <1>8, PoolMember, Zenon
<1>10. ASSUME NEW h
       PROVE  h \in PoolHoldings(q) <=> h \in PoolHoldings(p) /\ h # PuddleHolding(p, 1)
  <2>1. h = HeaderHolding(p) => h # PuddleHolding(p, 1)
    BY <1>6
  <2>2. h \in PoolHoldings(p) <=> h = HeaderHolding(p) \/ \E i \in 1 .. Len(p.puddles) : h = PuddleHolding(p, i)
    BY PoolMember
  <2>3. h \in PoolHoldings(q) <=> h = HeaderHolding(q) \/ \E i \in 1 .. Len(q.puddles) : h = PuddleHolding(q, i)
    BY PoolMember
  <2> QED BY <2>1, <2>2, <2>3, <1>3, <1>7, Zenon
<1> QED BY <1>9, <1>10 DEF Without

\* The header goes last.
LEMMA PoolEnds ==
    ASSUME NEW p, p # NoPool, p.puddles = <<>>
    PROVE  /\ HeaderHolding(p) \in PoolHoldings(p)
           /\ PoolHoldings(NoPool) = Without(PoolHoldings(p), HeaderHolding(p))
<1>1. 1 .. Len(p.puddles) = {}
  OBVIOUS
<1> QED BY <1>1 DEF PoolHoldings, Without

\* A pool whose puddles stay.
LEMMA PoolKeepsParts ==
    ASSUME NEW p, NEW q, p # NoPool, q # NoPool, q.header = p.header,
           Len(q.puddles) = Len(p.puddles),
           \A i \in 1 .. Len(p.puddles) :
               q.puddles[i].addr = p.puddles[i].addr /\ q.puddles[i].pp_Size = p.puddles[i].pp_Size
    PROVE  PoolHoldings(q) = PoolHoldings(p)
<1>1. HeaderHolding(q) = HeaderHolding(p)
  BY DEF HeaderHolding
<1>2. \A i \in 1 .. Len(p.puddles) : PuddleHolding(q, i) = PuddleHolding(p, i)
  BY DEF PuddleHolding
<1>3. ASSUME NEW h PROVE h \in PoolHoldings(q) <=> h \in PoolHoldings(p)
  <2>1. (\E i \in 1 .. Len(q.puddles) : h = PuddleHolding(q, i))
        <=> \E i \in 1 .. Len(p.puddles) : h = PuddleHolding(p, i)
    BY <1>2
  <2>2. h \in PoolHoldings(p) <=> h = HeaderHolding(p) \/ \E i \in 1 .. Len(p.puddles) : h = PuddleHolding(p, i)
    BY PoolMember
  <2>3. h \in PoolHoldings(q) <=> h = HeaderHolding(q) \/ \E i \in 1 .. Len(q.puddles) : h = PuddleHolding(q, i)
    BY PoolMember
  <2> QED BY <2>1, <2>2, <2>3, <1>1, Zenon
<1> QED BY <1>3

-----------------------------------------------------------------------------
(* Memory stays shared out.                                                *)

Shared == SharedOut(mh_First, mh_Free, Holdings)

\* Shared in terms of the variables.
LEMMA SharedParts ==
    /\ Shared <=> SharedOut(mh_First, mh_Free, Held(memBlocks, memEntry, memPool))
    /\ Shared' <=> SharedOut(mh_First', mh_Free', Held(memBlocks', memEntry', memPool'))
BY DEF Shared, Holdings

\* Regions for AllocAbs() are blocks when AbsUnit is a multiple of MEM_BLOCKSIZE.
LEMMA AbsRegionsAligned ==
    ASSUME Aligned(AbsUnit), NEW r \in AbsRegions
    PROVE  r \in Regions /\ r.size > 0 /\ RoundUp(r.size, Block) = r.size
<1>1. PICK a \in 0 .. MemUpper \div AbsUnit, n \in 1 .. Block \div AbsUnit :
          r = Region(a * AbsUnit, n * AbsUnit)
  BY DEF AbsRegions
<1>2. AbsUnit \in Nat /\ AbsUnit >= 2 /\ MemUpper \in Nat
  BY MemSizesAssumption, MemBoundsAssumption DEF Aligned, Block
<1>3. Block \div AbsUnit = IF AbsUnit = 2 THEN 1 ELSE 0
  BY <1>2 DEF Block
<1>4. AbsUnit = 2 /\ n = 1
  BY <1>1, <1>2, <1>3
<1>5. MemUpper \div AbsUnit \in Nat
  BY <1>2, <1>4
<1>6. a * AbsUnit \in Nat /\ n * AbsUnit = 2
  BY <1>4, <1>5
<1>7. r \in Regions /\ r.size = 2
  BY <1>1, <1>6, RegionType
<1> QED BY <1>7 DEF RoundUp, Block

\* Calls for single blocks.
LEMMA BlocksStayShared ==
  ASSUME MemIInv, Shared, Aligned(AbsUnit),
         \/ \E size \in MemSizes : MemAlloc(size)
         \/ \E r \in AbsRegions : MemAllocAbs(r.addr, r.size)
         \/ \E b \in memBlocks : MemFree(b)
         \/ \E a \in MemLower .. MemUpper - 1, size \in MemSizes : Aligned(a) /\ MemFreeWrongly(a, size)
  PROVE  Shared'
<1>1. FreeList(mh_First) /\ mh_Free \in Int /\ memBlocks \subseteq Regions
  BY InvariantParts DEF ListPart, BlocksPart
<1> DEFINE H == Held(memBlocks, memEntry, memPool)
<1>2. SharedOut(mh_First, mh_Free, H)
  BY SharedParts
<1>3. ASSUME NEW size \in MemSizes, MemAlloc(size) PROVE Shared'
  <2>1. PICK b : b = Region(AllocMemResult(size), size)
    OBVIOUS
  <2>2. /\ AllocMemResult(size) # NULL /\ AllocMem(size)
        /\ memBlocks' = memBlocks \cup {b} /\ memEntry' = memEntry /\ memPool' = memPool
    BY <1>3, <2>1 DEF MemAlloc
  <2>3. size \in Nat
    BY MemSizesAssumption
  <2>4. Mem(BlockHolding(b)) = Region(AllocMemResult(size), RoundUp(size, Block))
    BY <2>1, HoldingMemory DEF Region
  <2> HIDE DEF H
  <2>5. SharedOut(mh_First', mh_Free', With(H, BlockHolding(b)))
    BY <1>1, <1>2, <2>2, <2>3, <2>4, AllocMemShares
  <2>6. Held(memBlocks', memEntry', memPool') = With(H, BlockHolding(b))
    BY <2>2, HeldMoreBlocks DEF H
  <2> QED BY <2>5, <2>6, SharedParts
<1>4. ASSUME NEW r \in AbsRegions, MemAllocAbs(r.addr, r.size) PROVE Shared'
  <2>1. r \in Regions /\ r.size > 0 /\ RoundUp(r.size, Block) = r.size
    BY AbsRegionsAligned
  <2>2. r = Region(r.addr, r.size)
    BY <2>1 DEF Regions, Region
  <2>3. memBlocks' = memBlocks \cup {r} /\ memEntry' = memEntry /\ memPool' = memPool
    BY <1>4, <2>2 DEF MemAllocAbs
  <2>4. Mem(BlockHolding(r)) = r
    BY <2>1, <2>2, HoldingMemory
  <2> HIDE DEF H
  <2>5. SharedOut(mh_First', mh_Free', With(H, BlockHolding(r)))
    BY <1>1, <1>2, <1>4, <2>1, <2>4, AllocAbsShares
  <2>6. Held(memBlocks \cup {r}, memEntry, memPool) = With(H, BlockHolding(r))
    BY HeldMoreBlocks DEF H
  <2> QED BY <2>3, <2>5, <2>6, SharedParts
<1>5. ASSUME NEW b \in memBlocks, MemFree(b) PROVE Shared'
  <2>1. b.addr \in Nat /\ b.size \in Nat
    BY <1>1 DEF Regions
  <2>2. /\ FreeMem(b.addr, b.size)
        /\ memBlocks' = memBlocks \ {b} /\ memEntry' = memEntry /\ memPool' = memPool
    BY <1>5 DEF MemFree
  <2>3. BlockHolding(b) \in H
    BY HeldMember, Zenon
  <2>4. Mem(BlockHolding(b)) = Region(b.addr, RoundUp(b.size, Block))
    BY HoldingMemory, Zenon
  <2> HIDE DEF H
  <2>5. Mem(BlockHolding(b)).size > 0
    BY <1>2, <2>3, HeldInside
  <2>6. RoundUp(b.size, Block) > 0
    BY <2>4, <2>5 DEF Region
  <2>7. b.size > 0
    BY <2>1, <2>6 DEF RoundUp, Block
  <2>8. SharedOut(mh_First', mh_Free', Without(H, BlockHolding(b)))
    BY <1>1, <1>2, <2>1, <2>2, <2>3, <2>4, <2>7, FreeMemShares
  <2>9. Held(memBlocks', memEntry', memPool') = Without(H, BlockHolding(b))
    BY <2>2, HeldFewerBlocks DEF H
  <2> QED BY <2>8, <2>9, SharedParts
<1>6. ASSUME NEW a \in MemLower .. MemUpper - 1, NEW size \in MemSizes, MemFreeWrongly(a, size)
      PROVE  Shared'
  <2>1. a \in Nat /\ size \in Nat /\ size > 0
    BY MemBoundsAssumption, MemSizesAssumption
  <2>2. UNCHANGED <<mh_First, mh_Free>>
    BY <1>1, <1>6, <2>1, FreeWrongNothing
  <2>3. UNCHANGED <<memBlocks, memEntry, memPool>>
    BY <1>6 DEF MemFreeWrongly
  <2> QED BY <1>2, <2>2, <2>3, SharedParts
<1> QED BY <1>3, <1>4, <1>5, <1>6

\* One memory list changes.
LEMMA EntryMoves ==
    ASSUME EntryPart, NEW c \in MemCallers, NEW d, SetEntry(c, d)
    PROVE  memEntry'[c] = d /\ \A x \in MemCallers : x # c => memEntry'[x] = memEntry[x]
BY DEF SetEntry, EntryPart

\* AllocEntry() and FreeEntry().
LEMMA EntriesStayShared ==
  ASSUME MemIInv, Shared, NEW c \in MemCallers,
         \/ \E lengths \in MemLengths : AllocEntry(c, lengths)
         \/ AllocEntryNext(c) \/ AllocEntryReturn(c)
         \/ FreeEntry(c) \/ FreeEntryNext(c) \/ FreeEntryReturn(c)
  PROVE  Shared'
<1>1. FreeList(mh_First) /\ mh_Free \in Int /\ EntryPart
  BY InvariantParts DEF ListPart
<1> DEFINE H == Held(memBlocks, memEntry, memPool)
<1>2. SharedOut(mh_First, mh_Free, H)
  BY SharedParts
<1>3. PICK e \in Entries : e = memEntry[c]
  BY <1>1, EntryTypes
<1>4. /\ e.ml \in Nat /\ e.lengths \in Seq(Nat) /\ e.addrs \in Seq(Nat)
      /\ Len(e.addrs) <= Len(e.lengths)
  BY <1>1, <1>3, EntryTypes
<1>5. NoEntry.at = "none" /\ NoEntry.addrs = <<>>
  BY DEF NoEntry
<1>6. ASSUME NEW d \in Entries, SetEntry(c, d), UNCHANGED <<mh_First, mh_Free, memBlocks, memPool>>,
             EntryHoldings(c, d) = EntryHoldings(c, e)
      PROVE  Shared'
  <2>1. memEntry'[c] = d /\ \A x \in MemCallers : x # c => memEntry'[x] = memEntry[x]
    BY <1>1, <1>6, EntryMoves
  <2>2. Held(memBlocks, memEntry', memPool) = H
    BY <1>3, <1>6, <2>1, HeldSameEntries
  <2> HIDE DEF H
  <2> QED BY <1>2, <1>6, <2>2, SharedParts
<1>7. ASSUME NEW d \in Entries, SetEntry(c, d), UNCHANGED <<memBlocks, memPool>>, NEW h,
             EntryHoldings(c, d) = With(EntryHoldings(c, e), h), SharedOut(mh_First', mh_Free', With(H, h))
      PROVE  Shared'
  <2>1. memEntry'[c] = d /\ \A x \in MemCallers : x # c => memEntry'[x] = memEntry[x]
    BY <1>1, <1>7, EntryMoves
  <2>2. EntryHoldings(c, memEntry'[c]) = With(EntryHoldings(c, memEntry[c]), h)
    BY <1>3, <1>7, <2>1 DEF With
  <2> HIDE DEF H
  <2>3. \A x \in MemCallers : x # c => memEntry'[x] = memEntry[x]
    BY <2>1
  <2>4. Held(memBlocks, memEntry', memPool) = With(Held(memBlocks, memEntry, memPool), h)
    BY <2>2, <2>3, HeldMoreEntries
  <2> QED BY <1>7, <2>4, SharedParts DEF H
<1>8. ASSUME NEW d \in Entries, SetEntry(c, d), UNCHANGED <<memBlocks, memPool>>,
             NEW h \in EntryHoldings(c, e),
             EntryHoldings(c, d) = Without(EntryHoldings(c, e), h), SharedOut(mh_First', mh_Free', Without(H, h))
      PROVE  Shared'
  <2>1. memEntry'[c] = d /\ \A x \in MemCallers : x # c => memEntry'[x] = memEntry[x]
    BY <1>1, <1>8, EntryMoves
  <2>2. EntryHoldings(c, memEntry'[c]) = Without(EntryHoldings(c, memEntry[c]), h)
    BY <1>3, <1>8, <2>1 DEF Without
  <2>3. h \in EntryHoldings(c, memEntry[c])
    BY <1>3, <1>8
  <2>4. Held(memBlocks, memEntry', memPool) = Without(H, h)
    BY <2>1, <2>2, <2>3, HeldFewerEntries
  <2> HIDE DEF H
  <2> QED BY <1>8, <2>4, SharedParts
<1>9. \A h \in EntryHoldings(c, e) : h \in H
  BY <1>3, HeldMember, Zenon
<1> HIDE DEF H
<1>10. ASSUME NEW lengths \in MemLengths, AllocEntry(c, lengths) PROVE Shared'
  <2>1. PICK a \in Nat : a = AllocMemResult(MemListSize)
    BY <1>1, AllocMemKeeps, MemStructsAssumption
  <2> DEFINE d == [ml |-> a, lengths |-> lengths, addrs |-> <<>>, at |-> "alloc"]
  <2>2. /\ e = NoEntry /\ a # NULL /\ SetEntry(c, d) /\ AllocMem(MemListSize)
        /\ UNCHANGED <<memBlocks, memPool>>
    BY <1>3, <1>10, <2>1 DEF AllocEntry
  <2>3. lengths \in Seq(Nat) /\ MemListSize \in Nat
    BY MemSizesAssumption, MemStructsAssumption
  <2>4. d \in Entries /\ d.ml = a
    BY <2>3 DEF Entries
  <2>5. EntryHoldings(c, d) = With(EntryHoldings(c, e), ListHolding(c, d))
    BY <2>2, ListStarts
  <2> HIDE DEF d
  <2>6. Mem(ListHolding(c, d)) = Region(AllocMemResult(MemListSize), RoundUp(MemListSize, Block))
    BY <2>1, <2>4, HoldingMemory
  <2>7. SharedOut(mh_First', mh_Free', With(H, ListHolding(c, d)))
    BY <1>1, <1>2, <2>1, <2>2, <2>3, <2>6, AllocMemShares
  <2> QED BY <1>7, <2>2, <2>4, <2>5, <2>7
<1>11. ASSUME AllocEntryNext(c) PROVE Shared'
  <2> DEFINE k == Len(e.addrs) + 1
  <2>1. e.at = "alloc" /\ ~Complete(e)
    BY <1>3, <1>11 DEF AllocEntryNext
  <2>2. Len(e.addrs) < Len(e.lengths) /\ k \in 1 .. Len(e.lengths) /\ e.lengths[k] \in Nat
    BY <1>4, <2>1 DEF Complete
  <2>3. PICK a \in Nat : a = AllocMemResult(e.lengths[k])
    BY <1>1, <2>2, AllocMemKeeps
  <2>4. /\ IF e.lengths[k] > 0 /\ a = NULL
           THEN SetEntry(c, [e EXCEPT !.at = "free"])
           ELSE SetEntry(c, [e EXCEPT !.addrs = Append(@, a)])
        /\ AllocMem(e.lengths[k])
        /\ UNCHANGED <<memBlocks, memPool>>
    BY <1>3, <1>11, <2>3 DEF AllocEntryNext, NextLength
  <2> HIDE DEF k
  <2>5. e # NoEntry
    BY <1>5, <2>1
  <2>6. CASE e.lengths[k] > 0 /\ a = NULL
    <3>1. PICK d : d = [e EXCEPT !.at = "free"]
      OBVIOUS
    <3>2. d \in Entries /\ d.at = "free" /\ d.ml = e.ml /\ d.lengths = e.lengths /\ d.addrs = e.addrs
      BY <3>1 DEF Entries
    <3>3. SetEntry(c, d)
      BY <2>4, <2>6, <3>1
    <3>4. UNCHANGED <<mh_First, mh_Free>>
      <4>1. PICK h : h = Holding("entry", c, 0, a, e.lengths[k])
        OBVIOUS
      <4>2. Mem(h) = Region(AllocMemResult(e.lengths[k]), RoundUp(e.lengths[k], Block))
        BY <4>1, <2>3 DEF Holding, Mem
      <4> QED BY <1>1, <1>2, <2>2, <2>3, <2>4, <2>6, <4>2, AllocMemShares
    <3>5. EntryHoldings(c, d) = EntryHoldings(c, e)
      BY <1>5, <2>5, <3>2, ListKeepsParts
    <3> QED BY <1>6, <2>4, <3>2, <3>3, <3>4, <3>5
  <2>7. CASE ~(e.lengths[k] > 0 /\ a = NULL)
    <3>1. PICK s : s = Append(e.addrs, a)
      OBVIOUS
    <3>2. PICK d : d = [e EXCEPT !.addrs = s]
      OBVIOUS
    <3>3. s \in Seq(Nat)
      BY <1>4, <3>1
    <3>4. d \in Entries /\ d.at = "alloc" /\ d.ml = e.ml /\ d.lengths = e.lengths /\ d.addrs = s
      BY <2>1, <3>2, <3>3 DEF Entries
    <3>5. SetEntry(c, d)
      BY <2>4, <2>7, <3>1, <3>2
    <3>6. d # NoEntry
      BY <1>5, <3>4
    <3>7. d.addrs[k] = a
          /\ EntryHoldings(c, d) = IF e.lengths[k] > 0
                                   THEN With(EntryHoldings(c, e), EntryHolding(c, d, k))
                                   ELSE EntryHoldings(c, e)
      BY <2>2, <2>5, <3>1, <3>4, <3>6, ListGrows DEF k
    <3>8. Mem(EntryHolding(c, d, k)) = Region(AllocMemResult(e.lengths[k]), RoundUp(e.lengths[k], Block))
      BY <2>3, <3>4, <3>7, HoldingMemory
    <3>9. IF AllocMemResult(e.lengths[k]) # NULL
          THEN e.lengths[k] > 0 /\ SharedOut(mh_First', mh_Free', With(H, EntryHolding(c, d, k)))
          ELSE UNCHANGED <<mh_First, mh_Free>>
      BY <1>1, <1>2, <2>2, <2>4, <3>8, AllocMemShares
    <3>10. CASE a = NULL
      <4>1. EntryHoldings(c, d) = EntryHoldings(c, e)
        BY <2>7, <3>7, <3>10
      <4> QED BY <1>6, <2>3, <2>4, <3>4, <3>5, <3>9, <3>10, <4>1
    <3>11. CASE a # NULL
      BY <1>7, <2>3, <2>4, <3>4, <3>5, <3>7, <3>9, <3>11
    <3> QED BY <3>10, <3>11
  <2> QED BY <2>6, <2>7
<1>12. ASSUME AllocEntryReturn(c) \/ FreeEntry(c) PROVE Shared'
  <2>1. PICK s \in {"done", "free"} : SetEntry(c, [e EXCEPT !.at = s])
    BY <1>3, <1>12 DEF AllocEntryReturn, FreeEntry
  <2>2. PICK d : d = [e EXCEPT !.at = s]
    OBVIOUS
  <2>3. d \in Entries /\ d.at = s /\ d.ml = e.ml /\ d.lengths = e.lengths /\ d.addrs = e.addrs
    BY <2>1, <2>2 DEF Entries
  <2>4. e.at # "none" /\ UNCHANGED <<mh_First, mh_Free, memBlocks, memPool>>
    BY <1>3, <1>12 DEF AllocEntryReturn, FreeEntry
  <2>5. e # NoEntry /\ d # NoEntry
    BY <1>5, <2>1, <2>3, <2>4
  <2>6. EntryHoldings(c, d) = EntryHoldings(c, e)
    BY <2>3, <2>5, ListKeepsParts
  <2> QED BY <1>6, <2>1, <2>2, <2>3, <2>4, <2>6
<1>13. ASSUME FreeEntryNext(c) PROVE Shared'
  <2>1. /\ e.at = "free" /\ e.addrs # <<>> /\ FreeMem(Head(e.addrs), Head(e.lengths))
        /\ SetEntry(c, [e EXCEPT !.addrs = Tail(@), !.lengths = Tail(@)])
        /\ UNCHANGED <<memBlocks, memPool>>
    BY <1>3, <1>13 DEF FreeEntryNext
  <2>2. /\ Tail(e.addrs) \in Seq(Nat) /\ Tail(e.lengths) \in Seq(Nat)
        /\ Head(e.addrs) = e.addrs[1] /\ Head(e.lengths) = e.lengths[1]
        /\ e.addrs[1] \in Nat /\ e.lengths[1] \in Nat
    BY <1>4, <2>1
  <2>3. PICK s, t : s = Tail(e.addrs) /\ t = Tail(e.lengths)
    OBVIOUS
  <2>4. PICK d : d = [e EXCEPT !.addrs = s, !.lengths = t]
    OBVIOUS
  <2>5. d \in Entries /\ d.at = "free" /\ d.ml = e.ml /\ d.lengths = t /\ d.addrs = s
    BY <2>1, <2>2, <2>3, <2>4 DEF Entries
  <2>6. SetEntry(c, d)
    BY <2>1, <2>3, <2>4
  <2>7. e # NoEntry /\ d # NoEntry
    BY <1>5, <2>1, <2>5
  <2>8. IF e.lengths[1] > 0
        THEN /\ EntryHolding(c, e, 1) \in EntryHoldings(c, e)
             /\ EntryHoldings(c, d) = Without(EntryHoldings(c, e), EntryHolding(c, e, 1))
        ELSE EntryHoldings(c, d) = EntryHoldings(c, e)
    BY <1>4, <2>1, <2>3, <2>5, <2>7, ListShrinks
  <2>9. CASE e.lengths[1] > 0
    <3>1. EntryHolding(c, e, 1) \in H
      BY <1>9, <2>8, <2>9
    <3>2. Mem(EntryHolding(c, e, 1)) = Region(e.addrs[1], RoundUp(e.lengths[1], Block))
      BY HoldingMemory, Zenon
    <3>3. SharedOut(mh_First', mh_Free', Without(H, EntryHolding(c, e, 1)))
      BY <1>1, <1>2, <2>1, <2>2, <2>9, <3>1, <3>2, FreeMemShares
    <3> QED BY <1>8, <2>1, <2>5, <2>6, <2>8, <2>9, <3>3
  <2>10. CASE ~(e.lengths[1] > 0)
    <3>1. FreeMem(Head(e.addrs), 0)
      BY <2>1, <2>2, <2>10
    <3>2. UNCHANGED <<mh_First, mh_Free>>
      BY <3>1, FreeNothing
    <3> QED BY <1>6, <2>1, <2>5, <2>6, <2>8, <2>10, <3>2
  <2> QED BY <2>9, <2>10
<1>14. ASSUME FreeEntryReturn(c) PROVE Shared'
  <2>1. /\ e.at = "free" /\ e.addrs = <<>> /\ FreeMem(e.ml, MemListSize)
        /\ SetEntry(c, NoEntry) /\ UNCHANGED <<memBlocks, memPool>>
    BY <1>3, <1>14 DEF FreeEntryReturn
  <2>2. e # NoEntry /\ NoEntry \in Entries
    BY <1>5, <2>1 DEF NoEntry, Entries, NULL
  <2>3. ListHolding(c, e) \in EntryHoldings(c, e)
        /\ EntryHoldings(c, NoEntry) = Without(EntryHoldings(c, e), ListHolding(c, e))
    BY <2>1, <2>2, ListEnds
  <2>4. Mem(ListHolding(c, e)) = Region(e.ml, RoundUp(MemListSize, Block))
    BY HoldingMemory, Zenon
  <2>5. MemListSize \in Nat /\ MemListSize > 0
    BY MemStructsAssumption
  <2>6. ListHolding(c, e) \in H
    BY <1>9, <2>3
  <2>7. SharedOut(mh_First', mh_Free', Without(H, ListHolding(c, e)))
    BY <1>1, <1>2, <1>4, <2>1, <2>4, <2>5, <2>6, FreeMemShares
  <2> QED BY <1>8, <2>1, <2>2, <2>3, <2>7
<1> QED BY <1>10, <1>11, <1>12, <1>13, <1>14

\* A block comes out of puddle k: only what that puddle has used changes.
LEMMA PuddleGives ==
    ASSUME MemIInv, NEW size \in MemSizes, AllocPooledHere(size)
    PROVE  \E k \in 1 .. Len(memPool.puddles), n \in Nat :
              /\ n = RoundUp(size, Block) /\ n > 0
              /\ memPool.at = "open" /\ memPool'.at = "open"
              /\ Room(memPool.puddles[k]) >= n
              /\ HandOut(Data(memPool.puddles[k]) + memPool.puddles[k].pp_BytesUsed, n)
              /\ UNCHANGED <<mh_First, mh_Free, memBlocks, memEntry>>
              /\ memPool'.header = memPool.header /\ Len(memPool'.puddles) = Len(memPool.puddles)
              /\ \A i \in 1 .. Len(memPool.puddles) :
                    /\ memPool'.puddles[i].addr = memPool.puddles[i].addr
                    /\ memPool'.puddles[i].pp_Size = memPool.puddles[i].pp_Size
                    /\ memPool'.puddles[i].pp_BytesUsed
                            = IF i = k THEN memPool.puddles[i].pp_BytesUsed + n
                              ELSE memPool.puddles[i].pp_BytesUsed
<1>1. /\ memPool \in PoolStates /\ memPool.puddles \in Seq(Puddles)
      /\ \A i \in 1 .. Len(memPool.puddles) : memPool.puddles[i] \in Puddles
  BY InvariantParts, PoolTypes DEF PoolPart
<1>2. PICK n \in Nat : n = RoundUp(size, Block) /\ n > 0
  BY MemSizesAssumption, RoundUpBlock DEF RoundUp, Block
<1>3. PICK k \in 1 .. Len(memPool.puddles) :
          /\ memPool.at = "open" /\ Room(memPool.puddles[k]) >= n
          /\ HandOut(Data(memPool.puddles[k]) + memPool.puddles[k].pp_BytesUsed, n)
          /\ memPool' = [memPool EXCEPT !.puddles[k].pp_BytesUsed = @ + n]
          /\ UNCHANGED <<mh_First, mh_Free, memBlocks, memEntry>>
  BY <1>2 DEF AllocPooledHere
<1>4. PICK u \in Puddles : u = memPool.puddles[k]
  BY <1>1
<1>5. PICK m : m = u.pp_BytesUsed + n
  OBVIOUS
<1>6. PICK v : v = [u EXCEPT !.pp_BytesUsed = m]
  OBVIOUS
<1>7. v.addr = u.addr /\ v.pp_Size = u.pp_Size /\ v.pp_BytesUsed = m
  BY <1>6 DEF Puddles
<1>8. PICK s : s = [memPool.puddles EXCEPT ![k] = v]
  OBVIOUS
<1>9. Len(s) = Len(memPool.puddles)
      /\ \A i \in 1 .. Len(memPool.puddles) : s[i] = IF i = k THEN v ELSE memPool.puddles[i]
  BY <1>1, <1>8
<1>10. memPool' = [memPool EXCEPT !.puddles = s]
  BY <1>3, <1>4, <1>5, <1>6, <1>8
<1>11. memPool'.header = memPool.header /\ memPool'.at = memPool.at /\ memPool'.puddles = s
  BY <1>1, <1>10 DEF PoolStates
<1>12. \A i \in 1 .. Len(memPool.puddles) :
            /\ memPool'.puddles[i].addr = memPool.puddles[i].addr
            /\ memPool'.puddles[i].pp_Size = memPool.puddles[i].pp_Size
            /\ memPool'.puddles[i].pp_BytesUsed
                    = IF i = k THEN memPool.puddles[i].pp_BytesUsed + n
                      ELSE memPool.puddles[i].pp_BytesUsed
  BY <1>4, <1>5, <1>7, <1>9, <1>11
<1> QED BY <1>2, <1>3, <1>9, <1>11, <1>12

\* A puddle of its own comes to the front of the pool.
LEMMA PuddleComes ==
    ASSUME MemIInv, NEW size \in MemSizes, AllocPooledNew(size)
    PROVE  \E n \in Nat, data \in Nat, u \in Puddles :
              /\ n = RoundUp(size, Block) /\ n > 0 /\ n <= data
              /\ u.addr = AllocMemResult(PoolPuddleSize + data) /\ u.addr # NULL
              /\ u.pp_Size = data /\ u.pp_BytesUsed = n
              /\ memPool.at = "open" /\ memPool'.at = "open" /\ memPool'.header = memPool.header
              /\ memPool'.puddles = <<u>> \o memPool.puddles
              /\ HandOut(u.addr + PoolPuddleSize, n)
              /\ AllocMem(PoolPuddleSize + data)
              /\ UNCHANGED <<memBlocks, memEntry>>
<1> DEFINE data0 == IF RoundUp(size, Block) >= ThreshSize \/ RoundUp(size, Block) > PuddleSize
                    THEN RoundUp(size, Block) ELSE PuddleSize
<1>1. memPool \in PoolStates
  BY InvariantParts, PoolTypes DEF PoolPart
<1>2. PICK n \in Nat : n = RoundUp(size, Block) /\ n > 0
  BY MemSizesAssumption, RoundUpBlock DEF RoundUp, Block
<1>3. PICK data \in Nat : data = data0 /\ n <= data
  BY <1>2, MemStructsAssumption
<1>4. PICK a \in Nat : a = AllocMemResult(PoolPuddleSize + data)
  BY InvariantParts, AllocMemKeeps, MemStructsAssumption DEF ListPart
<1>5. PICK u : u = [addr |-> a, pp_Size |-> data, pp_BytesUsed |-> n]
  OBVIOUS
<1>6. u \in Puddles /\ u.addr = a /\ u.pp_Size = data /\ u.pp_BytesUsed = n
  BY <1>5 DEF Puddles
<1>7. /\ memPool.at = "open" /\ a # NULL
      /\ memPool' = [memPool EXCEPT !.puddles = <<u>> \o @]
      /\ HandOut(a + PoolPuddleSize, n) /\ AllocMem(PoolPuddleSize + data)
      /\ UNCHANGED <<memBlocks, memEntry>>
  BY <1>2, <1>3, <1>4, <1>5 DEF AllocPooledNew
<1>8. PICK s : s = <<u>> \o memPool.puddles
  OBVIOUS
<1>9. memPool' = [memPool EXCEPT !.puddles = s]
  BY <1>7, <1>8
<1>10. memPool'.header = memPool.header /\ memPool'.at = memPool.at /\ memPool'.puddles = s
  BY <1>1, <1>9 DEF PoolStates
<1> QED BY <1>2, <1>3, <1>4, <1>6, <1>7, <1>8, <1>10

\* The pool calls.
LEMMA PoolsStayShared ==
  ASSUME MemIInv, Shared,
         \/ \E size \in MemSizes : AllocPooledHere(size) \/ AllocPooledNew(size)
         \/ CreatePool \/ DeletePool \/ DeletePuddle \/ DeletePoolReturn
  PROVE  Shared'
<1>1. FreeList(mh_First) /\ mh_Free \in Int /\ memPool \in PoolStates
  BY InvariantParts DEF ListPart, PoolPart
<1> DEFINE H == Held(memBlocks, memEntry, memPool)
<1>2. SharedOut(mh_First, mh_Free, H)
  BY SharedParts
<1>3. PICK p \in PoolStates : p = memPool
  BY <1>1
<1>4. p.header \in Nat /\ p.puddles \in Seq(Puddles)
  BY DEF PoolStates
<1>5. MemIInv' /\ memPool' \in PoolStates
  <2>1. MemIInv'
    BY PoolsKeep
  <2> QED BY <2>1, InvariantParts DEF PoolPart
<1>6. PICK q \in PoolStates : q = memPool'
  BY <1>5
<1>7. NoPool.at = "none" /\ NoPool.puddles = <<>>
  BY DEF NoPool
<1>8. \A h \in PoolHoldings(p) : h \in H
  BY <1>3, HeldMember, Zenon
<1>9. ASSUME UNCHANGED <<mh_First, mh_Free, memBlocks, memEntry>>, PoolHoldings(q) = PoolHoldings(p)
      PROVE  Shared'
  <2>1. Held(memBlocks, memEntry, q) = Held(memBlocks, memEntry, p)
    BY <1>9 DEF Held
  <2> QED BY <1>2, <1>3, <1>6, <1>9, <2>1, SharedParts
<1>10. ASSUME UNCHANGED <<memBlocks, memEntry>>, NEW h, PoolHoldings(q) = With(PoolHoldings(p), h),
              SharedOut(mh_First', mh_Free', With(H, h))
       PROVE  Shared'
  <2>1. Held(memBlocks, memEntry, q) = With(Held(memBlocks, memEntry, p), h)
    BY <1>10, HeldMorePool
  <2> QED BY <1>3, <1>6, <1>10, <2>1, SharedParts
<1>11. ASSUME UNCHANGED <<memBlocks, memEntry>>, NEW h \in PoolHoldings(p),
              PoolHoldings(q) = Without(PoolHoldings(p), h), SharedOut(mh_First', mh_Free', Without(H, h))
       PROVE  Shared'
  <2>1. Held(memBlocks, memEntry, q) = Without(Held(memBlocks, memEntry, p), h)
    BY <1>11, HeldLessPool
  <2> QED BY <1>3, <1>6, <1>11, <2>1, SharedParts
<1> HIDE DEF H
<1>12. ASSUME NEW size \in MemSizes, AllocPooledHere(size) PROVE Shared'
  <2>1. PICK k \in 1 .. Len(p.puddles) :
            /\ p.at = "open" /\ q.at = "open"
            /\ UNCHANGED <<mh_First, mh_Free, memBlocks, memEntry>>
            /\ q.header = p.header /\ Len(q.puddles) = Len(p.puddles)
            /\ \A i \in 1 .. Len(p.puddles) :
                  q.puddles[i].addr = p.puddles[i].addr /\ q.puddles[i].pp_Size = p.puddles[i].pp_Size
    BY <1>3, <1>6, <1>12, PuddleGives
  <2>2. p # NoPool /\ q # NoPool
    BY <1>7, <2>1
  <2>3. PoolHoldings(q) = PoolHoldings(p)
    BY <2>1, <2>2, PoolKeepsParts
  <2> QED BY <1>9, <2>1, <2>3
<1>13. ASSUME NEW size \in MemSizes, AllocPooledNew(size) PROVE Shared'
  <2>1. PICK data \in Nat, u \in Puddles :
            /\ u.addr = AllocMemResult(PoolPuddleSize + data) /\ u.addr # NULL /\ u.pp_Size = data
            /\ p.at = "open" /\ q.at = "open" /\ q.header = p.header
            /\ q.puddles = <<u>> \o p.puddles
            /\ AllocMem(PoolPuddleSize + data) /\ UNCHANGED <<memBlocks, memEntry>>
    BY <1>3, <1>6, <1>13, PuddleComes
  <2>2. p # NoPool /\ q # NoPool
    BY <1>7, <2>1
  <2>3. q.puddles[1] = u /\ PoolHoldings(q) = With(PoolHoldings(p), PuddleHolding(q, 1))
    BY <2>1, <2>2, PoolGrows
  <2>4. PoolPuddleSize + data \in Nat /\ data + PoolPuddleSize = PoolPuddleSize + data
    BY MemStructsAssumption
  <2>5. Mem(PuddleHolding(q, 1))
            = Region(q.puddles[1].addr, RoundUp(q.puddles[1].pp_Size + PoolPuddleSize, Block))
    BY HoldingMemory, Zenon
  <2>6. Mem(PuddleHolding(q, 1))
            = Region(AllocMemResult(PoolPuddleSize + data), RoundUp(PoolPuddleSize + data, Block))
    BY <2>1, <2>3, <2>4, <2>5
  <2>7. SharedOut(mh_First', mh_Free', With(H, PuddleHolding(q, 1)))
    BY <1>1, <1>2, <2>1, <2>4, <2>6, AllocMemShares
  <2> QED BY <1>10, <2>1, <2>3, <2>7
<1>14. ASSUME CreatePool PROVE Shared'
  <2>1. PICK a : a = AllocMemResult(PoolHeaderSize)
    OBVIOUS
  <2>2. /\ p = NoPool /\ a # NULL /\ AllocMem(PoolHeaderSize)
        /\ q = [header |-> a, puddles |-> <<>>, at |-> "open"]
        /\ UNCHANGED <<memBlocks, memEntry>>
    BY <1>3, <1>6, <1>14, <2>1 DEF CreatePool
  <2>3. PoolHoldings(q) = With(PoolHoldings(p), HeaderHolding(q))
    BY <2>2, PoolStarts
  <2>4. PoolHeaderSize \in Nat
    BY MemStructsAssumption
  <2>5. Mem(HeaderHolding(q)) = Region(q.header, RoundUp(PoolHeaderSize, Block))
    BY HoldingMemory, Zenon
  <2>6. SharedOut(mh_First', mh_Free', With(H, HeaderHolding(q)))
    BY <1>1, <1>2, <2>1, <2>2, <2>4, <2>5, AllocMemShares
  <2> QED BY <1>10, <2>2, <2>3, <2>6
<1>15. ASSUME DeletePool PROVE Shared'
  <2>1. /\ p.at = "open" /\ q = [p EXCEPT !.at = "delete"]
        /\ UNCHANGED <<mh_First, mh_Free, memBlocks, memEntry>>
    BY <1>3, <1>6, <1>15 DEF DeletePool
  <2>2. q.at = "delete" /\ q.header = p.header /\ q.puddles = p.puddles
    BY <2>1 DEF PoolStates
  <2>3. p # NoPool /\ q # NoPool
    BY <1>7, <2>1, <2>2
  <2>4. PoolHoldings(q) = PoolHoldings(p)
    BY <2>2, <2>3, PoolKeepsParts
  <2> QED BY <1>9, <2>1, <2>4
<1>16. ASSUME DeletePuddle PROVE Shared'
  <2> DEFINE puddle == Head(p.puddles)
  <2>1. /\ p.at = "delete" /\ p.puddles # <<>>
        /\ FreeMem(puddle.addr, puddle.pp_Size + PoolPuddleSize)
        /\ q = [p EXCEPT !.puddles = Tail(@)]
        /\ UNCHANGED <<memBlocks, memEntry>>
    BY <1>3, <1>6, <1>16 DEF DeletePuddle
  <2>2. puddle = p.puddles[1] /\ puddle \in Puddles
    BY <1>4, <2>1
  <2>3. q.header = p.header /\ q.at = "delete" /\ q.puddles = Tail(p.puddles)
    BY <2>1 DEF PoolStates
  <2>4. puddle.addr \in Nat /\ puddle.pp_Size + PoolPuddleSize \in Nat
        /\ puddle.pp_Size + PoolPuddleSize > 0
    BY <2>2, MemStructsAssumption DEF Puddles
  <2> HIDE DEF puddle
  <2>5. p # NoPool /\ q # NoPool
    BY <1>7, <2>1, <2>3
  <2>6. /\ PuddleHolding(p, 1) \in PoolHoldings(p)
        /\ PoolHoldings(q) = Without(PoolHoldings(p), PuddleHolding(p, 1))
    BY <2>1, <2>3, <2>5, PoolShrinks
  <2>7. Mem(PuddleHolding(p, 1))
            = Region(p.puddles[1].addr, RoundUp(p.puddles[1].pp_Size + PoolPuddleSize, Block))
    BY HoldingMemory, Zenon
  <2>8. PuddleHolding(p, 1) \in H
    BY <1>8, <2>6
  <2>9. SharedOut(mh_First', mh_Free', Without(H, PuddleHolding(p, 1)))
    BY <1>1, <1>2, <2>1, <2>2, <2>4, <2>7, <2>8, FreeMemShares
  <2> QED BY <1>11, <2>1, <2>6, <2>9
<1>17. ASSUME DeletePoolReturn PROVE Shared'
  <2>1. /\ p.at = "delete" /\ p.puddles = <<>> /\ FreeMem(p.header, PoolHeaderSize)
        /\ q = NoPool /\ UNCHANGED <<memBlocks, memEntry>>
    BY <1>3, <1>6, <1>17 DEF DeletePoolReturn
  <2>2. p # NoPool
    BY <1>7, <2>1
  <2>3. HeaderHolding(p) \in PoolHoldings(p)
        /\ PoolHoldings(q) = Without(PoolHoldings(p), HeaderHolding(p))
    BY <2>1, <2>2, PoolEnds
  <2>4. Mem(HeaderHolding(p)) = Region(p.header, RoundUp(PoolHeaderSize, Block))
    BY HoldingMemory, Zenon
  <2>5. PoolHeaderSize \in Nat /\ PoolHeaderSize > 0
    BY MemStructsAssumption
  <2>6. HeaderHolding(p) \in H
    BY <1>8, <2>3
  <2>7. SharedOut(mh_First', mh_Free', Without(H, HeaderHolding(p)))
    BY <1>1, <1>2, <1>4, <2>1, <2>4, <2>5, <2>6, FreeMemShares
  <2> QED BY <1>11, <2>1, <2>3, <2>7
<1> QED BY <1>12, <1>13, <1>14, <1>15, <1>16, <1>17

-----------------------------------------------------------------------------
(* What the pool hands out, and what AllocEntry() returns.                 *)

\* A puddle has not used more than it has; what the pool has handed out is in
\* what its puddles have used, and no two blocks share an address.
PoolRight(p, blocks) ==
    /\ \A i \in 1 .. Len(p.puddles) : p.puddles[i].pp_BytesUsed <= p.puddles[i].pp_Size
    /\ \A b \in blocks :
          /\ b.size > 0 /\ p.at = "open"
          /\ \E i \in 1 .. Len(p.puddles) :
                Data(p.puddles[i]) <= b.addr /\ End(b) <= Data(p.puddles[i]) + p.puddles[i].pp_BytesUsed
    /\ \A b, d \in blocks, a \in Nat : Within(b, a) /\ Within(d, a) => b = d

\* Two puddles share no address.
LEMMA PuddlesApart ==
    ASSUME NEW list, NEW free, NEW B, NEW E, NEW p \in PoolStates, p # NoPool,
           SharedOut(list, free, Held(B, E, p)),
           NEW i \in 1 .. Len(p.puddles), NEW j \in 1 .. Len(p.puddles), NEW a \in Nat,
           p.puddles[i].addr <= a, a < Data(p.puddles[i]) + p.puddles[i].pp_Size,
           p.puddles[j].addr <= a, a < Data(p.puddles[j]) + p.puddles[j].pp_Size
    PROVE  i = j
<1>1. p.puddles \in Seq(Puddles) /\ Len(p.puddles) \in Nat
  BY DEF PoolStates
<1>2. \A k \in 1 .. Len(p.puddles) : PuddleHolding(p, k) \in Held(B, E, p)
  BY HeldMember, PoolMember
<1>3. ASSUME NEW k \in 1 .. Len(p.puddles),
             p.puddles[k].addr <= a, a < Data(p.puddles[k]) + p.puddles[k].pp_Size
      PROVE  Within(Mem(PuddleHolding(p, k)), a)
  <2>1. PICK u \in Puddles : u = p.puddles[k]
    BY <1>1
  <2>2. u.addr \in Nat /\ u.pp_Size + PoolPuddleSize \in Nat /\ u.pp_Size \in Nat
    BY MemStructsAssumption DEF Puddles
  <2>3. PICK n \in Nat : n = RoundUp(u.pp_Size + PoolPuddleSize, Block) /\ n >= u.pp_Size + PoolPuddleSize
    BY <2>2, RoundUpBlock
  <2>4. Mem(PuddleHolding(p, k)) = Region(p.puddles[k].addr, RoundUp(p.puddles[k].pp_Size + PoolPuddleSize, Block))
    BY HoldingMemory, Zenon
  <2>5. Mem(PuddleHolding(p, k)) = Region(u.addr, n)
    BY <2>1, <2>3, <2>4
  <2>6. Region(u.addr, n).addr = u.addr /\ Region(u.addr, n).size = n
    BY <2>2, <2>3, RegionType
  <2>7. a < u.addr + n /\ u.addr <= a
    BY <1>3, <2>1, <2>2, <2>3, MemStructsAssumption, SMTT(30) DEF Data
  <2> QED BY <2>5, <2>6, <2>7 DEF Within, End
<1>4. Within(Mem(PuddleHolding(p, i)), a) /\ Within(Mem(PuddleHolding(p, j)), a)
  BY <1>3
<1>5. PuddleHolding(p, i) = PuddleHolding(p, j)
  BY <1>2, <1>4 DEF SharedOut
<1>6. PuddleHolding(p, i)[3] = Len(p.puddles) - i /\ PuddleHolding(p, j)[3] = Len(p.puddles) - j
  BY HoldingParts
<1> QED BY <1>1, <1>5, <1>6

\* A block that comes out of unused room of a puddle shares no address with another.
LEMMA PoolStaysRight ==
    ASSUME NEW list, NEW free, NEW B, NEW E, NEW p \in PoolStates, p # NoPool,
           SharedOut(list, free, Held(B, E, p)), p.at = "open",
           NEW blocks, blocks \subseteq Regions, NEW k \in 1 .. Len(p.puddles), NEW used \in Nat,
           NEW n \in Nat, n > 0, p.puddles[k].pp_BytesUsed = used + n,
           \A i \in 1 .. Len(p.puddles) : p.puddles[i].pp_BytesUsed <= p.puddles[i].pp_Size,
           \A b \in blocks :
               /\ b.size > 0
               /\ \E i \in 1 .. Len(p.puddles) :
                     /\ Data(p.puddles[i]) <= b.addr
                     /\ End(b) <= Data(p.puddles[i]) + p.puddles[i].pp_BytesUsed
                     /\ i = k => End(b) <= Data(p.puddles[k]) + used,
           \A b, d \in blocks, a \in Nat : Within(b, a) /\ Within(d, a) => b = d,
           NEW new, new = Region(Data(p.puddles[k]) + used, n)
    PROVE  PoolRight(p, blocks \cup {new})
<1>1. p.puddles \in Seq(Puddles)
  BY DEF PoolStates
<1>2. \A i \in 1 .. Len(p.puddles) :
          p.puddles[i].addr \in Nat /\ p.puddles[i].pp_Size \in Nat /\ p.puddles[i].pp_BytesUsed \in Nat
  <2>1. \A u \in Puddles : u.addr \in Nat /\ u.pp_Size \in Nat /\ u.pp_BytesUsed \in Nat
    BY DEF Puddles
  <2>2. \A i \in 1 .. Len(p.puddles) : p.puddles[i] \in Puddles
    BY <1>1
  <2> QED BY <2>1, <2>2
<1>3. \A i \in 1 .. Len(p.puddles) :
          Data(p.puddles[i]) \in Nat /\ Data(p.puddles[i]) >= p.puddles[i].addr
  BY <1>2, MemStructsAssumption, SMTT(30) DEF Data
<1>4. new.addr = Data(p.puddles[k]) + used /\ new.size = n /\ new.addr \in Nat
  BY <1>3, RegionType
<1>5. Data(p.puddles[k]) <= new.addr /\ End(new) <= Data(p.puddles[k]) + p.puddles[k].pp_BytesUsed
  BY <1>2, <1>3, <1>4 DEF End
<1>6. ASSUME NEW b \in blocks, NEW a \in Nat PROVE ~(Within(b, a) /\ Within(new, a))
  <2>1. SUFFICES ASSUME Within(b, a), Within(new, a) PROVE FALSE
    OBVIOUS
  <2>2. PICK i \in 1 .. Len(p.puddles) :
            /\ Data(p.puddles[i]) <= b.addr
            /\ End(b) <= Data(p.puddles[i]) + p.puddles[i].pp_BytesUsed
            /\ i = k => End(b) <= Data(p.puddles[k]) + used
    OBVIOUS
  <2>3. PICK lo \in Nat, hi \in Nat : lo = b.addr /\ hi = End(b)
    BY DEF Regions, End
  <2>4. lo <= a /\ a < hi /\ Data(p.puddles[k]) + used <= a /\ a < Data(p.puddles[k]) + used + n
    BY <1>3, <1>4, <2>1, <2>3 DEF Within, End
  <2>5. i # k
    BY <1>3, <2>2, <2>3, <2>4
  <2>6. p.puddles[i].addr <= a /\ a < Data(p.puddles[i]) + p.puddles[i].pp_Size
    <3>1. PICK data \in Nat, u \in Nat, size \in Nat, start \in Nat :
              /\ data = Data(p.puddles[i]) /\ u = p.puddles[i].pp_BytesUsed
              /\ size = p.puddles[i].pp_Size /\ start = p.puddles[i].addr
      BY <1>2, <1>3
    <3>2. u <= size /\ start <= data /\ data <= lo /\ hi <= data + u
      BY <1>3, <2>2, <2>3, <3>1
    <3>3. start <= a /\ a < data + size
      BY <2>4, <3>2
    <3> QED BY <3>1, <3>3
  <2>7. p.puddles[k].addr <= a /\ a < Data(p.puddles[k]) + p.puddles[k].pp_Size
    <3>1. PICK data \in Nat, u \in Nat, size \in Nat, start \in Nat :
              /\ data = Data(p.puddles[k]) /\ u = p.puddles[k].pp_BytesUsed
              /\ size = p.puddles[k].pp_Size /\ start = p.puddles[k].addr
      BY <1>2, <1>3
    <3>2. u <= size /\ start <= data /\ u = used + n
      BY <1>3, <3>1
    <3>3. start <= a /\ a < data + size
      BY <2>4, <3>1, <3>2, SMTT(30)
    <3> QED BY <3>1, <3>3
  <2> QED BY <2>5, <2>6, <2>7, PuddlesApart
<1>7. \A b \in blocks \cup {new} :
          /\ b.size > 0 /\ p.at = "open"
          /\ \E i \in 1 .. Len(p.puddles) :
                Data(p.puddles[i]) <= b.addr /\ End(b) <= Data(p.puddles[i]) + p.puddles[i].pp_BytesUsed
  BY <1>4, <1>5
<1>8. \A b, d \in blocks \cup {new}, a \in Nat : Within(b, a) /\ Within(d, a) => b = d
  BY <1>6
<1> QED BY <1>7, <1>8 DEF PoolRight

\* What the pool has handed out stays inside its puddles, and apart.
LEMMA PoolsStayRight ==
  ASSUME MemIInv, Shared, PoolRight(memPool, poolBlocks),
         \/ \E size \in MemSizes : AllocPooledHere(size) \/ AllocPooledNew(size)
         \/ CreatePool \/ DeletePool \/ DeletePuddle \/ DeletePoolReturn
  PROVE  PoolRight(memPool, poolBlocks)'
<1>1. Shared' /\ MemIInv'
  BY PoolsStayShared, PoolsKeep
<1>2. /\ memPool \in PoolStates /\ memPool' \in PoolStates
      /\ poolBlocks \subseteq Regions
  BY <1>1, InvariantParts DEF PoolPart, BlocksPart
<1>3. PICK p \in PoolStates : p = memPool
  BY <1>2
<1>4. PICK q \in PoolStates : q = memPool'
  BY <1>2
<1>5. SharedOut(mh_First', mh_Free', Held(memBlocks', memEntry', q))
  BY <1>1, <1>4, SharedParts
<1>6. PICK blocks \in SUBSET Regions : blocks = poolBlocks
  BY <1>2
<1>7. PICK given : given = poolBlocks'
  OBVIOUS
<1>8. PoolRight(p, blocks)
  BY <1>3, <1>6
<1>9. SUFFICES PoolRight(q, given)
  BY <1>4, <1>7
<1>10. /\ p.puddles \in Seq(Puddles)
       /\ \A i \in 1 .. Len(p.puddles) :
            /\ p.puddles[i] \in Puddles /\ p.puddles[i].addr \in Nat
            /\ p.puddles[i].pp_Size \in Nat /\ p.puddles[i].pp_BytesUsed \in Nat
  BY <1>3, InvariantParts, PoolTypes DEF PoolPart
<1>11. NoPool.at = "none" /\ NoPool.puddles = <<>>
  BY DEF NoPool
<1>12. ASSUME NEW size \in MemSizes, AllocPooledHere(size) PROVE PoolRight(q, given)
  <2>1. PICK k \in 1 .. Len(p.puddles), n \in Nat :
            /\ n > 0 /\ p.at = "open" /\ q.at = "open"
            /\ Room(p.puddles[k]) >= n
            /\ HandOut(Data(p.puddles[k]) + p.puddles[k].pp_BytesUsed, n)
            /\ Len(q.puddles) = Len(p.puddles)
            /\ \A i \in 1 .. Len(p.puddles) :
                  /\ q.puddles[i].addr = p.puddles[i].addr
                  /\ q.puddles[i].pp_Size = p.puddles[i].pp_Size
                  /\ q.puddles[i].pp_BytesUsed = IF i = k THEN p.puddles[i].pp_BytesUsed + n
                                                 ELSE p.puddles[i].pp_BytesUsed
    BY <1>3, <1>4, <1>12, PuddleGives, SMTT(30)
  <2>2. q # NoPool
    BY <1>11, <2>1
  <2>3. PICK used \in Nat : used = p.puddles[k].pp_BytesUsed
    BY <1>10
  <2>4. \A i \in 1 .. Len(p.puddles) : Data(q.puddles[i]) = Data(p.puddles[i]) /\ Data(p.puddles[i]) \in Nat
    BY <1>10, <2>1, MemStructsAssumption DEF Data
  <2>5. PICK new : new = Region(Data(q.puddles[k]) + used, n)
    OBVIOUS
  <2>6. given = blocks \cup {new}
    BY <1>6, <1>7, <2>1, <2>3, <2>4, <2>5 DEF HandOut
  <2>7. q.puddles[k].pp_BytesUsed = used + n /\ k \in 1 .. Len(q.puddles)
    BY <2>1, <2>3
  <2>8. \A i \in 1 .. Len(q.puddles) : q.puddles[i].pp_BytesUsed <= q.puddles[i].pp_Size
    BY <1>8, <1>10, <2>1 DEF PoolRight, Room
  <2>9. \A b \in blocks :
            /\ b.size > 0
            /\ \E i \in 1 .. Len(q.puddles) :
                  /\ Data(q.puddles[i]) <= b.addr
                  /\ End(b) <= Data(q.puddles[i]) + q.puddles[i].pp_BytesUsed
                  /\ i = k => End(b) <= Data(q.puddles[k]) + used
    <3> TAKE b \in blocks
    <3>1. b.size > 0
      BY <1>8 DEF PoolRight
    <3>2. PICK i \in 1 .. Len(p.puddles) :
              Data(p.puddles[i]) <= b.addr /\ End(b) <= Data(p.puddles[i]) + p.puddles[i].pp_BytesUsed
      BY <1>8 DEF PoolRight
    <3>3. End(b) \in Nat
      BY DEF Regions, End
    <3>4. End(b) <= Data(q.puddles[i]) + q.puddles[i].pp_BytesUsed
      BY <1>10, <2>1, <2>4, <3>2, <3>3
    <3>5. i = k => End(b) <= Data(q.puddles[k]) + used
      BY <2>3, <2>4, <3>2
    <3> QED BY <2>1, <2>4, <3>1, <3>2, <3>4, <3>5
  <2>10. \A b, d \in blocks, a \in Nat : Within(b, a) /\ Within(d, a) => b = d
    BY <1>8 DEF PoolRight
  <2>11. PoolRight(q, blocks \cup {new})
    BY <1>5, <2>1, <2>2, <2>5, <2>7, <2>8, <2>9, <2>10, PoolStaysRight
  <2> QED BY <2>6, <2>11
<1>13. ASSUME NEW size \in MemSizes, AllocPooledNew(size) PROVE PoolRight(q, given)
  <2>1. PICK n \in Nat, data \in Nat, u \in Puddles :
            /\ n > 0 /\ n <= data /\ u.pp_Size = data /\ u.pp_BytesUsed = n
            /\ p.at = "open" /\ q.at = "open" /\ q.header = p.header
            /\ q.puddles = <<u>> \o p.puddles
            /\ HandOut(u.addr + PoolPuddleSize, n)
    BY <1>3, <1>4, <1>13, PuddleComes
  <2>2. p # NoPool /\ q # NoPool
    BY <1>11, <2>1
  <2>3. /\ Len(q.puddles) = Len(p.puddles) + 1 /\ q.puddles[1] = u
        /\ \A i \in 1 .. Len(p.puddles) : q.puddles[i + 1] = p.puddles[i]
    BY <2>1, <2>2, PoolGrows
  <2>4. u.addr \in Nat /\ Data(u) = u.addr + PoolPuddleSize /\ Data(u) \in Nat /\ Data(u) + 0 = Data(u)
    BY MemStructsAssumption DEF Puddles, Data
  <2>5. PICK new : new = Region(Data(u) + 0, n)
    OBVIOUS
  <2>6. given = blocks \cup {new}
    BY <1>6, <1>7, <2>1, <2>4, <2>5 DEF HandOut
  <2>7. Len(p.puddles) \in Nat /\ 1 \in 1 .. Len(q.puddles)
        /\ \A i \in 1 .. Len(q.puddles) : i = 1 \/ (i - 1 \in 1 .. Len(p.puddles) /\ (i - 1) + 1 = i)
    BY <1>10, <2>3
  <2>8. \A i \in 1 .. Len(q.puddles) : i = 1 \/ q.puddles[i] = p.puddles[i - 1]
    BY <2>3, <2>7
  <2>9. \A i \in 1 .. Len(q.puddles) : q.puddles[i].pp_BytesUsed <= q.puddles[i].pp_Size
    BY <1>8, <2>1, <2>3, <2>7, <2>8 DEF PoolRight
  <2>10. \A b \in blocks :
            /\ b.size > 0
            /\ \E i \in 1 .. Len(q.puddles) :
                  /\ Data(q.puddles[i]) <= b.addr
                  /\ End(b) <= Data(q.puddles[i]) + q.puddles[i].pp_BytesUsed
                  /\ i = 1 => End(b) <= Data(q.puddles[1]) + 0
    <3> TAKE b \in blocks
    <3>1. b.size > 0
      BY <1>8 DEF PoolRight
    <3>2. PICK i \in 1 .. Len(p.puddles) :
              Data(p.puddles[i]) <= b.addr /\ End(b) <= Data(p.puddles[i]) + p.puddles[i].pp_BytesUsed
      BY <1>8 DEF PoolRight
    <3>3. i + 1 \in 1 .. Len(q.puddles) /\ i + 1 # 1 /\ q.puddles[i + 1] = p.puddles[i]
      BY <2>3, <2>7
    <3> QED BY <3>1, <3>2, <3>3
  <2>11. \A b, d \in blocks, a \in Nat : Within(b, a) /\ Within(d, a) => b = d
    BY <1>8 DEF PoolRight
  <2>12. q.puddles[1].pp_BytesUsed = 0 + n /\ new = Region(Data(q.puddles[1]) + 0, n)
    BY <2>1, <2>3, <2>5
  <2>13. PoolRight(q, blocks \cup {new})
    BY <1>5, <2>1, <2>2, <2>7, <2>9, <2>10, <2>11, <2>12, PoolStaysRight
  <2> QED BY <2>6, <2>13
<1>14. ASSUME CreatePool PROVE PoolRight(q, given)
  <2>1. p.at = "none" /\ q.puddles = <<>> /\ given = blocks
    BY <1>3, <1>4, <1>6, <1>7, <1>11, <1>14 DEF CreatePool
  <2>2. blocks = {}
    BY <1>8, <2>1 DEF PoolRight
  <2> QED BY <2>1, <2>2 DEF PoolRight
<1>15. ASSUME DeletePool PROVE PoolRight(q, given)
  <2>1. q = [p EXCEPT !.at = "delete"] /\ given = {}
    BY <1>3, <1>4, <1>7, <1>15 DEF DeletePool
  <2>2. q.puddles = p.puddles
    BY <2>1 DEF PoolStates
  <2> QED BY <1>8, <2>1, <2>2 DEF PoolRight
<1>16. ASSUME DeletePuddle PROVE PoolRight(q, given)
  <2>1. p.at = "delete" /\ p.puddles # <<>> /\ q = [p EXCEPT !.puddles = Tail(@)] /\ given = blocks
    BY <1>3, <1>4, <1>6, <1>7, <1>16 DEF DeletePuddle
  <2>2. blocks = {}
    BY <1>8, <2>1 DEF PoolRight
  <2>3. q.puddles = Tail(p.puddles)
    BY <2>1 DEF PoolStates
  <2>4. \A i \in 1 .. Len(q.puddles) : i + 1 \in 1 .. Len(p.puddles) /\ q.puddles[i] = p.puddles[i + 1]
    BY <1>10, <2>1, <2>3
  <2> QED BY <1>8, <2>1, <2>2, <2>4 DEF PoolRight
<1>17. ASSUME DeletePoolReturn PROVE PoolRight(q, given)
  <2>1. p.at = "delete" /\ q.puddles = <<>> /\ given = blocks
    BY <1>3, <1>4, <1>6, <1>7, <1>11, <1>17 DEF DeletePoolReturn
  <2>2. blocks = {}
    BY <1>8, <2>1 DEF PoolRight
  <2> QED BY <2>1, <2>2 DEF PoolRight
<1> QED BY <1>12, <1>13, <1>14, <1>15, <1>16, <1>17

\* A list that AllocEntry() has returned is complete.
EntriesRight == \A c \in MemCallers : memEntry[c].at = "done" => Complete(memEntry[c])

\* AllocEntry() returns complete lists only.
LEMMA EntriesStayRight ==
  ASSUME MemIInv, EntriesRight, NEW c \in MemCallers,
         \/ \E lengths \in MemLengths : AllocEntry(c, lengths)
         \/ AllocEntryNext(c) \/ AllocEntryReturn(c)
         \/ FreeEntry(c) \/ FreeEntryNext(c) \/ FreeEntryReturn(c)
  PROVE  EntriesRight'
<1>1. EntryPart
  BY InvariantParts
<1>2. PICK e \in Entries : e = memEntry[c]
  BY <1>1, EntryTypes
<1>3. ASSUME NEW d, SetEntry(c, d), d.at = "done" => Complete(d) PROVE EntriesRight'
  <2>1. memEntry'[c] = d /\ \A x \in MemCallers : x # c => memEntry'[x] = memEntry[x]
    BY <1>1, <1>3, EntryMoves
  <2>2. ASSUME NEW x \in MemCallers, memEntry'[x].at = "done" PROVE Complete(memEntry'[x])
    BY <1>3, <2>1, <2>2 DEF EntriesRight, Complete
  <2> QED BY <2>2 DEF EntriesRight, Complete
<1>4. ASSUME NEW lengths \in MemLengths, AllocEntry(c, lengths) PROVE EntriesRight'
  <2>1. PICK d : SetEntry(c, d) /\ d.at = "alloc"
    BY <1>4 DEF AllocEntry
  <2> QED BY <1>3, <2>1
<1>5. ASSUME AllocEntryNext(c) PROVE EntriesRight'
  <2>1. PICK d : SetEntry(c, d) /\ d.at \in {"alloc", "free"}
    <3>1. e.at = "alloc"
      BY <1>2, <1>5 DEF AllocEntryNext
    <3>2. \/ SetEntry(c, [e EXCEPT !.at = "free"])
          \/ \E s : SetEntry(c, [e EXCEPT !.addrs = s])
      BY <1>2, <1>5 DEF AllocEntryNext
    <3>3. [e EXCEPT !.at = "free"].at = "free" /\ \A s : [e EXCEPT !.addrs = s].at = "alloc"
      BY <3>1 DEF Entries
    <3> QED BY <3>2, <3>3
  <2> QED BY <1>3, <2>1
<1>6. ASSUME AllocEntryReturn(c) PROVE EntriesRight'
  <2>1. PICK d : d = [e EXCEPT !.at = "done"]
    OBVIOUS
  <2>2. SetEntry(c, d) /\ Complete(e)
    BY <1>2, <1>6, <2>1 DEF AllocEntryReturn
  <2>3. d.addrs = e.addrs /\ d.lengths = e.lengths
    BY <2>1 DEF Entries
  <2> QED BY <1>3, <2>2, <2>3 DEF Complete
<1>7. ASSUME FreeEntry(c) PROVE EntriesRight'
  <2>1. PICK d : d = [e EXCEPT !.at = "free"]
    OBVIOUS
  <2>2. SetEntry(c, d)
    BY <1>2, <1>7, <2>1 DEF FreeEntry
  <2>3. d.at = "free"
    BY <2>1 DEF Entries
  <2> QED BY <1>3, <2>2, <2>3
<1>8. ASSUME FreeEntryNext(c) PROVE EntriesRight'
  <2>1. PICK s, t : s = Tail(e.addrs) /\ t = Tail(e.lengths)
    OBVIOUS
  <2>2. PICK d : d = [e EXCEPT !.addrs = s, !.lengths = t]
    OBVIOUS
  <2>3. SetEntry(c, d) /\ e.at = "free"
    BY <1>2, <1>8, <2>1, <2>2 DEF FreeEntryNext
  <2>4. d.at = "free"
    BY <2>2, <2>3 DEF Entries
  <2> QED BY <1>3, <2>3, <2>4
<1>9. ASSUME FreeEntryReturn(c) PROVE EntriesRight'
  <2>1. SetEntry(c, NoEntry) /\ NoEntry.at = "none"
    BY <1>9 DEF FreeEntryReturn, NoEntry
  <2> QED BY <1>3, <2>1
<1> QED BY <1>4, <1>5, <1>6, <1>7, <1>8, <1>9

\* The inductive invariant of all that follows.
MemShared == MemIInv /\ Shared /\ PoolRight(memPool, poolBlocks) /\ EntriesRight

\* At first nobody holds anything.
LEMMA SharedAtFirst ==
  ASSUME MemInit PROVE MemShared
<1>1. MemIInv
  BY InvariantHoldsAtFirst
<1>2. Held(memBlocks, memEntry, memPool) = {}
  <2>1. \A c \in MemCallers : EntryHoldings(c, memEntry[c]) = {}
    BY DEF MemInit, EntryHoldings
  <2>2. PoolHoldings(memPool) = {}
    BY DEF MemInit, PoolHoldings
  <2>3. \A g : g \notin Held(memBlocks, memEntry, memPool)
    BY <2>1, <2>2, HeldMember DEF MemInit
  <2> QED BY <2>3
<1>3. MemLower \in Nat /\ MemUpper \in Nat /\ MemLower < MemUpper
  BY MemBoundsAssumption
<1>4. mh_First = <<Region(MemLower, MemUpper - MemLower)>> /\ mh_Free = MemUpper - MemLower
  BY DEF MemInit
<1>5. \A a \in Nat : IsFree(mh_First, a) <=> a \in MemLower .. MemUpper - 1
  <2>1. PICK r : r = Region(MemLower, MemUpper - MemLower)
    OBVIOUS
  <2>2. r.addr = MemLower /\ r.size = MemUpper - MemLower
    BY <1>3, <2>1, RegionType
  <2>3. mh_First = <<r>> /\ Len(mh_First) = 1 /\ mh_First[1] = r
    BY <1>4, <2>1
  <2>4. \A a \in Nat : IsFree(mh_First, a) <=> r.addr <= a /\ a < End(r)
    BY <2>3 DEF IsFree
  <2> QED BY <1>3, <2>2, <2>4 DEF End
<1>6. Cardinality(FreeAddresses(mh_First)) = mh_Free
  <2>1. FreeAddresses(mh_First) = MemLower .. MemUpper - 1
    BY <1>3, <1>5 DEF FreeAddresses
  <2>2. PICK lo \in Int, hi \in Int : lo = MemLower /\ hi = MemUpper - 1
    BY <1>3
  <2>3. Cardinality(lo .. hi) = IF lo > hi THEN 0 ELSE hi - lo + 1
    BY FS_Interval, Zenon
  <2>4. (IF lo > hi THEN 0 ELSE hi - lo + 1) = MemUpper - MemLower
    BY <1>3, <2>2
  <2> QED BY <1>4, <2>1, <2>2, <2>3, <2>4
<1>7. SharedOut(mh_First, mh_Free, {})
  BY <1>3, <1>5, <1>6 DEF SharedOut
<1>8. Shared
  BY <1>2, <1>7, SharedParts
<1>9. memPool.puddles = <<>> /\ poolBlocks = {} /\ \A c \in MemCallers : memEntry[c].at = "none"
  BY DEF MemInit, NoPool, NoEntry
<1>10. PoolRight(memPool, poolBlocks) /\ EntriesRight
  BY <1>9 DEF PoolRight, EntriesRight
<1> QED BY <1>1, <1>8, <1>10 DEF MemShared

\* Every step keeps the memory shared out.
LEMMA SharedStays ==
  ASSUME MemShared, [MemNext]_memVars, Aligned(AbsUnit) PROVE MemShared'
<1> USE DEF MemShared
<1>1. CASE UNCHANGED memVars
  <2>1. UNCHANGED <<mh_First, mh_Free, memBlocks, memEntry, memPool, poolBlocks>>
    BY <1>1 DEF memVars
  <2>2. Shared' /\ PoolRight(memPool, poolBlocks)'
    BY <2>1, SharedParts
  <2>3. EntriesRight'
    BY <2>1 DEF EntriesRight, Complete
  <2>4. MemIInv'
    BY <2>1 DEF MemIInv, MemTypeOK, FreeListSorted, EntriesInRange
  <2> QED BY <2>2, <2>3, <2>4
<1>2. CASE \/ \E size \in MemSizes : MemAlloc(size)
           \/ \E r \in AbsRegions : MemAllocAbs(r.addr, r.size)
           \/ \E b \in memBlocks : MemFree(b)
           \/ \E a \in MemLower .. MemUpper - 1, size \in MemSizes :
                 Aligned(a) /\ MemFreeWrongly(a, size)
  <2>1. UNCHANGED <<memEntry, memPool, poolBlocks>>
    BY <1>2 DEF MemAlloc, MemAllocAbs, MemFree, MemFreeWrongly
  <2>2. MemIInv'
    BY <1>2, BlocksKeep, Zenon
  <2>3. Shared'
    BY <1>2, BlocksStayShared, Zenon
  <2>4. PoolRight(memPool, poolBlocks)' /\ EntriesRight'
    BY <2>1 DEF EntriesRight, Complete
  <2> QED BY <2>2, <2>3, <2>4
<1>3. CASE \E c \in MemCallers :
              \/ \E lengths \in MemLengths : AllocEntry(c, lengths)
              \/ AllocEntryNext(c) \/ AllocEntryReturn(c)
              \/ FreeEntry(c) \/ FreeEntryNext(c) \/ FreeEntryReturn(c)
  <2>1. UNCHANGED <<memPool, poolBlocks>>
    BY <1>3 DEF AllocEntry, AllocEntryNext, AllocEntryReturn, FreeEntry, FreeEntryNext, FreeEntryReturn
  <2>2. MemIInv'
    BY <1>3, EntriesKeep, Zenon
  <2>3. Shared'
    BY <1>3, EntriesStayShared, Zenon
  <2>4. EntriesRight'
    BY <1>3, EntriesStayRight, Zenon
  <2>5. PoolRight(memPool, poolBlocks)'
    BY <2>1
  <2> QED BY <2>2, <2>3, <2>4, <2>5
<1>4. CASE \/ \E size \in MemSizes : AllocPooledHere(size) \/ AllocPooledNew(size)
           \/ CreatePool \/ DeletePool \/ DeletePuddle \/ DeletePoolReturn
  <2>1. UNCHANGED memEntry
    BY <1>4 DEF AllocPooledHere, AllocPooledNew, CreatePool, DeletePool, DeletePuddle, DeletePoolReturn
  <2>2. MemIInv'
    BY <1>4, PoolsKeep, Zenon
  <2>3. Shared'
    BY <1>4, PoolsStayShared, Zenon
  <2>4. PoolRight(memPool, poolBlocks)'
    BY <1>4, PoolsStayRight, Zenon
  <2>5. EntriesRight'
    BY <2>1 DEF EntriesRight, Complete
  <2> QED BY <2>2, <2>3, <2>4, <2>5
<1> QED BY <1>1, <1>2, <1>3, <1>4, Zenon DEF MemNext

\* Every address of the memory always has one holder or is free, when AllocAbs()
\* is called for multiples of MEM_BLOCKSIZE.
THEOREM MemoryStaysShared ==
    ASSUME Aligned(AbsUnit) PROVE MemSpec => []MemShared
<1>1. MemInit => MemShared
  BY SharedAtFirst
<1>2. MemShared /\ [MemNext]_memVars => MemShared'
  BY SharedStays
<1> QED BY <1>1, <1>2, PTL DEF MemSpec

\* What is used is what somebody holds.
LEMMA UsedIsHeld ==
    ASSUME MemIInv, Shared
    PROVE  \A r : r \in Used <=> \E h \in Held(memBlocks, memEntry, memPool) : r = Mem(h)
<1> DEFINE H == Held(memBlocks, memEntry, memPool)
<1>1. BlocksPart /\ EntryPart /\ PoolPart
  BY InvariantParts
<1>2. SharedOut(mh_First, mh_Free, H)
  BY SharedParts
<1>3. \A r : r \in UNION { Given(b.addr, b.size) : b \in memBlocks }
             <=> \E b \in memBlocks : r = Mem(BlockHolding(b))
  <2>1. ASSUME NEW b \in memBlocks PROVE b.size # 0
    <3>1. BlockHolding(b) \in H
      BY HeldMember, Zenon
    <3>2. Mem(BlockHolding(b)) = Region(b.addr, RoundUp(b.size, Block))
      BY HoldingMemory, Zenon
    <3>3. Region(b.addr, RoundUp(b.size, Block)).size > 0
      BY <1>2, <3>1, <3>2, HeldInside
    <3>4. RoundUp(b.size, Block) > 0
      BY <3>3 DEF Region
    <3> QED BY <3>4 DEF RoundUp, Block
  <2>2. \A b \in memBlocks : Given(b.addr, b.size) = {Mem(BlockHolding(b))}
    BY <2>1, HoldingMemory DEF Given
  <2> QED BY <2>2
<1>4. ASSUME NEW c \in MemCallers, NEW r
      PROVE  r \in EntryRegions(c) <=> \E h \in EntryHoldings(c, memEntry[c]) : r = Mem(h)
  <2>1. PICK e \in Entries : e = memEntry[c]
    BY <1>1, EntryTypes
  <2>2. e.addrs \in Seq(Nat) /\ e.lengths \in Seq(Nat) /\ Len(e.addrs) <= Len(e.lengths)
    BY <1>1, <2>1, EntryTypes
  <2>3. \A i \in 1 .. Len(e.addrs) : e.lengths[i] \in Nat
    BY <2>2
  <2>4. \A i \in 1 .. Len(e.addrs) : Given(e.addrs[i], e.lengths[i])
            = IF e.lengths[i] > 0 THEN {Mem(EntryHolding(c, e, i))} ELSE {}
    <3> TAKE i \in 1 .. Len(e.addrs)
    <3>1. Mem(EntryHolding(c, e, i)) = Region(e.addrs[i], RoundUp(e.lengths[i], Block))
      BY HoldingMemory, Zenon
    <3>2. e.lengths[i] > 0 <=> ~(e.lengths[i] = 0)
      BY <2>3
    <3> QED BY <3>1, <3>2, Zenon DEF Given
  <2>5. Given(e.ml, MemListSize) = {Mem(ListHolding(c, e))}
    BY HoldingMemory, MemStructsAssumption DEF Given
  <2>6. CASE e = NoEntry
    BY <2>1, <2>6 DEF EntryRegions, EntryHoldings
  <2>7. CASE e # NoEntry
    <3>1. r \in EntryRegions(c) <=> r \in Given(e.ml, MemListSize)
                    \/ \E i \in 1 .. Len(e.addrs) : r \in Given(e.addrs[i], e.lengths[i])
      BY <2>1, <2>7 DEF EntryRegions
    <3>2. r \in EntryRegions(c) <=> r = Mem(ListHolding(c, e))
                    \/ \E i \in 1 .. Len(e.addrs) : e.lengths[i] > 0 /\ r = Mem(EntryHolding(c, e, i))
      BY <2>4, <2>5, <3>1
    <3>3. \A h : h \in EntryHoldings(c, e) <=> h = ListHolding(c, e)
                    \/ \E i \in 1 .. Len(e.addrs) : e.lengths[i] > 0 /\ h = EntryHolding(c, e, i)
      BY <2>7 DEF EntryHoldings
    <3>4. (\E h \in EntryHoldings(c, e) : r = Mem(h)) <=> r = Mem(ListHolding(c, e))
                    \/ \E i \in 1 .. Len(e.addrs) : e.lengths[i] > 0 /\ r = Mem(EntryHolding(c, e, i))
      BY <3>3
    <3> QED BY <2>1, <3>2, <3>4
  <2> QED BY <2>6, <2>7
<1>5. ASSUME NEW r
      PROVE  r \in PoolRegions <=> \E h \in PoolHoldings(memPool) : r = Mem(h)
  <2>1. PICK p \in PoolStates : p = memPool
    BY <1>1 DEF PoolPart
  <2>2. \A i \in 1 .. Len(p.puddles) : p.puddles[i].pp_Size \in Nat
    BY <1>1, <2>1, PoolTypes
  <2>3. \A i \in 1 .. Len(p.puddles) :
            Given(p.puddles[i].addr, p.puddles[i].pp_Size + PoolPuddleSize) = {Mem(PuddleHolding(p, i))}
    BY <2>2, HoldingMemory, MemStructsAssumption DEF Given
  <2>4. Given(p.header, PoolHeaderSize) = {Mem(HeaderHolding(p))}
    BY HoldingMemory, MemStructsAssumption DEF Given
  <2>5. CASE p = NoPool
    BY <2>1, <2>5 DEF PoolRegions, PoolHoldings
  <2>6. CASE p # NoPool
    <3>1. r \in PoolRegions <=> r \in Given(p.header, PoolHeaderSize)
              \/ \E i \in 1 .. Len(p.puddles) :
                    r \in Given(p.puddles[i].addr, p.puddles[i].pp_Size + PoolPuddleSize)
      BY <2>1, <2>6 DEF PoolRegions
    <3>2. r \in PoolRegions <=> r = Mem(HeaderHolding(p))
              \/ \E i \in 1 .. Len(p.puddles) : r = Mem(PuddleHolding(p, i))
      BY <2>3, <2>4, <3>1
    <3>3. \A h : h \in PoolHoldings(p)
              <=> h = HeaderHolding(p) \/ \E i \in 1 .. Len(p.puddles) : h = PuddleHolding(p, i)
      BY <2>6, PoolMember
    <3>4. (\E h \in PoolHoldings(p) : r = Mem(h)) <=> r = Mem(HeaderHolding(p))
              \/ \E i \in 1 .. Len(p.puddles) : r = Mem(PuddleHolding(p, i))
      BY <3>3
    <3> QED BY <2>1, <3>2, <3>4
  <2> QED BY <2>5, <2>6
<1>6. ASSUME NEW r
      PROVE  r \in Used <=> \E h \in H : r = Mem(h)
  <2>1. r \in Used <=> \/ r \in UNION { Given(b.addr, b.size) : b \in memBlocks }
                       \/ \E c \in MemCallers : r \in EntryRegions(c)
                       \/ r \in PoolRegions
    <3>1. r \in Used <=> r \in BlockRegions \/ r \in ListRegions \/ r \in PoolRegions
      BY DEF Used
    <3>2. r \in ListRegions <=> \E c \in MemCallers : r \in EntryRegions(c)
      BY DEF ListRegions
    <3> QED BY <3>1, <3>2, Zenon DEF BlockRegions
  <2>2. (\E h \in H : r = Mem(h)) <=> \/ \E b \in memBlocks : r = Mem(BlockHolding(b))
                                      \/ \E c \in MemCallers : \E h \in EntryHoldings(c, memEntry[c]) : r = Mem(h)
                                      \/ \E h \in PoolHoldings(memPool) : r = Mem(h)
    BY HeldMember
  <2> QED BY <1>3, <1>4, <1>5, <2>1, <2>2, Zenon
<1> QED BY <1>6

\* The addresses of the chunks are those that are free, and no two chunks share one.
LEMMA ChunksAreFree ==
    ASSUME FreeList(mh_First)
    PROVE  /\ \A r \in Chunks : r \in Regions /\ r.size > 0
           /\ \A a \in Nat : IsFree(mh_First, a) <=> \E r \in Chunks : Within(r, a)
           /\ \A r, s \in Chunks, a \in Nat : Within(r, a) /\ Within(s, a) => r = s
<1>1. mh_First \in Seq(Regions) /\ Len(mh_First) \in Nat
  BY DEF FreeList
<1>2. \A i \in 1 .. Len(mh_First) :
          mh_First[i] \in Regions /\ mh_First[i].addr \in Nat /\ mh_First[i].size \in Nat
          /\ mh_First[i].size > 0
  BY <1>1, ChunkType DEF FreeList
<1>3. \A r : r \in Chunks <=> \E i \in 1 .. Len(mh_First) : r = mh_First[i]
  BY DEF Chunks
<1>4. ASSUME NEW i \in 1 .. Len(mh_First), NEW j \in 1 .. Len(mh_First), NEW a \in Nat,
             Within(mh_First[i], a), Within(mh_First[j], a)
      PROVE  i = j
  <2>1. i < j => End(mh_First[i]) < mh_First[j].addr
    BY DEF FreeList
  <2>2. j < i => End(mh_First[j]) < mh_First[i].addr
    BY DEF FreeList
  <2> QED BY <1>2, <1>4, <2>1, <2>2 DEF Within, End
<1>5. \A a \in Nat : IsFree(mh_First, a) <=> \E r \in Chunks : Within(r, a)
  BY <1>3 DEF IsFree, Within
<1>6. \A r, s \in Chunks, a \in Nat : Within(r, a) /\ Within(s, a) => r = s
  BY <1>3, <1>4
<1> QED BY <1>2, <1>3, <1>5, <1>6

\* The addresses of a region are the ones within it.
LEMMA AddressesWithin ==
    ASSUME NEW r \in Regions, NEW a
    PROVE  a \in Addresses(r) <=> a \in Nat /\ Within(r, a)
<1>1. r.addr \in Nat /\ r.size \in Nat
  BY DEF Regions
<1> QED BY <1>1 DEF Addresses, Within, End

\* Memory has one owner, whatever sizes are asked for and whatever is freed, when
\* AllocAbs() is called for multiples of MEM_BLOCKSIZE.
THEOREM MemoryHasOneOwner ==
    ASSUME Aligned(AbsUnit) PROVE MemSpec => []OneOwner
<1>1. ASSUME MemShared PROVE OneOwner
  <2> DEFINE H == Held(memBlocks, memEntry, memPool)
  <2>1. MemIInv /\ Shared /\ FreeList(mh_First)
    BY <1>1, InvariantParts DEF MemShared, ListPart
  <2>2. SharedOut(mh_First, mh_Free, H)
    BY <2>1, SharedParts
  <2>3. \A r : r \in Used <=> \E h \in H : r = Mem(h)
    BY <2>1, UsedIsHeld
  <2> HIDE DEF H
  <2>4. /\ \A r \in Chunks : r \in Regions /\ r.size > 0
        /\ \A a \in Nat : IsFree(mh_First, a) <=> \E r \in Chunks : Within(r, a)
        /\ \A r, s \in Chunks, a \in Nat : Within(r, a) /\ Within(s, a) => r = s
    BY <2>1, ChunksAreFree
  <2>5. MemLower \in Nat /\ MemUpper \in Nat
    BY MemBoundsAssumption
  <2>6. \A r \in Chunks \cup Used : r \in Regions
    BY <2>2, <2>3, <2>4 DEF SharedOut
  <2>7. \A r \in Chunks \cup Used : \A a : a \in Addresses(r) <=> a \in Nat /\ Within(r, a)
    BY <2>6, AddressesWithin
  <2>8. ASSUME NEW r \in Chunks \cup Used PROVE MemLower <= r.addr /\ End(r) <= MemUpper
    <3>1. CASE r \in Used
      BY <2>2, <2>3, <3>1, HeldInside
    <3>2. CASE r \in Chunks
      <4>1. r.addr \in Nat /\ r.size \in Nat /\ r.size > 0
        BY <2>4, <3>2 DEF Regions
      <4>2. /\ r.addr \in Nat /\ Within(r, r.addr)
            /\ r.addr + r.size - 1 \in Nat /\ Within(r, r.addr + r.size - 1)
        BY <4>1 DEF Within, End
      <4>3. \A a \in Nat : Within(r, a) => a \in MemLower .. MemUpper - 1
        BY <2>2, <2>4, <3>2 DEF SharedOut
      <4>4. r.addr \in MemLower .. MemUpper - 1 /\ r.addr + r.size - 1 \in MemLower .. MemUpper - 1
        BY <4>2, <4>3
      <4> QED BY <2>5, <4>1, <4>4 DEF End
    <3> QED BY <3>1, <3>2
  <2>9. ASSUME NEW a \in MemLower .. MemUpper - 1
        PROVE  \E r \in Chunks \cup Used :
                  /\ a \in Addresses(r)
                  /\ \A s \in Chunks \cup Used : a \in Addresses(s) => s = r
    <3>1. a \in Nat
      BY <2>5
    <3>2. CASE IsFree(mh_First, a)
      <4>1. PICK r \in Chunks : Within(r, a)
        BY <2>4, <3>1, <3>2
      <4>2. \A s \in Used : ~Within(s, a)
        BY <2>2, <2>3, <3>1, <3>2 DEF SharedOut
      <4>3. \A s \in Chunks : Within(s, a) => s = r
        BY <2>4, <3>1, <4>1
      <4> QED BY <2>7, <3>1, <4>1, <4>2, <4>3
    <3>3. CASE ~IsFree(mh_First, a)
      <4>1. PICK h \in H : Within(Mem(h), a)
        BY <2>2, <3>1, <3>3 DEF SharedOut
      <4>2. Mem(h) \in Used
        BY <2>3
      <4>3. \A s \in Chunks : ~Within(s, a)
        BY <2>4, <3>1, <3>3
      <4>4. \A s \in Used : Within(s, a) => s = Mem(h)
        BY <2>2, <2>3, <3>1, <4>1 DEF SharedOut
      <4> QED BY <2>7, <3>1, <4>1, <4>2, <4>3, <4>4
    <3> QED BY <3>2, <3>3
  <2>10. Cardinality(UNION { Addresses(r) : r \in Chunks }) = mh_Free
    <3>1. ASSUME NEW a
          PROVE  a \in UNION { Addresses(r) : r \in Chunks } <=> a \in FreeAddresses(mh_First)
      <4>1. a \in UNION { Addresses(r) : r \in Chunks } <=> a \in Nat /\ \E r \in Chunks : Within(r, a)
        BY <2>7
      <4>2. a \in FreeAddresses(mh_First) <=> a \in Nat /\ IsFree(mh_First, a)
        BY <2>2, <2>5 DEF FreeAddresses, SharedOut
      <4> QED BY <2>4, <4>1, <4>2
    <3>2. UNION { Addresses(r) : r \in Chunks } = FreeAddresses(mh_First)
      BY <3>1
    <3> QED BY <2>2, <3>2 DEF SharedOut
  <2> QED BY <2>8, <2>9, <2>10 DEF OneOwner
<1> QED BY <1>1, MemoryStaysShared, PTL

\* What a pool hands out are different parts of its puddles, whatever the sizes
\* of puddles and blocks.
THEOREM PoolBlocksStayApart ==
    ASSUME Aligned(AbsUnit) PROVE MemSpec => []PoolBlocksApart
<1>1. ASSUME MemShared PROVE PoolBlocksApart
  <2>1. PoolRight(memPool, poolBlocks) /\ poolBlocks \subseteq Regions /\ PoolPart
    BY <1>1, InvariantParts DEF MemShared, BlocksPart
  <2>2. ASSUME NEW b \in poolBlocks, NEW d \in poolBlocks, Overlap(b, d) PROVE b = d
    <3>1. /\ b.addr \in Nat /\ b.size \in Nat /\ b.size > 0
          /\ d.addr \in Nat /\ d.size \in Nat /\ d.size > 0
      BY <2>1 DEF PoolRight, Regions
    <3>2. CASE b.addr <= d.addr
      <4>1. Within(b, d.addr) /\ Within(d, d.addr)
        BY <2>2, <3>1, <3>2 DEF Overlap, Within, End
      <4> QED BY <2>1, <3>1, <4>1 DEF PoolRight
    <3>3. CASE d.addr < b.addr
      <4>1. Within(b, b.addr) /\ Within(d, b.addr)
        BY <2>2, <3>1, <3>3 DEF Overlap, Within, End
      <4> QED BY <2>1, <3>1, <4>1 DEF PoolRight
    <3> QED BY <3>1, <3>2, <3>3
  <2>3. ASSUME NEW b \in poolBlocks
        PROVE  \E i \in 1 .. Len(memPool.puddles) :
                  /\ Data(memPool.puddles[i]) <= b.addr
                  /\ End(b) <= Data(memPool.puddles[i]) + memPool.puddles[i].pp_Size
    <3>1. PICK i \in 1 .. Len(memPool.puddles) :
              /\ Data(memPool.puddles[i]) <= b.addr
              /\ End(b) <= Data(memPool.puddles[i]) + memPool.puddles[i].pp_BytesUsed
      BY <2>1 DEF PoolRight
    <3>2. PICK data \in Nat, u \in Nat, size \in Nat, last \in Nat :
              /\ data = Data(memPool.puddles[i]) /\ u = memPool.puddles[i].pp_BytesUsed
              /\ size = memPool.puddles[i].pp_Size /\ last = End(b)
      <4>1. /\ memPool.puddles[i].addr \in Nat /\ memPool.puddles[i].pp_Size \in Nat
            /\ memPool.puddles[i].pp_BytesUsed \in Nat
        BY <2>1, PoolTypes
      <4>2. Data(memPool.puddles[i]) \in Nat
        BY <4>1, MemStructsAssumption DEF Data
      <4>3. End(b) \in Nat
        BY <2>1 DEF Regions, End
      <4> QED BY <4>1, <4>2, <4>3
    <3>3. u <= size
      BY <2>1, <3>2 DEF PoolRight
    <3>4. last <= data + size
      BY <3>1, <3>2, <3>3
    <3> QED BY <3>1, <3>2, <3>4
  <2> QED BY <2>2, <2>3 DEF PoolBlocksApart
<1> QED BY <1>1, MemoryStaysShared, PTL

\* AllocEntry() gives up only when there is no room of the size in one piece, and
\* what it returns is complete, for memory lists of every kind and number.
THEOREM GivesUpWhenFull ==
    ASSUME Aligned(AbsUnit) PROVE MemSpec => GivesUpOnlyWhenFull
<1>1. ASSUME MemShared, NEW n \in Nat, n > 0, RoomFor(n) PROVE Found(n)
  <2> DEFINE H == Held(memBlocks, memEntry, memPool)
  <2>1. MemIInv /\ Shared /\ FreeList(mh_First) /\ mh_Free \in Int
    BY <1>1, InvariantParts DEF MemShared, ListPart
  <2>2. SharedOut(mh_First, mh_Free, H)
    BY <2>1, SharedParts
  <2>3. \A r : r \in Used <=> \E h \in H : r = Mem(h)
    BY <2>1, UsedIsHeld
  <2> HIDE DEF H
  <2>4. MemLower \in Nat /\ MemUpper \in Nat
    BY MemBoundsAssumption
  <2>5. PICK a \in MemLower .. MemUpper - n :
            \A x \in a .. a + n - 1 : \A r \in Used : x \notin Addresses(r)
    BY <1>1 DEF RoomFor
  <2>6. a \in Nat /\ a + n - 1 \in Nat /\ \A x \in a .. a + n - 1 : x \in Nat /\ x \in MemLower .. MemUpper - 1
    BY <1>1, <2>4, <2>5
  <2>7. \A x \in a .. a + n - 1 : IsFree(mh_First, x)
    <3>1. SUFFICES ASSUME NEW x \in a .. a + n - 1, NEW h \in H, Within(Mem(h), x) PROVE FALSE
      BY <2>2, <2>6 DEF SharedOut
    <3>2. Mem(h) \in Used /\ Mem(h) \in Regions
      BY <2>2, <2>3 DEF SharedOut
    <3>3. x \in Addresses(Mem(h))
      BY <2>6, <3>1, <3>2, AddressesWithin
    <3> QED BY <2>5, <3>2, <3>3
  <2>8. mh_First \in Seq(Regions) /\ Len(mh_First) \in Nat
        /\ \A i \in 1 .. Len(mh_First) : mh_First[i].addr \in Nat /\ mh_First[i].size \in Nat
    BY <2>1, ChunkType DEF FreeList
  <2>9. PICK k \in 1 .. Len(mh_First) : mh_First[k].addr <= a /\ a < End(mh_First[k])
    BY <1>1, <2>6, <2>7 DEF IsFree
  <2>10. mh_First[k].size >= n
    <3>1. SUFFICES ASSUME End(mh_First[k]) \in a .. a + n - 1 PROVE FALSE
      BY <1>1, <2>6, <2>8, <2>9 DEF End
    <3>2. PICK j \in 1 .. Len(mh_First) :
              mh_First[j].addr <= End(mh_First[k]) /\ End(mh_First[k]) < End(mh_First[j])
      BY <2>7, <3>1 DEF IsFree
    <3>3. j < k => End(mh_First[j]) < mh_First[k].addr
      BY <2>1 DEF FreeList
    <3>4. k < j => End(mh_First[k]) < mh_First[j].addr
      BY <2>1 DEF FreeList
    <3> QED BY <2>8, <3>2, <3>3, <3>4 DEF End
  <2>11. mh_Free >= n
    <3> DEFINE T == a .. a + n - 1
    <3>1. T \subseteq FreeAddresses(mh_First)
      BY <2>6, <2>7 DEF FreeAddresses
    <3>2. Cardinality(T) = n
      <4>1. PICK lo \in Int, hi \in Int : lo = a /\ hi = a + n - 1
        BY <2>6
      <4>2. Cardinality(lo .. hi) = IF lo > hi THEN 0 ELSE hi - lo + 1
        BY FS_Interval, Zenon
      <4>3. (IF lo > hi THEN 0 ELSE hi - lo + 1) = n
        BY <1>1, <2>6, <4>1
      <4> QED BY <4>1, <4>2, <4>3
    <3> HIDE DEF T
    <3>3. IsFiniteSet(FreeAddresses(mh_First))
      BY FreeFinite, Zenon
    <3>4. Cardinality(T) <= Cardinality(FreeAddresses(mh_First))
      BY <3>1, <3>3, FS_Subset
    <3> QED BY <2>2, <3>2, <3>4 DEF SharedOut
  <2>12. FirstFit(mh_First, n) <= Len(mh_First)
    <3>1. FirstFit(mh_First, n) \in 1 .. Len(mh_First) + 1
          /\ \A i \in 1 .. FirstFit(mh_First, n) - 1 : mh_First[i].size < n
      BY <1>1, <2>8, FirstFitFound
    <3>2. k \notin 1 .. FirstFit(mh_First, n) - 1
      BY <1>1, <2>8, <2>10, <3>1
    <3> QED BY <2>8, <3>1, <3>2
  <2> QED BY <1>1, <2>11, <2>12 DEF Found
<1>2. ASSUME MemShared, NEW c \in MemCallers, [MemNext]_memVars,
             memEntry[c].at = "alloc", memEntry'[c].at = "free"
      PROVE  ~RoomFor(RoundUp(NextLength(memEntry[c]), Block))
  <2>1. MemIInv /\ EntryPart /\ ListPart
    BY <1>2, InvariantParts DEF MemShared
  <2>2. PICK e \in Entries : e = memEntry[c]
    BY <2>1, EntryTypes
  <2>3. memEntry'[c] # memEntry[c]
    BY <1>2
  <2>4. \E d \in MemCallers : AllocEntryNext(d) \/ AllocEntryReturn(d) \/ FreeEntry(d)
                              \/ FreeEntryNext(d) \/ FreeEntryReturn(d)
                              \/ \E lengths \in MemLengths : AllocEntry(d, lengths)
    BY <1>2, <2>3 DEF MemNext, memVars, MemAlloc, MemAllocAbs, MemFree, MemFreeWrongly,
       AllocPooledHere, AllocPooledNew, CreatePool, DeletePool, DeletePuddle, DeletePoolReturn
  <2>5. PICK d \in MemCallers : AllocEntryNext(d) \/ AllocEntryReturn(d) \/ FreeEntry(d)
                                \/ FreeEntryNext(d) \/ FreeEntryReturn(d)
                                \/ \E lengths \in MemLengths : AllocEntry(d, lengths)
    BY <2>4
  <2>6. \E x : SetEntry(d, x)
    BY <2>5 DEF AllocEntry, AllocEntryNext, AllocEntryReturn, FreeEntry, FreeEntryNext, FreeEntryReturn
  <2>7. d = c
    BY <2>1, <2>3, <2>6, EntryMoves
  <2>8. NoEntry.at = "none"
    BY DEF NoEntry
  <2>9. e.at = "alloc"
    BY <1>2, <2>2
  <2>10. ~FreeEntry(c) /\ ~FreeEntryNext(c) /\ ~FreeEntryReturn(c)
         /\ ~ \E lengths \in MemLengths : AllocEntry(c, lengths)
    BY <1>2, <2>8 DEF FreeEntry, FreeEntryNext, FreeEntryReturn, AllocEntry
  <2>11. ~AllocEntryReturn(c)
    <3>1. ASSUME AllocEntryReturn(c) PROVE FALSE
      <4>1. PICK x : x = [e EXCEPT !.at = "done"]
        OBVIOUS
      <4>2. SetEntry(c, x) /\ x.at = "done"
        BY <2>2, <3>1, <4>1 DEF AllocEntryReturn, Entries
      <4>3. memEntry'[c] = x
        BY <2>1, <4>2, EntryMoves
      <4> QED BY <1>2, <4>2, <4>3
    <3> QED BY <3>1
  <2>12. AllocEntryNext(c)
    BY <2>5, <2>7, <2>10, <2>11
  <2>13. NextLength(e) > 0 /\ AllocMemResult(NextLength(e)) = NULL /\ ~Complete(e)
    <3>1. ASSUME ~(NextLength(e) > 0 /\ AllocMemResult(NextLength(e)) = NULL) PROVE FALSE
      <4>1. PICK s : SetEntry(c, [e EXCEPT !.addrs = s])
        BY <2>2, <2>12, <3>1 DEF AllocEntryNext
      <4>2. PICK x : x = [e EXCEPT !.addrs = s]
        OBVIOUS
      <4>3. x.at = "alloc"
        BY <2>9, <4>2 DEF Entries
      <4>4. memEntry'[c] = x
        BY <2>1, <4>1, <4>2, EntryMoves
      <4> QED BY <1>2, <4>3, <4>4
    <3> QED BY <2>2, <2>12, <3>1 DEF AllocEntryNext
  <2>14. e.lengths \in Seq(Nat) /\ e.addrs \in Seq(Nat) /\ Len(e.addrs) <= Len(e.lengths)
    BY <2>1, <2>2, EntryTypes
  <2>15. NextLength(e) \in Nat
    BY <2>13, <2>14 DEF NextLength, Complete
  <2>16. PICK n \in Nat : n = RoundUp(NextLength(e), Block) /\ n > 0
    BY <2>13, <2>15, RoundUpBlock
  <2>17. ASSUME Found(n) PROVE FALSE
    <3>1. AllocMemResult(NextLength(e)) = mh_First[FirstFit(mh_First, n)].addr
      BY <2>16, <2>17 DEF AllocMemResult
    <3>2. PICK h : h = Holding("entry", c, 0, AllocMemResult(NextLength(e)), NextLength(e))
      OBVIOUS
    <3>3. Mem(h) = Region(AllocMemResult(NextLength(e)), RoundUp(NextLength(e), Block))
      BY <3>2 DEF Mem, Holding
    <3>4. AllocMem(NextLength(e))
      BY <2>2, <2>12 DEF AllocEntryNext
    <3>5. FreeList(mh_First) /\ mh_Free \in Int
          /\ SharedOut(mh_First, mh_Free, Held(memBlocks, memEntry, memPool))
      BY <1>2, <2>1, SharedParts DEF ListPart, MemShared
    <3>6. UNCHANGED <<mh_First, mh_Free>>
      BY <2>13, <2>15, <3>3, <3>4, <3>5, AllocMemShares
    <3>7. mh_Free' = mh_Free - n
      BY <2>16, <2>17, <3>4 DEF AllocMem
    <3> QED BY <2>16, <3>5, <3>6, <3>7
  <2> QED BY <1>1, <1>2, <2>2, <2>16, <2>17
<1>3. ASSUME MemShared, MemShared', [MemNext]_memVars
      PROVE  [ \A c \in MemCallers :
                 /\ memEntry[c].at = "alloc" /\ memEntry'[c].at = "free" =>
                       ~RoomFor(RoundUp(NextLength(memEntry[c]), Block))
                 /\ memEntry'[c].at = "done" => Complete(memEntry'[c]) ]_memVars
  <2>1. \A c \in MemCallers : memEntry'[c].at = "done" => Complete(memEntry'[c])
    BY <1>3 DEF MemShared, EntriesRight, Complete
  <2> QED BY <1>2, <1>3, <2>1
<1> QED BY <1>3, MemoryStaysShared, PTL DEF MemSpec, GivesUpOnlyWhenFull

=============================================================================
