--------------------------- MODULE ExecListLemmas ---------------------------
(***************************************************************************)
(* What the list operations of ExecLists return and preserve, for lists of *)
(* any length.  A list is injective when no node is in it twice, sorted    *)
(* when no node is behind one of a lower priority.                         *)
(***************************************************************************)
EXTENDS ExecLists, TLAPS, WellFoundedInduction, SequenceTheorems

Holds(list, n) == \E i \in 1 .. Len(list) : list[i] = n
Distinct(list) == \A i, j \in 1 .. Len(list) : list[i] = list[j] => i = j
Sorted(list, pri) ==
    \A i, j \in 1 .. Len(list) : i < j => pri[list[i]] >= pri[list[j]]

-----------------------------------------------------------------------------
\* Every nonempty set of natural numbers has a least element.
LEMMA LeastElement ==
  ASSUME NEW T, T \subseteq Nat, T # {}
  PROVE  \E x \in T : \A y \in T : x <= y
<1>1. \E x \in T : \A y \in T : ~(<<y, x>> \in OpToRel(<,Nat))
  BY WFMin, NatLessThanWellFounded, Zenon
<1>2. \A x, y \in T : ~(<<y, x>> \in OpToRel(<,Nat)) => x <= y
  BY SMT DEF OpToRel
<1> QED BY <1>1, <1>2

\* InsertAt() makes room at position k and moves the rest up by one.
LEMMA InsertAtElements ==
  ASSUME NEW S, NEW s \in Seq(S), NEW e \in S, NEW k \in 1 .. Len(s) + 1
  PROVE  /\ InsertAt(s, k, e) \in Seq(S)
         /\ Len(InsertAt(s, k, e)) = Len(s) + 1
         /\ \A i \in 1 .. Len(s) + 1 :
               InsertAt(s, k, e)[i] = IF i < k THEN s[i]
                                      ELSE IF i = k THEN e ELSE s[i-1]
<1> DEFINE a == SubSeq(s, 1, k-1)
           b == SubSeq(s, k, Len(s))
           c == a \o <<e>>
<1>1. a \in Seq(S) /\ Len(a) = k-1 /\ \A i \in 1 .. k-1 : a[i] = s[i]
  BY SubSeqProperties
<1>2. b \in Seq(S) /\ Len(b) = Len(s)-k+1 /\ \A i \in 1 .. Len(s)-k+1 : b[i] = s[k+i-1]
  BY SubSeqProperties
<1>3. InsertAt(s,k,e) = c \o b
  BY DEF InsertAt
<1> HIDE DEF a, b
<1>4. <<e>> \in Seq(S) /\ Len(<<e>>) = 1 /\ <<e>>[1] = e
  OBVIOUS
<1>5. /\ c \in Seq(S) /\ Len(c) = k
      /\ \A i \in 1 .. k : c[i] = IF i < k THEN s[i] ELSE e
  BY <1>1, <1>4, ConcatProperties, SMTT(20)
<1> HIDE DEF c
<1>6. /\ c \o b \in Seq(S)
      /\ Len(c \o b) = Len(s) + 1
      /\ \A i \in 1 .. Len(s)+1 : (c \o b)[i] = IF i <= k THEN c[i] ELSE b[i-k]
  <2>1. /\ c \o b \in Seq(S)
        /\ Len(c \o b) = Len(c) + Len(b)
        /\ \A i \in 1 .. Len(c) + Len(b) :
              (c \o b)[i] = IF i <= Len(c) THEN c[i] ELSE b[i - Len(c)]
    BY <1>5, <1>2, ConcatProperties, Zenon
  <2>2. Len(c) + Len(b) = Len(s) + 1
    BY <1>5, <1>2
  <2> QED BY <2>1, <2>2, <1>5
<1> QED BY <1>2, <1>3, <1>5, <1>6, SMTT(20)

\* RemoveAt() closes the gap at position k.
LEMMA RemoveAtElements ==
  ASSUME NEW S, NEW s \in Seq(S), NEW k \in 1 .. Len(s)
  PROVE  /\ RemoveAt(s, k) \in Seq(S)
         /\ Len(RemoveAt(s, k)) = Len(s) - 1
         /\ \A i \in 1 .. Len(s) - 1 :
               RemoveAt(s, k)[i] = IF i < k THEN s[i] ELSE s[i+1]
<1> DEFINE a == SubSeq(s, 1, k-1)
           b == SubSeq(s, k+1, Len(s))
<1>1. a \in Seq(S) /\ Len(a) = k-1 /\ \A i \in 1 .. k-1 : a[i] = s[i]
  BY SubSeqProperties
<1>2. b \in Seq(S) /\ Len(b) = Len(s)-k /\ \A i \in 1 .. Len(s)-k : b[i] = s[k+i]
  BY SubSeqProperties
<1>3. RemoveAt(s,k) = a \o b
  BY DEF RemoveAt
<1> HIDE DEF a, b
<1>4. /\ a \o b \in Seq(S)
      /\ Len(a \o b) = Len(a) + Len(b)
      /\ \A i \in 1 .. Len(a) + Len(b) :
            (a \o b)[i] = IF i <= Len(a) THEN a[i] ELSE b[i - Len(a)]
  BY <1>1, <1>2, ConcatProperties, Zenon
<1> QED BY <1>1, <1>2, <1>3, <1>4, SMTT(20)

-----------------------------------------------------------------------------
\* The walk of Enqueue() ends, in front of the first node of lower priority.
LEMMA EnqueuePosExists ==
  ASSUME NEW S, NEW list \in Seq(S), NEW pri \in [S -> Int], NEW n \in S
  PROVE  /\ EnqueuePos(list, pri, n) \in 1 .. Len(list) + 1
         /\ EnqueuePos(list, pri, n) <= Len(list)
               => pri[n] > pri[list[EnqueuePos(list, pri, n)]]
         /\ \A i \in 1 .. EnqueuePos(list, pri, n) - 1 : pri[n] <= pri[list[i]]
<1> DEFINE T == {k \in 1 .. Len(list) + 1 : k <= Len(list) => pri[n] > pri[list[k]]}
<1>1. Len(list) \in Nat /\ \A i \in 1 .. Len(list) : list[i] \in S
  OBVIOUS
<1>2. T \subseteq Nat /\ Len(list) + 1 \in T
  BY <1>1
<1>3. PICK k \in T : \A y \in T : k <= y
  BY <1>2, LeastElement
<1>4. \A i \in 1 .. k - 1 : pri[n] <= pri[list[i]]
  <2> TAKE i \in 1 .. k - 1
  <2>1. i \in 1 .. Len(list) /\ i \notin T
    BY <1>1, <1>3
  <2>2. pri[n] \in Int /\ pri[list[i]] \in Int
    BY <1>1, <2>1
  <2> QED BY <2>1, <2>2
<1>5. \E p \in 1 .. Len(list) + 1 :
         /\ p <= Len(list) => pri[n] > pri[list[p]]
         /\ \A i \in 1 .. p - 1 : pri[n] <= pri[list[i]]
  BY <1>3, <1>4
<1> QED BY <1>5 DEF EnqueuePos

\* A list q that is list with n put in at k: what it holds and how it is ordered.
LEMMA Insertion ==
  ASSUME NEW S, NEW list \in Seq(S), NEW n \in S, NEW q \in Seq(S), NEW k \in Nat,
         k \in 1 .. Len(list) + 1, Len(q) = Len(list) + 1,
         \A i \in 1 .. k - 1 : q[i] = list[i],
         q[k] = n,
         \A i \in k .. Len(list) : q[i+1] = list[i],
         ~Holds(list, n), Distinct(list)
  PROVE  /\ Distinct(q)
         /\ \A x \in S : Holds(q, x) <=> Holds(list, x) \/ x = n
<1>1. Len(list) \in Nat
  OBVIOUS
<1>2. \A i \in 1 .. Len(q) :
         \/ i \in 1 .. k - 1 /\ i \in 1 .. Len(list) /\ q[i] = list[i]
         \/ i = k /\ q[i] = n
         \/ i \in k + 1 .. Len(q) /\ i - 1 \in 1 .. Len(list) /\ q[i] = list[i-1]
  <2> TAKE i \in 1 .. Len(q)
  <2>1. CASE i < k
    BY <1>1, <2>1
  <2>2. CASE i = k
    BY <2>2
  <2>3. CASE i > k
    <3>1. i - 1 \in k .. Len(list) /\ (i - 1) + 1 = i
      BY <1>1, <2>3
    <3>2. q[(i - 1) + 1] = list[i - 1]
      BY <3>1
    <3> QED BY <1>1, <2>3, <3>1, <3>2
  <2> QED BY <2>1, <2>2, <2>3
<1>3. \A i \in 1 .. Len(list) : list[i] # n
  BY DEF Holds
<1>4. \A i, j \in 1 .. Len(list) : list[i] = list[j] => i = j
  BY DEF Distinct
<1>5. Distinct(q)
  <2> SUFFICES ASSUME NEW i \in 1 .. Len(q), NEW j \in 1 .. Len(q), q[i] = q[j]
               PROVE  i = j
    BY DEF Distinct
  <2>1. CASE i = k
    BY <1>2, <1>3, <2>1
  <2>2. CASE j = k
    BY <1>2, <1>3, <2>2
  <2>3. CASE i # k /\ j # k
    <3> DEFINE at(l) == IF l < k THEN l ELSE l - 1
    <3>1. at(i) \in 1 .. Len(list) /\ q[i] = list[at(i)]
      BY <1>2, <2>3
    <3>2. at(j) \in 1 .. Len(list) /\ q[j] = list[at(j)]
      BY <1>2, <2>3
    <3>3. at(i) = at(j)
      <4> HIDE DEF at
      <4> QED BY <1>4, <3>1, <3>2
    <3> QED BY <2>3, <3>3
  <2> QED BY <2>1, <2>2, <2>3
<1>6. ASSUME NEW x \in S, Holds(q, x) PROVE Holds(list, x) \/ x = n
  BY <1>2, <1>6 DEF Holds
<1>7. Holds(q, n)
  <2>1. k \in 1 .. Len(q)
    BY <1>1
  <2> QED BY <2>1 DEF Holds
<1>8. ASSUME NEW i \in 1 .. Len(list) PROVE Holds(q, list[i])
  <2>1. CASE i < k
    <3>1. i \in 1 .. Len(q) /\ q[i] = list[i]
      BY <1>1, <2>1
    <3> QED BY <3>1 DEF Holds
  <2>2. CASE i >= k
    <3>1. i + 1 \in 1 .. Len(q) /\ q[i+1] = list[i]
      BY <1>1, <2>2
    <3> QED BY <3>1 DEF Holds
  <2> QED BY <1>1, <2>1, <2>2
<1>9. ASSUME NEW x \in S, Holds(list, x) \/ x = n PROVE Holds(q, x)
  BY <1>7, <1>8, <1>9 DEF Holds
<1> QED BY <1>5, <1>6, <1>9

\* Put in at the place Enqueue() finds, n leaves a sorted list sorted.
LEMMA SortedInsertion ==
  ASSUME NEW S, NEW list \in Seq(S), NEW n \in S, NEW q \in Seq(S), NEW k \in Nat,
         NEW pri \in [S -> Int],
         k \in 1 .. Len(list) + 1, Len(q) = Len(list) + 1,
         \A i \in 1 .. k - 1 : q[i] = list[i],
         q[k] = n,
         \A i \in k .. Len(list) : q[i+1] = list[i],
         k <= Len(list) => pri[n] > pri[list[k]],
         \A i \in 1 .. k - 1 : pri[n] <= pri[list[i]],
         Sorted(list, pri)
  PROVE  Sorted(q, pri)
<1> DEFINE L(i) == pri[list[i]]
           Q(i) == pri[q[i]]
           m == Len(list)
           p == pri[n]
<1>1. m \in Nat /\ k \in 1 .. m + 1 /\ p \in Int /\ \A i \in 1 .. m : L(i) \in Int
  OBVIOUS
<1>2. \A i, j \in 1 .. m : i < j => L(i) >= L(j)
  BY DEF Sorted
<1>3. /\ \A i \in 1 .. k - 1 : Q(i) = L(i) /\ p <= L(i)
      /\ Q(k) = p /\ (k <= m => p > L(k))
      /\ \A i \in k .. m : Q(i+1) = L(i)
  OBVIOUS
<1> SUFFICES ASSUME NEW i \in 1 .. m + 1, NEW j \in 1 .. m + 1, i < j
             PROVE  Q(i) >= Q(j)
  BY DEF Sorted
<1> HIDE DEF L, Q, m, p
<1>4. \A l \in k .. m : p >= L(l)
  <2> TAKE l \in k .. m
  <2>1. CASE l = k
    BY <1>1, <1>3, <2>1
  <2>2. CASE l > k
    <3>1. k \in 1 .. m /\ l \in 1 .. m /\ k <= m
      BY <1>1, <2>2
    <3>2. L(k) >= L(l) /\ p > L(k) /\ L(k) \in Int /\ L(l) \in Int
      BY <1>1, <1>2, <1>3, <2>2, <3>1
    <3> QED BY <1>1, <3>2
  <2> QED BY <2>1, <2>2
<1>5. CASE j < k
  <2>1. i \in 1 .. k - 1 /\ j \in 1 .. k - 1 /\ i \in 1 .. m /\ j \in 1 .. m
    BY <1>1, <1>5
  <2> QED BY <1>2, <1>3, <2>1
<1>6. CASE j = k
  <2>1. i \in 1 .. k - 1 /\ i \in 1 .. m
    BY <1>1, <1>6
  <2> QED BY <1>1, <1>3, <1>6, <2>1
<1>7. CASE j > k
  <2>1. j - 1 \in k .. m /\ j - 1 \in 1 .. m
    BY <1>1, <1>7
  <2>2. Q(j) = L(j-1)
    <3>1. Q((j-1)+1) = L(j-1)
      BY <1>3, <2>1
    <3>2. (j-1)+1 = j
      OBVIOUS
    <3> QED BY <3>1, <3>2
  <2>3. CASE i < k
    <3>1. i \in 1 .. m /\ i < j - 1 /\ i \in 1 .. k - 1
      BY <1>1, <1>7, <2>3
    <3> QED BY <1>2, <1>3, <2>1, <2>2, <3>1
  <2>4. CASE i = k
    BY <1>3, <1>4, <2>1, <2>2, <2>4
  <2>5. CASE i > k
    <3>1. i - 1 \in k .. m /\ i - 1 \in 1 .. m /\ i - 1 < j - 1 /\ (i-1)+1 = i
      BY <1>1, <2>5
    <3>2. Q(i) = L(i-1)
      <4>1. Q((i-1)+1) = L(i-1)
        BY <1>3, <3>1
      <4> QED BY <3>1, <4>1
    <3> QED BY <1>2, <2>1, <2>2, <3>1, <3>2
  <2> QED BY <2>3, <2>4, <2>5
<1> QED BY <1>5, <1>6, <1>7

\* Enqueue() adds its node, once, and keeps a list distinct and sorted.
THEOREM EnqueueKeepsOrder ==
  ASSUME NEW S, NEW list \in Seq(S), NEW pri \in [S -> Int], NEW n \in S,
         ~Holds(list, n), Distinct(list)
  PROVE  LET q == Enqueue(list, pri, n)
         IN  /\ q \in Seq(S)
             /\ Distinct(q)
             /\ \A x \in S : Holds(q, x) <=> Holds(list, x) \/ x = n
             /\ Sorted(list, pri) => Sorted(q, pri)
<1> DEFINE k == EnqueuePos(list, pri, n)
           q == InsertAt(list, k, n)
<1>1. /\ k \in 1 .. Len(list) + 1
      /\ k <= Len(list) => pri[n] > pri[list[k]]
      /\ \A i \in 1 .. k - 1 : pri[n] <= pri[list[i]]
  BY EnqueuePosExists
<1>2. Enqueue(list, pri, n) = q
  BY DEF Enqueue
<1> HIDE DEF k
<1>3. /\ q \in Seq(S)
      /\ Len(q) = Len(list) + 1
      /\ \A i \in 1 .. Len(list) + 1 :
            q[i] = IF i < k THEN list[i] ELSE IF i = k THEN n ELSE list[i-1]
  BY <1>1, InsertAtElements
<1> HIDE DEF q
<1>4. Len(list) \in Nat /\ k \in Nat
  BY <1>1
<1>5. /\ \A i \in 1 .. k - 1 : q[i] = list[i]
      /\ q[k] = n
      /\ \A i \in k .. Len(list) : q[i+1] = list[i]
  <2>1. \A i \in 1 .. k - 1 : q[i] = list[i]
    BY <1>1, <1>3, <1>4
  <2>2. q[k] = n
    BY <1>1, <1>3, <1>4
  <2>3. \A i \in k .. Len(list) : q[i+1] = list[i]
    BY <1>1, <1>3, <1>4, SMTT(30)
  <2> QED BY <2>1, <2>2, <2>3
<1>6. Distinct(q) /\ \A x \in S : Holds(q, x) <=> Holds(list, x) \/ x = n
  BY <1>1, <1>3, <1>4, <1>5, Insertion, ZenonT(30), SMTT(30)
<1>7. Sorted(list, pri) => Sorted(q, pri)
  BY <1>1, <1>3, <1>4, <1>5, SortedInsertion, Zenon
<1> QED BY <1>2, <1>3, <1>6, <1>7

\* Remove() takes its node out of a distinct list and nothing else.
THEOREM UnlinkKeepsOrder ==
  ASSUME NEW S, NEW list \in Seq(S), NEW n \in S, Distinct(list)
  PROVE  LET q == Unlink(list, n)
         IN  /\ q \in Seq(S)
             /\ Distinct(q)
             /\ \A x \in S : Holds(q, x) <=> Holds(list, x) /\ x # n
             /\ \A pri \in [S -> Int] :
                   (\A i, j \in 1 .. Len(list) :
                       i < j /\ list[i] # n /\ list[j] # n
                         => pri[list[i]] >= pri[list[j]])
                   => Sorted(q, pri)
<1> DEFINE q == Unlink(list, n)
<1>1. CASE ~Holds(list, n)
  BY <1>1 DEF Unlink, Holds, Sorted
<1>2. CASE Holds(list, n)
  <2> DEFINE k == CHOOSE i \in 1 .. Len(list) : list[i] = n
  <2>1. k \in 1 .. Len(list) /\ list[k] = n
    BY <1>2 DEF Holds
  <2>2. q = RemoveAt(list, k)
    BY <1>2 DEF Unlink, Holds
  <2> HIDE DEF k, q
  <2>3. /\ q \in Seq(S)
        /\ Len(q) = Len(list) - 1
        /\ \A i \in 1 .. Len(list) - 1 : q[i] = IF i < k THEN list[i] ELSE list[i+1]
    BY <2>1, <2>2, RemoveAtElements
  <2>4. Len(list) \in Nat /\ \A i \in 1 .. Len(list) : list[i] \in S
    OBVIOUS
  <2>5. Distinct(q)
    BY <2>1, <2>3, <2>4 DEF Distinct
  <2>6. ASSUME NEW x \in S PROVE Holds(q, x) <=> Holds(list, x) /\ x # n
    <3>1. Holds(q, x) => Holds(list, x) /\ x # n
      BY <2>1, <2>3, <2>4 DEF Holds, Distinct
    <3>2. ASSUME NEW i \in 1 .. Len(list), list[i] # n PROVE Holds(q, list[i])
      <4>1. CASE i < k
        BY <2>1, <2>3, <2>4, <4>1 DEF Holds
      <4>2. CASE i > k
        <5>1. q[i-1] = list[i] /\ i - 1 \in 1 .. Len(q)
          BY <2>1, <2>3, <2>4, <4>2
        <5> QED BY <5>1 DEF Holds
      <4> QED BY <2>1, <3>2, <4>1, <4>2
    <3> QED BY <3>1, <3>2 DEF Holds
  <2>7. ASSUME NEW pri \in [S -> Int],
               \A i, j \in 1 .. Len(list) :
                  i < j /\ list[i] # n /\ list[j] # n => pri[list[i]] >= pri[list[j]]
        PROVE  Sorted(q, pri)
    <3> DEFINE at(i) == IF i < k THEN i ELSE i + 1
    <3>1. \A i \in 1 .. Len(q) : /\ at(i) \in 1 .. Len(list)
                                 /\ q[i] = list[at(i)] /\ list[at(i)] # n
      <4> TAKE i \in 1 .. Len(q)
      <4>1. at(i) \in 1 .. Len(list) /\ at(i) # k /\ q[i] = list[at(i)]
        BY <2>1, <2>3, <2>4, SMTT(30)
      <4> HIDE DEF at
      <4> QED BY <2>1, <4>1 DEF Distinct
    <3>2. \A i, j \in 1 .. Len(q) : i < j => at(i) < at(j)
      BY <2>1, <2>3, <2>4, SMTT(30)
    <3> HIDE DEF at
    <3> QED BY <2>7, <3>1, <3>2 DEF Sorted
  <2> QED BY <2>3, <2>5, <2>6, <2>7 DEF q
<1> QED BY <1>1, <1>2

\* Taking the head off a distinct list leaves the other nodes, in order.
THEOREM TailKeepsOrder ==
  ASSUME NEW S, NEW list \in Seq(S), list # <<>>, Distinct(list)
  PROVE  /\ Head(list) \in S /\ Holds(list, Head(list))
         /\ Tail(list) \in Seq(S)
         /\ Distinct(Tail(list))
         /\ \A x \in S : Holds(Tail(list), x) <=> Holds(list, x) /\ x # Head(list)
         /\ \A pri \in [S -> Int] : Sorted(list, pri) => Sorted(Tail(list), pri)
<1>1. /\ Len(list) \in Nat \ {0} /\ Head(list) = list[1]
      /\ Tail(list) \in Seq(S) /\ Len(Tail(list)) = Len(list) - 1
      /\ \A i \in 1 .. Len(list) - 1 : Tail(list)[i] = list[i+1]
      /\ \A i \in 1 .. Len(list) : list[i] \in S
  BY HeadTailProperties
<1>2. ASSUME NEW x \in S PROVE Holds(Tail(list), x) <=> Holds(list, x) /\ x # Head(list)
  <2>1. Holds(Tail(list), x) => Holds(list, x) /\ x # Head(list)
    BY <1>1 DEF Holds, Distinct
  <2>2. ASSUME NEW i \in 1 .. Len(list), list[i] # Head(list)
        PROVE  Holds(Tail(list), list[i])
    <3>1. i # 1 /\ Tail(list)[i-1] = list[i] /\ i - 1 \in 1 .. Len(Tail(list))
      BY <1>1, <2>2
    <3> QED BY <3>1 DEF Holds
  <2> QED BY <2>1, <2>2 DEF Holds
<1>3. Distinct(Tail(list))
  BY <1>1 DEF Distinct
<1>4. ASSUME NEW pri \in [S -> Int], Sorted(list, pri) PROVE Sorted(Tail(list), pri)
  BY <1>1, <1>4 DEF Sorted
<1> QED BY <1>1, <1>2, <1>3, <1>4 DEF Holds

-----------------------------------------------------------------------------
\* x is somewhere ahead of y in the list.
Ahead(list, x, y) == \E i, j \in 1 .. Len(list) : i < j /\ list[i] = x /\ list[j] = y

\* Enqueue() changes nothing about the order of the others and goes behind all
\* nodes of its own priority or a higher one.
THEOREM EnqueueOvertakesNone ==
  ASSUME NEW S, NEW list \in Seq(S), NEW pri \in [S -> Int], NEW n \in S
  PROVE  LET q == Enqueue(list, pri, n)
         IN  /\ \A x, y : Ahead(list, x, y) => Ahead(q, x, y)
             /\ Sorted(list, pri) =>
                    \A x \in S : Holds(list, x) /\ pri[x] >= pri[n] => Ahead(q, x, n)
<1> DEFINE k == EnqueuePos(list, pri, n)
           q == InsertAt(list, k, n)
           at(i) == IF i < k THEN i ELSE i + 1
<1>1. /\ k \in 1 .. Len(list) + 1
      /\ k <= Len(list) => pri[n] > pri[list[k]]
  BY EnqueuePosExists
<1>2. Enqueue(list, pri, n) = q
  BY DEF Enqueue
<1> HIDE DEF k
<1>3. /\ Len(q) = Len(list) + 1
      /\ \A i \in 1 .. Len(list) + 1 :
            q[i] = IF i < k THEN list[i] ELSE IF i = k THEN n ELSE list[i-1]
  BY <1>1, InsertAtElements
<1> HIDE DEF q
<1>4. Len(list) \in Nat /\ \A i \in 1 .. Len(list) : list[i] \in S /\ pri[list[i]] \in Int
  OBVIOUS
<1>5. \A i \in 1 .. Len(list) : at(i) \in 1 .. Len(q) /\ q[at(i)] = list[i]
  BY <1>1, <1>3, <1>4, SMTT(30)
<1>6. \A i, j \in 1 .. Len(list) : i < j => at(i) < at(j)
  BY <1>1, <1>4
<1>7. \A i \in 1 .. Len(list) : i < k => at(i) = i
  OBVIOUS
<1> HIDE DEF at
<1>8. ASSUME NEW x, NEW y, Ahead(list, x, y) PROVE Ahead(q, x, y)
  <2>1. PICK i \in 1 .. Len(list), j \in 1 .. Len(list) : i < j /\ list[i] = x /\ list[j] = y
    BY <1>8 DEF Ahead
  <2>2. /\ at(i) \in 1 .. Len(q) /\ at(j) \in 1 .. Len(q) /\ at(i) < at(j)
        /\ q[at(i)] = x /\ q[at(j)] = y
    BY <1>5, <1>6, <2>1
  <2> QED BY <2>2 DEF Ahead
<1>9. ASSUME Sorted(list, pri), NEW x \in S, Holds(list, x), pri[x] >= pri[n]
      PROVE  Ahead(q, x, n)
  <2>1. PICK i \in 1 .. Len(list) : list[i] = x
    BY <1>9 DEF Holds
  <2>2. i < k
    <3>1. SUFFICES ASSUME i >= k PROVE FALSE
      BY <1>1, <1>4, <2>1
    <3>2. k \in 1 .. Len(list) /\ pri[n] > pri[list[k]]
      BY <1>1, <1>4, <2>1, <3>1
    <3>3. pri[list[k]] >= pri[list[i]]
      <4>1. CASE i = k
        BY <1>4, <3>2, <4>1
      <4>2. CASE i > k
        BY <1>9, <3>2, <4>2 DEF Sorted
      <4> QED BY <1>1, <3>1, <4>1, <4>2
    <3>4. pri[n] \in Int /\ pri[x] \in Int /\ pri[list[k]] \in Int
      BY <1>4, <3>2
    <3> QED BY <1>9, <2>1, <3>2, <3>3, <3>4
  <2>3. i \in 1 .. Len(q) /\ q[i] = x
    BY <1>5, <1>7, <2>1, <2>2
  <2>4. k \in 1 .. Len(q) /\ q[k] = n
    BY <1>1, <1>3, <1>4
  <2> QED BY <2>2, <2>3, <2>4 DEF Ahead
<1> QED BY <1>2, <1>8, <1>9

\* Remove() changes nothing about the order of the nodes that stay.
LEMMA UnlinkOvertakesNone ==
  ASSUME NEW S, NEW list \in Seq(S), NEW n \in S, NEW x, NEW y, x # n, y # n,
         Ahead(list, x, y)
  PROVE  Ahead(Unlink(list, n), x, y)
<1>1. CASE ~Holds(list, n)
  BY <1>1 DEF Unlink, Holds
<1>2. CASE Holds(list, n)
  <2> DEFINE k == CHOOSE i \in 1 .. Len(list) : list[i] = n
             q == Unlink(list, n)
             at(i) == IF i < k THEN i ELSE i - 1
  <2>1. k \in 1 .. Len(list) /\ list[k] = n
    BY <1>2 DEF Holds
  <2>2. q = RemoveAt(list, k)
    BY <1>2 DEF Unlink, Holds
  <2> HIDE DEF k, q
  <2>3. /\ Len(q) = Len(list) - 1
        /\ \A i \in 1 .. Len(list) - 1 : q[i] = IF i < k THEN list[i] ELSE list[i+1]
    BY <2>1, <2>2, RemoveAtElements
  <2>4. Len(list) \in Nat
    OBVIOUS
  <2>5. \A i \in 1 .. Len(list) : i # k => at(i) \in 1 .. Len(q) /\ q[at(i)] = list[i]
    BY <2>1, <2>3, <2>4, SMTT(30)
  <2>6. \A i, j \in 1 .. Len(list) : i < j /\ i # k /\ j # k => at(i) < at(j)
    BY <2>1, <2>4
  <2> HIDE DEF at
  <2>7. PICK i \in 1 .. Len(list), j \in 1 .. Len(list) : i < j /\ list[i] = x /\ list[j] = y
    BY DEF Ahead
  <2>8. i # k /\ j # k
    BY <2>1, <2>7
  <2>9. /\ at(i) \in 1 .. Len(q) /\ at(j) \in 1 .. Len(q) /\ at(i) < at(j)
        /\ q[at(i)] = x /\ q[at(j)] = y
    BY <2>5, <2>6, <2>7, <2>8
  <2> QED BY <2>9 DEF Ahead, q
<1> QED BY <1>1, <1>2

\* Nor does taking the head off the list.
LEMMA TailOvertakesNone ==
  ASSUME NEW S, NEW list \in Seq(S), list # <<>>, NEW x, NEW y, x # Head(list),
         Ahead(list, x, y)
  PROVE  Ahead(Tail(list), x, y)
<1>1. /\ Len(list) \in Nat \ {0} /\ Head(list) = list[1]
      /\ Len(Tail(list)) = Len(list) - 1
      /\ \A i \in 1 .. Len(list) - 1 : Tail(list)[i] = list[i+1]
  BY HeadTailProperties
<1>2. PICK i \in 1 .. Len(list), j \in 1 .. Len(list) : i < j /\ list[i] = x /\ list[j] = y
  BY DEF Ahead
<1>3. i # 1
  BY <1>1, <1>2
<1>4. /\ i - 1 \in 1 .. Len(Tail(list)) /\ j - 1 \in 1 .. Len(Tail(list)) /\ i - 1 < j - 1
      /\ Tail(list)[i - 1] = x /\ Tail(list)[j - 1] = y
  BY <1>1, <1>2, <1>3
<1> QED BY <1>4 DEF Ahead

-----------------------------------------------------------------------------
\* One step of Picked(): what it has picked of the first k nodes, when g[k-1] is
\* what it had picked before.
PickStep(list, S, g, k) ==
    IF k = 0 THEN <<>>
    ELSE IF list[k] \in S THEN Append(g[k-1], list[k]) ELSE g[k-1]

\* The recursion in Picked() has a solution.
LEMMA PickedExists ==
  ASSUME NEW S, NEW N, NEW list \in Seq(N), NEW n \in Nat
  PROVE  \E g : g = [k \in 0 .. n |-> PickStep(list, S, g, k)]
<1> DEFINE Solved(m) == \E g : g = [k \in 0 .. m |-> PickStep(list, S, g, k)]
           Bad == { m \in Nat : ~Solved(m) }
<1>1. Solved(0)
  <2> DEFINE g == [k \in 0 .. 0 |-> <<>>]
  <2>1. g = [k \in 0 .. 0 |-> PickStep(list, S, g, k)]
    BY DEF PickStep
  <2> HIDE DEF g
  <2> QED BY <2>1
<1>2. ASSUME NEW m \in Nat, Solved(m) PROVE Solved(m + 1)
  <2>1. PICK g : g = [k \in 0 .. m |-> PickStep(list, S, g, k)]
    BY <1>2
  <2> DEFINE h == [k \in 0 .. m + 1 |-> IF k <= m THEN g[k] ELSE PickStep(list, S, g, m + 1)]
  <2>2. ASSUME NEW k \in 0 .. m + 1 PROVE h[k] = PickStep(list, S, h, k)
    <3>1. CASE k = 0
      BY <2>1, <3>1 DEF PickStep
    <3>2. CASE k # 0 /\ k <= m
      <4>1. h[k] = g[k] /\ h[k-1] = g[k-1] /\ k \in 0 .. m
        BY <3>2
      <4>2. g[k] = PickStep(list, S, g, k)
        BY <2>1, <4>1
      <4> QED BY <3>2, <4>1, <4>2 DEF PickStep
    <3>3. CASE k = m + 1
      <4>1. h[k] = PickStep(list, S, g, k) /\ h[k-1] = g[k-1]
        BY <3>3
      <4> QED BY <3>3, <4>1 DEF PickStep
    <3> QED BY <3>1, <3>2, <3>3
  <2>3. h = [k \in 0 .. m + 1 |-> h[k]]
    OBVIOUS
  <2> HIDE DEF h
  <2>4. h = [k \in 0 .. m + 1 |-> PickStep(list, S, h, k)]
    BY <2>2, <2>3
  <2> QED BY <2>4
<1> HIDE DEF Solved
<1>3. Bad = {}
  <2> SUFFICES ASSUME Bad # {} PROVE FALSE
    OBVIOUS
  <2>1. PICK x \in Bad : \A y \in Bad : x <= y
    BY LeastElement
  <2>2. x # 0
    BY <1>1, <2>1
  <2>3. x - 1 \in Nat /\ x - 1 \notin Bad
    BY <2>1, <2>2
  <2> QED BY <1>2, <2>1, <2>3
<1> QED BY <1>3 DEF Solved

\* What Picked() has picked: it is unfolded one node at a time.
LEMMA PickedUnfolds ==
  ASSUME NEW S, NEW N, NEW list \in Seq(N)
  PROVE  \E g : /\ Picked(list, S) = g[Len(list)]
                /\ g[0] = <<>>
                /\ \A k \in 1 .. Len(list) :
                      g[k] = IF list[k] \in S THEN Append(g[k-1], list[k]) ELSE g[k-1]
<1> DEFINE g == CHOOSE f : f = [k \in 0 .. Len(list) |-> PickStep(list, S, f, k)]
<1>1. Picked(list, S) = g[Len(list)]
  BY DEF Picked, PickStep
<1>2. Len(list) \in Nat
  OBVIOUS
<1>3. g = [k \in 0 .. Len(list) |-> PickStep(list, S, g, k)]
  BY <1>2, PickedExists
<1> HIDE DEF g
<1>4. g[0] = <<>>
  BY <1>2, <1>3 DEF PickStep
<1>5. ASSUME NEW k \in 1 .. Len(list)
      PROVE  g[k] = IF list[k] \in S THEN Append(g[k-1], list[k]) ELSE g[k-1]
  <2>1. k \in 0 .. Len(list) /\ k # 0
    BY <1>2
  <2>2. g[k] = PickStep(list, S, g, k)
    BY <1>3, <2>1
  <2> QED BY <2>1, <2>2 DEF PickStep
<1> QED BY <1>1, <1>4, <1>5

\* A node at the end: what the list holds.
LEMMA AppendKeepsOrder ==
  ASSUME NEW N, NEW list \in Seq(N), NEW n \in N
  PROVE  /\ Append(list, n) \in Seq(N)
         /\ \A x : Holds(Append(list, n), x) <=> Holds(list, x) \/ x = n
         /\ Distinct(list) /\ ~Holds(list, n) => Distinct(Append(list, n))
<1> DEFINE q == Append(list, n)
<1>1. /\ q \in Seq(N) /\ Len(q) = Len(list) + 1 /\ Len(list) \in Nat
      /\ \A i \in 1 .. Len(list) : q[i] = list[i]
      /\ q[Len(list) + 1] = n
  BY AppendProperties
<1> HIDE DEF q
<1>2. ASSUME NEW x, Holds(q, x) PROVE Holds(list, x) \/ x = n
  BY <1>1, <1>2 DEF Holds
<1>3. ASSUME NEW x, Holds(list, x) PROVE Holds(q, x)
  BY <1>1, <1>3 DEF Holds
<1>4. Holds(q, n)
  <2>1. Len(q) \in 1 .. Len(q) /\ q[Len(q)] = n
    BY <1>1
  <2> QED BY <2>1 DEF Holds
<1>5. ASSUME Distinct(list), ~Holds(list, n) PROVE Distinct(q)
  BY <1>1, <1>5 DEF Distinct, Holds
<1> QED BY <1>1, <1>2, <1>3, <1>4, <1>5 DEF q

\* Two lists in one.
LEMMA JoinKeepsOrder ==
  ASSUME NEW N, NEW a \in Seq(N), NEW b \in Seq(N)
  PROVE  /\ a \o b \in Seq(N)
         /\ \A x : Holds(a \o b, x) <=> Holds(a, x) \/ Holds(b, x)
         /\ Distinct(a) /\ Distinct(b) /\ (\A x : ~(Holds(a, x) /\ Holds(b, x)))
               => Distinct(a \o b)
<1> DEFINE q == a \o b
<1>1. /\ q \in Seq(N) /\ Len(q) = Len(a) + Len(b) /\ Len(a) \in Nat /\ Len(b) \in Nat
      /\ \A i \in 1 .. Len(q) : q[i] = IF i <= Len(a) THEN a[i] ELSE b[i - Len(a)]
  BY ConcatProperties
<1> HIDE DEF q
<1>2. ASSUME NEW i \in 1 .. Len(q)
      PROVE  \/ i \in 1 .. Len(a) /\ q[i] = a[i]
             \/ i - Len(a) \in 1 .. Len(b) /\ i > Len(a) /\ q[i] = b[i - Len(a)]
  BY <1>1
<1>3. ASSUME NEW x, Holds(q, x) PROVE Holds(a, x) \/ Holds(b, x)
  BY <1>2, <1>3 DEF Holds
<1>4. ASSUME NEW x, Holds(a, x) PROVE Holds(q, x)
  <2>1. PICK i \in 1 .. Len(a) : a[i] = x
    BY <1>4 DEF Holds
  <2>2. i \in 1 .. Len(q) /\ q[i] = x
    BY <1>1, <2>1
  <2> QED BY <2>2 DEF Holds
<1>5. ASSUME NEW x, Holds(b, x) PROVE Holds(q, x)
  <2>1. PICK i \in 1 .. Len(b) : b[i] = x
    BY <1>5 DEF Holds
  <2>2. i + Len(a) \in 1 .. Len(q) /\ q[i + Len(a)] = b[(i + Len(a)) - Len(a)]
    BY <1>1, <2>1
  <2>3. (i + Len(a)) - Len(a) = i
    BY <1>1
  <2> QED BY <2>1, <2>2, <2>3 DEF Holds
<1>6. ASSUME Distinct(a), Distinct(b), \A x : ~(Holds(a, x) /\ Holds(b, x))
      PROVE  Distinct(q)
  <2> SUFFICES ASSUME NEW i \in 1 .. Len(q), NEW j \in 1 .. Len(q), q[i] = q[j] PROVE i = j
    BY DEF Distinct
  <2>1. CASE i \in 1 .. Len(a) /\ q[i] = a[i] /\ j \in 1 .. Len(a) /\ q[j] = a[j]
    BY <1>6, <2>1 DEF Distinct
  <2>2. CASE i - Len(a) \in 1 .. Len(b) /\ q[i] = b[i - Len(a)]
             /\ j - Len(a) \in 1 .. Len(b) /\ q[j] = b[j - Len(a)]
    <3>1. i - Len(a) = j - Len(a)
      BY <1>6, <2>2 DEF Distinct
    <3> QED BY <1>1, <3>1
  <2>3. CASE i \in 1 .. Len(a) /\ q[i] = a[i] /\ j - Len(a) \in 1 .. Len(b) /\ q[j] = b[j - Len(a)]
    BY <1>6, <2>3 DEF Holds
  <2>4. CASE j \in 1 .. Len(a) /\ q[j] = a[j] /\ i - Len(a) \in 1 .. Len(b) /\ q[i] = b[i - Len(a)]
    BY <1>6, <2>4 DEF Holds
  <2> QED BY <1>2, <2>1, <2>2, <2>3, <2>4
<1> QED BY <1>1, <1>3, <1>4, <1>5, <1>6 DEF q

\* Picked() finds the nodes of the list that are in S and nothing else, each as
\* often as the list has it.
THEOREM PickedHoldsThose ==
  ASSUME NEW S, NEW N, NEW list \in Seq(N)
  PROVE  /\ Picked(list, S) \in Seq(N)
         /\ \A x : Holds(Picked(list, S), x) <=> Holds(list, x) /\ x \in S
         /\ Distinct(list) => Distinct(Picked(list, S))
<1> DEFINE Upto(k, x) == \E i \in 1 .. k : list[i] = x
<1>1. PICK g : /\ Picked(list, S) = g[Len(list)]
               /\ g[0] = <<>>
               /\ \A k \in 1 .. Len(list) :
                     g[k] = IF list[k] \in S THEN Append(g[k-1], list[k]) ELSE g[k-1]
  BY PickedUnfolds
<1>2. Len(list) \in Nat /\ \A i \in 1 .. Len(list) : list[i] \in N
  OBVIOUS
<1> DEFINE Good(k) == /\ g[k] \in Seq(N)
                      /\ \A x : Holds(g[k], x) <=> Upto(k, x) /\ x \in S
                      /\ Distinct(list) => Distinct(g[k])
           Bad == { k \in 0 .. Len(list) : ~Good(k) }
<1>3. Good(0)
  BY <1>1 DEF Holds, Distinct
<1>4. ASSUME NEW k \in 1 .. Len(list), Good(k - 1) PROVE Good(k)
  <2>1. \A x : Upto(k, x) <=> Upto(k - 1, x) \/ x = list[k]
    <3> TAKE x
    <3>1. ASSUME Upto(k, x) PROVE Upto(k - 1, x) \/ x = list[k]
      BY <3>1
    <3>2. ASSUME Upto(k - 1, x) \/ x = list[k] PROVE Upto(k, x)
      BY <3>2
    <3> QED BY <3>1, <3>2
  <2>2. Distinct(list) => ~Upto(k - 1, list[k])
    BY <1>2 DEF Distinct
  <2>3. list[k] \in N
    BY <1>2
  <2> HIDE DEF Upto
  <2>4. CASE list[k] \in S
    <3>1. g[k] = Append(g[k-1], list[k])
      BY <1>1, <2>4
    <3>2. PICK q : q = g[k-1]
      OBVIOUS
    <3>3. PICK n : n = list[k]
      OBVIOUS
    <3>4. /\ Append(q, n) \in Seq(N)
          /\ \A x : Holds(Append(q, n), x) <=> Holds(q, x) \/ x = n
          /\ Distinct(q) /\ ~Holds(q, n) => Distinct(Append(q, n))
      BY <1>4, <2>3, <3>2, <3>3, AppendKeepsOrder
    <3> QED BY <1>4, <2>1, <2>2, <2>4, <3>1, <3>2, <3>3, <3>4
  <2>5. CASE list[k] \notin S
    <3>1. g[k] = g[k-1]
      BY <1>1, <2>5
    <3> QED BY <1>4, <2>1, <2>5, <3>1
  <2> QED BY <2>4, <2>5
<1> HIDE DEF Good
<1>5. Bad = {}
  <2> SUFFICES ASSUME Bad # {} PROVE FALSE
    OBVIOUS
  <2> Bad \subseteq Nat
    BY <1>2
  <2>1. PICK k \in Bad : \A y \in Bad : k <= y
    BY LeastElement
  <2>2. k # 0
    BY <1>3, <2>1
  <2>3. k \in 1 .. Len(list) /\ k - 1 \in 0 .. Len(list) /\ k - 1 \notin Bad
    BY <1>2, <2>1, <2>2
  <2> QED BY <1>4, <2>1, <2>3
<1>6. Good(Len(list))
  BY <1>2, <1>5
<1> QED BY <1>1, <1>6 DEF Good, Holds

=============================================================================
