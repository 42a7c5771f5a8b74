---------------------------- MODULE Kheap_proofs ----------------------------
(***************************************************************************)
(* The node list of the kernel heap, for every page size, heap size and    *)
(* request: ListSound and BlocksKept are invariants of Spec.               *)
(***************************************************************************)
EXTENDS Kheap, FiniteSetTheorems, NaturalsInduction, WellFoundedInduction, TLAPS

----------------------------------------------------------------------------
(* The inductive invariant *)

\* A whole number of pages.
WholePages(x) == \E k \in Nat : x = Page * k

Nodes == [size : Nat, status : {"free", "res"}, next : Nat, prev : Nat]

\* The list is made of nodes, its first one at the start of the heap.
Linked(nd) ==
  /\ nd \in [DOMAIN nd -> Nodes]
  /\ DOMAIN nd \subseteq Nat /\ Base \in DOMAIN nd
  /\ \A a \in DOMAIN nd :
       /\ a >= Base
       /\ nd[a].next \in {NULL} \cup DOMAIN nd
       /\ nd[a].prev \in {NULL} \cup DOMAIN nd
       /\ nd[a].prev = NULL <=> a = Base
       /\ nd[a].next # NULL => nd[nd[a].next].prev = a
       /\ nd[a].prev # NULL => nd[nd[a].prev].next = a

\* Each node ends where the next one begins, and no node is inside another.
\* This is what Tiled lacks to be inductive: a list without it could have
\* nodes that the next pointers do not lead to.
Abutting(nd, end) ==
  /\ \A a \in DOMAIN nd :
       /\ a + 1 + nd[a].size = (IF nd[a].next = NULL THEN end ELSE nd[a].next)
       /\ a + 1 + nd[a].size <= end
  /\ \A a, b \in DOMAIN nd : a < b => a + 1 + nd[a].size <= b

ListOf(nd, end) == Linked(nd) /\ Abutting(nd, end)

\* No free node has a free successor, and the last node is free.
Merged(nd) ==
  \A a \in DOMAIN nd : nd[a].next # NULL =>
    ~(nd[a].status = "free" /\ nd[nd[a].next].status = "free")
LastFree(nd) == \A a \in DOMAIN nd : nd[a].next = NULL => nd[a].status = "free"

EndOk(end) == end \in Nat /\ end >= Base /\ end <= Limit /\ WholePages(end)

\* The blocks handed out are the reserved nodes.
Owned(nd, tk, h) ==
  /\ tk \in [DOMAIN tk -> Requests] /\ IsFiniteSet(DOMAIN tk)
  /\ DOMAIN tk \subseteq DOMAIN nd
  /\ Cardinality(DOMAIN tk) = h
  /\ \A a \in DOMAIN tk : nd[a].status = "res" /\ nd[a].size = tk[a][1]
  /\ \A a \in DOMAIN nd : nd[a].status = "res" => a \in DOMAIN tk

\* A heap that has been started.
HeapOk(nd, end, tk, h) ==
  /\ EndOk(end) /\ ListOf(nd, end) /\ Merged(nd) /\ LastFree(nd) /\ Owned(nd, tk, h)

KInv ==
  /\ mode \in {"run", "fault"} /\ kheap_start \in {NULL, Base, Bad}
  /\ kheap_start # Base =>
       /\ DOMAIN nodes = {} /\ kheap_end = Base
       /\ Owned(nodes, taken, held)
  /\ kheap_start = Base => HeapOk(nodes, kheap_end, taken, held)

----------------------------------------------------------------------------
(* Numbers *)

\* A set of naturals that is not empty has a least element.
LEMMA LeastNat ==
  ASSUME NEW S \in SUBSET Nat, S # {}
  PROVE  \E x \in S : \A y \in S : x <= y
<1> DEFINE R == {r \in Nat \X Nat : r[1] < r[2]}
<1>1. IsWellFoundedOn(R, Nat)
  BY NatLessThanWellFounded DEF OpToRel
<1> HIDE DEF R
<1>2. PICK x \in S : \A y \in S : <<y, x>> \notin R
  BY <1>1, WFMin
<1>3. ASSUME NEW y \in S, y < x PROVE FALSE
  BY <1>2, <1>3 DEF R
<1> QED BY <1>2, <1>3

LEMMA Constants ==
  /\ Page \in Nat /\ Page > 1 /\ Skew \in Nat /\ Base \in Nat /\ Base > 0
  /\ Limit \in Nat /\ Base <= Limit /\ Word \in Nat /\ Word > 2 * Limit
  /\ NULL = 0 /\ Bad = -1
  /\ \A r \in Requests : r[1] \in Nat \ {0} /\ r[2] \in {1, Page} /\ r = <<r[1], r[2]>>
  BY HeapAssumption DEF NULL, Bad

\* Division with rest.
LEMMA Euclid ==
  ASSUME NEW d \in Nat \ {0}, NEW n \in Nat
  PROVE  /\ n \div d \in Nat /\ n % d \in 0 .. d - 1
         /\ n = d * (n \div d) + (n % d)
<1>1. n % d \in 0 .. d - 1
  BY SMT
<1>2. n \div d \in Int
  BY SMT
<1>3. n = d * (n \div d) + (n % d)
  BY SMT
<1>4. n \div d >= 0
  BY SMT
<1> QED BY <1>1, <1>2, <1>3, <1>4

LEMMA PageMultiple ==
  ASSUME NEW n \in Nat, n % Page = 0
  PROVE  WholePages(n)
<1>1. n \div Page \in Nat /\ n = Page * (n \div Page) + (n % Page)
  BY Euclid, Constants
<1> DEFINE k == n \div Page
<1>2. k \in Nat /\ n = Page * k
  BY <1>1, Constants
<1> QED BY <1>2, Zenon DEF WholePages

LEMMA Times ==
  ASSUME NEW d \in Nat, NEW j \in Nat, NEW k \in Nat
  PROVE  /\ d * j \in Nat
         /\ d * (j + k) = d * j + d * k
         /\ j <= k => d * j <= d * k
         /\ j <= k => k - j \in Nat /\ d * (k - j) = d * k - d * j
  BY SMT

\* ksbrk grows the heap by at least what it is asked for, in whole pages,
\* and never past the limit the unrounded request respects.
LEMMA Growing ==
  ASSUME NEW end, EndOk(end), NEW incr \in Nat, incr > 0
  PROVE  /\ Grown(incr) \in Nat /\ Grown(incr) >= incr /\ WholePages(Grown(incr))
         /\ CanGrow(end, incr) => EndOk(end + Grown(incr))
<1> DEFINE m == incr + Page - 1
           k == m \div Page
<1>1. m \in Nat /\ Page \in Nat \ {0}
  BY Constants
<1>2. k \in Nat /\ m % Page \in 0 .. Page - 1 /\ m = Page * k + (m % Page)
  BY <1>1, Euclid
<1>3. Grown(incr) = Page * k
  BY DEF Grown
<1> HIDE DEF k
<1>4. Page * k \in Nat /\ Page * k >= incr /\ Page * k <= m
  BY <1>1, <1>2, Times
<1>5. PICK e \in Nat : end = Page * e
  BY DEF EndOk, WholePages
<1>6. PICK l \in Nat : Limit = Page * l
  BY PageMultiple, HeapAssumption DEF WholePages
<1>7. end + Page * k = Page * (e + k) /\ e + k \in Nat
  BY <1>5, <1>2, <1>1, Times
<1>8. ASSUME CanGrow(end, incr) PROVE end + Page * k <= Limit
  <2>1. CASE e + k <= l
    BY <2>1, <1>6, <1>7, <1>1, Times
  <2>2. CASE l + 1 <= e + k
    <3>1. Page * (l + 1) <= Page * (e + k) /\ Page * (l + 1) = Page * l + Page * 1
      BY <2>2, <1>1, <1>7, Times
    <3>2. Page * 1 = Page
      BY <1>1
    <3> QED BY <3>1, <3>2, <1>4, <1>6, <1>7, <1>8, Constants DEF CanGrow, EndOk
  <2> QED BY <2>1, <2>2, <1>6, <1>7
<1>9. WholePages(end + Page * k)
  BY <1>7, Zenon DEF WholePages
<1>10. WholePages(Page * k)
  BY <1>2, Zenon DEF WholePages
<1> QED BY <1>3, <1>4, <1>8, <1>9, <1>10, Constants DEF EndOk

\* It shrinks the heap by whole pages, and by no more than it is asked for.
LEMMA Shrinking ==
  ASSUME NEW end, EndOk(end), NEW size \in Nat, end - size > Base
  PROVE  /\ Shrunk(size) \in Nat /\ Shrunk(size) <= size
         /\ EndOk(end - Shrunk(size))
<1> DEFINE k == size \div Page
<1>1. Page \in Nat \ {0}
  BY Constants
<1>2. k \in Nat /\ size % Page \in 0 .. Page - 1 /\ size = Page * k + (size % Page)
  BY <1>1, Euclid
<1>3. Shrunk(size) = Page * k
  BY DEF Shrunk
<1> HIDE DEF k
<1>4. Page * k \in Nat /\ Page * k <= size
  BY <1>1, <1>2, Times
<1>5. PICK e \in Nat : end = Page * e
  BY DEF EndOk, WholePages
<1>6. k <= e
  <2>1. CASE e <= k
    <3>1. Page * e <= Page * k
      BY <2>1, <1>1, <1>2, Times
    <3> QED BY <3>1, <1>4, <1>5, Constants
  <2> QED BY <2>1, <1>2
<1>7. e - k \in Nat /\ end - Page * k = Page * (e - k)
  BY <1>1, <1>2, <1>5, <1>6, Times
<1>8. WholePages(end - Page * k)
  BY <1>7, Zenon DEF WholePages
<1> QED BY <1>3, <1>4, <1>8, Constants DEF EndOk

\* The padding is at most the alignment.
LEMMA PaddingBound ==
  ASSUME NEW a \in Nat, NEW align \in {1, Page}
  PROVE  Padding(a, align) \in 0 .. align /\ align <= Page
<1>1. align \in Nat \ {0} /\ align <= Page
  BY Constants
<1>2. a % align \in 0 .. align - 1
  BY <1>1, Euclid
<1> QED BY <1>1, <1>2 DEF Padding

----------------------------------------------------------------------------
(* Following the next pointers *)

\* The function of Chain satisfies its recursive definition.
LEMMA ChainFunction ==
  ASSUME NEW nd, IsFiniteSet(DOMAIN nd)
  PROVE  /\ DOMAIN Chain(nd) = 1 .. Cardinality(DOMAIN nd)
         /\ \A i \in 1 .. Cardinality(DOMAIN nd) :
              Chain(nd)[i] =
                IF i = 1 THEN kheap_start
                ELSE IF Chain(nd)[i - 1] \in DOMAIN nd THEN nd[Chain(nd)[i - 1]].next
                     ELSE NULL
<1> DEFINE n == Cardinality(DOMAIN nd)
           Step(x) == IF x \in DOMAIN nd THEN nd[x].next ELSE NULL
           Is(f, k) == f = [i \in 1 .. k |-> IF i = 1 THEN kheap_start ELSE Step(f[i - 1])]
           B == {k \in Nat : ~ \E f : Is(f, k)}
<1>1. n \in Nat
  BY FS_CardinalityType
<1> HIDE DEF n
<1>2. B = {}
  <2>1. SUFFICES ASSUME B # {} PROVE FALSE
    OBVIOUS
  <2>2. PICK k \in B : \A j \in B : k <= j
    <3>1. B \in SUBSET Nat
      OBVIOUS
    <3> HIDE DEF B
    <3> QED BY <2>1, <3>1, LeastNat
  <2>3. k # 0
    <3> DEFINE f == [i \in 1 .. 0 |-> kheap_start]
    <3>1. Is(f, 0)
      OBVIOUS
    <3> QED BY <3>1, <2>2
  <2>4. k - 1 \in Nat /\ k - 1 \notin B
    <3> HIDE DEF B
    <3>1. k \in Nat
      BY DEF B
    <3> QED BY <3>1, <2>2, <2>3
  <2>5. PICK f : Is(f, k - 1)
    BY <2>4
  <2> DEFINE g == [i \in 1 .. k |->
                     IF i < k THEN f[i]
                     ELSE IF i = 1 THEN kheap_start ELSE Step(f[i - 1])]
  <2>6. ASSUME NEW i \in 1 .. k
        PROVE  g[i] = IF i = 1 THEN kheap_start ELSE Step(g[i - 1])
    <3> HIDE DEF Step
    <3>1. CASE i = 1
      BY <3>1, <2>4, <2>5
    <3>2. CASE i # 1 /\ i < k
      <4>1. f[i] = Step(f[i - 1])
        BY <3>2, <2>4, <2>5
      <4> QED BY <4>1, <3>2, <2>4
    <3>3. CASE i # 1 /\ i = k
      BY <3>3, <2>4
    <3> QED BY <3>1, <3>2, <3>3
  <2>7. Is(g, k)
    <3> HIDE DEF Step
    <3>1. g = [i \in 1 .. k |-> g[i]]
      OBVIOUS
    <3> HIDE DEF g
    <3> QED BY <3>1, <2>6
  <2> QED BY <2>7, <2>2
<1>3. PICK f : Is(f, n)
  BY <1>1, <1>2
<1>4. Chain(nd) = CHOOSE f1 : Is(f1, n)
  BY DEF Chain, n
<1>5. Is(Chain(nd), n)
  BY <1>3, <1>4, Zenon
<1> QED BY <1>5 DEF n

\* The addresses of a list are finitely many naturals, none of them NULL.
LEMMA ListAddresses ==
  ASSUME NEW nd, NEW end \in Nat, ListOf(nd, end)
  PROVE  IsFiniteSet(DOMAIN nd) /\ NULL \notin DOMAIN nd
<1>1. DOMAIN nd \in SUBSET Nat /\ \A a \in DOMAIN nd : a <= end
  BY DEF ListOf, Linked, Abutting, Nodes
<1>2. IsFiniteSet(DOMAIN nd)
  BY <1>1, FS_BoundedSetOfNaturals
<1> QED BY <1>2, Constants DEF ListOf, Linked

\* The next pointer leads to the next higher node.
LEMMA NextIsNext ==
  ASSUME NEW nd, NEW end \in Nat, ListOf(nd, end), NEW a \in DOMAIN nd
  PROVE  /\ nd[a].next # NULL => nd[a].next \in DOMAIN nd /\ a < nd[a].next
         /\ nd[a].next # NULL => \A b \in DOMAIN nd : b > a => b >= nd[a].next
         /\ nd[a].next = NULL <=> \A b \in DOMAIN nd : b <= a
<1>1. nd[a] \in Nodes /\ a \in Nat /\ DOMAIN nd \subseteq Nat
  BY DEF ListOf, Linked
<1>2. nd[a].size \in Nat
  BY <1>1 DEF Nodes
<1>3. ASSUME nd[a].next # NULL
      PROVE  /\ nd[a].next \in DOMAIN nd /\ a < nd[a].next
             /\ \A b \in DOMAIN nd : b > a => b >= nd[a].next
  BY <1>1, <1>2, <1>3 DEF ListOf, Linked, Abutting
<1>4. ASSUME nd[a].next = NULL, NEW b \in DOMAIN nd, b > a PROVE FALSE
  <2>1. b >= end
    BY <1>1, <1>2, <1>4 DEF ListOf, Abutting
  <2>2. nd[b].size \in Nat /\ b + 1 + nd[b].size <= end
    BY DEF ListOf, Linked, Abutting, Nodes
  <2> QED BY <2>1, <2>2, <1>1
<1>5. ASSUME \A b \in DOMAIN nd : b <= a PROVE nd[a].next = NULL
  BY <1>1, <1>3, <1>5
<1> QED BY <1>1, <1>3, <1>4, <1>5

\* The chain of next pointers goes through nodes only, as many as there are,
\* and comes to the last one at its end and not before: do_kmalloc looks at
\* every node, and what it enlarges is the last node.
LEMMA ChainSound ==
  ASSUME NEW nd, NEW end \in Nat, ListOf(nd, end), kheap_start = Base
  PROVE  LET n == Cardinality(DOMAIN nd)
         IN  /\ n \in Nat \ {0}
             /\ \A i \in 1 .. n : Chain(nd)[i] \in DOMAIN nd
             /\ \A i \in 1 .. n : nd[Chain(nd)[i]].next = NULL <=> i = n
<1> DEFINE n == Cardinality(DOMAIN nd)
           f == Chain(nd)
           Upto(x) == {b \in DOMAIN nd : b <= x}
           Fine(i) == f[i] \in DOMAIN nd /\ Cardinality(Upto(f[i])) = i
           B == {i \in 1 .. n : ~Fine(i)}
<1>1. IsFiniteSet(DOMAIN nd) /\ DOMAIN nd \subseteq Nat /\ Base \in DOMAIN nd
  BY ListAddresses DEF ListOf, Linked
<1>2. n \in Nat /\ n # 0
  BY <1>1, FS_CardinalityType, FS_EmptySet
<1>3. /\ f[1] = Base
      /\ \A i \in 1 .. n : i # 1 /\ f[i - 1] \in DOMAIN nd => f[i] = nd[f[i - 1]].next
  <2>1. \A i \in 1 .. n :
          f[i] = IF i = 1 THEN kheap_start
                 ELSE IF f[i - 1] \in DOMAIN nd THEN nd[f[i - 1]].next ELSE NULL
    BY <1>1, ChainFunction, Zenon
  <2> HIDE DEF n, f
  <2>2. 1 \in 1 .. n
    BY <1>2
  <2> QED BY <2>1, <2>2
<1>4. \A x \in DOMAIN nd : IsFiniteSet(Upto(x)) /\ Cardinality(Upto(x)) <= n
                           /\ (Cardinality(Upto(x)) = n => Upto(x) = DOMAIN nd)
  <2>1. \A x \in DOMAIN nd : Upto(x) \in SUBSET DOMAIN nd
    OBVIOUS
  <2> HIDE DEF Upto
  <2> QED BY <2>1, <1>1, FS_Subset
<1> HIDE DEF n, f
<1>5. ASSUME NEW i \in 1 .. n, Fine(i)
      PROVE  nd[f[i]].next = NULL <=> i = n
  <2>1. ASSUME nd[f[i]].next = NULL PROVE i = n
    <3>1. Upto(f[i]) = DOMAIN nd
      BY <2>1, <1>5, NextIsNext
    <3> QED BY <3>1, <1>5 DEF n
  <2>2. ASSUME i = n PROVE nd[f[i]].next = NULL
    <3>1. Upto(f[i]) = DOMAIN nd
      BY <2>2, <1>4, <1>5
    <3> QED BY <3>1, <1>5, NextIsNext
  <2> QED BY <2>1, <2>2
<1>6. B = {}
  <2>1. SUFFICES ASSUME B # {} PROVE FALSE
    OBVIOUS
  <2>2. PICK k \in B : \A j \in B : k <= j
    <3>1. B \in SUBSET Nat
      OBVIOUS
    <3> HIDE DEF B
    <3> QED BY <2>1, <3>1, LeastNat
  <2>3. k \in 1 .. n /\ ~Fine(k)
    OBVIOUS
  <2>4. k # 1
    <3>1. SUFFICES ASSUME k = 1 PROVE FALSE
      OBVIOUS
    <3>2. \A b \in DOMAIN nd : b >= Base
      BY DEF ListOf, Linked
    <3>3. Upto(Base) = {Base}
      BY <3>2, <1>1
    <3>4. Cardinality({Base}) = 1
      BY FS_Singleton
    <3>5. Fine(1)
      BY <3>3, <3>4, <1>1, <1>3
    <3> QED BY <3>5, <3>1, <2>3
  <2> DEFINE i == k - 1
  <2>5. i \in 1 .. n /\ i # n /\ k = i + 1
    BY <2>3, <2>4, <1>2
  <2>6. Fine(i)
    <3> HIDE DEF Fine
    <3>1. i \notin B
      BY <2>2, <2>5
    <3> QED BY <3>1, <2>5
  <2> HIDE DEF i
  <2>7. nd[f[i]].next # NULL
    BY <2>5, <2>6, <1>5
  <2> DEFINE x == nd[f[i]].next
  <2>8. x \in DOMAIN nd /\ f[i] < x /\ \A b \in DOMAIN nd : b > f[i] => b >= x
    BY <2>6, <2>7, NextIsNext
  <2>9. f[k] = x
    BY <2>3, <2>4, <2>5, <2>6, <1>3
  <2> HIDE DEF x
  <2>10. Upto(x) = Upto(f[i]) \cup {x} /\ x \notin Upto(f[i])
    BY <2>6, <2>8, <1>1
  <2>11. Cardinality(Upto(x)) = i + 1
    <3>1. IsFiniteSet(Upto(f[i])) /\ Cardinality(Upto(f[i])) = i
      BY <1>4, <2>6
    <3> HIDE DEF Upto
    <3> QED BY <3>1, <2>10, FS_AddElement
  <2> QED BY <2>3, <2>5, <2>8, <2>9, <2>11
<1>7. \A i \in 1 .. n : Fine(i)
  BY <1>6
<1> QED BY <1>2, <1>5, <1>7 DEF n, f

----------------------------------------------------------------------------
(* What is done to a list *)

\* The parts of a list in the form the steps below use.
LEMMA NodeFacts ==
  ASSUME NEW nd, NEW end \in Nat, ListOf(nd, end), NEW a \in DOMAIN nd
  PROVE  /\ a \in Nat /\ a >= Base /\ a > 0
         /\ nd[a].size \in Nat /\ nd[a].status \in {"free", "res"}
         /\ nd[a].next \in Nat /\ nd[a].prev \in Nat
         /\ nd[a] = Node(nd[a].size, nd[a].status, nd[a].next, nd[a].prev)
         /\ nd[a].next # NULL => nd[a].next \in DOMAIN nd /\ nd[nd[a].next].prev = a
         /\ nd[a].prev # NULL => nd[a].prev \in DOMAIN nd /\ nd[nd[a].prev].next = a
         /\ nd[a].prev = NULL <=> a = Base
         /\ a + 1 + nd[a].size = (IF nd[a].next = NULL THEN end ELSE nd[a].next)
         /\ a + 1 + nd[a].size <= end
         /\ \A b \in DOMAIN nd : a < b => a + 1 + nd[a].size <= b
<1>1. nd[a] \in Nodes
  BY DEF ListOf, Linked
<1>2. nd[a] = Node(nd[a].size, nd[a].status, nd[a].next, nd[a].prev)
  BY <1>1 DEF Nodes, Node
<1> QED BY <1>1, <1>2, Constants DEF ListOf, Linked, Abutting, Nodes

\* The status of a node has no part in the order of the list.
StatusResult(nd, nd1, end, a, st) ==
  /\ ListOf(nd1, end) /\ DOMAIN nd1 = DOMAIN nd
  /\ \A b \in DOMAIN nd :
       /\ nd1[b].size = nd[b].size /\ nd1[b].next = nd[b].next
       /\ nd1[b].prev = nd[b].prev
       /\ nd1[b].status = (IF b = a THEN st ELSE nd[b].status)

LEMMA StatusChange ==
  ASSUME NEW nd, NEW end \in Nat, ListOf(nd, end), NEW a \in DOMAIN nd,
         NEW st \in {"free", "res"}
  PROVE  StatusResult(nd, [nd EXCEPT ![a].status = st], end, a, st)
<1> DEFINE nd1 == [nd EXCEPT ![a].status = st]
<1>1. /\ DOMAIN nd1 = DOMAIN nd
      /\ nd1 = [b \in DOMAIN nd |-> IF b = a THEN [nd[a] EXCEPT !.status = st] ELSE nd[b]]
  BY DEF ListOf, Linked
<1>2. \A b \in DOMAIN nd : /\ nd1[b] \in Nodes /\ nd1[b].size = nd[b].size
                           /\ nd1[b].next = nd[b].next /\ nd1[b].prev = nd[b].prev
                           /\ nd1[b].status = (IF b = a THEN st ELSE nd[b].status)
  BY <1>1 DEF ListOf, Linked, Nodes
<1> HIDE DEF nd1
<1>3. Linked(nd1)
  BY <1>1, <1>2 DEF ListOf, Linked
<1>4. Abutting(nd1, end)
  BY <1>1, <1>2 DEF ListOf, Abutting
<1> QED BY <1>1, <1>2, <1>3, <1>4 DEF ListOf, StatusResult, nd1

\* The last node may get any size that the end of the heap follows.
ResizeResult(nd, nd1, end, a, sz) ==
  /\ ListOf(nd1, end) /\ DOMAIN nd1 = DOMAIN nd
  /\ \A b \in DOMAIN nd :
       /\ nd1[b].next = nd[b].next /\ nd1[b].status = nd[b].status
       /\ nd1[b].size = (IF b = a THEN sz ELSE nd[b].size)

LEMMA LastResized ==
  ASSUME NEW nd, NEW end \in Nat, ListOf(nd, end), NEW a \in DOMAIN nd,
         nd[a].next = NULL, NEW sz \in Nat
  PROVE  ResizeResult(nd, [nd EXCEPT ![a].size = sz], a + 1 + sz, a, sz)
<1> DEFINE nd1 == [nd EXCEPT ![a].size = sz]
<1>1. /\ DOMAIN nd1 = DOMAIN nd
      /\ nd1 = [b \in DOMAIN nd |-> IF b = a THEN [nd[a] EXCEPT !.size = sz] ELSE nd[b]]
  BY DEF ListOf, Linked
<1>2. \A b \in DOMAIN nd : /\ nd1[b] \in Nodes
                           /\ nd1[b].size = (IF b = a THEN sz ELSE nd[b].size)
                           /\ nd1[b].next = nd[b].next /\ nd1[b].prev = nd[b].prev
                           /\ nd1[b].status = nd[b].status
  BY <1>1 DEF ListOf, Linked, Nodes
<1>3. \A b \in DOMAIN nd : b <= a /\ (b # a => nd[b].next # NULL)
  BY NextIsNext, NodeFacts
<1> HIDE DEF nd1
<1>4. Linked(nd1)
  BY <1>1, <1>2 DEF ListOf, Linked
<1>5. ASSUME NEW b \in DOMAIN nd
      PROVE  /\ b + 1 + nd1[b].size = (IF nd1[b].next = NULL THEN a + 1 + sz ELSE nd1[b].next)
             /\ b + 1 + nd1[b].size <= a + 1 + sz
  <2>1. CASE b = a
    BY <2>1, <1>2, NodeFacts
  <2>2. CASE b # a
    BY <2>2, <1>2, <1>3, NodeFacts
  <2> QED BY <2>1, <2>2
<1>6. ASSUME NEW b \in DOMAIN nd, NEW c \in DOMAIN nd, b < c
      PROVE  b + 1 + nd1[b].size <= c
  BY <1>2, <1>3, <1>6, NodeFacts
<1>7. Abutting(nd1, a + 1 + sz)
  BY <1>1, <1>5, <1>6 DEF Abutting
<1> QED BY <1>1, <1>2, <1>4, <1>7 DEF ListOf, ResizeResult, nd1

\* A node is split in two at x.
Split(nd, a, x) ==
  [b \in DOMAIN nd \cup {x} |->
     IF b = x THEN Node(a + nd[a].size - x, "free", nd[a].next, a)
     ELSE IF b = a THEN Node(x - a - 1, nd[a].status, x, nd[a].prev)
     ELSE IF b = nd[a].next THEN Node(nd[b].size, nd[b].status, nd[b].next, x)
     ELSE nd[b]]

SplitResult(nd, nd1, end, a, x) ==
  /\ ListOf(nd1, end) /\ x \notin DOMAIN nd
  /\ DOMAIN nd1 = DOMAIN nd \cup {x}
  /\ nd1[x].size = a + nd[a].size - x /\ nd1[x].next = nd[a].next
  /\ nd1[x].status = "free"
  /\ \A b \in DOMAIN nd :
       /\ nd1[b].next = (IF b = a THEN x ELSE nd[b].next)
       /\ nd1[b].status = nd[b].status
       /\ nd1[b].size = (IF b = a THEN x - a - 1 ELSE nd[b].size)

LEMMA SplitSound ==
  ASSUME NEW nd, NEW end \in Nat, ListOf(nd, end), NEW a \in DOMAIN nd,
         NEW x \in Nat, a < x, x <= a + nd[a].size
  PROVE  SplitResult(nd, Split(nd, a, x), end, a, x)
<1> DEFINE nd1 == Split(nd, a, x)
           n == nd[a].next
<1>1. /\ a \in Nat /\ nd[a].size \in Nat /\ n \in Nat /\ nd[a].prev \in Nat
      /\ a >= Base /\ a > 0 /\ Base \in Nat /\ NULL = 0 /\ DOMAIN nd \subseteq Nat
  BY NodeFacts, Constants DEF ListOf, Linked
<1>2. x \notin DOMAIN nd /\ x # a /\ x # n
  BY <1>1, NodeFacts
<1>3. n # a /\ n # x
  BY <1>1, <1>2, NodeFacts
<1>4. /\ DOMAIN nd1 = DOMAIN nd \cup {x} /\ nd1 = [b \in DOMAIN nd1 |-> nd1[b]]
      /\ nd1[x] = Node(a + nd[a].size - x, "free", n, a)
      /\ nd1[a] = Node(x - a - 1, nd[a].status, x, nd[a].prev)
      /\ n # NULL => nd1[n] = Node(nd[n].size, nd[n].status, nd[n].next, x)
      /\ \A b \in DOMAIN nd : b # a /\ b # n => nd1[b] = nd[b]
  <2>1. n # NULL => n \in DOMAIN nd
    BY NodeFacts
  <2> QED BY <1>2, <1>3, <2>1, <1>1 DEF Split
<1> HIDE DEF nd1
<1>5. \A b \in DOMAIN nd : /\ nd1[b].prev = (IF b = n THEN x ELSE nd[b].prev)
                           /\ nd1[b].next = (IF b = a THEN x ELSE nd[b].next)
                           /\ nd1[b].size = (IF b = a THEN x - a - 1 ELSE nd[b].size)
                           /\ nd1[b].status = nd[b].status
                           /\ nd1[b] \in Nodes
  <2> TAKE b \in DOMAIN nd
  <2>1. CASE b = a
    BY <2>1, <1>1, <1>3, <1>4, NodeFacts DEF Node, Nodes
  <2>2. CASE b = n
    <3>1. n # NULL
      BY <2>2, <1>1, NodeFacts
    <3>2. nd[b].size \in Nat /\ nd[b].status \in {"free", "res"} /\ nd[b].next \in Nat
      BY NodeFacts
    <3> QED BY <2>2, <3>1, <3>2, <1>3, <1>4 DEF Node, Nodes
  <2>3. CASE b # a /\ b # n
    <3>1. nd[b] \in Nodes
      BY DEF ListOf, Linked
    <3> QED BY <2>3, <3>1, <1>4
  <2> QED BY <2>1, <2>2, <2>3
<1>6. /\ nd1[x].size = a + nd[a].size - x /\ nd1[x].next = n /\ nd1[x].prev = a
      /\ nd1[x].status = "free" /\ nd1[x] \in Nodes
  BY <1>1, <1>4 DEF Node, Nodes
<1>7. \A b \in DOMAIN nd : nd[b].next = n /\ n # NULL => b = a
  BY NodeFacts
<1>8. \A b \in DOMAIN nd : nd[b].prev = a => b = n
  BY <1>1, NodeFacts
<1>9. Linked(nd1)
  <2>1. nd1 \in [DOMAIN nd1 -> Nodes]
    BY <1>4, <1>5, <1>6
  <2>2. DOMAIN nd1 \subseteq Nat /\ Base \in DOMAIN nd1
    BY <1>1, <1>4 DEF ListOf, Linked
  <2>3. ASSUME NEW b \in DOMAIN nd
        PROVE  /\ b >= Base
               /\ nd1[b].next \in {NULL} \cup DOMAIN nd1
               /\ nd1[b].prev \in {NULL} \cup DOMAIN nd1
               /\ nd1[b].prev = NULL <=> b = Base
               /\ nd1[b].next # NULL => nd1[nd1[b].next].prev = b
               /\ nd1[b].prev # NULL => nd1[nd1[b].prev].next = b
    <3>1. /\ nd[b].next # NULL => nd[b].next \in DOMAIN nd /\ nd[nd[b].next].prev = b
          /\ nd[b].prev # NULL => nd[b].prev \in DOMAIN nd /\ nd[nd[b].prev].next = b
          /\ nd[b].prev = NULL <=> b = Base
      BY NodeFacts
    <3>2. b >= Base
      BY NodeFacts
    <3>3. nd1[b].next \in {NULL} \cup DOMAIN nd1 /\ nd1[b].prev \in {NULL} \cup DOMAIN nd1
      BY <3>1, <1>4, <1>5
    <3>4. nd1[b].prev = NULL <=> b = Base
      <4>1. CASE b = n
        <5>1. nd[b].prev = a
          BY <4>1, <1>1, NodeFacts
        <5> QED BY <4>1, <5>1, <3>1, <1>1, <1>5
      <4>2. CASE b # n
        BY <4>2, <3>1, <1>5
      <4> QED BY <4>1, <4>2
    <3>5. nd1[b].next # NULL => nd1[nd1[b].next].prev = b
      <4>1. CASE b = a
        BY <4>1, <1>5, <1>6
      <4>2. CASE b # a /\ nd[b].next # NULL
        BY <4>2, <3>1, <1>5, <1>7
      <4> QED BY <4>1, <4>2, <1>5
    <3>6. nd1[b].prev # NULL => nd1[nd1[b].prev].next = b
      <4>1. CASE b = n
        BY <4>1, <1>5, <1>6
      <4>2. CASE b # n /\ nd[b].prev # NULL
        BY <4>2, <3>1, <1>5, <1>8
      <4> QED BY <4>1, <4>2, <1>5
    <3> QED BY <3>2, <3>3, <3>4, <3>5, <3>6
  <2>4. /\ x >= Base
        /\ nd1[x].next \in {NULL} \cup DOMAIN nd1
        /\ nd1[x].prev \in {NULL} \cup DOMAIN nd1
        /\ nd1[x].prev = NULL <=> x = Base
        /\ nd1[x].next # NULL => nd1[nd1[x].next].prev = x
        /\ nd1[x].prev # NULL => nd1[nd1[x].prev].next = x
    <3>1. n # NULL => n \in DOMAIN nd
      BY NodeFacts
    <3> QED BY <3>1, <1>1, <1>4, <1>5, <1>6
  <2> QED BY <2>1, <2>2, <2>3, <2>4, <1>4 DEF Linked
<1>10. Abutting(nd1, end)
  <2>1. ASSUME NEW b \in DOMAIN nd1
        PROVE  /\ b + 1 + nd1[b].size = (IF nd1[b].next = NULL THEN end ELSE nd1[b].next)
               /\ b + 1 + nd1[b].size <= end
    <3>1. CASE b = x
      BY <3>1, <1>1, <1>6, NodeFacts
    <3>2. CASE b = a
      BY <3>2, <1>1, <1>5, NodeFacts
    <3>3. CASE b \in DOMAIN nd /\ b # a
      BY <3>3, <1>5, NodeFacts
    <3> QED BY <3>1, <3>2, <3>3, <1>4
  <2>2. ASSUME NEW b \in DOMAIN nd1, NEW c \in DOMAIN nd1, b < c
        PROVE  b + 1 + nd1[b].size <= c
    <3>1. CASE b \in DOMAIN nd /\ c \in DOMAIN nd
      BY <3>1, <2>2, <1>1, <1>5, NodeFacts
    <3>2. CASE b = x /\ c \in DOMAIN nd
      <4>1. a < c /\ c \in Nat
        BY <3>2, <2>2, <1>1
      <4>2. a + 1 + nd[a].size <= c
        BY <4>1, <3>2, NodeFacts
      <4> QED BY <4>1, <4>2, <3>2, <1>1, <1>6
    <3>3. CASE b \in DOMAIN nd /\ c = x
      <4>1. CASE b = a
        BY <4>1, <3>3, <1>1, <1>5
      <4>2. CASE b < a
        BY <4>2, <3>3, <1>1, <1>5, NodeFacts
      <4>3. CASE b > a
        <5>1. a + 1 + nd[a].size <= b
          BY <4>3, <3>3, NodeFacts
        <5> QED BY <5>1, <3>3, <2>2, <1>1
      <4> QED BY <4>1, <4>2, <4>3, <3>3, <1>1
    <3> QED BY <3>1, <3>2, <3>3, <2>2, <1>4
  <2> QED BY <2>1, <2>2 DEF Abutting
<1> QED BY <1>2, <1>4, <1>5, <1>6, <1>9, <1>10 DEF ListOf, SplitResult, nd1

\* unify_fwd leaves a sound list, in which a is as long as both nodes were.
UnifyResult(nd, nd1, end, a) ==
  /\ ListOf(nd1, end) /\ DOMAIN nd1 = DOMAIN nd \ {nd[a].next} /\ nd[a].next # a
  /\ nd1[a].next = nd[nd[a].next].next /\ nd1[a].prev = nd[a].prev
  /\ \A b \in DOMAIN nd1 : nd1[b].status = nd[b].status
  /\ \A b \in DOMAIN nd1 : b # a =>
       nd1[b].next = nd[b].next /\ nd1[b].size = nd[b].size

LEMMA UnifySound ==
  ASSUME NEW nd, NEW end \in Nat, ListOf(nd, end), NEW a \in DOMAIN nd,
         nd[a].next # NULL
  PROVE  UnifyResult(nd, unify_fwd(nd, a), end, a)
<1> DEFINE nd1 == unify_fwd(nd, a)
           n == nd[a].next
           m == nd[n].next
<1>1. n \in DOMAIN nd /\ n > a /\ n \in Nat /\ a \in Nat
  BY NextIsNext, NodeFacts
<1>2. m # NULL => m \in DOMAIN nd /\ m > n /\ m \in Nat
  BY <1>1, NextIsNext, NodeFacts
<1>3. NULL \notin DOMAIN nd /\ NULL = 0 /\ DOMAIN nd \subseteq Nat
  BY ListAddresses, Constants DEF ListOf, Linked
<1>4. /\ DOMAIN nd1 = DOMAIN nd \ {n} /\ nd1 = [b \in DOMAIN nd1 |-> nd1[b]]
      /\ nd1[a] = [nd[a] EXCEPT !.size = nd[a].size + nd[n].size + 1, !.next = m]
      /\ m # NULL => nd1[m] = [nd[m] EXCEPT !.prev = a]
      /\ \A b \in DOMAIN nd : b # a /\ b # n /\ b # m => nd1[b] = nd[b]
  <2> DEFINE u == [b \in DOMAIN nd \ {n} |-> nd[b]]
             v == [u EXCEPT ![a].size = @ + nd[n].size + 1, ![a].next = m]
  <2>1. /\ DOMAIN v = DOMAIN nd \ {n} /\ v = [b \in DOMAIN v |-> v[b]]
        /\ v[a] = [nd[a] EXCEPT !.size = nd[a].size + nd[n].size + 1, !.next = m]
        /\ \A b \in DOMAIN nd : b # a /\ b # n => v[b] = nd[b]
    <3> DEFINE s == nd[n].size
               D == DOMAIN nd \ {n}
    <3>1. a \in D /\ u = [b \in D |-> nd[b]]
      BY <1>1
    <3>2. v = [u EXCEPT ![a].size = @ + s + 1, ![a].next = m]
      OBVIOUS
    <3> HIDE DEF s, n, m, u, v, D
    <3>3. DOMAIN u = D /\ u = [b \in D |-> u[b]] /\ \A b \in D : u[b] = nd[b]
      BY <3>1
    <3>4. /\ DOMAIN v = D /\ v = [b \in D |-> v[b]]
          /\ \A b \in D : b # a => v[b] = u[b]
      BY <3>1, <3>2, <3>3
    <3>5. v[a] = [u[a] EXCEPT !.size = u[a].size + s + 1, !.next = m]
      BY <3>1, <3>2, <3>3
    <3> QED BY <3>1, <3>3, <3>4, <3>5 DEF s, D
  <2>2. nd1 = IF m = NULL THEN v ELSE [v EXCEPT ![m].prev = a]
    BY DEF unify_fwd
  <2> HIDE DEF nd1, v, n, m
  <2>3. CASE m = NULL
    BY <2>1, <2>2, <2>3, <1>3
  <2>4. CASE m # NULL
    <3>1. m \in DOMAIN v /\ m # a /\ v[m] = nd[m]
      BY <2>1, <2>4, <1>1, <1>2
    <3>2. nd1 = [v EXCEPT ![m].prev = a]
      BY <2>2, <2>4
    <3>3. /\ DOMAIN nd1 = DOMAIN v /\ nd1 = [b \in DOMAIN nd1 |-> nd1[b]]
          /\ nd1[m] = [v[m] EXCEPT !.prev = a]
          /\ \A b \in DOMAIN v : b # m => nd1[b] = v[b]
      BY <3>1, <3>2
    <3>4. a \in DOMAIN v
      BY <2>1, <1>1
    <3>5. nd1[a] = v[a]
      BY <3>1, <3>3, <3>4
    <3> QED BY <3>1, <3>3, <3>5, <2>1
  <2> QED BY <2>3, <2>4 DEF nd1, n, m
<1> HIDE DEF nd1
<1>5. \A b \in DOMAIN nd1 :
        /\ nd1[b].prev = (IF b = m THEN a ELSE nd[b].prev)
        /\ nd1[b].next = (IF b = a THEN m ELSE nd[b].next)
        /\ nd1[b].size = (IF b = a THEN nd[a].size + nd[n].size + 1 ELSE nd[b].size)
        /\ nd1[b].status = nd[b].status
        /\ nd1[b] \in Nodes
  <2> TAKE b \in DOMAIN nd1
  <2>1. b \in DOMAIN nd /\ b # n
    BY <1>4
  <2>2. nd[b] \in Nodes
    BY <2>1 DEF ListOf, Linked
  <2>3. CASE b = a
    <3>1. nd[n].size \in Nat /\ nd[a].size \in Nat /\ m \in Nat
      BY <1>1, NodeFacts
    <3>2. a # m
      BY <1>1, <1>2, <1>3
    <3> DEFINE s == nd[a].size + nd[n].size + 1
    <3>3. s \in Nat
      BY <3>1
    <3>4. nd1[a] = [nd[a] EXCEPT !.size = s, !.next = m]
      BY <1>4
    <3> HIDE DEF s, m, n
    <3>5. /\ nd1[a] \in Nodes /\ nd1[a].size = s /\ nd1[a].next = m
          /\ nd1[a].prev = nd[a].prev /\ nd1[a].status = nd[a].status
      BY <2>2, <2>3, <3>1, <3>3, <3>4 DEF Nodes
    <3> QED BY <2>3, <3>2, <3>5 DEF s
  <2>4. CASE b = m
    <3>1. m # NULL /\ a # m
      BY <2>1, <2>4, <1>1, <1>2, <1>3
    <3> QED BY <2>2, <2>4, <3>1, <1>1, <1>4 DEF Nodes
  <2>5. CASE b # a /\ b # m
    BY <2>1, <2>2, <2>5, <1>4
  <2> QED BY <2>3, <2>4, <2>5
<1>6. a \in DOMAIN nd1 /\ (m # NULL => m \in DOMAIN nd1)
  BY <1>1, <1>2, <1>4
<1>7. \A b \in DOMAIN nd : nd[b].next = n => b = a
  BY <1>1, NodeFacts
<1>8. \A b \in DOMAIN nd : nd[b].prev = n => b = m
  BY <1>1, <1>3, NodeFacts
<1>9. \A b \in DOMAIN nd : b # NULL /\ nd[b].next = m /\ m # NULL => b = n
  BY <1>1, <1>2, NodeFacts
<1>10. \A b \in DOMAIN nd : nd[b].prev = a => b = n
  BY <1>1, <1>3, NodeFacts
<1>11. Linked(nd1)
  <2>1. nd1 \in [DOMAIN nd1 -> Nodes]
    BY <1>4, <1>5
  <2>2. DOMAIN nd1 \subseteq Nat /\ Base \in DOMAIN nd1
    <3>1. Base \in DOMAIN nd /\ a >= Base /\ Base \in Nat
      BY Constants, NodeFacts DEF ListOf, Linked
    <3> QED BY <3>1, <1>1, <1>3, <1>4
  <2>3. ASSUME NEW b \in DOMAIN nd1
        PROVE  /\ b >= Base
               /\ nd1[b].next \in {NULL} \cup DOMAIN nd1
               /\ nd1[b].prev \in {NULL} \cup DOMAIN nd1
               /\ nd1[b].prev = NULL <=> b = Base
               /\ nd1[b].next # NULL => nd1[nd1[b].next].prev = b
               /\ nd1[b].prev # NULL => nd1[nd1[b].prev].next = b
    <3> b \in DOMAIN nd /\ b # n
      BY <1>4
    <3>1. /\ nd[b].next # NULL => nd[b].next \in DOMAIN nd /\ nd[nd[b].next].prev = b
          /\ nd[b].prev # NULL => nd[b].prev \in DOMAIN nd /\ nd[nd[b].prev].next = b
          /\ nd[b].prev = NULL <=> b = Base
      BY NodeFacts
    <3>2. b >= Base
      BY NodeFacts
    <3>3. nd1[b].next \in {NULL} \cup DOMAIN nd1 /\ nd1[b].prev \in {NULL} \cup DOMAIN nd1
      BY <3>1, <1>4, <1>5, <1>6, <1>7, <1>8
    <3>4. nd1[b].prev = NULL <=> b = Base
      <4>1. CASE b = m
        <5>1. nd[b].prev = n
          BY <4>1, <1>1, <1>3, NodeFacts
        <5> QED BY <4>1, <5>1, <3>1, <1>1, <1>3, <1>5
      <4>2. CASE b # m
        BY <4>2, <3>1, <1>5
      <4> QED BY <4>1, <4>2
    <3>5. nd1[b].next # NULL => nd1[nd1[b].next].prev = b
      <4>1. CASE b = a
        BY <4>1, <1>5, <1>6
      <4>2. CASE b # a /\ nd[b].next # NULL
        <5>1. nd[b].next # n /\ nd[b].next # m /\ nd[b].next \in DOMAIN nd1
          BY <4>2, <3>1, <1>1, <1>3, <1>4, <1>7, <1>9
        <5> QED BY <4>2, <5>1, <3>1, <1>5
      <4> QED BY <4>1, <4>2, <1>5
    <3>6. nd1[b].prev # NULL => nd1[nd1[b].prev].next = b
      <4>1. CASE b = m
        BY <4>1, <1>5, <1>6
      <4>2. CASE b # m /\ nd[b].prev # NULL
        <5>1. nd[b].prev # n /\ nd[b].prev # a /\ nd[b].prev \in DOMAIN nd1
          BY <4>2, <3>1, <1>4, <1>8, <1>10
        <5> QED BY <4>2, <5>1, <3>1, <1>5
      <4> QED BY <4>1, <4>2, <1>5
    <3> QED BY <3>2, <3>3, <3>4, <3>5, <3>6
  <2> QED BY <2>1, <2>2, <2>3 DEF Linked
<1>12. Abutting(nd1, end)
  <2>1. /\ a + 1 + nd[a].size = n
        /\ n + 1 + nd[n].size = (IF m = NULL THEN end ELSE m)
        /\ n + 1 + nd[n].size <= end
        /\ nd[a].size \in Nat /\ nd[n].size \in Nat
    BY <1>1, NodeFacts
  <2>2. ASSUME NEW b \in DOMAIN nd1
        PROVE  /\ b + 1 + nd1[b].size = (IF nd1[b].next = NULL THEN end ELSE nd1[b].next)
               /\ b + 1 + nd1[b].size <= end
    <3>1. CASE b = a
      BY <3>1, <2>1, <1>1, <1>5
    <3>2. CASE b # a
      BY <3>2, <1>4, <1>5, NodeFacts
    <3> QED BY <3>1, <3>2
  <2>3. ASSUME NEW b \in DOMAIN nd1, NEW c \in DOMAIN nd1, b < c
        PROVE  b + 1 + nd1[b].size <= c
    <3>1. b \in DOMAIN nd /\ c \in DOMAIN nd /\ c # n
      BY <1>4
    <3>2. CASE b = a
      <4>1. n <= c /\ c \in Nat
        BY <3>1, <3>2, <2>1, <2>3, <1>3, NodeFacts
      <4>2. n + 1 + nd[n].size <= c
        BY <4>1, <3>1, <1>1, NodeFacts
      <4> QED BY <4>1, <4>2, <3>2, <2>1, <1>1, <1>5
    <3>3. CASE b # a
      BY <3>1, <3>3, <2>3, <1>5, NodeFacts
    <3> QED BY <3>2, <3>3
  <2> QED BY <2>2, <2>3 DEF Abutting
<1>13. n # a /\ nd1[a].prev = nd[a].prev
  BY <1>1, <1>2, <1>3, <1>5, <1>6
<1> QED BY <1>4, <1>5, <1>6, <1>11, <1>12, <1>13 DEF ListOf, UnifyResult, nd1

----------------------------------------------------------------------------
(* do_kmalloc's part of it *)

\* A negative number, as a size_t.
LEMMA NegativeRest ==
  ASSUME NEW d \in Nat, NEW m \in Nat, 0 < m, m < d
  PROVE  (0 - m) % d = d - m
  BY SMT

LEMMA SmallRest ==
  ASSUME NEW d \in Nat, NEW n \in Nat, n < d
  PROVE  n % d = n
  BY SMT

\* Assignments to members of a node.
LEMMA NodeUpdates ==
  ASSUME NEW r \in Nodes, NEW s \in Nat, NEW t \in {"free", "res"}, NEW p \in Nat
  PROVE  /\ [r EXCEPT !.size = s, !.next = p] = Node(s, r.status, p, r.prev)
         /\ [r EXCEPT !.size = s, !.status = t] = Node(s, t, r.next, r.prev)
         /\ [r EXCEPT !.next = p] = Node(r.size, r.status, p, r.prev)
         /\ [r EXCEPT !.prev = p] = Node(r.size, r.status, r.next, p)
         /\ [r EXCEPT !.status = t] = Node(r.size, t, r.next, r.prev)
<1>1. [r EXCEPT !.size = s] = Node(s, r.status, r.next, r.prev)
  BY DEF Nodes, Node
<1>2. [r EXCEPT !.next = p] = Node(r.size, r.status, p, r.prev)
  BY DEF Nodes, Node
<1>3. [r EXCEPT !.prev = p] = Node(r.size, r.status, r.next, p)
  BY DEF Nodes, Node
<1>4. [r EXCEPT !.status = t] = Node(r.size, t, r.next, r.prev)
  BY DEF Nodes, Node
<1> DEFINE q == Node(s, r.status, r.next, r.prev)
<1>5. q \in Nodes /\ q.size = s /\ q.status = r.status /\ q.next = r.next /\ q.prev = r.prev
  BY DEF Nodes, Node
<1>6. [r EXCEPT !.size = s, !.next = p] = [q EXCEPT !.next = p]
  BY <1>1
<1>7. [r EXCEPT !.size = s, !.status = t] = [q EXCEPT !.status = t]
  BY <1>1
<1> HIDE DEF q
<1>8. [q EXCEPT !.next = p] = Node(q.size, q.status, p, q.prev)
  BY <1>5 DEF Nodes, Node
<1>9. [q EXCEPT !.status = t] = Node(q.size, t, q.next, q.prev)
  BY <1>5 DEF Nodes, Node
<1> QED BY <1>2, <1>3, <1>4, <1>5, <1>6, <1>7, <1>8, <1>9

\* The block of c and what is left of its node behind it, from q on.
Backed(f, c, q, end, size) ==
  [b \in DOMAIN f \cup {q} |->
     IF b = q
     THEN Node((IF f[c].next = NULL THEN end ELSE f[c].next) - q - 1, "free", f[c].next, c)
     ELSE IF b = c THEN Node(size, "res", q, f[c].prev)
     ELSE IF b = f[c].next THEN Node(f[b].size, f[b].status, f[b].next, q)
     ELSE f[b]]
Reserved(f, c, q, end, size) ==
  [PadBack(f, c, q, end) EXCEPT ![c].size = size, ![c].status = "res"]

LEMMA BackSplit ==
  ASSUME NEW f, f \in [DOMAIN f -> Nodes], NEW c \in DOMAIN f, NEW q \in Nat,
         q \notin DOMAIN f, NULL \notin DOMAIN f, DOMAIN f \subseteq Nat,
         NEW end \in Nat, NEW size \in Nat,
         f[c].next # NULL => f[c].next \in DOMAIN f, f[c].next # c,
         (IF f[c].next = NULL THEN end ELSE f[c].next) - q - 1 \in Nat
  PROVE  Reserved(f, c, q, end, size) = Backed(f, c, q, end, size)
<1> DEFINE D == DOMAIN f
           n == f[c].next
           r == (IF n = NULL THEN end ELSE n) - q - 1
           g == [b \in D |-> IF b = c THEN Node(f[c].size, f[c].status, q, f[c].prev) ELSE f[b]]
           h == [b \in D |-> IF b = n THEN Node(g[b].size, g[b].status, g[b].next, q) ELSE g[b]]
           k == Put(h, q, Node(r, "free", n, c))
<1>1. \A b \in D : /\ f[b] \in Nodes /\ f[b].size \in Nat /\ f[b].status \in {"free", "res"}
                   /\ f[b].next \in Nat /\ f[b].prev \in Nat
  BY DEF Nodes
<1>2. [f EXCEPT ![c].next = q] = g
  <2>1. [f[c] EXCEPT !.next = q] = Node(f[c].size, f[c].status, q, f[c].prev)
    BY <1>1, NodeUpdates
  <2>2. [f EXCEPT ![c].next = q] =
          [b \in D |-> IF b = c THEN [f[c] EXCEPT !.next = q] ELSE f[b]]
    OBVIOUS
  <2> QED BY <2>1, <2>2
<1>3. g \in [D -> Nodes]
  BY <1>1 DEF Node, Nodes
<1>4. n # NULL => [g EXCEPT ![n].prev = q] = h
  <2> HIDE DEF g, h
  <2>1. ASSUME n # NULL
        PROVE  [g EXCEPT ![n].prev = q] =
                 [b \in D |-> IF b = n THEN Node(g[n].size, g[n].status, g[n].next, q) ELSE g[b]]
    <3> HIDE DEF n
    <3>1. n \in D
      BY <2>1 DEF n
    <3>2. [g[n] EXCEPT !.prev = q] = Node(g[n].size, g[n].status, g[n].next, q)
      BY <3>1, <1>3, NodeUpdates
    <3>3. [g EXCEPT ![n].prev = q] =
            [b \in D |-> IF b = n THEN [g[n] EXCEPT !.prev = q] ELSE g[b]]
      BY <3>1, <1>3
    <3> QED BY <3>2, <3>3
  <2> QED BY <2>1 DEF h
<1>5. n = NULL => g = h
  <2> HIDE DEF g
  <2> QED BY <1>3
<1>6. PadBack(f, c, q, end) = k
  <2>1. PadBack(f, c, q, end) =
          Put(IF n = NULL THEN [f EXCEPT ![c].next = q]
              ELSE [[f EXCEPT ![c].next = q] EXCEPT ![n].prev = q],
              q, Node(r, "free", n, c))
    BY DEF PadBack
  <2> HIDE DEF n, g, h, r
  <2>2. CASE n = NULL
    BY <2>1, <2>2, <1>2, <1>5
  <2>3. CASE n # NULL
    BY <2>1, <2>3, <1>2, <1>4
  <2> QED BY <2>2, <2>3
<1>7. h \in [D -> Nodes]
  <2>1. \A b \in D : g[b] \in Nodes /\ (b = n => Node(g[b].size, g[b].status, g[b].next, q) \in Nodes)
    <3> HIDE DEF g
    <3> QED BY <1>3 DEF Nodes, Node
  <2> HIDE DEF g
  <2> QED BY <2>1
<1>8. k \in [D \cup {q} -> Nodes]
  <2>1. Node(r, "free", n, c) \in Nodes
    BY <1>1 DEF Node, Nodes
  <2> HIDE DEF h, r, n
  <2> QED BY <2>1, <1>7 DEF Put
<1>9. [k EXCEPT ![c].size = size, ![c].status = "res"] =
        [b \in D \cup {q} |-> IF b = c THEN Node(size, "res", k[c].next, k[c].prev) ELSE k[b]]
  <2> HIDE DEF k
  <2>1. c \in D \cup {q}
    OBVIOUS
  <2>2. [k[c] EXCEPT !.size = size, !.status = "res"] =
          Node(size, "res", k[c].next, k[c].prev)
    BY <1>8, <2>1, NodeUpdates
  <2>3. [k EXCEPT ![c].size = size, ![c].status = "res"] =
          [b \in D \cup {q} |->
             IF b = c THEN [k[c] EXCEPT !.size = size, !.status = "res"] ELSE k[b]]
    BY <1>8, <2>1
  <2> QED BY <2>2, <2>3
<1>10. k[c].next = q /\ k[c].prev = f[c].prev
  <2>1. k[c] = h[c]
    BY DEF Put
  <2>2. h[c] = g[c]
    OBVIOUS
  <2>3. g[c].next = q /\ g[c].prev = f[c].prev
    BY DEF Node
  <2> HIDE DEF g, h, k
  <2> QED BY <2>1, <2>2, <2>3
<1>11. ASSUME NEW b \in D, b # c
       PROVE  k[b] = IF b = n THEN Node(f[b].size, f[b].status, f[b].next, q) ELSE f[b]
  <2>1. k[b] = h[b]
    BY DEF Put
  <2>2. h[b] = IF b = n THEN Node(g[b].size, g[b].status, g[b].next, q) ELSE g[b]
    OBVIOUS
  <2>3. g[b] = f[b]
    BY <1>11
  <2> HIDE DEF g, h, k
  <2> QED BY <2>1, <2>2, <2>3
<1>12. k[q] = Node(r, "free", n, c)
  BY DEF Put
<1> HIDE DEF k
<1>13. [PadBack(f, c, q, end) EXCEPT ![c].size = size, ![c].status = "res"] =
         [b \in D \cup {q} |-> IF b = c THEN Node(size, "res", q, f[c].prev) ELSE k[b]]
  BY <1>6, <1>9, <1>10
<1> QED BY <1>11, <1>12, <1>13 DEF Backed, Reserved

\* The node in front of an aligned block, and the block's node with a size
\* that is not used: there is always something behind the block to split off.
LEMMA FrontSplit ==
  ASSUME NEW D, NEW f \in [D -> Nodes], D \subseteq Nat, NEW a \in D, NEW c \in Nat,
         c \notin D, c > a
  PROVE  /\ PadFront(f, a, c) =
              [b \in D \cup {c} |->
                 IF b = c THEN Node((f[a].next - c - 1) % Word, "free", f[a].next, a)
                 ELSE IF b = a THEN Node(c - a - 1, f[a].status, c, f[a].prev)
                 ELSE f[b]]
         /\ PadFront(f, a, c) \in [D \cup {c} -> Nodes]
<1> DEFINE z == (f[a].next - c - 1) % Word
           g == [b \in D |-> IF b = a THEN Node(c - a - 1, f[a].status, c, f[a].prev) ELSE f[b]]
           k == Put(g, c, Node(z, "free", f[a].next, a))
<1>1. f[a] \in Nodes /\ f[a].next \in Nat /\ a \in Nat
  BY DEF Nodes
<1>2. c - a - 1 \in Nat
  BY <1>1
<1>3. z \in Nat
  <2>1. f[a].next - c - 1 \in Int /\ Word \in Nat \ {0}
    BY <1>1, Constants
  <2> QED BY <2>1
<1>4. [f EXCEPT ![a].size = c - a - 1, ![a].next = c] = g
  <2> DEFINE s == c - a - 1
  <2>1. [f[a] EXCEPT !.size = s, !.next = c] = Node(s, f[a].status, c, f[a].prev)
    <3> HIDE DEF s
    <3> s \in Nat
      BY <1>2 DEF s
    <3> QED BY <1>1, NodeUpdates
  <2>2. [f EXCEPT ![a].size = s, ![a].next = c] =
          [b \in D |-> IF b = a THEN [f[a] EXCEPT !.size = s, !.next = c] ELSE f[b]]
    <3> HIDE DEF s
    <3> QED OBVIOUS
  <2> QED BY <2>1, <2>2
<1>5. PadFront(f, a, c) = k
  BY <1>4 DEF PadFront
<1>6. Node(z, "free", f[a].next, a) \in Nodes
  <2> HIDE DEF z
  <2> QED BY <1>1, <1>3 DEF Node, Nodes
<1>7. g \in [D -> Nodes]
  <2>1. Node(c - a - 1, f[a].status, c, f[a].prev) \in Nodes
    BY <1>1, <1>2 DEF Node, Nodes
  <2> QED BY <2>1
<1>8. k = [b \in D \cup {c} |-> IF b = c THEN Node(z, "free", f[a].next, a) ELSE g[b]]
  <2> HIDE DEF z
  <2> QED BY <1>7 DEF Put
<1>9. k \in [D \cup {c} -> Nodes]
  <2> HIDE DEF g, k, z
  <2> QED BY <1>6, <1>7, <1>8
<1>10. \A b \in D : g[b] = IF b = a THEN Node(c - a - 1, f[a].status, c, f[a].prev) ELSE f[b]
  OBVIOUS
<1> HIDE DEF g, k
<1> QED BY <1>5, <1>8, <1>9, <1>10

\* Where the header of a block goes, and that the block fits behind it.
LEMMA HeaderPlace ==
  ASSUME NEW nd, NEW end \in Nat, ListOf(nd, end), NEW a \in DOMAIN nd,
         NEW size \in Nat \ {0}, NEW align \in {1, Page}, Fits(nd, a, size, align)
  PROVE  LET c == HeaderAt(a, align)
         IN  /\ c \in Nat /\ c >= a /\ nd[a].status = "free"
             /\ c = a => size <= nd[a].size
             /\ c # a => c + 1 + size <= a + nd[a].size
<1>1. a \in Nat /\ nd[a].size \in Nat
  BY NodeFacts
<1>2. Padding(a, align) \in 0 .. align /\ align \in Nat
  BY <1>1, PaddingBound, Constants
<1>3. nd[a].size >= size + Padding(a, align) /\ nd[a].status = "free"
  BY DEF Fits
<1> QED BY <1>1, <1>2, <1>3 DEF HeaderAt

\* Carve is a split behind the block, after one in front of it if the block
\* is aligned and the node is not.
LEMMA CarveIsSplit ==
  ASSUME NEW nd, NEW end \in Nat, end <= Limit, ListOf(nd, end), NEW a \in DOMAIN nd,
         NEW size \in Nat \ {0}, NEW align \in {1, Page}, Fits(nd, a, size, align),
         nd[a].next = NULL => nd[a].size > size
  PROVE  LET c == HeaderAt(a, align)
             q == c + 1 + size
             n == Carve(nd, a, size, align, end)
         IN  /\ c = a /\ nd[a].size = size => n = [nd EXCEPT ![a].status = "res"]
             /\ c = a /\ nd[a].size # size =>
                  n = [Split(nd, a, q) EXCEPT ![c].status = "res"]
             /\ c # a => n = [Split(Split(nd, a, c), c, q) EXCEPT ![c].status = "res"]
<1> DEFINE c == HeaderAt(a, align)
           q == c + 1 + size
           D == DOMAIN nd
           x == nd[a].next
<1>1. /\ c \in Nat /\ c >= a /\ nd[a].status = "free"
      /\ c = a => size <= nd[a].size
      /\ c # a => c + 1 + size <= a + nd[a].size
  BY HeaderPlace
<1>2. Carve(nd, a, size, align, end) =
        LET nd1 == IF c = a THEN nd ELSE PadFront(nd, a, c)
            nd2 == IF nd1[c].size = size THEN nd1 ELSE PadBack(nd1, c, q, end)
        IN  [nd2 EXCEPT ![c].size = size, ![c].status = "res"]
  BY DEF Carve
<1> HIDE DEF c
<1>3. /\ a \in Nat /\ nd[a] \in Nodes /\ nd[a].size \in Nat /\ x \in Nat
      /\ nd[a].prev \in Nat /\ nd[a].status \in {"free", "res"} /\ a > 0
      /\ x # NULL => x \in D /\ a < x
      /\ a + 1 + nd[a].size = (IF x = NULL THEN end ELSE x)
      /\ a + 1 + nd[a].size <= end
      /\ nd \in [D -> Nodes] /\ D \subseteq Nat /\ NULL \notin D /\ NULL = 0
  BY NodeFacts, NextIsNext, ListAddresses, Constants DEF ListOf, Linked
<1>4. \A b \in D : ~(a < b /\ b < a + 1 + nd[a].size)
  BY <1>3, NodeFacts
<1>5. ASSUME c = a, nd[a].size = size
      PROVE  Carve(nd, a, size, align, end) = [nd EXCEPT ![a].status = "res"]
  <2>1. Carve(nd, a, size, align, end) = [nd EXCEPT ![a].size = size, ![a].status = "res"]
    BY <1>2, <1>5
  <2>2. /\ [nd[a] EXCEPT !.size = size, !.status = "res"] =
             Node(size, "res", nd[a].next, nd[a].prev)
        /\ [nd[a] EXCEPT !.status = "res"] = Node(nd[a].size, "res", nd[a].next, nd[a].prev)
    BY <1>3, NodeUpdates
  <2>3. /\ [nd EXCEPT ![a].size = size, ![a].status = "res"] =
             [b \in D |-> IF b = a THEN [nd[a] EXCEPT !.size = size, !.status = "res"] ELSE nd[b]]
        /\ [nd EXCEPT ![a].status = "res"] =
             [b \in D |-> IF b = a THEN [nd[a] EXCEPT !.status = "res"] ELSE nd[b]]
    BY <1>3
  <2> HIDE DEF D
  <2> QED BY <2>1, <2>2, <2>3, <1>5
<1>6. ASSUME c = a, nd[a].size # size
      PROVE  Carve(nd, a, size, align, end) = [Split(nd, a, q) EXCEPT ![c].status = "res"]
  <2>1. Carve(nd, a, size, align, end) =
          [PadBack(nd, a, q, end) EXCEPT ![a].size = size, ![a].status = "res"]
    BY <1>2, <1>6
  <2>2. q \in Nat /\ a < q /\ q <= a + nd[a].size /\ q \notin D /\ x # a
    BY <1>1, <1>3, <1>4, <1>6
  <2> DEFINE r == (IF x = NULL THEN end ELSE x) - q - 1
             P == [b \in D \cup {q} |->
                     IF b = q THEN Node(r, "free", x, a)
                     ELSE IF b = a THEN Node(size, "res", q, nd[a].prev)
                     ELSE IF b = x THEN Node(nd[b].size, nd[b].status, nd[b].next, q)
                     ELSE nd[b]]
  <2>3. r = a + nd[a].size - q /\ r \in Nat
    BY <2>2, <1>3
  <2>4. Carve(nd, a, size, align, end) = P
    <3>1. /\ nd[a].next # NULL => nd[a].next \in DOMAIN nd
          /\ size \in Nat /\ nd[a].next # a
          /\ nd \in [DOMAIN nd -> Nodes] /\ DOMAIN nd \subseteq Nat
          /\ NULL \notin DOMAIN nd /\ q \in Nat /\ q \notin DOMAIN nd
      BY <1>3, <2>2
    <3>2. (IF nd[a].next = NULL THEN end ELSE nd[a].next) - q - 1 \in Nat
      BY <2>3
    <3> HIDE DEF q, D
    <3>3. Reserved(nd, a, q, end, size) = Backed(nd, a, q, end, size)
      BY <3>1, <3>2, BackSplit
    <3> QED BY <2>1, <3>3 DEF Reserved, Backed, D
  <2> DEFINE S == Split(nd, a, q)
  <2>5. /\ S = [b \in D \cup {q} |-> S[b]]
        /\ S[q] = Node(r, "free", x, a)
        /\ S[a] = Node(size, nd[a].status, q, nd[a].prev)
        /\ \A b \in D : b # a => S[b] = IF b = x
             THEN Node(nd[b].size, nd[b].status, nd[b].next, q) ELSE nd[b]
    <3>1. q - a - 1 = size
      BY <1>3, <1>6
    <3> HIDE DEF q, D
    <3> QED BY <2>2, <2>3, <3>1 DEF Split, D
  <2>6. S[a] \in Nodes
    BY <2>2, <2>5, <1>3 DEF Node, Nodes
  <2>7. [S[a] EXCEPT !.status = "res"] = Node(size, "res", q, nd[a].prev)
    <3>1. [S[a] EXCEPT !.status = "res"] = Node(S[a].size, "res", S[a].next, S[a].prev)
      BY <2>6, NodeUpdates
    <3>2. S[a].size = size /\ S[a].next = q /\ S[a].prev = nd[a].prev
      BY <2>5 DEF Node
    <3> QED BY <3>1, <3>2
  <2>8. [S EXCEPT ![a].status = "res"] =
          [b \in D \cup {q} |-> IF b = a THEN [S[a] EXCEPT !.status = "res"] ELSE S[b]]
    <3> HIDE DEF S
    <3> QED BY <2>5
  <2>9. [S EXCEPT ![a].status = "res"] = P
    <3> HIDE DEF S, q, D, r
    <3> QED BY <2>2, <2>5, <2>7, <2>8
  <2> QED BY <2>4, <2>9, <1>6
<1>7. ASSUME c # a
      PROVE  Carve(nd, a, size, align, end) =
               [Split(Split(nd, a, c), c, q) EXCEPT ![c].status = "res"]
  <2>1. c > a /\ c \notin D /\ q \in Nat /\ q > c /\ q \notin D /\ q <= a + nd[a].size
        /\ x # c /\ x # a
    BY <1>1, <1>3, <1>4, <1>7
  <2> DEFINE z == (x - c - 1) % Word
             E == D \cup {c}
             F == PadFront(nd, a, c)
  <2>2. /\ F = [b \in E |-> IF b = c THEN Node(z, "free", x, a)
                            ELSE IF b = a THEN Node(c - a - 1, nd[a].status, c, nd[a].prev)
                            ELSE nd[b]]
        /\ F \in [E -> Nodes]
    BY <1>1, <1>3, <2>1, FrontSplit
  <2>3. z # size
    <3>1. Word \in Nat /\ Word > 2 * Limit /\ Limit \in Nat
      BY Constants
    <3>2. CASE x = NULL
      <4>1. c + 1 \in Nat /\ 0 < c + 1 /\ c + 1 < Word
        BY <3>1, <1>1, <1>3, <2>1
      <4>2. (0 - (c + 1)) % Word = Word - (c + 1)
        BY <4>1, <3>1, NegativeRest
      <4>3. x - c - 1 = 0 - (c + 1)
        BY <3>2, <1>1, <1>3
      <4> QED BY <4>2, <4>3, <3>1, <1>1, <1>3, <2>1
    <3>3. CASE x # NULL
      <4>1. x - c - 1 \in Nat /\ x - c - 1 < Word /\ x - c - 1 > size
        BY <3>1, <3>3, <1>1, <1>3, <2>1
      <4>2. (x - c - 1) % Word = x - c - 1
        BY <4>1, <3>1, SmallRest
      <4> QED BY <4>1, <4>2
    <3> QED BY <3>2, <3>3
  <2> HIDE DEF z, F
  <2>4. F[c] = Node(z, "free", x, a) /\ F[c].next = x /\ F[c].prev = a /\ F[c].size = z
    BY <2>2 DEF Node
  <2>5. Carve(nd, a, size, align, end) =
          [PadBack(F, c, q, end) EXCEPT ![c].size = size, ![c].status = "res"]
    BY <1>2, <1>7, <2>3, <2>4 DEF F
  <2> DEFINE r == (IF x = NULL THEN end ELSE x) - q - 1
             P == [b \in E \cup {q} |->
                     IF b = q THEN Node(r, "free", x, c)
                     ELSE IF b = c THEN Node(size, "res", q, a)
                     ELSE IF b = x THEN Node(F[b].size, F[b].status, F[b].next, q)
                     ELSE F[b]]
  <2>6. r = a + nd[a].size - q /\ r \in Nat
    BY <2>1, <1>3
  <2>7. Carve(nd, a, size, align, end) = P
    <3>1. c \in E /\ q \notin E /\ NULL \notin E /\ E \subseteq Nat /\ (x # NULL => x \in E)
      BY <1>1, <1>3, <2>1
    <3>2. /\ (IF F[c].next = NULL THEN end ELSE F[c].next) - q - 1 \in Nat
          /\ F[c].next # NULL => F[c].next \in E
          /\ F[c].next # c /\ size \in Nat
      BY <2>1, <2>4, <2>6, <3>1
    <3> HIDE DEF q, E, x
    <3>3. DOMAIN F = E
      BY <2>2
    <3>4. Reserved(F, c, q, end, size) = Backed(F, c, q, end, size)
      BY <1>1, <2>1, <2>2, <3>1, <3>2, <3>3, BackSplit
    <3> QED BY <2>4, <2>5, <3>3, <3>4 DEF Reserved, Backed
  <2> DEFINE S == Split(nd, a, c)
             T == Split(S, c, q)
  <2>8. /\ S = [b \in E |-> S[b]] /\ DOMAIN S = E
        /\ S[c] = Node(a + nd[a].size - c, "free", x, a)
        /\ S[a] = Node(c - a - 1, nd[a].status, c, nd[a].prev)
        /\ \A b \in D : b # a => S[b] = IF b = x
             THEN Node(nd[b].size, nd[b].status, nd[b].next, c) ELSE nd[b]
    <3> HIDE DEF q
    <3> QED BY <2>1 DEF Split
  <2>9. S[c].size = a + nd[a].size - c /\ S[c].status = "free" /\ S[c].next = x /\ S[c].prev = a
    BY <2>8 DEF Node
  <2>10. /\ c + S[c].size - q = r /\ q - c - 1 = size
    BY <2>6, <2>9, <1>1, <1>3
  <2> HIDE DEF S
  <2>11. /\ T = [b \in E \cup {q} |-> T[b]] /\ DOMAIN T = E \cup {q}
         /\ T[q] = Node(r, "free", x, c)
         /\ T[c] = Node(size, "free", q, a)
         /\ \A b \in E : b # c => T[b] = IF b = x
             THEN Node(S[b].size, S[b].status, S[b].next, q) ELSE S[b]
    <3> HIDE DEF q, E
    <3>1. c # q /\ c \in E
      BY <2>1 DEF E
    <3>2. q \notin E
      BY <2>1 DEF E
    <3> QED BY <2>8, <2>9, <2>10, <3>1, <3>2 DEF Split
  <2> HIDE DEF T
  <2>12. T[c] \in Nodes
    BY <2>1, <2>11, <1>3 DEF Node, Nodes
  <2>13. [T[c] EXCEPT !.status = "res"] = Node(size, "res", q, a)
    <3>1. [T[c] EXCEPT !.status = "res"] = Node(T[c].size, "res", T[c].next, T[c].prev)
      BY <2>12, NodeUpdates
    <3>2. T[c].size = size /\ T[c].next = q /\ T[c].prev = a
      BY <2>11 DEF Node
    <3> QED BY <3>1, <3>2
  <2>14. [T EXCEPT ![c].status = "res"] =
           [b \in E \cup {q} |-> IF b = c THEN [T[c] EXCEPT !.status = "res"] ELSE T[b]]
    BY <2>11
  <2>15. ASSUME NEW b \in D
         PROVE  T[b] = IF b = x THEN Node(F[b].size, F[b].status, F[b].next, q) ELSE F[b]
    <3>1. CASE b = a
      <4>1. T[b] = S[b]
        BY <3>1, <2>1, <2>11
      <4> QED BY <4>1, <3>1, <2>1, <2>2, <2>8
    <3>2. CASE b = x
      <4>1. T[b] = Node(S[b].size, S[b].status, S[b].next, q)
        BY <3>2, <2>1, <2>11
      <4>2. S[b].size = nd[b].size /\ S[b].status = nd[b].status /\ S[b].next = nd[b].next
        BY <3>2, <2>1, <2>8 DEF Node
      <4>3. F[b] = nd[b]
        BY <3>2, <2>1, <2>2
      <4> QED BY <4>1, <4>2, <4>3, <3>2
    <3>3. CASE b # a /\ b # x
      BY <3>3, <2>1, <2>2, <2>8, <2>11
    <3> QED BY <3>1, <3>2, <3>3
  <2>16. [T EXCEPT ![c].status = "res"] = P
    <3>1. \A b \in E : b = c \/ (b \in D /\ b # c /\ b # q)
      BY <2>1
    <3> HIDE DEF q, E, r, D
    <3>2. \A b \in E \cup {q} : (IF b = c THEN [T[c] EXCEPT !.status = "res"] ELSE T[b]) = P[b]
      BY <2>1, <2>11, <2>13, <2>15, <3>1
    <3> HIDE DEF P
    <3>3. P = [b \in E \cup {q} |-> P[b]]
      BY DEF P
    <3> QED BY <3>2, <3>3, <2>14
  <2> QED BY <2>7, <2>16 DEF T, S
<1> QED BY <1>5, <1>6, <1>7 DEF c

\* A block is cut out of a free node: the list stays sound, the block's node
\* is the only one that becomes reserved, and no reserved node changes.
CarveResult(nd, nd1, end, a, c, size) ==
  /\ ListOf(nd1, end) /\ Merged(nd1) /\ LastFree(nd1)
  /\ DOMAIN nd \subseteq DOMAIN nd1
  /\ c \in DOMAIN nd1 /\ nd1[c].status = "res" /\ nd1[c].size = size
  /\ c = a \/ c \notin DOMAIN nd
  /\ \A b \in DOMAIN nd1 : b # c /\ nd1[b].status = "res" =>
       b \in DOMAIN nd /\ nd[b].status = "res"
  /\ \A b \in DOMAIN nd : nd[b].status = "res" =>
       nd1[b].status = "res" /\ nd1[b].size = nd[b].size

LEMMA CarveSound ==
  ASSUME NEW nd, NEW end \in Nat, end <= Limit, ListOf(nd, end), NEW a \in DOMAIN nd,
         NEW size \in Nat \ {0}, NEW align \in {1, Page}, Fits(nd, a, size, align),
         nd[a].next = NULL => nd[a].size > size, Merged(nd), LastFree(nd)
  PROVE  CarveResult(nd, Carve(nd, a, size, align, end), end, a, HeaderAt(a, align), size)
<1> DEFINE c == HeaderAt(a, align)
           q == c + 1 + size
           D == DOMAIN nd
           x == nd[a].next
           m == Carve(nd, a, size, align, end)
<1>1. /\ c \in Nat /\ c >= a /\ nd[a].status = "free"
      /\ c = a => size <= nd[a].size
      /\ c # a => c + 1 + size <= a + nd[a].size
  BY HeaderPlace
<1>2. /\ c = a /\ nd[a].size = size => m = [nd EXCEPT ![a].status = "res"]
      /\ c = a /\ nd[a].size # size => m = [Split(nd, a, q) EXCEPT ![c].status = "res"]
      /\ c # a => m = [Split(Split(nd, a, c), c, q) EXCEPT ![c].status = "res"]
  BY CarveIsSplit
<1> HIDE DEF c, m
<1>3. /\ a \in Nat /\ nd[a].size \in Nat /\ a > 0
      /\ x # NULL => x \in D /\ x # a
      /\ D \subseteq Nat /\ NULL \notin D /\ NULL = 0
  BY NodeFacts, NextIsNext, ListAddresses, Constants DEF ListOf, Linked
<1>4. \A b \in D : nd[b].next # NULL => nd[b].next \in D
  BY NodeFacts
<1>5. x # NULL => nd[x].status # "free"
  BY <1>1, <1>3 DEF Merged
<1>6. ASSUME c = a, nd[a].size = size PROVE CarveResult(nd, m, end, a, c, size)
  <2>1. m = [nd EXCEPT ![a].status = "res"]
    BY <1>2, <1>6
  <2>2. /\ ListOf(m, end) /\ DOMAIN m = D
        /\ \A b \in D : /\ m[b].size = nd[b].size /\ m[b].next = nd[b].next
                        /\ m[b].status = (IF b = a THEN "res" ELSE nd[b].status)
    <3>1. StatusResult(nd, m, end, a, "res")
      BY <2>1, StatusChange
    <3> QED BY <3>1 DEF StatusResult
  <2>3. Merged(m)
    BY <2>2, <1>4 DEF Merged
  <2>4. LastFree(m)
    <3>1. x # NULL
      BY <1>3, <1>6
    <3> QED BY <2>2, <3>1 DEF LastFree
  <2> QED BY <2>2, <2>3, <2>4, <1>1, <1>6 DEF CarveResult
<1>7. ASSUME c = a, nd[a].size # size PROVE CarveResult(nd, m, end, a, c, size)
  <2> DEFINE S == Split(nd, a, q)
  <2>1. m = [S EXCEPT ![a].status = "res"]
    BY <1>2, <1>7
  <2>2. q \in Nat /\ a < q /\ q <= a + nd[a].size
    BY <1>1, <1>3, <1>7
  <2> HIDE DEF q
  <2>3. /\ ListOf(S, end) /\ q \notin D /\ DOMAIN S = D \cup {q}
        /\ S[q].next = x /\ S[q].status = "free"
        /\ \A b \in D : /\ S[b].next = (IF b = a THEN q ELSE nd[b].next)
                        /\ S[b].status = nd[b].status
                        /\ b # a => S[b].size = nd[b].size
        /\ S[a].size = q - a - 1
    <3>1. SplitResult(nd, S, end, a, q)
      BY <2>2, SplitSound
    <3> HIDE DEF S
    <3> QED BY <3>1 DEF SplitResult
  <2>4. S[a].size = size
    BY <2>3, <1>1, <1>3, <1>7 DEF q
  <2> HIDE DEF S
  <2>5. /\ ListOf(m, end) /\ DOMAIN m = D \cup {q}
        /\ \A b \in D \cup {q} :
             /\ m[b].size = S[b].size /\ m[b].next = S[b].next
             /\ m[b].status = (IF b = a THEN "res" ELSE S[b].status)
    <3>1. a \in DOMAIN S
      BY <2>3
    <3>2. StatusResult(S, m, end, a, "res")
      BY <3>1, <2>1, <2>3, StatusChange
    <3> QED BY <3>2, <2>3 DEF StatusResult
  <2>6. a # q /\ q # NULL
    BY <2>2, <1>3
  <2>7. Merged(m)
    <3>1. ASSUME NEW b \in D \cup {q}, m[b].next # NULL, m[b].status = "free",
                 m[m[b].next].status = "free"
          PROVE  FALSE
      <4>1. CASE b = q
        BY <4>1, <3>1, <2>3, <2>5, <1>3, <1>5
      <4>2. CASE b # q
        <5>1. b # a /\ b \in D
          BY <4>2, <3>1, <2>5
        <5>2. m[b].next = nd[b].next /\ nd[b].next \in D /\ nd[b].status = "free"
          BY <5>1, <3>1, <2>3, <2>5, <2>6, <1>4
        <5>3. nd[nd[b].next].status = "free"
          BY <5>2, <3>1, <2>3, <2>5, <2>6
        <5> QED BY <5>1, <5>2, <5>3, <3>1 DEF Merged
      <4> QED BY <4>1, <4>2
    <3> QED BY <3>1, <2>5 DEF Merged
  <2>8. LastFree(m)
    BY <2>3, <2>5, <2>6 DEF LastFree
  <2>9. \A b \in D \cup {q} : b # a /\ m[b].status = "res" => b \in D /\ nd[b].status = "res"
    BY <2>3, <2>5
  <2>10. \A b \in D : nd[b].status = "res" => m[b].status = "res" /\ m[b].size = nd[b].size
    BY <2>3, <2>5, <1>1
  <2> QED BY <2>3, <2>4, <2>5, <2>7, <2>8, <2>9, <2>10, <1>7 DEF CarveResult
<1>8. ASSUME c # a PROVE CarveResult(nd, m, end, a, c, size)
  <2> DEFINE R == Split(nd, a, c)
             S == Split(R, c, q)
  <2>1. m = [S EXCEPT ![c].status = "res"]
    BY <1>2, <1>8
  <2>2. q \in Nat /\ a < c /\ c < q /\ q <= a + nd[a].size /\ q - c - 1 = size
    BY <1>1, <1>3, <1>8
  <2> HIDE DEF q
  <2>3. /\ ListOf(R, end) /\ c \notin D /\ DOMAIN R = D \cup {c}
        /\ R[c].next = x /\ R[c].status = "free" /\ R[c].size = a + nd[a].size - c
        /\ \A b \in D : /\ R[b].next = (IF b = a THEN c ELSE nd[b].next)
                        /\ R[b].status = nd[b].status
                        /\ b # a => R[b].size = nd[b].size
    <3>1. c <= a + nd[a].size
      BY <2>2, <1>1, <1>3
    <3>2. SplitResult(nd, R, end, a, c)
      BY <3>1, <2>2, <1>1, SplitSound
    <3> HIDE DEF R
    <3> QED BY <3>2 DEF SplitResult
  <2>4. q <= c + R[c].size
    BY <2>2, <2>3, <1>1, <1>3
  <2> HIDE DEF R
  <2>5. /\ ListOf(S, end) /\ q \notin DOMAIN R /\ DOMAIN S = DOMAIN R \cup {q}
        /\ S[q].next = R[c].next /\ S[q].status = "free"
        /\ \A b \in DOMAIN R : /\ S[b].next = (IF b = c THEN q ELSE R[b].next)
                               /\ S[b].status = R[b].status
                               /\ b # c => S[b].size = R[b].size
        /\ S[c].size = q - c - 1
    <3>1. c \in DOMAIN R
      BY <2>3
    <3>2. SplitResult(R, S, end, c, q)
      BY <3>1, <2>2, <2>3, <2>4, SplitSound
    <3> HIDE DEF S
    <3> QED BY <3>1, <3>2 DEF SplitResult
  <2>6. S[c].size = size
    BY <2>2, <2>5
  <2> HIDE DEF S
  <2>7. /\ ListOf(m, end) /\ DOMAIN m = D \cup {c, q}
        /\ \A b \in D \cup {c, q} :
             /\ m[b].size = S[b].size /\ m[b].next = S[b].next
             /\ m[b].status = (IF b = c THEN "res" ELSE S[b].status)
    <3>1. c \in DOMAIN S /\ DOMAIN S = D \cup {c, q}
      BY <2>3, <2>5
    <3>2. /\ ListOf(m, end) /\ DOMAIN m = DOMAIN S
          /\ \A b \in DOMAIN S :
               /\ m[b].size = S[b].size /\ m[b].next = S[b].next
               /\ m[b].status = (IF b = c THEN "res" ELSE S[b].status)
      <4>1. StatusResult(S, m, end, c, "res")
        BY <3>1, <2>1, <2>5, StatusChange
      <4> QED BY <4>1 DEF StatusResult
    <3> QED BY <3>1, <3>2
  <2>8. /\ c \notin D /\ q \notin D /\ c # q /\ q # NULL /\ c # NULL
        /\ m[q].next = x /\ m[q].status = "free"
        /\ m[c].next = q /\ m[c].status = "res" /\ m[c].size = size
        /\ \A b \in D : /\ m[b].next = (IF b = a THEN c ELSE nd[b].next)
                        /\ m[b].status = nd[b].status
                        /\ b # a => m[b].size = nd[b].size
    <3>1. c \notin D /\ q \notin D /\ c # q /\ q # NULL /\ c # NULL
      BY <2>2, <2>3, <2>5, <1>1, <1>3
    <3>2. m[q].next = x /\ m[q].status = "free"
      BY <3>1, <2>3, <2>5, <2>7
    <3>3. m[c].next = q /\ m[c].status = "res" /\ m[c].size = size
      BY <2>3, <2>5, <2>6, <2>7
    <3>4. \A b \in D : /\ m[b].next = (IF b = a THEN c ELSE nd[b].next)
                       /\ m[b].status = nd[b].status
                       /\ b # a => m[b].size = nd[b].size
      BY <3>1, <2>3, <2>5, <2>7
    <3> QED BY <3>1, <3>2, <3>3, <3>4
  <2>9. Merged(m)
    <3>1. ASSUME NEW b \in D \cup {c, q}, m[b].next # NULL, m[b].status = "free",
                 m[m[b].next].status = "free"
          PROVE  FALSE
      <4>1. CASE b = q
        BY <4>1, <3>1, <2>8, <1>3, <1>5
      <4>2. CASE b # q
        <5>1. b # c /\ b \in D
          BY <4>2, <3>1, <2>8
        <5>2. b # a
          BY <5>1, <3>1, <2>8
        <5>3. m[b].next = nd[b].next /\ nd[b].next \in D /\ nd[b].status = "free"
          BY <5>1, <5>2, <3>1, <2>8, <1>4
        <5>4. nd[nd[b].next].status = "free"
          BY <5>3, <3>1, <2>8
        <5> QED BY <5>1, <5>3, <5>4, <3>1 DEF Merged
      <4> QED BY <4>1, <4>2
    <3> QED BY <3>1, <2>7 DEF Merged
  <2>10. LastFree(m)
    BY <2>7, <2>8 DEF LastFree
  <2>11. \A b \in D \cup {c, q} :
           b # c /\ m[b].status = "res" => b \in D /\ nd[b].status = "res"
    BY <2>8
  <2>12. \A b \in D : nd[b].status = "res" => m[b].status = "res" /\ m[b].size = nd[b].size
    BY <2>8, <1>1
  <2> QED BY <2>7, <2>8, <2>9, <2>10, <2>11, <2>12 DEF CarveResult
<1> QED BY <1>6, <1>7, <1>8 DEF c, m

----------------------------------------------------------------------------
(* do_kfree's part of it *)

\* Two free nodes side by side.
Clash(nd, x) ==
  nd[x].next # NULL /\ nd[x].status = "free" /\ nd[nd[x].next].status = "free"

\* nd1 comes from nd by freeing a and merging: the reserved nodes are those of
\* nd but a, as they were.
Freed(nd, nd1, a) ==
  /\ \A x \in DOMAIN nd1 : nd1[x].status = "res" =>
       x \in DOMAIN nd /\ x # a /\ nd[x].status = "res"
  /\ \A x \in DOMAIN nd : x # a /\ nd[x].status = "res" =>
       x \in DOMAIN nd1 /\ nd1[x].status = "res" /\ nd1[x].size = nd[x].size

CoalesceResult(nd, nd1, end, a, b) ==
  /\ ListOf(nd1, end) /\ Merged(nd1) /\ LastFree(nd1) /\ Freed(nd, nd1, a)
  /\ b \in DOMAIN nd1 /\ nd1[b].status = "free"

\* Freeing a node and merging it with its neighbours leaves a sound list.
LEMMA CoalesceSound ==
  ASSUME NEW nd, NEW end \in Nat, ListOf(nd, end), NEW a \in DOMAIN nd,
         nd[a].status = "res", Merged(nd), LastFree(nd)
  PROVE  LET nd1 == Coalesced([nd EXCEPT ![a].status = "free"], a)
         IN  CoalesceResult(nd, nd1, end, a, IF a \in DOMAIN nd1 THEN a ELSE nd[a].prev)
<1> DEFINE D  == DOMAIN nd
           f  == [nd EXCEPT ![a].status = "free"]
           n  == nd[a].next
           p  == nd[a].prev
           g  == IF f[a].next # NULL /\ f[f[a].next].status = "free"
                 THEN unify_fwd(f, a) ELSE f
           h  == IF g[a].prev # NULL /\ g[g[a].prev].status = "free"
                 THEN unify_fwd(g, g[a].prev) ELSE g
<1>1. Coalesced(f, a) = h
  BY DEF Coalesced
<1>2. /\ ListOf(f, end) /\ DOMAIN f = D
      /\ \A b \in D : /\ f[b].size = nd[b].size /\ f[b].next = nd[b].next
                      /\ f[b].prev = nd[b].prev
                      /\ f[b].status = (IF b = a THEN "free" ELSE nd[b].status)
  <2>1. StatusResult(nd, f, end, a, "free")
    BY StatusChange
  <2> HIDE DEF f
  <2> QED BY <2>1 DEF StatusResult
<1> HIDE DEF f
<1>3. NULL \notin D /\ \A b \in D : /\ nd[b].next # NULL => nd[b].next \in D /\ nd[b].next # b
                                    /\ nd[b].prev # NULL => nd[b].prev \in D
                                    /\ nd[b].status \in {"free", "res"}
  BY NextIsNext, NodeFacts, ListAddresses
<1>4. \A x \in D : Clash(f, x) => x = a \/ f[x].next = a
  BY <1>2, <1>3 DEF Clash, Merged
<1>5. LastFree(f)
  BY <1>2 DEF LastFree
<1>6. Freed(nd, f, a)
  BY <1>2, <1>3 DEF Freed
<1>7. /\ ListOf(g, end) /\ LastFree(g) /\ Freed(nd, g, a)
      /\ a \in DOMAIN g /\ g[a].status = "free" /\ g[a].prev = p
      /\ \A x \in DOMAIN g : Clash(g, x) => g[x].next = a
  <2>1. CASE n # NULL /\ f[n].status = "free"
    <3>1. g = unify_fwd(f, a)
      BY <2>1, <1>2
    <3>2. UnifyResult(f, g, end, a)
      <4>1. f[a].next # NULL /\ a \in DOMAIN f
        BY <2>1, <1>2
      <4> HIDE DEF g
      <4> QED BY <4>1, <3>1, <1>2, UnifySound
    <3> HIDE DEF g
    <3> DEFINE m == nd[n].next
    <3>3. /\ ListOf(g, end) /\ DOMAIN g = D \ {n} /\ n # a
          /\ g[a].next = m /\ g[a].prev = p
          /\ \A b \in DOMAIN g : g[b].status = f[b].status
          /\ \A b \in DOMAIN g : b # a => g[b].next = f[b].next /\ g[b].size = f[b].size
      BY <3>2, <2>1, <1>2, <1>3 DEF UnifyResult
    <3>4. a \in DOMAIN g /\ g[a].status = "free"
      BY <3>3, <1>2
    <3>5. nd[n].status = "free" /\ n \in D
      BY <2>1, <3>3, <1>2, <1>3
    <3>6. m # NULL => m \in D /\ m # n /\ nd[m].status # "free"
      BY <3>5, <1>3 DEF Merged
    <3>7. \A b \in DOMAIN g : b # a => f[b].next # n
      <4>1. \A b \in D : nd[b].next = n => b = a
        BY <2>1, NodeFacts
      <4> QED BY <4>1, <3>3, <1>2
    <3>8. ASSUME NEW x \in DOMAIN g, Clash(g, x) PROVE g[x].next = a
      <4>1. x # a
        <5>1. SUFFICES ASSUME x = a PROVE FALSE
          OBVIOUS
        <5>2. m # NULL /\ g[m].status = "free" /\ m \in DOMAIN g
          BY <5>1, <3>8, <3>3, <3>6 DEF Clash
        <5>3. m # a
          <6>1. m # NULL => n < m
            BY <3>5, NextIsNext
          <6>2. a < n /\ a \in Nat /\ n \in Nat /\ (m # NULL => m \in Nat)
            BY <2>1, <3>5, <3>6, NextIsNext, NodeFacts
          <6> QED BY <6>1, <6>2, <5>2
        <5> QED BY <5>2, <5>3, <3>3, <3>6, <1>2
      <4>2. g[x].next = f[x].next /\ f[x].next # n /\ f[x].next \in D /\ x \in D
        BY <4>1, <3>3, <3>7, <3>8, <1>2, <1>3 DEF Clash
      <4>3. Clash(f, x)
        BY <4>2, <3>3, <3>8 DEF Clash
      <4> QED BY <4>1, <4>2, <4>3, <1>4
    <3>9. LastFree(g)
      BY <3>3, <3>4, <1>5, <1>2 DEF LastFree
    <3>10. Freed(nd, g, a)
      BY <3>3, <3>4, <3>5, <1>2 DEF Freed
    <3> QED BY <3>3, <3>4, <3>8, <3>9, <3>10
  <2>2. CASE ~(n # NULL /\ f[n].status = "free")
    <3>1. g = f
      BY <2>2, <1>2
    <3>2. ~Clash(f, a)
      BY <2>2, <1>2 DEF Clash
    <3>3. f[a].status = "free" /\ f[a].prev = p
      BY <1>2
    <3> HIDE DEF g
    <3> QED BY <3>1, <3>2, <3>3, <1>2, <1>4, <1>5, <1>6
  <2> QED BY <2>1, <2>2
<1> HIDE DEF g
<1>8. p # NULL => p \in DOMAIN g /\ g[p].next = a
  BY <1>7, NodeFacts
<1>9. \A x \in DOMAIN g : g[x].next = a => x = p
  <2>1. a # NULL
    BY <1>3
  <2> QED BY <2>1, <1>7, NodeFacts
<1>10. g[a].next # NULL => g[a].next # a /\ g[a].next \in DOMAIN g
  <2>1. g[a].next # NULL => g[a].next \in DOMAIN g /\ a < g[a].next /\ a \in Nat
    BY <1>7, NextIsNext, NodeFacts
  <2> QED BY <2>1
<1>11. ASSUME p # NULL, g[p].status = "free"
       PROVE  CoalesceResult(nd, h, end, a, p) /\ a \notin DOMAIN h
  <2>1. h = unify_fwd(g, p)
    BY <1>7, <1>11
  <2>2. UnifyResult(g, h, end, p)
    <3> HIDE DEF h
    <3>1. g[p].next # NULL
      BY <1>3, <1>8, <1>11
    <3> QED BY <2>1, <3>1, <1>7, <1>8, <1>11, UnifySound
  <2> HIDE DEF h
  <2>3. /\ ListOf(h, end) /\ DOMAIN h = DOMAIN g \ {a} /\ a # p
        /\ h[p].next = g[a].next
        /\ \A b \in DOMAIN h : h[b].status = g[b].status
        /\ \A b \in DOMAIN h : b # p => h[b].next = g[b].next /\ h[b].size = g[b].size
    BY <2>2, <1>8, <1>11 DEF UnifyResult
  <2>4. p \in DOMAIN h /\ h[p].status = "free"
    BY <2>3, <1>8, <1>11
  <2>5. ASSUME NEW x \in DOMAIN h, Clash(h, x) PROVE FALSE
    <3>1. CASE x = p
      <4>1. g[a].next # NULL /\ h[g[a].next].status = "free"
        BY <3>1, <2>3, <2>5 DEF Clash
      <4>2. g[a].next \in DOMAIN h
        BY <4>1, <2>3, <1>10
      <4>3. Clash(g, a)
        BY <4>1, <4>2, <2>3, <1>7 DEF Clash
      <4> QED BY <4>1, <4>3, <1>7, <1>10
    <3>2. CASE x # p
      <4>1. h[x].next = g[x].next /\ x \in DOMAIN g /\ g[x].next # a
        BY <3>2, <2>3, <1>9
      <4>2. g[x].next # NULL /\ g[x].next \in DOMAIN g
        BY <4>1, <2>5, <1>7, NodeFacts DEF Clash
      <4>3. Clash(g, x)
        BY <4>1, <4>2, <2>3, <2>5 DEF Clash
      <4> QED BY <4>1, <4>3, <1>7
    <3> QED BY <3>1, <3>2
  <2>6. Merged(h)
    BY <2>5 DEF Merged, Clash
  <2>7. LastFree(h)
    BY <2>3, <2>4, <1>7 DEF LastFree
  <2>8. Freed(nd, h, a)
    BY <2>3, <2>4, <1>7, <1>8, <1>11 DEF Freed
  <2> QED BY <2>3, <2>4, <2>6, <2>7, <2>8 DEF CoalesceResult
<1>12. ASSUME ~(p # NULL /\ g[p].status = "free")
       PROVE  CoalesceResult(nd, h, end, a, a) /\ a \in DOMAIN h
  <2>1. h = g
    BY <1>7, <1>12
  <2> HIDE DEF h
  <2>2. ASSUME NEW x \in DOMAIN g, Clash(g, x) PROVE FALSE
    <3>1. x = p /\ g[x].status = "free"
      BY <2>2, <1>7, <1>9 DEF Clash
    <3>2. NULL \notin DOMAIN g
      BY <1>7, ListAddresses
    <3> QED BY <3>1, <3>2, <1>12
  <2>3. Merged(g)
    BY <2>2 DEF Merged, Clash
  <2> QED BY <2>1, <2>3, <1>7 DEF CoalesceResult
<1> HIDE DEF h
<1>13. CoalesceResult(nd, h, end, a, IF a \in DOMAIN h THEN a ELSE nd[a].prev)
  BY <1>11, <1>12
<1> QED BY <1>1, <1>13 DEF f

----------------------------------------------------------------------------
(* The operations *)

\* A block that is found and cut out belongs to the caller.
LEMMA FoundSound ==
  ASSUME NEW nd, NEW end, HeapOk(nd, end, taken, held), NEW a \in DOMAIN nd,
         NEW size, NEW align, <<size, align>> \in Requests,
         Fits(nd, a, size, align), nd[a].next = NULL => nd[a].size > size,
         Found(nd, a, size, align, end)
  PROVE  HeapOk(nodes', end, taken', held')
<1> DEFINE c == HeaderAt(a, align)
           m == Carve(nd, a, size, align, end)
<1>1. size \in Nat \ {0} /\ align \in {1, Page}
  BY Constants
<1>2. end \in Nat /\ end <= Limit
  BY DEF HeapOk, EndOk
<1>3. nd[a].status = "free"
  BY DEF Fits
<1>4. CarveResult(nd, m, end, a, c, size)
  <2> HIDE DEF m, c
  <2> QED BY <1>1, <1>2, CarveSound DEF HeapOk, m, c
<1>5. nodes' = m /\ taken' = Put(taken, c, <<size, align>>) /\ held' = held + 1
  BY DEF Found
<1> HIDE DEF m, c
<1>6. /\ DOMAIN taken' = DOMAIN taken \cup {c} /\ taken'[c] = <<size, align>>
      /\ taken' = [x \in DOMAIN taken' |-> taken'[x]]
      /\ \A x \in DOMAIN taken : x # c => taken'[x] = taken[x]
  BY <1>5 DEF Put
<1>7. c \notin DOMAIN taken
  BY <1>3, <1>4 DEF HeapOk, Owned, CarveResult
<1>8. IsFiniteSet(DOMAIN taken') /\ Cardinality(DOMAIN taken') = held'
  <2>1. IsFiniteSet(DOMAIN taken) /\ Cardinality(DOMAIN taken) = held
    BY DEF HeapOk, Owned
  <2> QED BY <2>1, <1>5, <1>6, <1>7, FS_AddElement
<1>9. taken' \in [DOMAIN taken' -> Requests]
  <2>1. \A x \in DOMAIN taken : taken[x] \in Requests
    BY DEF HeapOk, Owned
  <2>2. \A x \in DOMAIN taken' : taken'[x] \in Requests
    BY <2>1, <1>6
  <2> QED BY <2>2, <1>6
<1>10. \A x \in DOMAIN taken : x \in DOMAIN nd /\ nd[x].status = "res" /\ nd[x].size = taken[x][1]
  BY DEF HeapOk, Owned
<1>11. DOMAIN taken' \subseteq DOMAIN m
  BY <1>4, <1>6, <1>10 DEF CarveResult
<1>12. \A x \in DOMAIN taken' : m[x].status = "res" /\ m[x].size = taken'[x][1]
  <2> TAKE x \in DOMAIN taken'
  <2>1. CASE x = c
    BY <2>1, <1>4, <1>6 DEF CarveResult
  <2>2. CASE x \in DOMAIN taken /\ x # c
    BY <2>2, <1>4, <1>6, <1>10 DEF CarveResult
  <2> QED BY <2>1, <2>2, <1>6
<1>13. \A x \in DOMAIN m : m[x].status = "res" => x \in DOMAIN taken'
  BY <1>4, <1>6 DEF CarveResult, HeapOk, Owned
<1>14. Owned(m, taken', held')
  BY <1>8, <1>9, <1>11, <1>12, <1>13 DEF Owned
<1> QED BY <1>4, <1>5, <1>14 DEF HeapOk, CarveResult

\* What do_kmalloc does when the heap has been started.
Searched(nd, end, list, n, size, align) ==
  LET last  == list[n]
      early == {i \in 1 .. n - 1 : Fits(nd, list[i], size, align)}
      need  == size + Page - nd[last].size
      more  == IF need > 0 THEN Grown(need) ELSE 0
      big   == [nd EXCEPT ![last].size = @ + more]
  IN  \/ /\ early # {}
         /\ LET i == CHOOSE i \in early : \A j \in early : i <= j
            IN  Found(nd, list[i], size, align, end)
         /\ kheap_end' = end
      \/ /\ early = {} /\ need > 0 /\ ~CanGrow(end, need)
         /\ nodes' = nd /\ kheap_end' = end /\ UNCHANGED callers
      \/ /\ early = {} /\ (need > 0 => CanGrow(end, need))
         /\ kheap_end' = end + more
         /\ IF Fits(big, last, size, align)
            THEN Found(big, last, size, align, end + more)
            ELSE nodes' = big /\ UNCHANGED callers

LEMMA SearchSound ==
  ASSUME NEW nd, NEW end, HeapOk(nd, end, taken, held), NEW list, NEW n \in Nat \ {0},
         NEW size, NEW align, <<size, align>> \in Requests,
         \A i \in 1 .. n : list[i] \in DOMAIN nd,
         \A i \in 1 .. n : nd[list[i]].next = NULL <=> i = n,
         Searched(nd, end, list, n, size, align)
  PROVE  HeapOk(nodes', kheap_end', taken', held')
<1> DEFINE last  == list[n]
           early == {i \in 1 .. n - 1 : Fits(nd, list[i], size, align)}
           need  == size + Page - nd[last].size
           more  == IF need > 0 THEN Grown(need) ELSE 0
           big   == [nd EXCEPT ![last].size = @ + more]
<1>1. /\ size \in Nat \ {0} /\ align \in {1, Page} /\ end \in Nat /\ EndOk(end)
      /\ Page \in Nat /\ ListOf(nd, end)
  BY Constants DEF HeapOk, EndOk
<1>2. CASE /\ early # {}
           /\ LET i == CHOOSE i \in early : \A j \in early : i <= j
              IN  Found(nd, list[i], size, align, end)
           /\ kheap_end' = end
  <2> DEFINE i == CHOOSE i \in early : \A j \in early : i <= j
  <2>1. i \in early
    <3>1. early \in SUBSET Nat
      OBVIOUS
    <3>2. \E x \in early : \A y \in early : x <= y
      <4> HIDE DEF early
      <4> QED BY <1>2, <3>1, LeastNat
    <3> HIDE DEF early
    <3> QED BY <3>2, Zenon
  <2>2. Found(nd, list[i], size, align, end)
    BY <1>2
  <2> HIDE DEF i
  <2>3. i \in 1 .. n /\ i # n /\ Fits(nd, list[i], size, align)
    BY <2>1
  <2>4. list[i] \in DOMAIN nd /\ nd[list[i]].next # NULL
    BY <2>3
  <2> QED BY <2>2, <2>3, <2>4, <1>2, FoundSound
<1>3. CASE nodes' = nd /\ kheap_end' = end /\ UNCHANGED callers
  BY <1>3 DEF callers
<1>4. CASE /\ need > 0 => CanGrow(end, need)
           /\ kheap_end' = end + more
           /\ IF Fits(big, last, size, align)
              THEN Found(big, last, size, align, end + more)
              ELSE nodes' = big /\ UNCHANGED callers
  <2>1. last \in DOMAIN nd /\ nd[last].next = NULL
    BY <1>1
  <2>2. /\ last \in Nat /\ nd[last].size \in Nat
        /\ last + 1 + nd[last].size = end
    BY <2>1, <1>1, NodeFacts
  <2>3. more \in Nat /\ nd[last].size + more >= size + Page /\ EndOk(end + more)
    <3>1. CASE need > 0
      <4>1. need \in Nat
        BY <3>1, <2>2, <1>1
      <4> HIDE DEF need
      <4>2. Grown(need) \in Nat /\ Grown(need) >= need /\ EndOk(end + Grown(need))
        BY <4>1, <3>1, <1>1, <1>4, Growing
      <4> QED BY <4>1, <4>2, <3>1, <2>2, <1>1 DEF need
    <3>2. CASE ~(need > 0)
      BY <3>2, <2>2, <1>1
    <3> QED BY <3>1, <3>2
  <2> HIDE DEF more
  <2> DEFINE sz == nd[last].size + more
  <2>4. sz \in Nat /\ last + 1 + sz = end + more
    BY <2>2, <2>3
  <2>5. ResizeResult(nd, [nd EXCEPT ![last].size = sz], last + 1 + sz, last, sz)
    <3> HIDE DEF sz, last
    <3> QED BY <2>1, <2>4, <1>1, LastResized
  <2>6. big = [nd EXCEPT ![last].size = sz]
    OBVIOUS
  <2> HIDE DEF big
  <2>7. /\ ListOf(big, end + more) /\ DOMAIN big = DOMAIN nd
        /\ \A b \in DOMAIN nd :
             /\ big[b].next = nd[b].next /\ big[b].status = nd[b].status
             /\ big[b].size = (IF b = last THEN sz ELSE nd[b].size)
    BY <2>4, <2>5, <2>6 DEF ResizeResult
  <2>8. \A b \in DOMAIN nd : nd[b].next # NULL => nd[b].next \in DOMAIN nd
    BY <1>1, NodeFacts
  <2>9. Merged(big) /\ LastFree(big)
    <3>1. Merged(nd) /\ LastFree(nd)
      BY DEF HeapOk
    <3> HIDE DEF last, sz
    <3> QED BY <3>1, <2>7, <2>8 DEF Merged, LastFree
  <2>10. Owned(big, taken, held)
    <3>1. nd[last].status = "free"
      BY <2>1 DEF HeapOk, LastFree
    <3>2. Owned(nd, taken, held)
      BY DEF HeapOk
    <3> HIDE DEF last, sz
    <3> QED BY <3>1, <3>2, <2>7 DEF Owned
  <2>11. HeapOk(big, end + more, taken, held)
    BY <2>3, <2>7, <2>9, <2>10 DEF HeapOk
  <2>12. CASE Fits(big, last, size, align)
    <3>1. last \in DOMAIN big /\ big[last].size > size
      BY <2>1, <2>2, <2>3, <2>7, <1>1, Constants
    <3>2. Found(big, last, size, align, end + more)
      BY <1>4, <2>12
    <3> HIDE DEF last
    <3> QED BY <3>1, <3>2, <2>11, <2>12, <1>4, FoundSound
  <2>13. CASE ~Fits(big, last, size, align)
    <3>1. nodes' = big /\ UNCHANGED callers
      BY <1>4, <2>13
    <3> QED BY <3>1, <2>11, <1>4 DEF callers
  <2> QED BY <2>12, <2>13
<1> QED BY <1>2, <1>3, <1>4 DEF Searched

\* The heap do_kmalloc starts: one free node.
LEMMA FreshSound ==
  ASSUME NEW g \in Nat, g > 0, EndOk(Base + g), DOMAIN nodes = {}, Owned(nodes, taken, held)
  PROVE  HeapOk([a \in {Base} |-> Node(g - 1, "free", NULL, NULL)], Base + g, taken, held)
<1> DEFINE nd == [a \in {Base} |-> Node(g - 1, "free", NULL, NULL)]
<1>1. /\ DOMAIN nd = {Base} /\ nd \in [{Base} -> Nodes]
      /\ nd[Base].size = g - 1 /\ nd[Base].status = "free"
      /\ nd[Base].next = NULL /\ nd[Base].prev = NULL
  BY Constants DEF Node, Nodes
<1> HIDE DEF nd
<1>2. Linked(nd)
  BY <1>1, Constants DEF Linked
<1>3. Abutting(nd, Base + g)
  BY <1>1, Constants DEF Abutting
<1>4. Merged(nd) /\ LastFree(nd)
  BY <1>1 DEF Merged, LastFree
<1>5. Owned(nd, taken, held)
  <2>1. DOMAIN taken = {}
    BY DEF Owned
  <2> QED BY <2>1, <1>1 DEF Owned
<1> QED BY <1>2, <1>3, <1>4, <1>5 DEF HeapOk, ListOf, nd

LEMMA MallocStep ==
  ASSUME KInv, NEW r \in Requests, do_kmalloc(r[1], r[2])
  PROVE  KInv'
<1> DEFINE size  == r[1]
           align == r[2]
           grow0 == Grown(size + Page)
           first == [a \in {Base} |-> Node(grow0 - 1, "free", NULL, NULL)]
<1>1. size \in Nat \ {0} /\ align \in {1, Page} /\ <<size, align>> \in Requests
  BY Constants
<1>2. NULL # Base /\ Base # Bad /\ NULL # Bad /\ mode = "run"
  BY Constants DEF do_kmalloc
<1>3. CASE kheap_start = Bad
  <2>1. mode' = "fault" /\ UNCHANGED <<nodes, kheap_start, kheap_end, callers>>
    BY <1>2, <1>3 DEF do_kmalloc
  <2> QED BY <2>1, <1>2, <1>3 DEF KInv, callers
<1>4. CASE kheap_start = NULL /\ ~CanGrow(kheap_end, size + Page)
  <2>1. kheap_start' = Bad /\ UNCHANGED <<nodes, kheap_end, callers, mode>>
    BY <1>2, <1>4 DEF do_kmalloc
  <2> QED BY <2>1, <1>2, <1>4 DEF KInv, callers
<1>5. CASE kheap_start = NULL /\ CanGrow(kheap_end, size + Page)
  <2>1. /\ kheap_start' = Base /\ mode' = mode
        /\ Searched(first, kheap_end + grow0, [i \in {1} |-> Base],
                    Cardinality(DOMAIN first), size, align)
    <3> DEFINE nd   == IF kheap_start = NULL THEN first ELSE nodes
               end  == IF kheap_start = NULL THEN kheap_end + grow0 ELSE kheap_end
               list == IF kheap_start = NULL THEN [i \in {1} |-> Base] ELSE Chain(nodes)
    <3>1. /\ kheap_start' = (IF kheap_start = NULL THEN Base ELSE kheap_start)
          /\ mode' = mode
          /\ Searched(nd, end, list, Cardinality(DOMAIN nd), size, align)
      BY <1>2, <1>5, Zenon DEF do_kmalloc, Searched
    <3>2. nd = first /\ end = kheap_end + grow0 /\ list = [i \in {1} |-> Base]
      BY <1>5
    <3> HIDE DEF nd, end, list, first, grow0
    <3> QED BY <3>1, <3>2, <1>5
  <2>2. DOMAIN nodes = {} /\ kheap_end = Base /\ Owned(nodes, taken, held)
    BY <1>2, <1>5 DEF KInv
  <2>3. EndOk(Base)
    BY Constants, PageMultiple, HeapAssumption DEF EndOk
  <2>4. grow0 \in Nat /\ grow0 > 0 /\ EndOk(Base + grow0)
    <3>1. size + Page \in Nat /\ size + Page > 0
      BY <1>1, Constants
    <3> QED BY <3>1, <2>2, <2>3, <1>5, Growing
  <2> HIDE DEF grow0
  <2>5. HeapOk(first, Base + grow0, taken, held)
    BY <2>2, <2>4, FreshSound
  <2>6. DOMAIN first = {Base} /\ first[Base].next = NULL
    BY DEF Node
  <2>7. Cardinality(DOMAIN first) = 1
    BY <2>6, FS_Singleton
  <2> HIDE DEF first
  <2> DEFINE list == [i \in {1} |-> Base]
  <2>8. /\ \A i \in 1 .. 1 : list[i] \in DOMAIN first
        /\ \A i \in 1 .. 1 : first[list[i]].next = NULL <=> i = 1
    BY <2>6
  <2> HIDE DEF list
  <2>9. Searched(first, Base + grow0, list, 1, size, align)
    BY <2>1, <2>2, <2>7 DEF list
  <2>10. 1 \in Nat \ {0}
    OBVIOUS
  <2>11. HeapOk(nodes', kheap_end', taken', held')
    <3> HIDE DEF size, align
    <3> QED BY <2>5, <2>8, <2>9, <2>10, <1>1, SearchSound
  <2> QED BY <2>1, <2>11, <1>2 DEF KInv
<1>6. CASE kheap_start = Base
  <2> DEFINE list == Chain(nodes)
             n == Cardinality(DOMAIN nodes)
  <2>1. /\ kheap_start' = Base /\ mode' = mode
        /\ Searched(nodes, kheap_end, list, n, size, align)
    BY <1>2, <1>6 DEF do_kmalloc, Searched
  <2>2. HeapOk(nodes, kheap_end, taken, held)
    BY <1>6 DEF KInv
  <2>3. /\ n \in Nat \ {0}
        /\ \A i \in 1 .. n : list[i] \in DOMAIN nodes
        /\ \A i \in 1 .. n : nodes[list[i]].next = NULL <=> i = n
    <3>1. ListOf(nodes, kheap_end) /\ kheap_end \in Nat
      BY <2>2 DEF HeapOk, EndOk
    <3> QED BY <3>1, <1>6, ChainSound
  <2> HIDE DEF list, n
  <2>4. HeapOk(nodes', kheap_end', taken', held')
    <3> HIDE DEF size, align
    <3> QED BY <2>1, <2>2, <2>3, <1>1, SearchSound
  <2> QED BY <2>1, <2>4, <1>2 DEF KInv
<1> QED BY <1>3, <1>4, <1>5, <1>6 DEF KInv

LEMMA FreeStep ==
  ASSUME KInv, NEW a \in DOMAIN taken, do_kfree(a)
  PROVE  KInv'
<1> DEFINE nd   == Coalesced([nodes EXCEPT ![a].status = "free"], a)
           b    == IF a \in DOMAIN nd THEN a ELSE nodes[a].prev
           give == IF nd[b].next = NULL /\ nd[b].size > 2 * Page
                   THEN Shrunk(nd[b].size) ELSE 0
<1>1. /\ mode = "run" /\ mode' = mode /\ kheap_start' = kheap_start
      /\ nodes' = [nd EXCEPT ![b].size = @ - give]
      /\ kheap_end' = kheap_end - give
      /\ taken' = [x \in DOMAIN taken \ {a} |-> taken[x]]
      /\ held' = held - 1
  BY DEF do_kfree
<1>2. kheap_start = Base /\ HeapOk(nodes, kheap_end, taken, held)
  BY DEF KInv, Owned
<1>3. /\ a \in DOMAIN nodes /\ nodes[a].status = "res" /\ kheap_end \in Nat
      /\ ListOf(nodes, kheap_end) /\ Merged(nodes) /\ LastFree(nodes)
  BY <1>2 DEF HeapOk, Owned, EndOk
<1>4. CoalesceResult(nodes, nd, kheap_end, a, b)
  BY <1>3, CoalesceSound
<1> HIDE DEF nd, b
<1>5. /\ ListOf(nd, kheap_end) /\ Merged(nd) /\ LastFree(nd) /\ Freed(nodes, nd, a)
      /\ b \in DOMAIN nd /\ nd[b].status = "free"
  BY <1>4 DEF CoalesceResult
<1>6. /\ b \in Nat /\ b >= Base /\ nd[b].size \in Nat /\ nd \in [DOMAIN nd -> Nodes]
      /\ nd[b].next = NULL => b + 1 + nd[b].size = kheap_end
  BY <1>3, <1>5, NodeFacts DEF ListOf, Linked
<1>7. /\ give \in Nat /\ give <= nd[b].size /\ EndOk(kheap_end - give)
      /\ nd[b].next # NULL => give = 0
  <2>1. EndOk(kheap_end)
    BY <1>2 DEF HeapOk
  <2>2. CASE nd[b].next = NULL /\ nd[b].size > 2 * Page
    <3>1. kheap_end - nd[b].size > Base
      BY <2>2, <1>3, <1>6, Constants
    <3>2. /\ Shrunk(nd[b].size) \in Nat /\ Shrunk(nd[b].size) <= nd[b].size
          /\ EndOk(kheap_end - Shrunk(nd[b].size))
      BY <3>1, <2>1, <1>6, Shrinking
    <3> QED BY <3>2, <2>2
  <2>3. CASE ~(nd[b].next = NULL /\ nd[b].size > 2 * Page)
    BY <2>1, <2>3, <1>3, <1>6
  <2> QED BY <2>2, <2>3
<1> HIDE DEF give
<1> DEFINE sz == nd[b].size - give
<1>8. sz \in Nat /\ nodes' = [nd EXCEPT ![b].size = sz]
  BY <1>1, <1>6, <1>7
<1>9. ResizeResult(nd, nodes', kheap_end', b, sz)
  <2>1. CASE nd[b].next = NULL
    <3>1. b + 1 + sz = kheap_end'
      BY <2>1, <1>1, <1>3, <1>6, <1>7
    <3>2. ResizeResult(nd, [nd EXCEPT ![b].size = sz], b + 1 + sz, b, sz)
      <4> HIDE DEF sz
      <4> QED BY <2>1, <1>3, <1>5, <1>8, LastResized
    <3> QED BY <3>1, <3>2, <1>8
  <2>2. CASE nd[b].next # NULL
    <3>1. sz = nd[b].size /\ kheap_end' = kheap_end
      BY <2>2, <1>1, <1>3, <1>6, <1>7
    <3>2. nd[b] \in Nodes
      BY <1>5, <1>6
    <3>3. [nd[b] EXCEPT !.size = nd[b].size] = nd[b]
      BY <3>2 DEF Nodes
    <3>4. [nd EXCEPT ![b].size = nd[b].size] =
            [x \in DOMAIN nd |-> IF x = b THEN [nd[b] EXCEPT !.size = nd[b].size] ELSE nd[x]]
      BY <1>5, <1>6
    <3>5. nodes' = nd
      BY <3>1, <3>3, <3>4, <1>6, <1>8
    <3> HIDE DEF sz
    <3> QED BY <3>1, <3>5, <1>5 DEF ResizeResult
  <2> QED BY <2>1, <2>2
<1>10. /\ ListOf(nodes', kheap_end') /\ DOMAIN nodes' = DOMAIN nd
       /\ \A x \in DOMAIN nd :
            /\ nodes'[x].next = nd[x].next /\ nodes'[x].status = nd[x].status
            /\ x # b => nodes'[x].size = nd[x].size
  BY <1>9 DEF ResizeResult
<1>11. Merged(nodes') /\ LastFree(nodes')
  <2>1. \A x \in DOMAIN nd : nd[x].next # NULL => nd[x].next \in DOMAIN nd
    BY <1>3, <1>5, NodeFacts
  <2> QED BY <2>1, <1>5, <1>10 DEF Merged, LastFree
<1>12. Owned(nodes', taken', held')
  <2>1. Owned(nodes, taken, held)
    BY <1>2 DEF HeapOk
  <2>2. /\ DOMAIN taken' = DOMAIN taken \ {a}
        /\ taken' = [x \in DOMAIN taken' |-> taken'[x]]
        /\ \A x \in DOMAIN taken' : taken'[x] = taken[x]
    BY <1>1
  <2>3. IsFiniteSet(DOMAIN taken') /\ Cardinality(DOMAIN taken') = held'
    <3>1. IsFiniteSet(DOMAIN taken) /\ Cardinality(DOMAIN taken) = held
      BY <2>1 DEF Owned
    <3> QED BY <3>1, <2>2, <1>1, FS_RemoveElement
  <2>4. taken' \in [DOMAIN taken' -> Requests]
    <3>1. \A x \in DOMAIN taken' : taken'[x] \in Requests
      BY <2>1, <2>2 DEF Owned
    <3> QED BY <3>1, <2>2
  <2>5. \A x \in DOMAIN taken' :
          x \in DOMAIN nodes' /\ nodes'[x].status = "res" /\ nodes'[x].size = taken'[x][1]
    <3> TAKE x \in DOMAIN taken'
    <3>1. x \in DOMAIN taken /\ x # a /\ taken'[x] = taken[x]
      BY <2>2
    <3>2. x \in DOMAIN nodes /\ nodes[x].status = "res" /\ nodes[x].size = taken[x][1]
      BY <3>1, <2>1 DEF Owned
    <3>3. x \in DOMAIN nd /\ nd[x].status = "res" /\ nd[x].size = nodes[x].size
      BY <3>1, <3>2, <1>5 DEF Freed
    <3>4. x # b
      BY <3>3, <1>5
    <3> QED BY <3>1, <3>2, <3>3, <3>4, <1>10
  <2>6. \A x \in DOMAIN nodes' : nodes'[x].status = "res" => x \in DOMAIN taken'
    <3> TAKE x \in DOMAIN nodes'
    <3> HAVE nodes'[x].status = "res"
    <3>1. x \in DOMAIN nodes /\ x # a /\ nodes[x].status = "res"
      BY <1>5, <1>10 DEF Freed
    <3> QED BY <3>1, <2>1, <2>2 DEF Owned
  <2> QED BY <2>3, <2>4, <2>5, <2>6 DEF Owned
<1>13. EndOk(kheap_end')
  BY <1>1, <1>7
<1>14. HeapOk(nodes', kheap_end', taken', held')
  BY <1>10, <1>11, <1>12, <1>13 DEF HeapOk
<1> QED BY <1>1, <1>2, <1>14 DEF KInv

----------------------------------------------------------------------------
(* The theorems *)

LEMMA InitInv == Init => KInv
<1> HAVE Init
<1>1. DOMAIN nodes = {} /\ DOMAIN taken = {} /\ taken \in [DOMAIN taken -> Requests]
  BY DEF Init
<1>2. IsFiniteSet(DOMAIN taken) /\ Cardinality(DOMAIN taken) = 0
  BY <1>1, FS_EmptySet
<1>3. Owned(nodes, taken, held)
  BY <1>1, <1>2 DEF Init, Owned
<1> QED BY <1>1, <1>3, Constants DEF Init, KInv

LEMMA NextInv == KInv /\ [Next]_vars => KInv'
<1> SUFFICES ASSUME KInv, [Next]_vars PROVE KInv'
  OBVIOUS
<1>1. CASE \E r \in Requests : do_kmalloc(r[1], r[2])
  BY <1>1, MallocStep
<1>2. CASE \E a \in DOMAIN taken : do_kfree(a)
  BY <1>2, FreeStep
<1>3. CASE UNCHANGED vars
  BY <1>3 DEF KInv, vars
<1> QED BY <1>1, <1>2, <1>3 DEF Next, Halted

LEMMA InvSound == KInv => ListSound /\ BlocksKept
<1> SUFFICES ASSUME KInv PROVE ListSound /\ BlocksKept
  OBVIOUS
<1>1. CASE kheap_start # Base
  <2>1. DOMAIN nodes = {} /\ kheap_end = Base /\ Owned(nodes, taken, held)
    BY <1>1 DEF KInv
  <2> QED BY <2>1, <1>1, Constants
          DEF KInv, Owned, ListSound, TypeOK, Tiled, NoFreeNeighbours, LastIsFree, BlocksKept
<1>2. CASE kheap_start = Base
  <2>1. /\ EndOk(kheap_end) /\ kheap_end \in Nat /\ ListOf(nodes, kheap_end)
        /\ Merged(nodes) /\ LastFree(nodes) /\ Owned(nodes, taken, held)
    BY <1>2 DEF KInv, HeapOk, EndOk
  <2>2. \A a \in DOMAIN nodes :
          /\ a \in Base .. Limit /\ nodes[a].size \in 0 .. Limit
          /\ nodes[a].status \in {"free", "res"}
          /\ nodes[a].next \in {NULL} \cup DOMAIN nodes
          /\ nodes[a].prev \in {NULL} \cup DOMAIN nodes
    <3> TAKE a \in DOMAIN nodes
    <3>1. /\ a \in Nat /\ a >= Base /\ nodes[a].size \in Nat
          /\ a + 1 + nodes[a].size <= kheap_end /\ nodes[a].status \in {"free", "res"}
      BY <2>1, NodeFacts
    <3>2. nodes[a].next \in {NULL} \cup DOMAIN nodes /\ nodes[a].prev \in {NULL} \cup DOMAIN nodes
      BY <2>1 DEF ListOf, Linked
    <3> QED BY <3>1, <3>2, <2>1, Constants DEF EndOk
  <2>3. TypeOK
    BY <2>1, <2>2, <1>2, Constants DEF TypeOK, KInv, EndOk, Owned
  <2>4. Tiled
    BY <2>1 DEF Tiled, ListOf, Linked, Abutting
  <2>5. NoFreeNeighbours /\ LastIsFree
    BY <2>1 DEF NoFreeNeighbours, LastIsFree, Merged, LastFree
  <2>6. BlocksKept
    BY <2>1 DEF BlocksKept, Owned
  <2> QED BY <2>3, <2>4, <2>5, <2>6 DEF ListSound
<1> QED BY <1>1, <1>2

\* Whatever is allocated and freed in whatever order, with any page and heap
\* size: do_kmalloc and do_kfree keep the node list sound.  Its nodes tile the
\* heap, next and prev agree, no two free nodes are side by side, and the last
\* node, which do_kmalloc enlarges without looking at its status, is free.
THEOREM ListStaysSound == Spec => []ListSound
<1>1. Spec => []KInv
  BY InitInv, NextInv, PTL DEF Spec
<1> QED BY <1>1, InvSound, PTL

\* A block do_kmalloc handed out is nobody else's and keeps its size until it
\* is freed, and nothing but such blocks is reserved.
THEOREM BlocksStayKept == Spec => []BlocksKept
<1>1. Spec => []KInv
  BY InitInv, NextInv, PTL DEF Spec
<1> QED BY <1>1, InvSound, PTL

=============================================================================
