--------------------------- MODULE Memory_proofs ---------------------------
(***************************************************************************)
(* The frames and pages of Memory, for every layout, number of processes,  *)
(* amount of memory and length of a behaviour: no frame is in two places,  *)
(* the bitmap agrees with the maps, and exec begins in a user space that   *)
(* holds nothing of the program before.                                    *)
(***************************************************************************)
EXTENDS Memory, NaturalsInduction, WellFoundedInduction, TLAPS

----------------------------------------------------------------------------
(* Where the frames are *)

\* The bookkeeping as a relation between the bitmap u, the lost frames l, the
\* kernel's map k, the processes' maps m and the frames H that a call holds.
\* A frame but 0 is in one place at most, and marked when it is in one.
Alone(k, m, f) ==
  /\ \A a, b \in KPages : k[a] = f /\ k[b] = f => a = b
  /\ \A p, q \in Procs : \A a, b \in PPages :
       m[p][a] = f /\ m[q][b] = f => p = q /\ a = b
  /\ \A a \in KPages, p \in Procs, b \in PPages : ~(k[a] = f /\ m[p][b] = f)
Mapped(k, m, f) ==
  (\E a \in KPages : k[a] = f) \/ (\E p \in Procs, a \in PPages : m[p][a] = f)
Marked(u, l, k, m, H, f) ==
  /\ f \in H => f \notin l
  /\ f \in H \cup l => ~Mapped(k, m, f)
  /\ f \in u <=> f \in l \/ f \in H \/ Mapped(k, m, f)
Sound(u, l, k, m, H) ==
  \A f \in Frames \ {0} : Alone(k, m, f) /\ Marked(u, l, k, m, H, f)

\* The frames a page's entry stands for.
Entry(e) == {e} \ {NONE, 0}

\* A page that is not present has no frame.
LEMMA NoneIsNoFrame == 0 \in Frames /\ \A f \in Frames : f \in Nat /\ f # NONE
  BY LayoutAssumption DEF Frames, NONE

\* frame_alloc marks a frame that nobody has.
LEMMA TakeSound ==
  ASSUME NEW u, NEW l, NEW k, NEW m, NEW H, Sound(u, l, k, m, H),
         NEW f, f = 0 \/ f \notin u
  PROVE  Sound(u \cup {f}, l, k, m, H \cup {f})
  BY NoneIsNoFrame DEF Sound, Alone, Marked, Mapped

\* page_map of a kernel page with a frame in hand, or with none; what was
\* there is lost.
LEMMA MapKernelSound ==
  ASSUME NEW u, NEW l, NEW k, NEW m, NEW H, Sound(u, l, k, m, H),
         NEW at \in KPages, NEW f, f \in H \/ f \in {0, NONE},
         NEW k2, k2[at] = f, \A b \in KPages : b # at => k2[b] = k[b]
  PROVE  Sound(u, l \cup Entry(k[at]), k2, m, H \ {f})
  BY NoneIsNoFrame DEF Sound, Entry, Alone, Marked, Mapped

\* The same of a page of a process.
LEMMA MapProcSound ==
  ASSUME NEW u, NEW l, NEW k, NEW m, NEW H, Sound(u, l, k, m, H),
         NEW p \in Procs, NEW at \in PPages, NEW f, f \in H \/ f \in {0, NONE},
         NEW m2, m2[p][at] = f,
         \A q \in Procs, b \in PPages : q # p \/ b # at => m2[q][b] = m[q][b]
  PROVE  Sound(u, l \cup Entry(m[p][at]), k, m2, H \ {f})
  BY NoneIsNoFrame DEF Sound, Entry, Alone, Marked, Mapped

\* Unmapping a kernel page and marking its frame free.
LEMMA FreeKernelSound ==
  ASSUME NEW u, NEW l, NEW k, NEW m, NEW H, Sound(u, l, k, m, H),
         NEW at \in KPages, NEW k2, k2[at] = NONE,
         \A b \in KPages : b # at => k2[b] = k[b]
  PROVE  Sound(u \ {IF k[at] = NONE THEN 0 ELSE k[at]}, l, k2, m, H)
  BY NoneIsNoFrame DEF Sound, Alone, Marked, Mapped

\* The same of a page of a process.
LEMMA FreeProcSound ==
  ASSUME NEW u, NEW l, NEW k, NEW m, NEW H, Sound(u, l, k, m, H),
         NEW p \in Procs, NEW at \in PPages, NEW m2, m2[p][at] = NONE,
         \A q \in Procs, b \in PPages : q # p \/ b # at => m2[q][b] = m[q][b]
  PROVE  Sound(u \ {IF m[p][at] = NONE THEN 0 ELSE m[p][at]}, l, k, m2, H)
  BY NoneIsNoFrame DEF Sound, Alone, Marked, Mapped

\* A call that gives up forgets the frames in its hand.
LEMMA DropSound ==
  ASSUME NEW u, NEW l, NEW k, NEW m, NEW H, Sound(u, l, k, m, H)
  PROVE  Sound(u, l \cup H, k, m, {})
  BY NoneIsNoFrame DEF Sound, Alone, Marked, Mapped

\* Frame 0 is nobody's: it does not matter who holds it or has lost it.
LEMMA ZeroSound ==
  ASSUME NEW u, NEW l, NEW k, NEW m, NEW H, Sound(u, l, k, m, H),
         NEW u2, NEW l2, NEW H2,
         u2 \ {0} = u \ {0}, l2 \ {0} = l \ {0}, H2 \ {0} = H \ {0}
  PROVE  Sound(u2, l2, k, m, H2)
  BY NoneIsNoFrame DEF Sound, Alone, Marked, Mapped

----------------------------------------------------------------------------
(* Operators of the model *)

\* The constants are numbers, in the order of the memory map.
LEMMA Layout ==
  /\ NFrames \in Nat /\ Tab \in Nat /\ KHeap \in Nat /\ KStack \in Nat
  /\ KSEnd \in Nat /\ UMem \in Nat /\ UStack \in Nat /\ NPages \in Nat
  /\ Tab > 0 /\ 0 < KHeap /\ KHeap < KStack /\ KStack < KSEnd /\ KSEnd <= UMem
  /\ UMem < UStack /\ UStack < NPages /\ NFrames > 0
  /\ 0 \in Pages /\ KStack \in Pages /\ UMem \in Pages /\ Top \in Pages
  /\ KStack \in PPages /\ UMem \in PPages /\ Top \in PPages
  BY LayoutAssumption DEF Pages, PPages, Top

\* A page is one of the kernel's or one of a process's.
LEMMA PageSplit ==
  /\ \A a \in Pages : a \in Nat /\ a < NPages
  /\ \A a \in KPages : a \in Pages /\ a < KStack
  /\ \A a \in PPages : a \in Pages /\ a >= KStack
  /\ \A a \in Pages : a < KStack => a \in KPages
  /\ \A a \in Pages : a >= KStack => a \in PPages
  BY Layout DEF Pages, PPages, KPages

\* A set of naturals has a least element, which Min finds.
LEMMA MinFound ==
  ASSUME NEW S \in SUBSET Nat, S # {}
  PROVE  Min(S) \in S /\ \A y \in S : Min(S) <= y
<1> DEFINE R == {r \in Nat \X Nat : r[1] < r[2]}
<1>1. IsWellFoundedOn(R, Nat)
  BY NatLessThanWellFounded DEF OpToRel
<1> HIDE DEF R
<1>2. PICK x \in S : \A y \in S : <<y, x>> \notin R
  BY <1>1, WFMin
<1>3. ASSUME NEW y \in S, y < x PROVE FALSE
  BY <1>2, <1>3 DEF R
<1>4. \E z \in S : \A y \in S : z <= y
  BY <1>2, <1>3
<1> QED BY <1>4 DEF Min

\* A set of naturals below a bound has a greatest element, which Max finds.
LEMMA MaxFound ==
  ASSUME NEW n \in Nat, NEW S \in SUBSET (0 .. n), S # {}
  PROVE  Max(S) \in S /\ \A y \in S : Max(S) >= y
<1> DEFINE T == {n - x : x \in S}
<1>1. T \in SUBSET Nat /\ T # {}
  <2>1. \A x \in S : n - x \in Nat
    OBVIOUS
  <2> QED BY <2>1
<1>2. Min(T) \in T /\ \A y \in T : Min(T) <= y
  BY <1>1, MinFound
<1>3. PICK x \in S : Min(T) = n - x
  BY <1>2
<1>4. \A y \in S : n - x <= n - y
  BY <1>2, <1>3
<1>5. \A y \in S : x >= y
  BY <1>4
<1>6. \E z \in S : \A y \in S : z >= y
  BY <1>5
<1> QED BY <1>6 DEF Max

\* frame_alloc finds a free frame or answers 0.
LEMMA AllocFound ==
  frame_alloc \in Frames /\ (frame_alloc = 0 \/ frame_alloc \notin used)
<1>1. CASE Frames \subseteq used
  BY <1>1, NoneIsNoFrame DEF frame_alloc
<1>2. CASE ~(Frames \subseteq used)
  <2>1. Frames \ used \in SUBSET Nat /\ Frames \ used # {}
    BY <1>2, NoneIsNoFrame
  <2>2. Min(Frames \ used) \in Frames \ used
    BY <2>1, MinFound
  <2> QED BY <1>2, <2>2 DEF frame_alloc
<1> QED BY <1>1, <1>2

\* Division with rest.
LEMMA Rest ==
  ASSUME NEW n \in Int, NEW d \in Nat \ {0}
  PROVE  n % d \in 0 .. d - 1
  BY SMT

LEMMA SmallRest ==
  ASSUME NEW d \in Nat, NEW n \in Nat, n < d
  PROVE  n % d = n
  BY SMT

LEMMA WholeRest ==
  ASSUME NEW d \in Nat \ {0}
  PROVE  d % d = 0
  BY SMT

LEMMA Euclid ==
  ASSUME NEW d \in Nat \ {0}, NEW n \in Nat
  PROVE  /\ n \div d \in Nat /\ n % d \in 0 .. d - 1
         /\ n = d * (n \div d) + (n % d)
<1>1. n % d \in 0 .. d - 1
  BY SMT
<1>2. n \div d \in Int
  BY SMT
<1>3. n = d * (n \div d) + (n % d)
  BY SMT
<1>4. n \div d >= 0
  BY SMT
<1> QED BY <1>1, <1>2, <1>3, <1>4

\* A higher page has no lower table.
LEMMA TableOrder ==
  ASSUME NEW d \in Nat \ {0}, NEW a \in Nat, NEW b \in Nat, a <= b
  PROVE  a \div d <= b \div d
<1> DEFINE s == a \div d
           t == b \div d
           x == a % d
           y == b % d
<1>1. s \in Nat /\ x \in 0 .. d - 1 /\ a = d * s + x
  BY Euclid, Zenon
<1>2. t \in Nat /\ y \in 0 .. d - 1 /\ b = d * t + y
  BY Euclid, Zenon
<1> HIDE DEF s, t, x, y
<1>3. ASSUME t + 1 <= s PROVE FALSE
  <2>1. d * (t + 1) <= d * s
    BY <1>1, <1>2, <1>3
  <2>2. d * (t + 1) = d * t + d
    BY <1>2
  <2>3. d * t \in Nat /\ d * s \in Nat
    BY <1>1, <1>2
  <2> QED BY <1>1, <1>2, <2>1, <2>2, <2>3
<1> QED BY <1>1, <1>2, <1>3 DEF s, t

\* The loops over an address space: the page after the last one is 0.
LEMMA NextOfPage ==
  ASSUME NEW a \in Pages
  PROVE  /\ a % NPages = a
         /\ (a + 1) % NPages = IF a = Top THEN 0 ELSE a + 1
         /\ (a + 1) % NPages \in Pages
<1>1. a \in Nat /\ a < NPages /\ NPages \in Nat \ {0} /\ Top = NPages - 1
  BY Layout, PageSplit DEF Top
<1>2. a % NPages = a
  BY <1>1, SmallRest
<1>3. CASE a = Top
  <2>1. a + 1 = NPages
    BY <1>1, <1>3
  <2> QED BY <1>2, <1>3, <2>1, <1>1, WholeRest, Layout
<1>4. CASE a # Top
  <2>1. a + 1 \in Nat /\ a + 1 < NPages
    BY <1>1, <1>4
  <2>2. (a + 1) % NPages = a + 1
    BY <1>1, <2>1, SmallRest
  <2> QED BY <1>1, <1>2, <1>4, <2>1, <2>2 DEF Pages
<1> QED BY <1>3, <1>4

\* The heap of a program begins within the address space.
LEMMA HeapBeginIsPage ==
  ASSUME NEW img \in Images, NEW b \in HeapBegins(img)
  PROVE  b \in Pages
<1>1. img \subseteq 0 .. UStack - 1 /\ img # {}
  BY LayoutAssumption, Layout
<1>2. Max(img) \in Nat
  <2>1. UStack - 1 \in Nat
    BY Layout
  <2>2. Max(img) \in img
    BY <1>1, <2>1, MaxFound
  <2> HIDE DEF Max
  <2>3. Max(img) \in 0 .. UStack - 1
    BY <1>1, <2>2, Zenon
  <2> QED BY <2>1, <2>3, Layout
<1>3. PICK m \in {Max(img), Max(img) + 1} : b = ((m \div Tab + 1) * Tab) % NPages
  BY DEF HeapBegins
<1> HIDE DEF Max
<1>4. m \in Nat /\ Tab \in Nat \ {0} /\ NPages \in Nat \ {0}
  BY <1>2, <1>3, Layout
<1>5. m \div Tab \in Nat
  BY <1>4, Euclid, Zenon
<1>6. PICK t \in Nat : t = m \div Tab
  BY <1>5
<1>7. (t + 1) * Tab \in Nat
  BY <1>4, <1>6
<1>8. PICK a \in Nat : a = (t + 1) * Tab
  BY <1>7
<1>9. a % NPages \in 0 .. NPages - 1
  BY <1>4, <1>8
<1> QED BY <1>3, <1>6, <1>8, <1>9 DEF Pages

----------------------------------------------------------------------------
(* The inductive invariant *)

Dos == {"idle", "grow", "shrink", "fork", "destroy", "clean", "load"}

Ops == [do : Dos, p : Procs, q : Procs, at : Pages \cup {NONE}, to : Int,
        f : Frames \cup {NONE}, img : Images \cup {{}}]

MapsTyped ==
  /\ kmap \in [KPages -> Frames \cup {NONE}]
  /\ pmap \in [Procs -> [PPages -> Frames \cup {NONE}]]
  /\ tabs \in [Procs -> SUBSET (0 .. NPages \div Tab)]

Typed ==
  /\ used \subseteq Frames /\ lost \subseteq Frames /\ MapsTyped
  /\ kheap_size \in 0 .. KStack - KHeap
  /\ ksbrk_left \in KHeap - KStack .. KStack - KHeap
  /\ uheap_begin \in [Procs -> Pages] /\ uheap_end \in [Procs -> Pages]
  /\ proc \in [Procs -> {"none", "boot", "live", "dead"}]
  /\ op \in Ops
  /\ mode \in {"run", "panic", "wild"} /\ calls \in 0 .. MaxCalls

\* The frame between frame_alloc and page_map.
Hand == {op.f} \ {NONE}

Placed == Sound(used, lost, kmap, pmap, Hand)

\* ksbrk was asked for no more than there is.
KernSound ==
  /\ ksbrk_left > 0 => KHeap + kheap_size + ksbrk_left <= KStack
  /\ ksbrk_left < 0 => kheap_size + ksbrk_left >= 0 /\ op.do = "idle"

\* Only the loops that map pages hold a frame, at a page they may map.
HandSound ==
  op.f # NONE => \/ op.do = "grow" /\ op.at \in Pages /\ op.at < UStack
                 \/ op.do \in {"fork", "load"} /\ op.at \in PPages

\* Where a call is, and that its process has not gone.
OpSound ==
  /\ op.do # "load" => op.at \in Pages
  /\ op.do = "load" => op.at = NONE \/ op.at = Top \/ op.at \in UMem .. UStack - 1
  /\ op.do \in {"fork", "destroy"} => op.at = 0 \/ op.at \in PPages
  /\ op.do \in {"clean", "load"} => op.img \in Images
  /\ op.do \in {"grow", "fork", "clean", "load"} => proc[op.p] # "none"
  /\ op.do = "fork" => proc[op.q] = "none"

\* The pages that fork has yet to copy and task_destroy has done with, and
\* those of a process that does not exist, are not present.
Absent ==
  /\ op.do = "fork" /\ op.at # 0 =>
       \A a \in PPages : a >= op.at => pmap[op.q][a] = NONE
  /\ op.do = "destroy" =>
       \A a \in PPages : a < op.at \/ op.at = 0 => pmap[op.p][a] = NONE
  /\ \A p \in Procs : proc[p] = "none" /\ ~(op.do = "fork" /\ op.q = p) =>
       \A a \in PPages : pmap[p][a] = NONE

\* A page that is present has a table.
TabsCover ==
  \A p \in Procs, a \in PPages : pmap[p][a] # NONE => a \div Tab \in tabs[p]

MInv == /\ Typed /\ Placed /\ KernSound /\ HandSound /\ OpSound /\ Absent
        /\ TabsCover

----------------------------------------------------------------------------
(* page_map *)

\* Which entry page_map changes.
LEMMA PageMapIs ==
  ASSUME MapsTyped, NEW p \in Procs, NEW a \in Pages, NEW f \in Frames \cup {NONE},
         page_map(p, a, f)
  PROVE  /\ MapsTyped'
         /\ a < KStack =>
              /\ a \in KPages /\ kmap'[a] = f /\ UNCHANGED <<pmap, tabs>>
              /\ \A b \in KPages : b # a => kmap'[b] = kmap[b]
         /\ a >= KStack =>
              /\ a \in PPages /\ pmap'[p][a] = f /\ UNCHANGED kmap
              /\ \A q \in Procs, b \in PPages :
                   q # p \/ b # a => pmap'[q][b] = pmap[q][b]
              /\ tabs'[p] = tabs[p] \cup {a \div Tab}
              /\ \A q \in Procs : q # p => tabs'[q] = tabs[q]
<1>1. a \in Nat /\ KStack \in Nat
  BY Layout, PageSplit
<1>2. CASE a < KStack
  <2>1. a \in KPages
    BY <1>2, PageSplit
  <2>2. kmap' = [kmap EXCEPT ![a] = f] /\ UNCHANGED <<pmap, tabs>>
    BY <1>2 DEF page_map
  <2> QED BY <1>1, <1>2, <2>1, <2>2 DEF MapsTyped
<1>3. CASE a >= KStack
  <2>1. a \in PPages
    BY <1>3, PageSplit
  <2>2. /\ pmap' = [pmap EXCEPT ![p][a] = f]
        /\ tabs' = [tabs EXCEPT ![p] = @ \cup {a \div Tab}] /\ UNCHANGED kmap
    BY <1>1, <1>3 DEF page_map
  <2>3. a \div Tab \in 0 .. NPages \div Tab
    <3>1. a <= NPages /\ NPages \in Nat /\ Tab \in Nat \ {0}
      BY Layout, PageSplit
    <3>2. a \div Tab \in Nat /\ NPages \div Tab \in Nat
      BY <1>1, <3>1, Euclid
    <3>3. a \div Tab <= NPages \div Tab
      BY <1>1, <3>1, TableOrder
    <3> QED BY <3>2, <3>3
  <2> DEFINE c == a \div Tab
             C == 0 .. NPages \div Tab
  <2>4. c \in C /\ tabs \in [Procs -> SUBSET C] /\ tabs' = [tabs EXCEPT ![p] = @ \cup {c}]
    BY <2>2, <2>3 DEF MapsTyped
  <2>5. pmap \in [Procs -> [PPages -> Frames \cup {NONE}]]
    BY DEF MapsTyped
  <2> HIDE DEF c, C
  <2>6. /\ tabs' \in [Procs -> SUBSET C] /\ tabs'[p] = tabs[p] \cup {c}
        /\ \A q \in Procs : q # p => tabs'[q] = tabs[q]
    BY <2>4
  <2>7. /\ pmap' \in [Procs -> [PPages -> Frames \cup {NONE}]]
        /\ pmap'[p][a] = f
        /\ \A q \in Procs, b \in PPages :
              q # p \/ b # a => pmap'[q][b] = pmap[q][b]
    BY <2>1, <2>2, <2>5
  <2> QED BY <1>1, <1>3, <2>1, <2>2, <2>6, <2>7 DEF MapsTyped, c, C
<1> QED BY <1>1, <1>2, <1>3

\* Mapping a frame from the hand, or none: what was there is Replaced.
LEMMA MapSound ==
  ASSUME MapsTyped, NEW p \in Procs, NEW a \in Pages, NEW f \in Frames \cup {NONE},
         page_map(p, a, f), NEW u, NEW l, NEW H, Sound(u, l, kmap, pmap, H),
         f \in H \/ f \in {0, NONE}
  PROVE  Sound(u, l \cup Replaced(p, a), kmap', pmap', H \ {f})
<1>1. a \in Nat /\ KStack \in Nat
  BY Layout, PageSplit
<1>2. CASE a < KStack
  <2>1. Replaced(p, a) = Entry(kmap[a])
    BY <1>2, NoneIsNoFrame DEF Replaced, get_phys, Entry
  <2>2. /\ a \in KPages /\ kmap'[a] = f /\ pmap' = pmap
        /\ \A b \in KPages : b # a => kmap'[b] = kmap[b]
    BY <1>2, PageMapIs
  <2>3. Sound(u, l \cup Entry(kmap[a]), kmap', pmap, H \ {f})
    BY <2>2, MapKernelSound
  <2> QED BY <2>1, <2>2, <2>3
<1>3. CASE a >= KStack
  <2>1. Replaced(p, a) = Entry(pmap[p][a])
    BY <1>1, <1>3, NoneIsNoFrame DEF Replaced, get_phys, Entry
  <2>2. /\ a \in PPages /\ pmap'[p][a] = f /\ kmap' = kmap
        /\ \A q \in Procs, b \in PPages :
              q # p \/ b # a => pmap'[q][b] = pmap[q][b]
    BY <1>3, PageMapIs
  <2>3. Sound(u, l \cup Entry(pmap[p][a]), kmap, pmap', H \ {f})
    BY <2>2, MapProcSound
  <2> QED BY <2>1, <2>2, <2>3
<1> QED BY <1>1, <1>2, <1>3

\* Unmapping a page and marking the frame it had as free.
LEMMA UnmapSound ==
  ASSUME MapsTyped, NEW p \in Procs, NEW a \in Pages, page_map(p, a, NONE),
         NEW u, NEW l, NEW H, Sound(u, l, kmap, pmap, H)
  PROVE  Sound(u \ {get_phys(p, a)}, l, kmap', pmap', H)
<1>1. a \in Nat /\ KStack \in Nat
  BY Layout, PageSplit
<1>2. CASE a < KStack
  <2>1. get_phys(p, a) = IF kmap[a] = NONE THEN 0 ELSE kmap[a]
    BY <1>2 DEF get_phys
  <2>2. /\ a \in KPages /\ kmap'[a] = NONE /\ pmap' = pmap
        /\ \A b \in KPages : b # a => kmap'[b] = kmap[b]
    BY <1>2, PageMapIs
  <2> QED BY <2>1, <2>2, FreeKernelSound
<1>3. CASE a >= KStack
  <2>1. get_phys(p, a) = IF pmap[p][a] = NONE THEN 0 ELSE pmap[p][a]
    BY <1>1, <1>3 DEF get_phys
  <2>2. /\ a \in PPages /\ pmap'[p][a] = NONE /\ kmap' = kmap
        /\ \A q \in Procs, b \in PPages :
              q # p \/ b # a => pmap'[q][b] = pmap[q][b]
    BY <1>3, PageMapIs
  <2> QED BY <2>1, <2>2, FreeProcSound
<1> QED BY <1>1, <1>2, <1>3

\* page_map sees to the table.
LEMMA MapCovers ==
  ASSUME MapsTyped, TabsCover, NEW p \in Procs, NEW a \in Pages,
         NEW f \in Frames \cup {NONE}, page_map(p, a, f)
  PROVE  TabsCover'
<1>1. a \in Nat /\ KStack \in Nat
  BY Layout, PageSplit
<1>2. CASE a < KStack
  <2>1. UNCHANGED <<pmap, tabs>>
    BY <1>2, PageMapIs
  <2> QED BY <2>1 DEF TabsCover
<1>3. CASE a >= KStack
  <2>1. /\ \A q \in Procs, b \in PPages :
             q # p \/ b # a => pmap'[q][b] = pmap[q][b]
        /\ tabs'[p] = tabs[p] \cup {a \div Tab}
        /\ \A q \in Procs : q # p => tabs'[q] = tabs[q]
    BY <1>3, PageMapIs
  <2> SUFFICES ASSUME NEW q \in Procs, NEW b \in PPages, pmap'[q][b] # NONE
               PROVE  b \div Tab \in tabs'[q]
    BY DEF TabsCover
  <2>2. CASE q = p /\ b = a
    BY <2>1, <2>2
  <2>3. CASE q # p \/ b # a
    <3>1. b \div Tab \in tabs[q]
      BY <2>1, <2>3 DEF TabsCover
    <3>2. tabs[q] \subseteq tabs'[q]
      BY <2>1, Zenon
    <3> QED BY <3>1, <3>2, Zenon
  <2> QED BY <2>2, <2>3
<1> QED BY <1>1, <1>2, <1>3

\* What get_phys and Replaced answer are frames.
LEMMA PhysIsFrame ==
  ASSUME MapsTyped, NEW p \in Procs, NEW a \in Pages
  PROVE  get_phys(p, a) \in Frames /\ Replaced(p, a) \subseteq Frames
<1>1. a \in KPages \/ a \in PPages
  BY Layout, PageSplit
<1>2. a < KStack => a \in KPages
  BY PageSplit
<1>3. ~(a < KStack) => a \in PPages
  BY <1>1, PageSplit
<1>4. a < KStack => kmap[a] \in Frames \cup {NONE}
  BY <1>2 DEF MapsTyped
<1>5. ~(a < KStack) => pmap[p][a] \in Frames \cup {NONE}
  BY <1>3 DEF MapsTyped
<1>6. get_phys(p, a) \in Frames
  BY <1>4, <1>5, NoneIsNoFrame DEF get_phys
<1> QED BY <1>6 DEF Replaced

\* The fields of the call in progress, as the steps set them.
LEMMA OpFields ==
  ASSUME op \in Ops
  PROVE  /\ op.do \in Dos /\ op.p \in Procs /\ op.q \in Procs /\ op.to \in Int
         /\ op.at \in Pages \cup {NONE} /\ op.f \in Frames \cup {NONE}
         /\ op.img \in Images \cup {{}}
  BY DEF Ops

LEMMA OpAt ==
  ASSUME op \in Ops, NEW x \in Pages \cup {NONE}, op' = [op EXCEPT !.at = x]
  PROVE  /\ op' \in Ops /\ op'.at = x /\ op'.do = op.do /\ op'.p = op.p
         /\ op'.q = op.q /\ op'.to = op.to /\ op'.f = op.f /\ op'.img = op.img
  BY DEF Ops

LEMMA OpHand ==
  ASSUME op \in Ops, NEW x \in Frames \cup {NONE}, op' = [op EXCEPT !.f = x]
  PROVE  /\ op' \in Ops /\ op'.at = op.at /\ op'.do = op.do /\ op'.p = op.p
         /\ op'.q = op.q /\ op'.to = op.to /\ op'.f = x /\ op'.img = op.img
  BY DEF Ops

LEMMA OpAtHand ==
  ASSUME op \in Ops, NEW x \in Pages \cup {NONE},
         op' = [op EXCEPT !.at = x, !.f = NONE]
  PROVE  /\ op' \in Ops /\ op'.at = x /\ op'.do = op.do /\ op'.p = op.p
         /\ op'.q = op.q /\ op'.to = op.to /\ op'.f = NONE /\ op'.img = op.img
  BY DEF Ops

LEMMA OpLoads ==
  ASSUME op \in Ops, op' = [op EXCEPT !.do = "load", !.at = Top]
  PROVE  /\ op' \in Ops /\ op'.at = Top /\ op'.do = "load" /\ op'.p = op.p
         /\ op'.q = op.q /\ op'.to = op.to /\ op'.f = op.f /\ op'.img = op.img
  BY Layout DEF Ops, Dos

LEMMA OpIdle ==
  ASSUME op' = Idle
  PROVE  op' \in Ops /\ op'.do = "idle" /\ op'.f = NONE /\ op'.at \in Pages
  BY Layout, LayoutAssumption DEF Idle, Ops, Dos

LEMMA OpCall ==
  ASSUME NEW do \in Dos, NEW p \in Procs, NEW q \in Procs, NEW at \in Pages,
         NEW to \in Int, NEW img \in Images \cup {{}},
         op' = Call(do, p, q, at, to, img)
  PROVE  /\ op' \in Ops /\ op'.at = at /\ op'.do = do /\ op'.p = p
         /\ op'.q = q /\ op'.to = to /\ op'.f = NONE /\ op'.img = img
  BY DEF Call, Ops

\* paging_init establishes the invariant.
LEMMA InitMInv == Init => MInv
<1> SUFFICES ASSUME Init PROVE MInv
  OBVIOUS
<1> DEFINE K == KHeap + KSEnd - KStack
<1>1. K \in Nat /\ K > KHeap /\ K <= NFrames
  BY Layout, LayoutAssumption
<1>11. used = 0 .. K - 1
  <2>1. KHeap + KSEnd - KStack - 1 = K - 1
    BY Layout
  <2>2. used = 0 .. KHeap + KSEnd - KStack - 1
    BY Zenon DEF Init
  <2> QED BY <2>1, <2>2
<1>2. \A a \in KPages : kmap[a] = IF a \in 1 .. KHeap - 1 THEN a ELSE NONE
  BY DEF Init
<1>3. \A p \in Procs, a \in PPages :
        pmap[p][a] = IF p = 1 /\ a < KSEnd THEN KHeap + a - KStack ELSE NONE
  BY DEF Init
<1>4. op = Idle /\ op \in Ops /\ op.do = "idle" /\ op.f = NONE /\ op.at \in Pages
  BY Layout, LayoutAssumption DEF Init, Idle, Ops, Dos
<1>5. MapsTyped
  <2>1. \A a \in KPages : a \in 1 .. KHeap - 1 => a \in Frames
    BY <1>1, Layout DEF Frames
  <2>2. kmap \in [KPages -> Frames \cup {NONE}]
    BY <2>1 DEF Init
  <2>3. \A a \in PPages : a < KSEnd => KHeap + a - KStack \in Frames
    BY <1>1, Layout DEF Frames, PPages
  <2>4. pmap \in [Procs -> [PPages -> Frames \cup {NONE}]]
    BY <2>3 DEF Init
  <2>5. ASSUME NEW a \in KStack .. KSEnd - 1
        PROVE  a \div Tab \in 0 .. NPages \div Tab
    <3>1. a \in Nat /\ a <= NPages /\ NPages \in Nat /\ Tab \in Nat \ {0}
      BY Layout
    <3>2. a \div Tab \in Nat /\ NPages \div Tab \in Nat
      BY <3>1, Euclid, Zenon
    <3>3. a \div Tab <= NPages \div Tab
      BY <3>1, TableOrder
    <3> QED BY <3>2, <3>3
  <2> DEFINE C == 0 .. NPages \div Tab
             T == {a \div Tab : a \in KStack .. KSEnd - 1}
  <2>6. T \subseteq C
    BY <2>5
  <2>7. tabs = [p \in Procs |-> IF p = 1 THEN T ELSE {}]
    BY DEF Init
  <2> HIDE DEF C, T
  <2>8. tabs \in [Procs -> SUBSET C]
    BY <2>6, <2>7
  <2> QED BY <2>2, <2>4, <2>8 DEF MapsTyped, C
<1>6. Typed
  <2>1. used \subseteq Frames /\ lost \subseteq Frames
    <3> HIDE DEF K
    <3>1. 0 .. K - 1 \subseteq 0 .. NFrames - 1
      BY <1>1, Layout
    <3> QED BY <1>11, <3>1 DEF Init, Frames
  <2>2. kheap_size \in 0 .. KStack - KHeap /\ ksbrk_left \in KHeap - KStack .. KStack - KHeap
    BY Layout DEF Init
  <2>3. uheap_begin \in [Procs -> Pages] /\ uheap_end \in [Procs -> Pages]
    BY Layout DEF Init
  <2>4. proc \in [Procs -> {"none", "boot", "live", "dead"}]
    BY DEF Init
  <2>5. mode \in {"run", "panic", "wild"} /\ calls \in 0 .. MaxCalls
    BY LayoutAssumption DEF Init
  <2> QED BY <1>4, <1>5, <2>1, <2>2, <2>3, <2>4, <2>5 DEF Typed
<1>7. Placed
  <2> SUFFICES ASSUME NEW f \in Frames \ {0}
               PROVE  Alone(kmap, pmap, f) /\ Marked(used, lost, kmap, pmap, Hand, f)
    BY DEF Placed, Sound
  <2>1. f \in Nat /\ f > 0 /\ f # NONE /\ lost = {} /\ Hand = {}
    BY <1>4, NoneIsNoFrame DEF Init, Hand
  <2>2. \A a \in KPages : kmap[a] = f => a = f /\ f < KHeap
    BY <1>2, <2>1, Layout
  <2>3. \A p \in Procs, a \in PPages :
          pmap[p][a] = f => p = 1 /\ a = f + KStack - KHeap /\ f >= KHeap /\ f < K
    BY <1>3, <2>1, Layout DEF PPages
  <2>4. Alone(kmap, pmap, f)
    BY <2>1, <2>2, <2>3, Layout DEF Alone
  <2>5. f \in used <=> f < K
    <3> HIDE DEF K
    <3> QED BY <1>1, <1>11, <2>1
  <2>6. ASSUME f < KHeap PROVE Mapped(kmap, pmap, f)
    <3>1. f \in KPages /\ kmap[f] = f
      BY <1>2, <2>1, <2>6, Layout DEF KPages
    <3> QED BY <3>1 DEF Mapped
  <2>7. ASSUME f >= KHeap, f < K PROVE Mapped(kmap, pmap, f)
    <3> DEFINE a == f + KStack - KHeap
    <3>1. 1 \in Procs /\ a \in PPages /\ a < KSEnd
      BY <2>1, <2>7, Layout, LayoutAssumption DEF PPages
    <3>2. pmap[1][a] = KHeap + a - KStack
      BY <1>3, <3>1
    <3>3. pmap[1][a] = f
      BY <2>1, <3>2, Layout
    <3> QED BY <3>1, <3>3 DEF Mapped
  <2>8. Mapped(kmap, pmap, f) => f < K
    BY <1>1, <2>1, <2>2, <2>3, Layout DEF Mapped
  <2>9. f \in used <=> Mapped(kmap, pmap, f)
    BY <1>1, <2>1, <2>5, <2>6, <2>7, <2>8, Layout
  <2> QED BY <2>1, <2>4, <2>9 DEF Marked
<1>8. KernSound /\ HandSound /\ OpSound
  BY <1>4 DEF Init, KernSound, HandSound, OpSound
<1>9. Absent
  <2>1. \A p \in Procs : proc[p] = "none" => p # 1
    BY DEF Init
  <2> QED BY <1>3, <1>4, <2>1 DEF Absent
<1>10. TabsCover
  <2> SUFFICES ASSUME NEW p \in Procs, NEW a \in PPages, pmap[p][a] # NONE
               PROVE  a \div Tab \in tabs[p]
    BY DEF TabsCover
  <2>1. p = 1 /\ a \in KStack .. KSEnd - 1
    BY <1>3, Layout DEF PPages
  <2>2. tabs[p] = {b \div Tab : b \in KStack .. KSEnd - 1}
    BY <2>1 DEF Init
  <2> QED BY <2>1, <2>2
<1> QED BY <1>6, <1>7, <1>8, <1>9, <1>10 DEF MInv

----------------------------------------------------------------------------
(* What the steps have in common.  Kept is what each says of the frames.   *)

Kept == MapsTyped /\ used \subseteq Frames /\ lost \subseteq Frames /\ Placed /\ TabsCover

\* Steps that move no frame.
LEMMA NothingMoves ==
  ASSUME MInv, UNCHANGED <<used, maps, lost>>, op'.f = op.f
  PROVE  Kept'
<1>1. UNCHANGED <<kmap, pmap, tabs>>
  BY DEF maps
<1>2. Hand' = Hand
  BY DEF Hand
<1> QED BY <1>1, <1>2 DEF MInv, Typed, Kept, MapsTyped, Placed, TabsCover

\* frame_alloc into an empty hand.
LEMMA HandTaken ==
  ASSUME MInv, Take, op.f = NONE
  PROVE  /\ Kept' /\ op' \in Ops /\ op'.at = op.at /\ op'.do = op.do
         /\ op'.p = op.p /\ op'.q = op.q /\ op'.img = op.img
<1>1. /\ used' = used \cup {frame_alloc} /\ op' = [op EXCEPT !.f = frame_alloc]
      /\ UNCHANGED <<kmap, pmap, tabs, lost>>
  BY DEF Take, maps
<1>2. frame_alloc \in Frames /\ (frame_alloc = 0 \/ frame_alloc \notin used)
  BY AllocFound
<1> HIDE DEF frame_alloc
<1>3. /\ op' \in Ops /\ op'.at = op.at /\ op'.do = op.do /\ op'.p = op.p
      /\ op'.q = op.q /\ op'.f = frame_alloc /\ op'.img = op.img
  <2>1. frame_alloc \in Frames \cup {NONE} /\ op \in Ops
    BY <1>2 DEF MInv, Typed
  <2> QED BY <1>1, <2>1, OpHand
<1>4. Hand = {} /\ Hand' = {frame_alloc}
  BY <1>2, <1>3, NoneIsNoFrame DEF Hand
<1>5. Sound(used \cup {frame_alloc}, lost, kmap, pmap, Hand \cup {frame_alloc})
  BY <1>2, TakeSound DEF MInv, Placed
<1>6. Placed'
  BY <1>1, <1>4, <1>5 DEF Placed
<1>7. MapsTyped' /\ TabsCover' /\ used' \subseteq Frames /\ lost' \subseteq Frames
  BY <1>1, <1>2 DEF MInv, Typed, MapsTyped, TabsCover
<1> QED BY <1>3, <1>6, <1>7 DEF Kept

\* page_map of the frame in hand.
LEMMA HandMapped ==
  ASSUME MInv, op.f # NONE, NEW p \in Procs, NEW a \in Pages,
         page_map(p, a, op.f), used' = used, lost' = lost \cup Replaced(p, a),
         op'.f = NONE
  PROVE  Kept'
<1>1. MapsTyped /\ Placed /\ TabsCover /\ used \subseteq Frames /\ lost \subseteq Frames
  BY DEF MInv, Typed
<1>2. op.f \in Frames \cup {NONE} /\ Hand = {op.f} /\ Hand' = {}
  BY OpFields DEF MInv, Typed, Hand
<1>3. MapsTyped' /\ TabsCover'
  BY <1>1, <1>2, PageMapIs, MapCovers
<1>4. Sound(used, lost \cup Replaced(p, a), kmap', pmap', Hand \ {op.f})
  BY <1>1, <1>2, MapSound DEF Placed
<1>5. Placed'
  BY <1>2, <1>4 DEF Placed
<1>6. lost' \subseteq Frames /\ used' \subseteq Frames
  BY <1>1, PhysIsFrame
<1> QED BY <1>3, <1>5, <1>6 DEF Kept

\* A call that fails with a frame in hand.
LEMMA HandDropped ==
  ASSUME MInv, UNCHANGED maps, used' = used,
         lost' = lost \cup ({op.f} \ {NONE, 0}), op'.f = NONE
  PROVE  Kept'
<1>1. MapsTyped /\ Placed /\ TabsCover /\ used \subseteq Frames /\ lost \subseteq Frames
      /\ op.f \in Frames \cup {NONE}
  BY OpFields DEF MInv, Typed
<1>2. Hand' = {} /\ lost' \ {0} = (lost \cup Hand) \ {0}
  BY DEF Hand
<1>3. Sound(used, lost \cup Hand, kmap, pmap, {})
  BY <1>1, DropSound DEF Placed
<1>4. Sound(used, lost', kmap, pmap, {})
  BY <1>2, <1>3, ZeroSound
<1>5. UNCHANGED <<kmap, pmap, tabs>>
  BY DEF maps
<1>6. Placed'
  BY <1>2, <1>4, <1>5 DEF Placed
<1>7. MapsTyped' /\ TabsCover' /\ used' \subseteq Frames /\ lost' \subseteq Frames
  BY <1>1, <1>5 DEF MapsTyped, TabsCover
<1> QED BY <1>6, <1>7 DEF Kept

\* Unmapping a page.
LEMMA PageFreed ==
  ASSUME MInv, NEW p \in Procs, NEW a \in Pages, page_map(p, a, NONE),
         used' = used \ {get_phys(p, a)}, lost' = lost, op'.f = op.f
  PROVE  Kept'
<1>1. MapsTyped /\ Placed /\ TabsCover /\ used \subseteq Frames /\ lost \subseteq Frames
  BY DEF MInv, Typed
<1>2. MapsTyped' /\ TabsCover'
  BY <1>1, PageMapIs, MapCovers
<1>3. Sound(used \ {get_phys(p, a)}, lost, kmap', pmap', Hand)
  BY <1>1, UnmapSound DEF Placed
<1>4. Hand' = Hand
  BY DEF Hand
<1>5. Placed'
  BY <1>3, <1>4 DEF Placed
<1> QED BY <1>1, <1>2, <1>5 DEF Kept

\* The pages of processes that do not exist stay away when only those of the
\* process a call is about appear.
LEMMA AbsentKept ==
  ASSUME MInv, op.do \notin {"fork", "destroy"}, op'.do \notin {"fork", "destroy"},
         \A p \in Procs : proc'[p] = "none" => proc[p] = "none",
         NEW r, proc[r] # "none",
         \A p \in Procs, a \in PPages :
           pmap'[p][a] = pmap[p][a] \/ pmap'[p][a] = NONE \/ p = r
  PROVE  Absent'
  BY DEF MInv, Absent

\* What is left to show of a step of a loop.
LEMMA LoopStep ==
  ASSUME MInv, ksbrk_left = 0, UNCHANGED <<kern, calls>>,
         mode' \in {"run", "panic", "wild"}, Kept', op' \in Ops,
         uheap_begin' \in [Procs -> Pages], uheap_end' \in [Procs -> Pages],
         proc' \in [Procs -> {"none", "boot", "live", "dead"}],
         HandSound', OpSound', Absent'
  PROVE  MInv'
<1>1. ksbrk_left' = 0 /\ UNCHANGED <<kheap_size, ksbrk_left, calls>>
  BY DEF kern
<1>2. KernSound'
  BY <1>1 DEF KernSound
<1>3. Typed'
  BY <1>1 DEF MInv, Typed, Kept
<1> QED BY <1>2, <1>3 DEF MInv, Kept

----------------------------------------------------------------------------
(* kvm.c *)

\* A page is added to the kernel heap, with a frame in hand or without.
LEMMA KvmAllocStep ==
  ASSUME MInv, kvm_page_alloc, UNCHANGED calls
  PROVE  MInv'
<1> DEFINE a == KHeap + kheap_size
           f == frame_alloc
<1>1. /\ Typed /\ MapsTyped /\ Placed /\ TabsCover /\ KernSound
      /\ used \subseteq Frames /\ lost \subseteq Frames
      /\ kheap_size \in 0 .. KStack - KHeap
      /\ ksbrk_left \in KHeap - KStack .. KStack - KHeap /\ op \in Ops
  BY DEF MInv, Typed
<1>2. /\ ksbrk_left > 0 /\ mode = "run" /\ used' = used \cup {f}
      /\ page_map(1, a, f) /\ lost' = lost \cup Replaced(1, a)
      /\ kheap_size' = kheap_size + 1 /\ ksbrk_left' = ksbrk_left - 1
      /\ UNCHANGED <<uheap_begin, uheap_end, proc, op, mode>>
  BY DEF kvm_page_alloc, user
<1>3. f \in Frames /\ (f = 0 \/ f \notin used)
  BY AllocFound
<1>4. 1 \in Procs /\ a \in Pages /\ a < KStack
  BY <1>1, <1>2, Layout, LayoutAssumption DEF KernSound, Pages
<1> HIDE DEF a, f
<1>5. MapsTyped' /\ TabsCover' /\ UNCHANGED pmap
  BY <1>1, <1>2, <1>3, <1>4, PageMapIs, MapCovers
<1>6. Placed'
  <2>1. Sound(used \cup {f}, lost, kmap, pmap, Hand \cup {f})
    BY <1>1, <1>3, TakeSound DEF Placed
  <2>2. Sound(used \cup {f}, lost \cup Replaced(1, a), kmap', pmap', (Hand \cup {f}) \ {f})
    BY <1>1, <1>2, <1>3, <1>4, <2>1, MapSound
  <2>3. f \in Hand => f = 0
    <3>1. \A g \in Frames \ {0} : g \in Hand => g \in used
      BY <1>1 DEF Placed, Sound, Marked
    <3> QED BY <1>3, <3>1
  <2>4. ((Hand \cup {f}) \ {f}) \ {0} = Hand \ {0}
    BY <2>3
  <2>5. Sound(used', lost', kmap', pmap', Hand)
    BY <1>2, <2>2, <2>4, ZeroSound
  <2>6. Hand' = Hand
    BY <1>2 DEF Hand
  <2> QED BY <2>5, <2>6 DEF Placed
<1>7. Typed'
  <2>1. used' \subseteq Frames /\ lost' \subseteq Frames
    BY <1>1, <1>2, <1>3, <1>4, PhysIsFrame
  <2>2. kheap_size' \in 0 .. KStack - KHeap /\ ksbrk_left' \in KHeap - KStack .. KStack - KHeap
    BY <1>1, <1>2, Layout DEF KernSound
  <2> QED BY <1>1, <1>2, <1>5, <2>1, <2>2 DEF Typed
<1>8. KernSound'
  BY <1>1, <1>2, Layout DEF KernSound
<1>9. HandSound' /\ OpSound' /\ Absent'
  BY <1>2, <1>5 DEF MInv, HandSound, OpSound, Absent
<1> QED BY <1>5, <1>6, <1>7, <1>8, <1>9 DEF MInv

\* A page behind the kernel heap is unmapped: this can be the first page of
\* the kernel stack.
LEMMA KvmFreeStep ==
  ASSUME MInv, kvm_page_free, UNCHANGED calls
  PROVE  MInv'
<1> DEFINE a == KHeap + kheap_size
<1>1. /\ Typed /\ MapsTyped /\ Placed /\ TabsCover /\ KernSound /\ HandSound
      /\ used \subseteq Frames /\ lost \subseteq Frames
      /\ kheap_size \in 0 .. KStack - KHeap
      /\ ksbrk_left \in KHeap - KStack .. KStack - KHeap /\ op \in Ops
  BY DEF MInv, Typed
<1>2. /\ ksbrk_left < 0 /\ mode = "run" /\ used' = used \ {get_phys(1, a)}
      /\ page_map(1, a, NONE)
      /\ kheap_size' = kheap_size - 1 /\ ksbrk_left' = ksbrk_left + 1
      /\ UNCHANGED <<uheap_begin, uheap_end, proc, op, lost, mode>>
  BY DEF kvm_page_free, user
<1>3. 1 \in Procs /\ a \in Pages /\ op.do = "idle"
  BY <1>1, <1>2, Layout, LayoutAssumption DEF KernSound, Pages
<1> HIDE DEF a
<1>4. Kept'
  <2>1. op'.f = op.f
    BY <1>2
  <2> QED BY <1>2, <1>3, <2>1, PageFreed
<1>5. Typed'
  <2>1. kheap_size' \in 0 .. KStack - KHeap /\ ksbrk_left' \in KHeap - KStack .. KStack - KHeap
    BY <1>1, <1>2, Layout DEF KernSound
  <2> QED BY <1>1, <1>2, <1>4, <2>1 DEF Typed, Kept
<1>6. KernSound'
  BY <1>1, <1>2, <1>3, Layout DEF KernSound
<1>7. HandSound' /\ OpSound'
  BY <1>2 DEF MInv, HandSound, OpSound
<1>8. Absent'
  <2>1. a < KStack => UNCHANGED pmap
    BY <1>1, <1>2, <1>3, PageMapIs
  <2>2. a >= KStack =>
          /\ pmap'[1][a] = NONE
          /\ \A q \in Procs, b \in PPages : q # 1 \/ b # a => pmap'[q][b] = pmap[q][b]
    BY <1>1, <1>2, <1>3, PageMapIs
  <2>3. a < KStack \/ a >= KStack
    BY <1>3, Layout, PageSplit
  <2>4. \A p \in Procs, b \in PPages : pmap'[p][b] = pmap[p][b] \/ pmap'[p][b] = NONE
    BY <2>1, <2>2, <2>3
  <2> QED BY <1>2, <1>3, <2>4 DEF MInv, Absent
<1> QED BY <1>4, <1>5, <1>6, <1>7, <1>8 DEF MInv, Kept

----------------------------------------------------------------------------
(* uvm.c *)

\* The three loops take a frame before they map a page.
LEMMA TakeStep ==
  ASSUME MInv, uvm_take \/ clone_take \/ load_take, UNCHANGED calls
  PROVE  MInv'
<1>1. /\ Take /\ op.f = NONE /\ ksbrk_left = 0 /\ mode = "run"
      /\ \/ op.do = "grow" /\ op.at < UStack
         \/ op.do = "fork" /\ ~LoopEnds(op.at)
         \/ op.do = "load" /\ op.at # NONE
  BY DEF uvm_take, clone_take, load_take, Doing
<1>2. /\ Kept' /\ op' \in Ops /\ op'.at = op.at /\ op'.do = op.do
      /\ op'.p = op.p /\ op'.q = op.q /\ op'.img = op.img
  BY <1>1, HandTaken
<1>3. UNCHANGED <<kmap, pmap, tabs, kern, uheap_begin, uheap_end, proc, mode>>
  BY <1>1 DEF Take, user, maps
<1>4. OpSound /\ Typed /\ Absent
  BY DEF MInv
<1>5. HandSound'
  <2>1. op.do = "grow" => op.at \in Pages
    BY <1>4 DEF OpSound
  <2>2. op.do = "fork" => op.at = 0 \/ op.at \in PPages
    BY <1>4 DEF OpSound
  <2>3. LoopEnds(0)
    <3>1. 0 % NPages = 0
      BY Layout, NextOfPage
    <3> QED BY <3>1, Layout DEF LoopEnds
  <2>4. op.do = "load" /\ op.at # NONE => op.at \in PPages
    BY <1>4, Layout DEF OpSound, PPages
  <2> QED BY <1>1, <1>2, <2>1, <2>2, <2>3, <2>4 DEF HandSound
<1>6. OpSound' /\ Absent'
  BY <1>2, <1>3, <1>4 DEF OpSound, Absent
<1> QED BY <1>1, <1>2, <1>3, <1>4, <1>5, <1>6, LoopStep DEF Typed

\* A page of the heap is mapped, and the loop goes on or ends.
LEMMA UvmAllocStep ==
  ASSUME MInv, uvm_page_alloc \/ uvm_page_null, UNCHANGED calls
  PROVE  MInv'
<1>1. /\ ksbrk_left = 0 /\ mode = "run" /\ op.do = "grow" /\ op.f # NONE
      /\ page_map(op.p, op.at, op.f) /\ lost' = lost \cup Replaced(op.p, op.at)
      /\ UNCHANGED <<used, kern, uheap_begin, proc, mode>>
      /\ \/ op' = Idle
         \/ op' = [op EXCEPT !.at = @ + 1, !.f = NONE]
      /\ \/ uheap_end' = uheap_end
         \/ uheap_end' = [uheap_end EXCEPT ![op.p] = op.at + 1]
  BY DEF uvm_page_alloc, uvm_page_null, Doing, user
<1>2. Typed /\ OpSound /\ MapsTyped /\ op \in Ops /\ op.p \in Procs
      /\ op.f \in Frames \cup {NONE}
  BY OpFields DEF MInv, Typed
<1>3. op.at \in Pages /\ op.at < UStack /\ op.at + 1 \in Pages /\ proc[op.p] # "none"
  <2>1. op.at \in Pages /\ op.at < UStack
    BY <1>1 DEF MInv, HandSound
  <2>2. op.at + 1 \in Pages
    BY <2>1, Layout DEF Pages
  <2> QED BY <1>1, <1>2, <2>1, <2>2 DEF OpSound
<1>4. /\ op' \in Ops /\ op'.f = NONE /\ op'.at \in Pages
      /\ \/ op'.do = "idle"
         \/ op'.do = "grow" /\ op'.p = op.p
  <2>1. CASE op' = Idle
    BY <2>1, OpIdle
  <2>2. CASE op' = [op EXCEPT !.at = @ + 1, !.f = NONE]
    <3>1. op' = [op EXCEPT !.at = op.at + 1, !.f = NONE]
      BY <2>2
    <3>2. /\ op' \in Ops /\ op'.at = op.at + 1 /\ op'.do = op.do /\ op'.p = op.p
          /\ op'.f = NONE
      BY <1>2, <1>3, <3>1, OpAtHand
    <3> QED BY <1>1, <1>3, <3>2
  <2> QED BY <1>1, <2>1, <2>2
<1>5. Kept'
  BY <1>1, <1>2, <1>3, <1>4, HandMapped
<1>6. HandSound' /\ OpSound'
  BY <1>1, <1>3, <1>4 DEF HandSound, OpSound
<1>7. Absent'
  <2>1. \A p \in Procs, a \in PPages : pmap'[p][a] = pmap[p][a] \/ p = op.p
    <3>1. op.at < KStack \/ op.at >= KStack
      BY <1>3, Layout DEF Pages
    <3> QED BY <1>1, <1>2, <1>3, <3>1, PageMapIs
  <2>2. op'.do \notin {"fork", "destroy"} /\ op.do \notin {"fork", "destroy"}
    BY <1>1, <1>4
  <2> QED BY <1>1, <1>3, <2>1, <2>2, AbsentKept
<1>8. uheap_begin' \in [Procs -> Pages] /\ uheap_end' \in [Procs -> Pages]
  BY <1>1, <1>2, <1>3 DEF Typed
<1> QED BY <1>1, <1>2, <1>4, <1>5, <1>6, <1>7, <1>8, LoopStep DEF Typed

\* sbrk and execve without memory for a table.
LEMMA FailStep ==
  ASSUME MInv, uvm_page_fails \/ load_fails, UNCHANGED calls
  PROVE  MInv'
<1>1. /\ ksbrk_left = 0 /\ op.do \in {"grow", "load"} /\ UNCHANGED maps
      /\ lost' = lost \cup ({op.f} \ {NONE, 0}) /\ op' = Idle
      /\ mode' \in {mode, "wild"}
      /\ UNCHANGED <<used, kern, uheap_begin, uheap_end, proc>>
  BY DEF uvm_page_fails, load_fails, page_map_fails, Doing, user
<1>2. op' \in Ops /\ op'.do = "idle" /\ op'.f = NONE /\ op'.at \in Pages
  BY <1>1, OpIdle
<1>3. Kept'
  BY <1>1, <1>2, HandDropped
<1>4. HandSound' /\ OpSound'
  BY <1>2 DEF HandSound, OpSound
<1>5. Absent'
  <2>1. proc[op.p] # "none" /\ pmap' = pmap
    BY <1>1 DEF MInv, OpSound, maps
  <2> QED BY <1>1, <1>2, <2>1, AbsentKept
<1> QED BY <1>1, <1>2, <1>3, <1>4, <1>5, LoopStep DEF MInv, Typed

\* A page of the heap is unmapped; a page without a table had no frame.
LEMMA UvmFreeStep ==
  ASSUME MInv, uvm_page_free, UNCHANGED calls
  PROVE  MInv'
<1> DEFINE a == (op.at - 1) % NPages
<1>1. /\ ksbrk_left = 0 /\ mode = "run" /\ op.do = "shrink" /\ a >= UMem
      /\ used' = used \ {get_phys(op.p, a)}
      /\ page_map(op.p, a, NONE) \/ page_map_fails(op.p, a)
      /\ uheap_end' = [uheap_end EXCEPT ![op.p] = a]
      /\ op' = Idle \/ op' = [op EXCEPT !.at = a]
      /\ UNCHANGED <<kern, uheap_begin, proc, lost, mode>>
  BY DEF uvm_page_free, Doing
<1>2. Typed /\ OpSound /\ MapsTyped /\ op \in Ops /\ op.p \in Procs /\ TabsCover
      /\ used \subseteq Frames /\ lost \subseteq Frames
  BY OpFields DEF MInv, Typed
<1>3. a \in Pages
  <2>1. op.at \in Pages
    BY <1>1, <1>2 DEF OpSound
  <2>2. op.at - 1 \in Int /\ NPages \in Nat \ {0}
    BY <2>1, Layout DEF Pages
  <2>3. a \in 0 .. NPages - 1
    BY <2>2, Rest
  <2> QED BY <2>3 DEF Pages
<1> HIDE DEF a
<1>4. op.f = NONE
  BY <1>1 DEF MInv, HandSound
<1>5. op' \in Ops /\ op'.f = NONE /\ op'.at \in Pages /\ op'.do \in {"idle", "shrink"}
  <2>1. CASE op' = Idle
    BY <2>1, OpIdle
  <2>2. CASE op' = [op EXCEPT !.at = a]
    BY <1>1, <1>2, <1>3, <1>4, <2>2, OpAt
  <2> QED BY <1>1, <2>1, <2>2
<1>6. a \in PPages /\ ~(a < KStack) /\ a \in Nat
  BY <1>1, <1>3, Layout, PageSplit
<1>7. Kept' /\ \A p \in Procs, b \in PPages :
                 pmap'[p][b] = pmap[p][b] \/ pmap'[p][b] = NONE
  <2>1. CASE page_map(op.p, a, NONE)
    <3>1. Kept'
      BY <1>1, <1>2, <1>3, <1>4, <1>5, <2>1, PageFreed
    <3>2. a >= KStack
      BY <1>6, Layout
    <3> QED BY <1>2, <1>3, <2>1, <3>1, <3>2, PageMapIs
  <2>2. CASE page_map_fails(op.p, a)
    <3>1. a \div Tab \notin tabs[op.p] /\ UNCHANGED <<kmap, pmap, tabs>>
      BY <2>2 DEF page_map_fails, HasTable, maps
    <3>2. pmap[op.p][a] = NONE
      BY <1>2, <1>6, <3>1 DEF TabsCover
    <3>3. used' \ {0} = used \ {0}
      BY <1>1, <1>6, <3>2 DEF get_phys
    <3>4. Sound(used', lost, kmap, pmap, Hand)
      BY <3>3, ZeroSound DEF MInv, Placed
    <3>5. Hand' = Hand
      BY <1>4, <1>5 DEF Hand
    <3>6. Placed'
      BY <1>1, <3>1, <3>4, <3>5 DEF Placed
    <3> QED BY <1>1, <1>2, <3>1, <3>6 DEF Kept, MapsTyped, TabsCover
  <2> QED BY <1>1, <2>1, <2>2
<1>8. HandSound' /\ OpSound'
  BY <1>5 DEF HandSound, OpSound
<1>9. Absent'
  BY <1>1, <1>5, <1>7 DEF MInv, Absent
<1>10. uheap_end' \in [Procs -> Pages]
  BY <1>1, <1>2, <1>3 DEF Typed
<1> QED BY <1>1, <1>2, <1>5, <1>7, <1>8, <1>9, <1>10, LoopStep DEF Typed

----------------------------------------------------------------------------
(* fork and wait *)

\* clone_page_dir passes over a page.
LEMMA CloneSkipStep ==
  ASSUME MInv, clone_skip, UNCHANGED calls
  PROVE  MInv'
<1>1. /\ ksbrk_left = 0 /\ mode = "run" /\ op.do = "fork" /\ op.f = NONE
      /\ ~LoopEnds(op.at) /\ op' = [op EXCEPT !.at = (@ + 1) % NPages]
      /\ UNCHANGED <<used, maps, kern, uheap_begin, uheap_end, proc, lost, mode>>
  BY DEF clone_skip, Doing, user
<1>2. Typed /\ OpSound /\ op \in Ops /\ Absent /\ op.at \in Pages
      /\ (op.at = 0 \/ op.at \in PPages)
  BY <1>1 DEF MInv, Typed, OpSound
<1> DEFINE n == (op.at + 1) % NPages
<1>3. n \in Pages /\ n = IF op.at = Top THEN 0 ELSE op.at + 1
  BY <1>2, NextOfPage
<1>4. op.at \in PPages
  <2>1. 0 % NPages = 0
    BY Layout, NextOfPage
  <2>2. LoopEnds(0)
    BY <2>1, Layout DEF LoopEnds
  <2> QED BY <1>1, <1>2, <2>2
<1>5. /\ op' \in Ops /\ op'.at = n /\ op'.do = "fork" /\ op'.p = op.p
      /\ op'.q = op.q /\ op'.f = NONE
  <2>1. op' = [op EXCEPT !.at = n]
    BY <1>1
  <2> HIDE DEF n
  <2> QED BY <1>1, <1>2, <1>3, <2>1, OpAt
<1> HIDE DEF n
<1>6. n = 0 \/ (n \in PPages /\ n = op.at + 1)
  BY <1>3, <1>4, Layout DEF PPages, Pages
<1>7. Kept' /\ pmap' = pmap
  <2>1. op'.f = op.f /\ UNCHANGED <<used, maps, lost>>
    BY <1>1, <1>5
  <2> QED BY <1>1, <2>1, NothingMoves DEF maps
<1>8. HandSound' /\ OpSound'
  BY <1>1, <1>2, <1>3, <1>5, <1>6 DEF HandSound, OpSound
<1>9. Absent'
  <2>1. ASSUME n # 0, NEW a \in PPages, a >= n PROVE pmap[op.q][a] = NONE
    <3>1. op.at # 0 /\ a >= op.at
      BY <1>4, <1>6, <2>1, Layout DEF PPages
    <3> QED BY <1>1, <1>2, <3>1 DEF Absent
  <2>2. ASSUME NEW p \in Procs, proc[p] = "none", op.q # p, NEW a \in PPages
        PROVE  pmap[p][a] = NONE
    BY <1>1, <1>2, <2>2 DEF Absent
  <2> QED BY <1>1, <1>5, <1>7, <2>1, <2>2 DEF Absent
<1> QED BY <1>1, <1>2, <1>5, <1>7, <1>8, <1>9, LoopStep DEF Typed

\* clone_page_dir copies a page through page 0.
LEMMA CloneStep ==
  ASSUME MInv, clone_page, UNCHANGED calls
  PROVE  MInv'
<1> DEFINE c == op.at \div Tab
           C == 0 .. NPages \div Tab
           old == Entry(kmap[0])
           n == (op.at + 1) % NPages
<1>1. /\ ksbrk_left = 0 /\ mode = "run" /\ op.do = "fork" /\ op.f # NONE
      /\ kmap' = [kmap EXCEPT ![0] = NONE]
      /\ op' = [op EXCEPT !.at = (@ + 1) % NPages, !.f = NONE]
      /\ UNCHANGED <<used, kern, uheap_begin, uheap_end, proc, mode>>
  BY DEF clone_page, Doing, user
<1>2. \/ /\ pmap' = [pmap EXCEPT ![op.q][op.at] = op.f]
         /\ tabs' = [tabs EXCEPT ![op.q] = @ \cup {c}]
         /\ lost' = lost \cup Replaced(op.p, 0)
      \/ /\ lost' = lost \cup Replaced(op.p, 0) \cup ({op.f} \ {0})
         /\ UNCHANGED <<pmap, tabs>>
  BY DEF clone_page
<1>3. /\ Typed /\ OpSound /\ op \in Ops /\ Absent /\ TabsCover /\ Placed
      /\ op.p \in Procs /\ op.q \in Procs /\ op.f \in Frames
      /\ kmap \in [KPages -> Frames \cup {NONE}]
      /\ pmap \in [Procs -> [PPages -> Frames \cup {NONE}]]
      /\ tabs \in [Procs -> SUBSET C]
      /\ used \subseteq Frames /\ lost \subseteq Frames
  BY <1>1, OpFields DEF MInv, Typed, MapsTyped
<1>4. op.at \in PPages /\ op.at \in Pages /\ op.at # 0 /\ op.at \in Nat
  <2>1. op.at \in PPages
    BY <1>1 DEF MInv, HandSound
  <2> QED BY <2>1, Layout DEF PPages, Pages
<1>5. n \in Pages /\ n = IF op.at = Top THEN 0 ELSE op.at + 1
  BY <1>4, NextOfPage
<1>6. c \in C
  <2>1. op.at <= NPages /\ NPages \in Nat /\ Tab \in Nat \ {0}
    BY <1>4, Layout DEF Pages
  <2>2. op.at \div Tab \in Nat /\ NPages \div Tab \in Nat
    BY <1>4, <2>1, Euclid, Zenon
  <2>3. op.at \div Tab <= NPages \div Tab
    BY <1>4, <2>1, TableOrder
  <2> QED BY <2>2, <2>3
<1>7. Replaced(op.p, 0) = old /\ old \subseteq Frames /\ 0 \in KPages
  <2>1. 0 \in KPages /\ 0 < KStack
    BY Layout DEF KPages
  <2>2. kmap[0] \in Frames \cup {NONE}
    BY <1>3, <2>1
  <2> QED BY <2>1, <2>2, NoneIsNoFrame DEF Replaced, get_phys, Entry
<1>8. /\ op' \in Ops /\ op'.at = n /\ op'.do = "fork" /\ op'.p = op.p
      /\ op'.q = op.q /\ op'.f = NONE
  <2>1. op' = [op EXCEPT !.at = n, !.f = NONE]
    BY <1>1
  <2> HIDE DEF n
  <2> QED BY <1>1, <1>3, <1>5, <2>1, OpAtHand
<1> HIDE DEF c, C, old, n
<1>9. n = 0 \/ (n \in PPages /\ n = op.at + 1)
  BY <1>4, <1>5, Layout DEF PPages, Pages
<1>10. /\ kmap' \in [KPages -> Frames \cup {NONE}] /\ kmap'[0] = NONE
       /\ \A b \in KPages : b # 0 => kmap'[b] = kmap[b]
  BY <1>1, <1>3, <1>7
<1>11. Hand = {op.f} /\ Hand' = {} /\ Hand \ {NONE} = Hand
  BY <1>1, <1>8 DEF Hand
<1>12. Sound(used, lost \cup old, kmap', pmap, Hand)
  <2>1. Sound(used, lost \cup Entry(kmap[0]), kmap', pmap, Hand \ {NONE})
    BY <1>3, <1>7, <1>10, MapKernelSound DEF Placed
  <2> QED BY <1>11, <2>1 DEF old
<1>13. /\ Kept'
       /\ \A p \in Procs, a \in PPages :
            p # op.q \/ a # op.at => pmap'[p][a] = pmap[p][a]
  <2>1. CASE /\ pmap' = [pmap EXCEPT ![op.q][op.at] = op.f]
             /\ tabs' = [tabs EXCEPT ![op.q] = @ \cup {c}]
             /\ lost' = lost \cup old
    <3>1. /\ pmap' \in [Procs -> [PPages -> Frames \cup {NONE}]]
          /\ pmap'[op.q][op.at] = op.f
          /\ \A p \in Procs, a \in PPages :
               p # op.q \/ a # op.at => pmap'[p][a] = pmap[p][a]
      BY <1>3, <1>4, <2>1
    <3>2. /\ tabs' \in [Procs -> SUBSET C] /\ tabs'[op.q] = tabs[op.q] \cup {c}
          /\ \A p \in Procs : p # op.q => tabs'[p] = tabs[p]
      BY <1>3, <1>6, <2>1
    <3>3. Entry(pmap[op.q][op.at]) = {}
      <4>1. pmap[op.q][op.at] = NONE
        BY <1>1, <1>3, <1>4 DEF Absent
      <4> QED BY <4>1 DEF Entry
    <3>4. Sound(used, (lost \cup old) \cup Entry(pmap[op.q][op.at]), kmap', pmap', Hand \ {op.f})
      BY <1>3, <1>4, <1>11, <1>12, <3>1, MapProcSound
    <3>5. Placed'
      <4>1. (lost \cup old) \cup Entry(pmap[op.q][op.at]) = lost'
        BY <2>1, <3>3
      <4>2. Hand \ {op.f} = Hand'
        BY <1>11
      <4> QED BY <1>1, <3>4, <4>1, <4>2 DEF Placed
    <3>6. TabsCover'
      <4> SUFFICES ASSUME NEW p \in Procs, NEW a \in PPages, pmap'[p][a] # NONE
                   PROVE  a \div Tab \in tabs'[p]
        BY DEF TabsCover
      <4>1. CASE p = op.q /\ a = op.at
        BY <3>2, <4>1 DEF c
      <4>2. CASE p # op.q \/ a # op.at
        <5>1. a \div Tab \in tabs[p]
          BY <1>3, <3>1, <4>2 DEF TabsCover
        <5>2. tabs[p] \subseteq tabs'[p]
          BY <3>2, Zenon
        <5> QED BY <5>1, <5>2, Zenon
      <4> QED BY <4>1, <4>2
    <3>7. MapsTyped'
      BY <1>10, <3>1, <3>2 DEF MapsTyped, C
    <3> QED BY <1>1, <1>3, <1>7, <2>1, <3>1, <3>5, <3>6, <3>7 DEF Kept
  <2>2. CASE /\ lost' = lost \cup old \cup ({op.f} \ {0})
             /\ UNCHANGED <<pmap, tabs>>
    <3>1. Sound(used, (lost \cup old) \cup Hand, kmap', pmap, {})
      BY <1>12, DropSound
    <3>2. lost' \ {0} = ((lost \cup old) \cup Hand) \ {0}
      BY <1>11, <2>2
    <3>3. Sound(used, lost', kmap', pmap, {})
      BY <3>1, <3>2, ZeroSound
    <3>4. Placed'
      BY <1>1, <1>11, <2>2, <3>3 DEF Placed
    <3>5. MapsTyped' /\ TabsCover'
      BY <1>3, <1>10, <2>2 DEF MapsTyped, TabsCover, C
    <3> QED BY <1>1, <1>3, <1>7, <2>2, <3>4, <3>5 DEF Kept
  <2> QED BY <1>2, <1>7, <2>1, <2>2
<1>14. HandSound' /\ OpSound'
  BY <1>1, <1>3, <1>5, <1>8, <1>9 DEF HandSound, OpSound
<1>15. Absent'
  <2>1. ASSUME n # 0, NEW a \in PPages, a >= n PROVE pmap'[op.q][a] = NONE
    <3>1. a # op.at /\ a >= op.at
      BY <1>4, <1>9, <2>1, Layout DEF PPages
    <3>2. pmap[op.q][a] = NONE
      BY <1>1, <1>3, <1>4, <3>1 DEF Absent
    <3> QED BY <1>3, <1>13, <3>1, <3>2
  <2>2. ASSUME NEW p \in Procs, proc[p] = "none", op.q # p, NEW a \in PPages
        PROVE  pmap'[p][a] = NONE
    <3>1. pmap[p][a] = NONE
      BY <1>1, <1>3, <2>2 DEF Absent
    <3> QED BY <1>13, <2>2, <3>1
  <2> QED BY <1>1, <1>8, <2>1, <2>2 DEF Absent
<1> QED BY <1>1, <1>3, <1>8, <1>13, <1>14, <1>15, LoopStep DEF Typed

\* The child begins to run.
LEMMA ForkReturnStep ==
  ASSUME MInv, fork_returns, UNCHANGED calls
  PROVE  MInv'
<1>1. /\ ksbrk_left = 0 /\ op.do = "fork" /\ op.f = NONE
      /\ proc' = [proc EXCEPT ![op.q] = "live"]
      /\ uheap_begin' = [uheap_begin EXCEPT ![op.q] = 0]
      /\ uheap_end' = [uheap_end EXCEPT ![op.q] = 0]
      /\ op' = Idle /\ UNCHANGED <<used, maps, kern, lost, mode>>
  BY DEF fork_returns, Doing
<1>2. Typed /\ Absent /\ op.q \in Procs
  BY OpFields DEF MInv, Typed
<1>3. op' \in Ops /\ op'.do = "idle" /\ op'.f = NONE /\ op'.at \in Pages
  BY <1>1, OpIdle
<1>4. Kept' /\ pmap' = pmap
  BY <1>1, <1>3, NothingMoves DEF maps
<1>5. HandSound' /\ OpSound'
  BY <1>3 DEF HandSound, OpSound
<1>6. proc' \in [Procs -> {"none", "boot", "live", "dead"}]
      /\ \A p \in Procs : proc'[p] = "none" => proc[p] = "none" /\ p # op.q
  BY <1>1, <1>2 DEF Typed
<1>7. Absent'
  BY <1>1, <1>2, <1>3, <1>4, <1>6 DEF Absent
<1>8. uheap_begin' \in [Procs -> Pages] /\ uheap_end' \in [Procs -> Pages]
  BY <1>1, <1>2, Layout DEF Typed
<1> QED BY <1>1, <1>2, <1>3, <1>4, <1>5, <1>6, <1>7, <1>8, LoopStep DEF Typed

\* task_destroy frees the pages one by one.
LEMMA DestroyStep ==
  ASSUME MInv, destroy_page, UNCHANGED calls
  PROVE  MInv'
<1> DEFINE n == (op.at + 1) % NPages
<1>1. /\ ksbrk_left = 0 /\ op.do = "destroy" /\ ~LoopEnds(op.at)
      /\ \/ /\ used' = used \ {get_phys(op.p, op.at)}
            /\ page_map(op.p, op.at, NONE)
         \/ pmap[op.p][op.at] = NONE /\ UNCHANGED <<used, maps>>
      /\ op' = [op EXCEPT !.at = (@ + 1) % NPages]
      /\ UNCHANGED <<kern, uheap_begin, uheap_end, proc, lost, mode>>
  BY DEF destroy_page, Doing, user, Present
<1>2. Typed /\ MapsTyped /\ OpSound /\ op \in Ops /\ Absent /\ op.p \in Procs
      /\ op.at \in Pages /\ (op.at = 0 \/ op.at \in PPages)
  BY <1>1, OpFields DEF MInv, Typed, OpSound
<1>3. n \in Pages /\ n = IF op.at = Top THEN 0 ELSE op.at + 1
  BY <1>2, NextOfPage
<1>4. op.at \in PPages /\ op.at >= KStack /\ op.at # 0
  <2>1. 0 % NPages = 0
    BY Layout, NextOfPage
  <2>2. LoopEnds(0)
    BY <2>1, Layout DEF LoopEnds
  <2>3. op.at \in PPages
    BY <1>1, <1>2, <2>2
  <2> QED BY <2>3, Layout DEF PPages
<1>5. /\ op' \in Ops /\ op'.at = n /\ op'.do = "destroy" /\ op'.p = op.p
      /\ op'.q = op.q /\ op'.f = op.f
  <2>1. op' = [op EXCEPT !.at = n]
    BY <1>1
  <2> HIDE DEF n
  <2> QED BY <1>1, <1>2, <1>3, <2>1, OpAt
<1> HIDE DEF n
<1>6. n = 0 \/ (n \in PPages /\ n = op.at + 1)
  BY <1>3, <1>4, Layout DEF PPages, Pages
<1>7. /\ Kept' /\ pmap'[op.p][op.at] = NONE
      /\ \A p \in Procs, a \in PPages :
           p # op.p \/ a # op.at => pmap'[p][a] = pmap[p][a]
  <2>1. CASE used' = used \ {get_phys(op.p, op.at)} /\ page_map(op.p, op.at, NONE)
    <3>1. Kept'
      BY <1>1, <1>2, <1>5, <2>1, PageFreed
    <3> QED BY <1>2, <1>4, <2>1, <3>1, PageMapIs
  <2>2. CASE pmap[op.p][op.at] = NONE /\ UNCHANGED <<used, maps>>
    <3>1. Kept'
      BY <1>1, <1>5, <2>2, NothingMoves
    <3> QED BY <2>2, <3>1 DEF maps
  <2> QED BY <1>1, <2>1, <2>2
<1>8. HandSound' /\ OpSound'
  BY <1>1, <1>2, <1>3, <1>5, <1>6 DEF MInv, HandSound, OpSound
<1>9. Absent'
  <2>1. ASSUME NEW a \in PPages, a < n \/ n = 0 PROVE pmap'[op.p][a] = NONE
    <3>1. CASE a = op.at
      BY <1>7, <3>1
    <3>2. CASE a # op.at
      <4>1. a < op.at
        BY <1>3, <1>4, <1>6, <2>1, <3>2, Layout DEF PPages, Top
      <4>2. pmap[op.p][a] = NONE
        BY <1>1, <1>2, <4>1 DEF Absent
      <4> QED BY <1>2, <1>7, <3>2, <4>2
    <3> QED BY <3>1, <3>2
  <2>2. ASSUME NEW p \in Procs, proc[p] = "none", NEW a \in PPages
        PROVE  pmap'[p][a] = NONE
    <3>1. pmap[p][a] = NONE
      BY <1>1, <1>2, <2>2 DEF Absent
    <3> QED BY <1>7, <3>1
  <2> QED BY <1>1, <1>5, <2>1, <2>2 DEF Absent
<1> QED BY <1>1, <1>2, <1>5, <1>7, <1>8, <1>9, LoopStep DEF Typed

\* ... and gives up the directory when none is left.
LEMMA DestroyReturnStep ==
  ASSUME MInv, destroy_returns, UNCHANGED calls
  PROVE  MInv'
<1>1. /\ ksbrk_left = 0 /\ op.do = "destroy" /\ LoopEnds(op.at)
      /\ tabs' = [tabs EXCEPT ![op.p] = {}]
      /\ proc' = [proc EXCEPT ![op.p] = "none"] /\ op' = Idle
      /\ UNCHANGED <<used, kmap, pmap, kern, uheap_begin, uheap_end, lost, mode>>
  BY DEF destroy_returns, Doing
<1>2. Typed /\ MapsTyped /\ OpSound /\ Absent /\ TabsCover /\ op.p \in Procs
      /\ op.at \in Pages /\ (op.at = 0 \/ op.at \in PPages) /\ op.f = NONE
  BY <1>1, OpFields DEF MInv, Typed, OpSound, HandSound
<1>3. op.at = 0
  <2>1. op.at % NPages = op.at
    BY <1>2, NextOfPage
  <2>2. op.at < KStack
    BY <1>1, <2>1 DEF LoopEnds
  <2> QED BY <1>2, <2>2, Layout DEF PPages
<1>4. \A a \in PPages : pmap[op.p][a] = NONE
  BY <1>1, <1>2, <1>3 DEF Absent
<1>5. op' \in Ops /\ op'.do = "idle" /\ op'.f = NONE /\ op'.at \in Pages
  BY <1>1, OpIdle
<1>6. /\ tabs' \in [Procs -> SUBSET (0 .. NPages \div Tab)]
      /\ \A p \in Procs : p # op.p => tabs'[p] = tabs[p]
  <2> DEFINE C == 0 .. NPages \div Tab
  <2>1. tabs \in [Procs -> SUBSET C]
    BY <1>2 DEF MapsTyped
  <2> HIDE DEF C
  <2>2. /\ tabs' \in [Procs -> SUBSET C]
        /\ \A p \in Procs : p # op.p => tabs'[p] = tabs[p]
    BY <1>1, <1>2, <2>1
  <2> QED BY <2>2 DEF C
<1>7. Kept'
  <2>1. MapsTyped' /\ TabsCover'
    BY <1>1, <1>2, <1>4, <1>6 DEF MapsTyped, TabsCover
  <2>2. Hand' = Hand
    BY <1>2, <1>5 DEF Hand
  <2>3. Placed'
    BY <1>1, <2>2 DEF MInv, Placed
  <2> QED BY <1>1, <1>2, <2>1, <2>3 DEF Kept, Typed
<1>8. HandSound' /\ OpSound'
  BY <1>5 DEF HandSound, OpSound
<1>9. proc' \in [Procs -> {"none", "boot", "live", "dead"}]
      /\ \A p \in Procs : p # op.p => proc'[p] = proc[p]
  BY <1>1, <1>2 DEF Typed
<1>10. Absent'
  <2>1. ASSUME NEW p \in Procs, proc'[p] = "none", NEW a \in PPages
        PROVE  pmap[p][a] = NONE
    BY <1>1, <1>2, <1>4, <1>9, <2>1 DEF Absent
  <2> QED BY <1>1, <1>5, <2>1 DEF Absent
<1> QED BY <1>1, <1>2, <1>5, <1>7, <1>8, <1>9, <1>10, LoopStep DEF Typed

----------------------------------------------------------------------------
(* execve *)

\* The next page the cleaning loop looks at.
LEMMA NextToCleanIsPage ==
  ASSUME NEW p, NEW a \in Pages
  PROVE  NextToClean(p, a) \in Pages
<1> DEFINE x == a + 1 + (IF HasTable(p, a) THEN 0 ELSE Tab)
<1>1. x \in Int /\ NPages \in Nat \ {0}
  BY Layout DEF Pages
<1>2. NextToClean(p, a) = x % NPages
  BY <1>1 DEF NextToClean
<1> HIDE DEF x
<1>3. x % NPages \in 0 .. NPages - 1
  BY <1>1, Rest
<1> QED BY <1>2, <1>3 DEF Pages

\* The cleaning loop unmaps a page, or passes over one.
LEMMA CleanStep ==
  ASSUME MInv, clean_page, UNCHANGED calls
  PROVE  MInv'
<1>1. /\ ksbrk_left = 0 /\ op.do = "clean" /\ Cleaning(op.at)
      /\ \/ /\ used' = used \ {get_phys(op.p, op.at)}
            /\ page_map(op.p, op.at, NONE)
         \/ UNCHANGED <<used, maps>>
      /\ op' = [op EXCEPT !.at = NextToClean(op.p, op.at)]
      /\ UNCHANGED <<kern, uheap_begin, uheap_end, proc, lost, mode>>
  BY DEF clean_page, Doing, user
<1>2. Typed /\ MapsTyped /\ OpSound /\ op \in Ops /\ Absent /\ op.p \in Procs
      /\ op.at \in Pages
  BY <1>1, OpFields DEF MInv, Typed, OpSound
<1>3. op.at >= KStack
  BY <1>1, <1>2, Layout DEF Cleaning, Pages
<1>4. /\ op' \in Ops /\ op'.at \in Pages /\ op'.do = "clean" /\ op'.p = op.p
      /\ op'.q = op.q /\ op'.f = op.f /\ op'.img = op.img
  <2>1. NextToClean(op.p, op.at) \in Pages
    BY <1>2, NextToCleanIsPage
  <2> QED BY <1>1, <1>2, <2>1, OpAt
<1>5. /\ Kept'
      /\ \A p \in Procs, a \in PPages : pmap'[p][a] = pmap[p][a] \/ pmap'[p][a] = NONE
  <2>1. CASE used' = used \ {get_phys(op.p, op.at)} /\ page_map(op.p, op.at, NONE)
    <3>1. Kept'
      BY <1>1, <1>2, <1>4, <2>1, PageFreed
    <3> QED BY <1>2, <1>3, <2>1, <3>1, PageMapIs
  <2>2. CASE UNCHANGED <<used, maps>>
    <3>1. Kept'
      BY <1>1, <1>4, <2>2, NothingMoves
    <3> QED BY <2>2, <3>1 DEF maps
  <2> QED BY <1>1, <2>1, <2>2
<1>6. HandSound' /\ OpSound'
  BY <1>1, <1>2, <1>4 DEF MInv, HandSound, OpSound
<1>7. Absent'
  BY <1>1, <1>2, <1>4, <1>5 DEF Absent
<1> QED BY <1>1, <1>2, <1>4, <1>5, <1>6, <1>7, LoopStep DEF Typed

\* From cleaning to loading.
LEMMA CleanEndStep ==
  ASSUME MInv, clean_ends, UNCHANGED calls
  PROVE  MInv'
<1>1. /\ ksbrk_left = 0 /\ op.do = "clean"
      /\ op' = [op EXCEPT !.do = "load", !.at = Top]
      /\ UNCHANGED <<used, maps, kern, uheap_begin, uheap_end, proc, lost, mode>>
  BY DEF clean_ends, Doing, user
<1>2. Typed /\ OpSound /\ op \in Ops /\ Absent /\ op.f = NONE
  BY <1>1 DEF MInv, Typed, HandSound
<1>3. /\ op' \in Ops /\ op'.at = Top /\ op'.do = "load" /\ op'.p = op.p
      /\ op'.f = op.f /\ op'.img = op.img
  BY <1>1, <1>2, OpLoads
<1>4. Kept' /\ pmap' = pmap
  BY <1>1, <1>3, NothingMoves DEF maps
<1>5. HandSound' /\ OpSound'
  BY <1>1, <1>2, <1>3 DEF HandSound, OpSound
<1>6. Absent'
  BY <1>1, <1>2, <1>3, <1>4 DEF Absent
<1> QED BY <1>1, <1>2, <1>3, <1>4, <1>5, <1>6, LoopStep DEF Typed

\* The pages of an image lie below the stack.
LEMMA NextPageIsPage ==
  ASSUME op.img \in Images, NEW a
  PROVE  NextPage(a) = NONE \/ NextPage(a) \in UMem .. UStack - 1
<1> DEFINE rest == {b \in op.img : a = Top \/ b > a}
<1>1. op.img \subseteq UMem .. UStack - 1
  BY LayoutAssumption
<1>2. CASE rest = {}
  BY <1>2 DEF NextPage
<1>3. CASE rest # {}
  <2>1. rest \subseteq UMem .. UStack - 1 /\ UMem .. UStack - 1 \subseteq Nat
    BY <1>1, Layout
  <2>2. NextPage(a) = Min(rest)
    BY <1>3 DEF NextPage
  <2> HIDE DEF rest
  <2>3. rest \in SUBSET Nat
    BY <2>1
  <2>4. Min(rest) \in rest
    BY <1>3, <2>3, MinFound
  <2> QED BY <2>1, <2>2, <2>4
<1> QED BY <1>2, <1>3

\* A page of the new program is mapped.
LEMMA LoadStep ==
  ASSUME MInv, load_page, UNCHANGED calls
  PROVE  MInv'
<1>1. /\ ksbrk_left = 0 /\ op.do = "load" /\ op.f # NONE
      /\ page_map(op.p, op.at, op.f) /\ lost' = lost \cup Replaced(op.p, op.at)
      /\ op' = [op EXCEPT !.at = NextPage(op.at), !.f = NONE]
      /\ UNCHANGED <<used, kern, uheap_begin, uheap_end, proc, mode>>
  BY DEF load_page, Doing, user
<1>2. Typed /\ MapsTyped /\ OpSound /\ op \in Ops /\ op.p \in Procs
      /\ op.f \in Frames \cup {NONE} /\ op.img \in Images /\ proc[op.p] # "none"
  BY <1>1, OpFields DEF MInv, Typed, OpSound
<1>3. op.at \in PPages /\ op.at \in Pages /\ op.at >= KStack
  <2>1. op.at \in PPages
    BY <1>1 DEF MInv, HandSound
  <2> QED BY <2>1, Layout DEF PPages, Pages
<1>4. NextPage(op.at) = NONE \/ NextPage(op.at) \in UMem .. UStack - 1
  BY <1>2, NextPageIsPage
<1>5. /\ op' \in Ops /\ op'.at = NextPage(op.at) /\ op'.do = "load"
      /\ op'.p = op.p /\ op'.f = NONE /\ op'.img = op.img
  <2>1. NextPage(op.at) \in Pages \cup {NONE}
    BY <1>4, Layout DEF Pages
  <2> QED BY <1>1, <1>2, <2>1, OpAtHand
<1>6. Kept'
  BY <1>1, <1>2, <1>3, <1>5, HandMapped
<1>7. HandSound' /\ OpSound'
  BY <1>1, <1>2, <1>4, <1>5 DEF HandSound, OpSound
<1>8. Absent'
  <2>1. \A p \in Procs, a \in PPages : pmap'[p][a] = pmap[p][a] \/ p = op.p
    BY <1>1, <1>2, <1>3, PageMapIs
  <2> QED BY <1>1, <1>2, <1>5, <2>1, AbsentKept
<1> QED BY <1>1, <1>2, <1>5, <1>6, <1>7, <1>8, LoopStep DEF Typed

\* The new program begins.
LEMMA ExecReturnStep ==
  ASSUME MInv, exec_returns, UNCHANGED calls
  PROVE  MInv'
<1>1. /\ ksbrk_left = 0 /\ op.do = "load" /\ op.at = NONE
      /\ proc' = [proc EXCEPT ![op.p] = "live"]
      /\ op' = Idle /\ UNCHANGED <<used, maps, kern, lost, mode>>
  BY DEF exec_returns, Doing
<1>b. PICK b \in HeapBegins(op.img) :
           /\ uheap_begin' = [uheap_begin EXCEPT ![op.p] = b]
           /\ uheap_end' = [uheap_end EXCEPT ![op.p] = b]
  BY DEF exec_returns
<1>2. Typed /\ OpSound /\ Absent /\ op.p \in Procs /\ op.img \in Images
      /\ proc[op.p] # "none"
  BY <1>1, OpFields DEF MInv, Typed, OpSound
<1>3. op.f = NONE
  <2>1. NONE \notin PPages
    BY Layout DEF PPages, NONE
  <2> QED BY <1>1, <2>1 DEF MInv, HandSound
<1>4. op' \in Ops /\ op'.do = "idle" /\ op'.f = NONE /\ op'.at \in Pages
  BY <1>1, OpIdle
<1>5. Kept' /\ pmap' = pmap
  BY <1>1, <1>3, <1>4, NothingMoves DEF maps
<1>6. HandSound' /\ OpSound'
  BY <1>4 DEF HandSound, OpSound
<1>7. proc' \in [Procs -> {"none", "boot", "live", "dead"}]
      /\ \A p \in Procs : proc'[p] = "none" => proc[p] = "none"
  BY <1>1, <1>2 DEF Typed
<1>8. Absent'
  BY <1>1, <1>2, <1>4, <1>5, <1>7, AbsentKept
<1>9. uheap_begin' \in [Procs -> Pages] /\ uheap_end' \in [Procs -> Pages]
  <2>1. b \in Pages
    BY <1>2, HeapBeginIsPage
  <2> QED BY <1>b, <1>2, <2>1 DEF Typed
<1> QED BY <1>1, <1>2, <1>4, <1>5, <1>6, <1>7, <1>8, <1>9, LoopStep DEF Typed

----------------------------------------------------------------------------
(* Calls *)

\* A call begins: brk, sbrk, fork, the wait for a dead child, execve.
LEMMA BeginStep ==
  ASSUME MInv, op.do = "idle", ksbrk_left = 0, calls' \in 0 .. MaxCalls,
         NEW do \in Dos \ {"idle", "load"}, NEW p \in Procs, NEW q \in Procs,
         NEW at \in Pages, NEW to \in Int, NEW img \in Images \cup {{}},
         Begin(Call(do, p, q, at, to, img)),
         do \in {"fork", "destroy"} => at = KStack,
         do = "clean" => img \in Images,
         do \in {"grow", "fork", "clean"} => proc[p] # "none",
         do = "fork" => proc[q] = "none"
  PROVE  MInv'
<1>1. /\ op' = Call(do, p, q, at, to, img)
      /\ UNCHANGED <<used, maps, kern, uheap_begin, uheap_end, proc, lost, mode>>
  BY DEF Begin, user
<1>2. /\ op' \in Ops /\ op'.at = at /\ op'.do = do /\ op'.p = p
      /\ op'.q = q /\ op'.f = NONE /\ op'.img = img
  BY <1>1, OpCall
<1>3. Typed /\ Absent /\ op.f = NONE
  BY DEF MInv, Typed, HandSound
<1>4. Kept' /\ pmap' = pmap
  BY <1>1, <1>2, <1>3, NothingMoves DEF maps
<1>5. HandSound' /\ OpSound'
  BY <1>1, <1>2, Layout DEF HandSound, OpSound
<1>6. Absent'
  <2>1. do = "fork" => \A a \in PPages : pmap[q][a] = NONE
    BY <1>3 DEF Absent
  <2>2. do = "destroy" => \A a \in PPages : ~(a < at) /\ at # 0
    BY Layout DEF PPages
  <2> QED BY <1>1, <1>2, <1>3, <1>4, <2>1, <2>2 DEF Absent
<1>7. UNCHANGED <<kheap_size, ksbrk_left>>
  BY <1>1 DEF kern
<1>8. KernSound'
  BY <1>7 DEF KernSound
<1>9. Typed'
  BY <1>1, <1>2, <1>3, <1>4, <1>7 DEF Typed, Kept
<1> QED BY <1>4, <1>5, <1>6, <1>8, <1>9 DEF MInv, Kept

\* Every call.
LEMMA CallStep ==
  ASSUME MInv, Calls, calls' \in 0 .. MaxCalls
  PROVE  MInv'
<1>0. Typed /\ OpSound /\ Absent /\ HandSound /\ KernSound /\ Placed /\ TabsCover
  BY DEF MInv
<1>1. ASSUME NEW n \in KHeap - KStack .. KStack - KHeap, ksbrk(n) PROVE MInv'
  <2>1. /\ ksbrk_left = 0 /\ (op.do = "idle" \/ n > 0) /\ n # 0
        /\ KHeap + kheap_size + n <= KStack /\ kheap_size + n >= 0
        /\ ksbrk_left' = n
        /\ UNCHANGED <<used, kmap, pmap, tabs, kheap_size, uheap_begin, uheap_end,
                       proc, op, lost, mode>>
    BY <1>1 DEF ksbrk, maps, user
  <2>2. Kept'
    BY <2>1, NothingMoves DEF maps
  <2>3. Typed'
    BY <1>0, <1>1, <2>1, <2>2 DEF Typed, Kept
  <2>4. KernSound'
    BY <2>1, <1>1 DEF KernSound
  <2>5. HandSound' /\ OpSound' /\ Absent'
    BY <1>0, <2>1 DEF HandSound, OpSound, Absent
  <2> QED BY <2>2, <2>3, <2>4, <2>5 DEF MInv, Kept
<1> USE DEF Dos
<1>2. ASSUME NEW p \in Procs, NEW a \in Ends, uvm_brk(p, a) PROVE MInv'
  <2>1. op.do = "idle" /\ ksbrk_left = 0 /\ proc[p] # "none"
    BY <1>2 DEF uvm_brk, CanCall, Quiet
  <2>2. uheap_end[p] \in Pages /\ a \in Int
    BY <1>0, Layout, LayoutAssumption DEF Typed
  <2>3. \/ Begin(Call("grow", p, p, uheap_end[p], a, {}))
        \/ Begin(Call("shrink", p, p, uheap_end[p], a, {}))
    BY <1>2 DEF uvm_brk
  <2> QED BY <2>1, <2>2, <2>3, BeginStep
<1>3. ASSUME NEW p \in Procs, NEW n \in Incrs, uvm_sbrk(p, n) PROVE MInv'
  <2>1. op.do = "idle" /\ ksbrk_left = 0 /\ proc[p] # "none"
    BY <1>3 DEF uvm_sbrk, CanCall, Quiet
  <2>2. uheap_end[p] \in Pages /\ uheap_end[p] \in Int /\ n \in Int
    <3>1. uheap_end[p] \in Pages
      BY <1>0 DEF Typed
    <3>2. n \in Int
      BY Layout, LayoutAssumption
    <3> QED BY <3>1, <3>2, Layout DEF Pages
  <2> DEFINE e == uheap_end[p] + n
             w == e % NPages
  <2>3. e \in Int
    BY <2>2
  <2>4. \/ Begin(Call("grow", p, p, uheap_end[p], e, {}))
        \/ Begin(Call("shrink", p, p, uheap_end[p], w, {}))
    BY <1>3 DEF uvm_sbrk
  <2> HIDE DEF e
  <2>5. w \in Int
    <3>1. w \in 0 .. NPages - 1
      BY <2>3, Layout, Rest
    <3> HIDE DEF w
    <3> QED BY <3>1, Layout
  <2> HIDE DEF w
  <2> QED BY <2>1, <2>2, <2>3, <2>4, <2>5, BeginStep
<1>4. ASSUME NEW p \in Procs, NEW q \in Procs, sys_fork(p, q) PROVE MInv'
  <2>1. /\ op.do = "idle" /\ ksbrk_left = 0 /\ proc[p] # "none" /\ proc[q] = "none"
        /\ Begin(Call("fork", p, q, KStack, 0, {}))
    BY <1>4 DEF sys_fork, CanCall, Quiet
  <2> QED BY <2>1, Layout, BeginStep
<1>5. ASSUME NEW p \in Procs, task_destroy(p) PROVE MInv'
  <2>1. /\ op.do = "idle" /\ ksbrk_left = 0
        /\ Begin(Call("destroy", p, p, KStack, 0, {}))
    BY <1>5 DEF task_destroy, Quiet
  <2> QED BY <2>1, Layout, BeginStep
<1>6. ASSUME NEW p \in Procs, NEW img \in Images, execve(p, img) PROVE MInv'
  <2>1. /\ op.do = "idle" /\ ksbrk_left = 0 /\ proc[p] # "none"
        /\ Begin(Call("clean", p, p, UMem, 0, img))
    BY <1>6 DEF execve, CanCall, Quiet
  <2> QED BY <2>1, Layout, BeginStep
<1>7. ASSUME NEW p \in Procs, sys_exit(p) PROVE MInv'
  <2>1. /\ op.do = "idle" /\ proc[p] = "live"
        /\ proc' = [proc EXCEPT ![p] = "dead"]
        /\ UNCHANGED <<used, maps, kern, uheap_begin, uheap_end, op, lost, mode>>
    BY <1>7 DEF sys_exit, CanCall, Quiet
  <2>2. Kept' /\ pmap' = pmap /\ UNCHANGED <<kheap_size, ksbrk_left>>
    BY <2>1, NothingMoves DEF maps, kern
  <2>3. proc' \in [Procs -> {"none", "boot", "live", "dead"}]
        /\ \A r \in Procs : proc'[r] = "none" => proc[r] = "none"
    BY <1>0, <2>1 DEF Typed
  <2>4. Typed' /\ KernSound'
    BY <1>0, <2>1, <2>2, <2>3 DEF Typed, KernSound, Kept
  <2>5. HandSound' /\ OpSound' /\ Absent'
    BY <1>0, <2>1, <2>2, <2>3 DEF HandSound, OpSound, Absent
  <2> QED BY <2>2, <2>4, <2>5 DEF MInv, Kept
<1>8. ASSUME NEW p \in Procs, fork_faults(p) \/ pagefault_handler(p) PROVE MInv'
  <2>1. /\ mode' = "panic"
        /\ UNCHANGED <<used, kmap, pmap, tabs, kheap_size, ksbrk_left, uheap_begin,
                       uheap_end, proc, op, lost>>
    BY <1>8 DEF fork_faults, pagefault_handler, maps, kern, user
  <2>2. Kept'
    BY <2>1, NothingMoves DEF maps
  <2> QED BY <1>0, <2>1, <2>2 DEF MInv, Kept, Typed, KernSound, HandSound, OpSound, Absent
<1> QED BY <1>1, <1>2, <1>3, <1>4, <1>5, <1>6, <1>7, <1>8 DEF Calls

\* No step leaves the invariant.
LEMMA MInvStep == MInv /\ [Next]_vars => MInv'
<1> SUFFICES ASSUME MInv, [Next]_vars PROVE MInv'
  OBVIOUS
<1>1. CASE UNCHANGED vars
  BY <1>1 DEF vars, MInv, Typed, MapsTyped, Placed, Hand, KernSound, HandSound,
              OpSound, Absent, TabsCover
<1>2. CASE calls < MaxCalls /\ Calls /\ calls' = calls + 1
  <2>1. calls' \in 0 .. MaxCalls
    BY <1>2, LayoutAssumption DEF MInv, Typed
  <2> QED BY <1>2, <2>1, CallStep
<1>3. CASE Loops /\ UNCHANGED calls
  <2>1. CASE uvm_page_crash
    <3>1. /\ mode' = "panic"
          /\ UNCHANGED <<used, kmap, pmap, tabs, kheap_size, ksbrk_left, uheap_begin,
                         uheap_end, proc, op, lost, calls>>
      BY <1>3, <2>1 DEF uvm_page_crash, maps, kern, user
    <3>2. Kept'
      BY <3>1, NothingMoves DEF maps
    <3> QED BY <3>1, <3>2 DEF MInv, Kept, Typed, KernSound, HandSound, OpSound, Absent
  <2>2. CASE kvm_page_alloc \/ kvm_page_free
    BY <1>3, <2>2, KvmAllocStep, KvmFreeStep
  <2>3. CASE uvm_take \/ clone_take \/ load_take
    BY <1>3, <2>3, TakeStep
  <2>4. CASE uvm_page_alloc \/ uvm_page_null
    BY <1>3, <2>4, UvmAllocStep
  <2>5. CASE uvm_page_fails \/ load_fails
    BY <1>3, <2>5, FailStep
  <2>6. CASE uvm_page_free
    BY <1>3, <2>6, UvmFreeStep
  <2>7. CASE clone_skip \/ clone_page \/ fork_returns
    BY <1>3, <2>7, CloneSkipStep, CloneStep, ForkReturnStep
  <2>8. CASE destroy_page \/ destroy_returns
    BY <1>3, <2>8, DestroyStep, DestroyReturnStep
  <2>9. CASE clean_page \/ clean_ends
    BY <1>3, <2>9, CleanStep, CleanEndStep
  <2>10. CASE load_page \/ exec_returns
    BY <1>3, <2>10, LoadStep, ExecReturnStep
  <2> QED BY <1>3, <2>1, <2>2, <2>3, <2>4, <2>5, <2>6, <2>7, <2>8, <2>9, <2>10 DEF Loops
<1>4. CASE Ended
  BY <1>1, <1>4 DEF Ended
<1> QED BY <1>1, <1>2, <1>3, <1>4 DEF Next

\* The invariant holds in every state.
LEMMA MInvariant == Spec => []MInv
  BY InitMInv, MInvStep, PTL DEF Spec

\* No frame but 0 is in two hands: no process sees another's memory or the
\* kernel's, whatever the order of fork, exit, exec, sbrk and kmalloc and
\* wherever in them the frames or the tables run out.
THEOREM FramesNeverShared == Spec => []NoSharing
<1>1. MInv => NoSharing
  <2> SUFFICES ASSUME MInv, NEW f \in Frames \ {0}
               PROVE  /\ \A a, b \in InKernel(f) : a = b
                      /\ \A p, q \in Procs : \A a \in InProc(p, f), b \in InProc(q, f) :
                           p = q /\ a = b
                      /\ InKernel(f) # {} => \A p \in Procs : InProc(p, f) = {}
                      /\ op.f = f => /\ InKernel(f) = {}
                                     /\ \A p \in Procs : InProc(p, f) = {}
    BY DEF NoSharing
  <2>1. Alone(kmap, pmap, f) /\ Marked(used, lost, kmap, pmap, Hand, f)
    BY DEF MInv, Placed, Sound
  <2>2. op.f = f => f \in Hand
    BY NoneIsNoFrame DEF Hand
  <2>3. op.f = f => ~Mapped(kmap, pmap, f)
    BY <2>1, <2>2 DEF Marked
  <2> QED BY <2>1, <2>3 DEF Alone, Mapped, InKernel, InProc
<1> QED BY <1>1, MInvariant, PTL

\* The bitmap marks exactly the frames that are mapped, in the hand of a call
\* or lost by one that failed, and every map, limit and table is where the
\* memory map allows.
THEOREM FramesAccounted == Spec => []FramesSound
<1>1. MInv => TypeOK
  BY OpFields DEF MInv, Typed, MapsTyped, TypeOK
<1>2. MInv => Accounted
  <2> SUFFICES ASSUME MInv, NEW f \in Frames \ {0}
               PROVE  f \in used <=> \/ f \in lost
                                     \/ InKernel(f) # {} \/ op.f = f
                                     \/ \E p \in Procs : InProc(p, f) # {}
    BY DEF Accounted
  <2>1. Marked(used, lost, kmap, pmap, Hand, f)
    BY DEF MInv, Placed, Sound
  <2>2. f \in Hand <=> op.f = f
    BY NoneIsNoFrame DEF Hand
  <2>3. Mapped(kmap, pmap, f) <=> InKernel(f) # {} \/ \E p \in Procs : InProc(p, f) # {}
    BY DEF Mapped, InKernel, InProc
  <2> QED BY <2>1, <2>2, <2>3 DEF Marked
<1>3. MInv => FramesSound
  BY <1>1, <1>2 DEF FramesSound
<1> QED BY <1>3, MInvariant, PTL

----------------------------------------------------------------------------
(* execve cleans the user space.  Its loop passes over a page too many at  *)
(* each missing table: behind k of them in a row it begins with the page k *)
(* of a table.  With no more tables than a table has pages it never gets   *)
(* past the last page, the one of the stack.                               *)

\* Quotient and rest are the only ones.
LEMMA DivRest ==
  ASSUME NEW d \in Nat \ {0}, NEW q \in Nat, NEW r \in 0 .. d - 1
  PROVE  (d * q + r) \div d = q /\ (d * q + r) % d = r
<1>1. (d * q + r) % d = r
  BY SMT
<1>2. (d * q + r) \div d = q
  BY SMT
<1> QED BY <1>1, <1>2

\* A step into another table leads to its first page.
LEMMA NewTable ==
  ASSUME NEW d \in Nat \ {0}, NEW a \in Nat, (a + 1) \div d # a \div d
  PROVE  (a + 1) % d = 0
<1> DEFINE t == a \div d
           r == a % d
<1>1. t \in Nat /\ r \in 0 .. d - 1 /\ a = d * t + r
  BY Euclid, Zenon
<1>2. (a + 1) \div d # t
  OBVIOUS
<1> HIDE DEF t, r
<1>3. CASE r + 1 < d
  <2>1. r + 1 \in 0 .. d - 1 /\ a + 1 = d * t + (r + 1)
    BY <1>1, <1>3
  <2>2. (d * t + (r + 1)) \div d = t
    BY <1>1, <2>1, DivRest
  <2> QED BY <1>2, <2>1, <2>2
<1>4. CASE r + 1 = d
  <2>1. a + 1 = d * (t + 1) + 0 /\ t + 1 \in Nat /\ 0 \in 0 .. d - 1
    BY <1>1, <1>4
  <2>2. (d * (t + 1) + 0) % d = 0
    BY <2>1, DivRest
  <2> QED BY <2>1, <2>2
<1> QED BY <1>1, <1>3, <1>4

\* How far into its table the loop is behind a missing one: no further than
\* there are tables before it.
LEMMA JumpOffset ==
  ASSUME NEW d \in Nat \ {0}, NEW a \in Nat, NEW U \in Nat, a % d <= (a \div d) - U
  PROVE  (a + 1 + d) % d <= ((a + 1 + d) \div d) - U
<1> DEFINE t == a \div d
           r == a % d
<1>1. t \in Nat /\ r \in 0 .. d - 1 /\ a = d * t + r
  BY Euclid, Zenon
<1>2. r <= t - U
  OBVIOUS
<1> HIDE DEF t, r
<1>3. CASE r + 1 < d
  <2>1. r + 1 \in 0 .. d - 1 /\ t + 1 \in Nat /\ a + 1 + d = d * (t + 1) + (r + 1)
    BY <1>1, <1>3
  <2>2. /\ (d * (t + 1) + (r + 1)) \div d = t + 1
        /\ (d * (t + 1) + (r + 1)) % d = r + 1
    BY <2>1, DivRest
  <2>3. (a + 1 + d) \div d = t + 1 /\ (a + 1 + d) % d = r + 1
    BY <2>1, <2>2
  <2> QED BY <1>1, <1>2, <2>3
<1>4. CASE r + 1 = d
  <2>1. a + 1 + d = d * (t + 2) + 0 /\ t + 2 \in Nat /\ 0 \in 0 .. d - 1
    BY <1>1, <1>4
  <2>2. (d * (t + 2) + 0) \div d = t + 2 /\ (d * (t + 2) + 0) % d = 0
    BY <2>1, DivRest
  <2>3. (a + 1 + d) \div d = t + 2 /\ (a + 1 + d) % d = 0
    BY <2>1, <2>2
  <2> QED BY <1>1, <1>2, <2>3
<1> QED BY <1>1, <1>3, <1>4

\* A jump past the last page begins in the table of the last page.
LEMMA LastPageReached ==
  ASSUME NEW d \in Nat \ {0}, NEW a \in Nat, NEW U \in Nat, NEW N \in Nat,
         d * N - d * U <= d * d, a <= d * N - 1, d * N - 1 <= a + d,
         a % d <= (a \div d) - U
  PROVE  (d * N - 1) \div d = a \div d
<1> DEFINE t == a \div d
           r == a % d
<1>1. t \in Nat /\ r \in 0 .. d - 1 /\ a = d * t + r
  BY Euclid, Zenon
<1>2. r <= t - U
  OBVIOUS
<1> HIDE DEF t, r
<1>3. N >= 1 /\ N - 1 \in Nat
  <2>1. N = 0 => d * N = 0
    OBVIOUS
  <2> QED BY <2>1
<1>4. d * N - 1 = d * (N - 1) + (d - 1)
  BY <1>3
<1>5. (d * N - 1) \div d = N - 1
  <2>1. d - 1 \in 0 .. d - 1
    OBVIOUS
  <2>2. (d * (N - 1) + (d - 1)) \div d = N - 1
    BY <1>3, <2>1, DivRest
  <2> QED BY <1>4, <2>2
<1>6. N - U <= d
  <2>1. ASSUME N - U >= d + 1 PROVE FALSE
    <3>1. d * (N - U) >= d * (d + 1)
      BY <2>1
    <3>2. d * (N - U) = d * N - d * U /\ d * (d + 1) = d * d + d
      OBVIOUS
    <3>3. d * d \in Nat /\ d * N \in Nat /\ d * U \in Nat
      OBVIOUS
    <3> QED BY <3>1, <3>2, <3>3
  <2> QED BY <2>1
<1>7. ASSUME t >= N PROVE FALSE
  <2>1. d * t >= d * N /\ d * t \in Nat /\ d * N \in Nat
    BY <1>1, <1>7
  <2> QED BY <1>1, <2>1
<1>8. ASSUME t <= N - 2 PROVE FALSE
  <2>1. d * t <= d * (N - 2) /\ d * t \in Nat
    BY <1>1, <1>3, <1>8
  <2>2. d * (N - 2) = d * (N - 1) - d /\ d * (N - 1) \in Nat
    BY <1>3
  <2>3. d * (N - 1) + (d - 1) <= d * t + r + d
    BY <1>1, <1>4
  <2>4. r >= d - 1
    BY <1>1, <2>1, <2>2, <2>3
  <2> QED BY <1>1, <1>2, <1>6, <1>8, <2>4
<1>9. t = N - 1
  BY <1>1, <1>3, <1>7, <1>8
<1> QED BY <1>5, <1>9 DEF t

\* A counter past the last page wraps once.
LEMMA WrapsOnce ==
  ASSUME NEW d \in Nat \ {0}, NEW n \in Nat, d <= n, n < d + d
  PROVE  n % d = n - d
<1>1. n - d \in 0 .. d - 1 /\ n = d * 1 + (n - d)
  OBVIOUS
<1>2. (d * 1 + (n - d)) % d = n - d
  BY <1>1, DivRest
<1> QED BY <1>1, <1>2

\* The page directory has no more tables of user pages than a table has pages:
\* 1024 tables of 1024 pages in the code.
FewTables == NPages - UMem <= Tab * Tab

\* Above the heap only the page of the stack is ever present.
OneStackPage ==
  \A p \in Procs, a \in PPages : a >= UStack /\ a # Top => pmap[p][a] = NONE

\* clone_page_dir takes a frame for a page that its parent has.
CopiesPresent == op.do = "fork" /\ op.f # NONE => pmap[op.p][op.at] # NONE

\* What the loop may leave behind it, and how far into a table it can be.
LeftBehind(p, a) == a < UStack /\ \E b \in UMem .. a : ~HasTable(p, b)

CleanSoFar ==
  op.do = "clean" =>
    /\ \A a \in UMem .. Top :
         (a < op.at \/ op.at < UMem) /\ Present(op.p, a) => LeftBehind(op.p, a)
    /\ op.at >= UMem /\ ~HasTable(op.p, op.at) =>
         op.at % Tab <= (op.at \div Tab) - (UMem \div Tab)

CInv == OneStackPage /\ CopiesPresent /\ CleanSoFar /\ CleanExec

\* Which pages a step can make appear.
Appear == \A p \in Procs, a \in PPages :
            \/ pmap'[p][a] = pmap[p][a] \/ pmap'[p][a] = NONE
            \/ a < UStack \/ a = Top

LEMMA PagesAppear ==
  ASSUME MInv, CInv, [Next]_vars
  PROVE  Appear
<1>0. /\ MapsTyped /\ OpSound /\ HandSound /\ op.p \in Procs /\ op.q \in Procs
      /\ op.f \in Frames \cup {NONE} /\ OneStackPage /\ CopiesPresent
      /\ pmap \in [Procs -> [PPages -> Frames \cup {NONE}]]
  BY OpFields DEF MInv, Typed, MapsTyped, CInv
<1>1. ASSUME NEW p \in Procs, NEW a \in Pages, NEW f \in Frames \cup {NONE},
             page_map(p, a, f), f = NONE \/ a < UStack \/ a = Top
      PROVE  Appear
  <2>1. a < KStack \/ a >= KStack
    BY Layout DEF Pages
  <2> QED BY <1>0, <1>1, <2>1, PageMapIs DEF Appear
<1>2. ASSUME pmap' = pmap PROVE Appear
  BY <1>2 DEF Appear
<1>3. CASE UNCHANGED vars \/ Ended
  BY <1>2, <1>3 DEF vars, Ended
<1>4. CASE Calls
  BY <1>2, <1>4 DEF Calls, ksbrk, uvm_brk, uvm_sbrk, sys_fork, fork_faults, sys_exit,
                    task_destroy, execve, pagefault_handler, Begin, maps
<1>5. CASE Loops
  <2>1. CASE kvm_page_alloc \/ kvm_page_free
    <3> DEFINE a == KHeap + kheap_size
    <3>1. 1 \in Procs /\ a \in Pages /\ a < UStack
      BY Layout, LayoutAssumption DEF MInv, Typed, Pages
    <3>2. page_map(1, a, frame_alloc) \/ page_map(1, a, NONE)
      BY <2>1 DEF kvm_page_alloc, kvm_page_free
    <3> HIDE DEF a
    <3> QED BY <1>1, <3>1, <3>2, AllocFound
  <2>2. CASE uvm_page_alloc \/ uvm_page_null
    <3>1. op.do = "grow" /\ op.f # NONE /\ page_map(op.p, op.at, op.f)
      BY <2>2 DEF uvm_page_alloc, uvm_page_null, Doing
    <3>2. op.at \in Pages /\ op.at < UStack
      BY <1>0, <3>1 DEF HandSound
    <3> QED BY <1>0, <1>1, <3>1, <3>2
  <2>3. CASE uvm_page_free
    <3> DEFINE a == (op.at - 1) % NPages
    <3>1. op.at \in Pages
      BY <1>0, <2>3 DEF uvm_page_free, Doing, OpSound
    <3>2. op.at - 1 \in Int /\ NPages \in Nat \ {0}
      BY <3>1, Layout DEF Pages
    <3>3. a \in Pages
      BY <3>2, Rest DEF Pages
    <3>4. page_map(op.p, a, NONE) \/ UNCHANGED maps
      BY <2>3 DEF uvm_page_free, page_map_fails
    <3> HIDE DEF a
    <3> QED BY <1>0, <1>1, <1>2, <3>3, <3>4 DEF maps
  <2>4. CASE destroy_page
    <3>1. op.at \in Pages
      BY <1>0, <2>4 DEF destroy_page, Doing, OpSound
    <3>2. page_map(op.p, op.at, NONE) \/ UNCHANGED maps
      BY <2>4 DEF destroy_page
    <3> QED BY <1>0, <1>1, <1>2, <3>1, <3>2 DEF maps
  <2>5. CASE clean_page
    <3>1. op.at \in Pages
      BY <1>0, <2>5 DEF clean_page, Doing, OpSound
    <3>2. page_map(op.p, op.at, NONE) \/ UNCHANGED maps
      BY <2>5 DEF clean_page
    <3> QED BY <1>0, <1>1, <1>2, <3>1, <3>2 DEF maps
  <2>6. CASE load_page
    <3>1. op.do = "load" /\ op.f # NONE /\ page_map(op.p, op.at, op.f)
      BY <2>6 DEF load_page, Doing
    <3>2. op.at \in Pages /\ (op.at < UStack \/ op.at = Top)
      <4>1. op.at \in PPages
        BY <1>0, <3>1 DEF HandSound
      <4>2. op.at # NONE
        BY <4>1, Layout DEF PPages, NONE
      <4> QED BY <1>0, <3>1, <4>1, <4>2, Layout DEF OpSound, PPages, Pages
    <3> QED BY <1>0, <1>1, <3>1, <3>2
  <2>7. CASE clone_page
    <3>1. /\ op.do = "fork" /\ op.f # NONE
          /\ pmap' = [pmap EXCEPT ![op.q][op.at] = op.f] \/ pmap' = pmap
      BY <2>7 DEF clone_page, Doing
    <3>2. op.at \in PPages /\ pmap[op.p][op.at] # NONE
      BY <1>0, <3>1 DEF HandSound, CopiesPresent
    <3>3. op.at < UStack \/ op.at = Top
      BY <1>0, <3>2, Layout DEF OneStackPage, PPages
    <3>4. ASSUME pmap' = [pmap EXCEPT ![op.q][op.at] = op.f] PROVE Appear
      BY <1>0, <3>2, <3>3, <3>4 DEF Appear
    <3> QED BY <1>2, <3>1, <3>4
  <2>8. CASE \/ uvm_take \/ clone_take \/ load_take \/ uvm_page_fails \/ load_fails
             \/ uvm_page_crash \/ clone_skip \/ fork_returns \/ destroy_returns
             \/ clean_ends \/ exec_returns
    <3>1. pmap' = pmap
      BY <2>8 DEF uvm_take, clone_take, load_take, Take, uvm_page_fails, load_fails,
                  page_map_fails, uvm_page_crash, clone_skip, fork_returns,
                  destroy_returns, clean_ends, exec_returns, maps
    <3> QED BY <1>2, <3>1
  <2> QED BY <1>5, <2>1, <2>2, <2>3, <2>4, <2>5, <2>6, <2>7, <2>8 DEF Loops
<1> QED BY <1>3, <1>4, <1>5 DEF Next

\* The layout as multiples of the size of a table.
LEMMA TableLayout ==
  /\ UMem \div Tab \in Nat /\ UMem = Tab * (UMem \div Tab) /\ UMem % Tab = 0
  /\ NPages \div Tab \in Nat /\ NPages = Tab * (NPages \div Tab)
  /\ Tab < UMem
<1>1. Tab \in Nat \ {0} /\ UMem \in Nat /\ NPages \in Nat /\ KStack \in Nat
      /\ 0 < KStack /\ KStack < UMem
  BY Layout
<1>2. UMem % Tab = 0 /\ NPages % Tab = 0 /\ KStack % Tab = 0
  BY LayoutAssumption
<1> DEFINE U == UMem \div Tab
           N == NPages \div Tab
<1>3. U \in Nat /\ UMem = Tab * U + (UMem % Tab)
  BY <1>1, Euclid, Zenon
<1>4. N \in Nat /\ NPages = Tab * N + (NPages % Tab)
  BY <1>1, Euclid, Zenon
<1> HIDE DEF U, N
<1>5. UMem = Tab * U /\ NPages = Tab * N
  <2>1. Tab * U \in Nat /\ Tab * N \in Nat
    BY <1>1, <1>3, <1>4
  <2> QED BY <1>2, <1>3, <1>4, <2>1
<1>6. Tab < UMem
  <2>1. ASSUME KStack < Tab PROVE FALSE
    <3>1. KStack % Tab = KStack
      BY <1>1, <2>1, SmallRest
    <3> QED BY <1>1, <1>2, <3>1
  <2> QED BY <1>1, <2>1
<1> QED BY <1>2, <1>3, <1>4, <1>5, <1>6 DEF U, N

\* The loop at a page whose table is missing.
LEMMA JumpStep ==
  ASSUME FewTables, MInv, CInv, clean_page, ~HasTable(op.p, op.at)
  PROVE  CleanSoFar'
<1> DEFINE at == op.at
           p  == op.p
           x  == at + 1 + Tab
           n  == x % NPages
<1>1. /\ op.do = "clean" /\ Cleaning(at) /\ UNCHANGED <<kmap, pmap, tabs>>
      /\ op' = [op EXCEPT !.at = NextToClean(p, at)]
  BY DEF clean_page, Doing, maps
<1>2. /\ op \in Ops /\ p \in Procs /\ at \in Pages /\ at \in Nat /\ at >= UMem
      /\ at < NPages
  <2>1. op \in Ops /\ p \in Procs /\ at \in Pages
    BY <1>1, OpFields DEF MInv, Typed, OpSound
  <2> QED BY <1>1, <2>1, Layout DEF Pages, Cleaning
<1>3. NextToClean(p, at) = n
  BY DEF NextToClean
<1>4. n \in Pages
  BY <1>2, <1>3, NextToCleanIsPage
<1>5. op'.at = n /\ op'.do = "clean" /\ op'.p = p
  <2> HIDE DEF n
  <2>1. op' = [op EXCEPT !.at = n]
    BY <1>1, <1>3
  <2> QED BY <1>1, <1>2, <1>4, <2>1, OpAt
<1>6. x \in Nat /\ x > at /\ Tab \in Nat \ {0} /\ NPages \in Nat \ {0} /\ Tab < UMem
      /\ UMem < NPages /\ UMem \in Nat /\ Top = NPages - 1
  BY <1>2, Layout, TableLayout DEF Top
<1>7. at % Tab <= (at \div Tab) - (UMem \div Tab)
  BY <1>1, <1>2 DEF CInv, CleanSoFar
<1>8. x < NPages => n = x
  BY <1>6, SmallRest
<1>9. x >= NPages => n < UMem
  <2> SUFFICES ASSUME x >= NPages PROVE n < UMem
    OBVIOUS
  <2>1. x < NPages + NPages
    BY <1>2, <1>6
  <2>2. n = x - NPages
    BY <1>6, <2>1, WrapsOnce
  <2> QED BY <1>2, <1>6, <2>2
<1>10. ASSUME Top <= at + Tab PROVE ~Present(p, Top)
  <2>1. (NPages - 1) \div Tab = at \div Tab
    <3> DEFINE U == UMem \div Tab
               N == NPages \div Tab
    <3>1. U \in Nat /\ N \in Nat /\ UMem = Tab * U /\ NPages = Tab * N
      BY TableLayout
    <3>2. at % Tab <= (at \div Tab) - U
      BY <1>7
    <3> HIDE DEF U, N
    <3>3. /\ Tab * N - Tab * U <= Tab * Tab /\ at <= Tab * N - 1
          /\ Tab * N - 1 <= at + Tab
      BY <1>2, <1>6, <1>10, <3>1 DEF FewTables
    <3>4. (Tab * N - 1) \div Tab = at \div Tab
      BY <1>2, <1>6, <3>1, <3>2, <3>3, LastPageReached
    <3> QED BY <3>1, <3>4
  <2>2. at \div Tab \notin tabs[p]
    BY <1>2 DEF HasTable
  <2>3. Top \div Tab \notin tabs[p]
    BY <2>1, <2>2 DEF Top
  <2> QED BY <1>2, <2>3, Layout DEF MInv, TabsCover, Present
<1>11. ASSUME NEW a \in UMem .. Top, a < n \/ n < UMem, Present(p, a)
       PROVE  LeftBehind(p, a)
  <2>1. CASE a < at
    BY <1>1, <1>2, <1>11, <2>1 DEF CInv, CleanSoFar
  <2>2. CASE a >= at
    <3>1. a <= at + Tab
      <4>1. CASE x < NPages
        BY <1>2, <1>6, <1>8, <1>11, <4>1
      <4>2. CASE x >= NPages
        BY <1>2, <1>6, <1>11, <4>2
      <4> QED BY <1>6, <4>1, <4>2
    <3>2. a < UStack
      <4>1. CASE a = Top
        BY <1>10, <1>11, <3>1, <4>1
      <4>2. CASE a # Top
        <5>1. a \in PPages
          BY <1>6, Layout DEF PPages
        <5>2. pmap[p][a] # NONE
          BY <1>11 DEF Present
        <5> QED BY <1>2, <4>2, <5>1, <5>2, Layout DEF CInv, OneStackPage, PPages
      <4> QED BY <4>1, <4>2
    <3>3. at \in UMem .. a /\ ~HasTable(p, at)
      BY <1>2, <1>6, <2>2
    <3> QED BY <3>2, <3>3 DEF LeftBehind
  <2> QED BY <1>2, <1>6, <2>1, <2>2
<1>12. n >= UMem => n % Tab <= (n \div Tab) - (UMem \div Tab)
  <2> SUFFICES ASSUME n >= UMem
               PROVE  n % Tab <= (n \div Tab) - (UMem \div Tab)
    OBVIOUS
  <2>1. n = x
    BY <1>4, <1>6, <1>8, <1>9, Layout DEF Pages
  <2>2. UMem \div Tab \in Nat
    BY TableLayout
  <2>3. (at + 1 + Tab) % Tab <= ((at + 1 + Tab) \div Tab) - (UMem \div Tab)
    BY <1>2, <1>6, <1>7, <2>2, JumpOffset
  <2> QED BY <2>1, <2>3
<1> HIDE DEF at, p, x, n
<1>13. op'.p = op.p
  BY <1>5 DEF p
<1>14. \A a \in UMem .. Top : /\ Present(op.p, a)' <=> Present(op.p, a)
                              /\ LeftBehind(op.p, a)' <=> LeftBehind(op.p, a)
  BY <1>1, <1>13 DEF Present, LeftBehind, HasTable
<1>15. \A a \in UMem .. Top :
         (a < op'.at \/ op'.at < UMem) /\ Present(op.p, a)' => LeftBehind(op.p, a)'
  BY <1>5, <1>11, <1>14 DEF p
<1>16. op'.at >= UMem => op'.at % Tab <= (op'.at \div Tab) - (UMem \div Tab)
  BY <1>5, <1>12
<1> QED BY <1>15, <1>16 DEF CleanSoFar

\* The loop at a page that has a table: it is gone afterwards.
LEMMA WalkStep ==
  ASSUME MInv, CInv, clean_page, HasTable(op.p, op.at)
  PROVE  CleanSoFar'
<1> DEFINE at == op.at
           p  == op.p
           n  == (at + 1) % NPages
<1>1. /\ op.do = "clean" /\ Cleaning(at)
      /\ \/ page_map(p, at, NONE)
         \/ ~Present(p, at) /\ UNCHANGED <<kmap, pmap, tabs>>
      /\ op' = [op EXCEPT !.at = NextToClean(p, at)]
  BY DEF clean_page, Doing, maps
<1>2. /\ op \in Ops /\ MapsTyped /\ p \in Procs /\ at \in Pages /\ at \in Nat
      /\ at >= UMem /\ at < NPages /\ at >= KStack /\ at \in PPages
  <2>1. op \in Ops /\ MapsTyped /\ p \in Procs /\ at \in Pages
    BY <1>1, OpFields DEF MInv, Typed, OpSound
  <2> QED BY <1>1, <2>1, Layout DEF Pages, PPages, Cleaning
<1>3. NextToClean(p, at) = n
  <2>1. at + 1 + 0 = at + 1
    BY <1>2
  <2>2. NextToClean(p, at) = (at + 1 + 0) % NPages
    BY DEF NextToClean
  <2> QED BY <2>1, <2>2
<1>4. n \in Pages /\ n = IF at = Top THEN 0 ELSE at + 1
  BY <1>2, NextOfPage
<1>5. op'.at = n /\ op'.do = "clean" /\ op'.p = p
  <2> HIDE DEF n
  <2>1. op' = [op EXCEPT !.at = n]
    BY <1>1, <1>3
  <2> QED BY <1>1, <1>2, <1>4, <2>1, OpAt
<1>6. /\ pmap'[p][at] = NONE /\ tabs'[p] = tabs[p]
      /\ \A a \in PPages : a # at => pmap'[p][a] = pmap[p][a]
  <2>1. CASE page_map(p, at, NONE)
    <3>1. /\ pmap'[p][at] = NONE /\ tabs'[p] = tabs[p] \cup {at \div Tab}
          /\ \A a \in PPages : a # at => pmap'[p][a] = pmap[p][a]
      BY <1>2, <2>1, PageMapIs
    <3>2. at \div Tab \in tabs[p]
      BY <1>2, Layout DEF HasTable
    <3> QED BY <3>1, <3>2
  <2>2. CASE ~Present(p, at) /\ UNCHANGED <<kmap, pmap, tabs>>
    BY <2>2 DEF Present
  <2> QED BY <1>1, <2>1, <2>2
<1>7. \A b : HasTable(op.p, b)' <=> HasTable(op.p, b)
  BY <1>5, <1>6 DEF HasTable
<1>8. UMem .. Top \subseteq PPages
  BY Layout DEF PPages, Top
<1>9. ASSUME NEW a \in UMem .. Top, a < n \/ n < UMem, Present(op.p, a)'
      PROVE  LeftBehind(op.p, a)'
  <2>1. a # at /\ a \in PPages /\ pmap[p][a] # NONE
    BY <1>5, <1>6, <1>8, <1>9 DEF Present
  <2>2. a < at
    BY <1>2, <1>4, <1>9, <2>1, Layout DEF Top
  <2>3. LeftBehind(op.p, a)
    BY <1>1, <1>9, <2>1, <2>2 DEF CInv, CleanSoFar, Present
  <2> QED BY <1>7, <2>3 DEF LeftBehind
<1>10. ASSUME n >= UMem, ~HasTable(op.p, n)
       PROVE  n % Tab <= (n \div Tab) - (UMem \div Tab)
  <2>1. n = at + 1 /\ n \in Nat /\ Tab \in Nat \ {0} /\ UMem \in Nat
    BY <1>2, <1>4, <1>10, Layout
  <2>2. (at + 1) \div Tab # at \div Tab
    BY <1>2, <1>10, <2>1, Layout DEF HasTable
  <2>3. (at + 1) % Tab = 0
    BY <1>2, <2>1, <2>2, NewTable
  <2>4. UMem \div Tab <= n \div Tab
    BY <1>10, <2>1, TableOrder
  <2>5. UMem \div Tab \in Nat /\ n \div Tab \in Nat
    BY <2>1, Euclid, Zenon
  <2>6. n % Tab = 0
    BY <2>1, <2>3
  <2> HIDE DEF n
  <2> QED BY <2>4, <2>5, <2>6
<1> HIDE DEF at, p, n
<1>11. op'.at = n /\ op'.p = op.p
  BY <1>5 DEF p
<1>12. HasTable(op.p, op.at)' <=> HasTable(op.p, n)
  <2>1. tabs'[op'.p] = tabs[op.p]
    BY <1>6, <1>11 DEF p
  <2> QED BY <1>11, <2>1 DEF HasTable
<1>13. op'.at >= UMem /\ ~HasTable(op.p, op.at)' =>
         op'.at % Tab <= (op'.at \div Tab) - (UMem \div Tab)
  BY <1>10, <1>11, <1>12
<1>14. \A a \in UMem .. Top :
         (a < op'.at \/ op'.at < UMem) /\ Present(op.p, a)' => LeftBehind(op.p, a)'
  BY <1>9, <1>11
<1> QED BY <1>13, <1>14 DEF CleanSoFar

\* Steps in which no address space is cleaned or copied.
LEMMA OtherOp ==
  ASSUME \/ op'.do \in {"idle", "grow", "shrink", "destroy"}
         \/ op'.do = "fork" /\ op'.f = NONE
  PROVE  CopiesPresent' /\ CleanSoFar' /\ CleanExec'
  BY DEF CopiesPresent, CleanSoFar, CleanExec

\* Every call either leaves the call in progress alone or begins a new one.
LEMMA CallsClean ==
  ASSUME MInv, CInv, Calls
  PROVE  CopiesPresent' /\ CleanSoFar' /\ CleanExec'
<1>1. CASE UNCHANGED <<op, pmap, tabs>>
  BY <1>1 DEF CInv, CopiesPresent, CleanSoFar, CleanExec, LeftBehind, Present, HasTable
<1>2. ASSUME NEW do \in {"grow", "shrink", "fork", "destroy"}, NEW p, NEW q,
             NEW at, NEW to, NEW img, Begin(Call(do, p, q, at, to, img))
      PROVE  CopiesPresent' /\ CleanSoFar' /\ CleanExec'
  <2>1. op'.do = do /\ op'.f = NONE
    BY <1>2 DEF Begin, Call
  <2> QED BY <2>1, OtherOp
<1>3. ASSUME NEW p, NEW img, Begin(Call("clean", p, p, UMem, 0, img))
      PROVE  CopiesPresent' /\ CleanSoFar' /\ CleanExec'
  <2>1. op'.do = "clean" /\ op'.at = UMem
    BY <1>3 DEF Begin, Call
  <2>2. \A a \in UMem .. Top : ~(a < UMem \/ UMem < UMem)
    BY Layout
  <2>3. UMem % Tab <= (UMem \div Tab) - (UMem \div Tab)
    <3>1. UMem % Tab = 0 /\ UMem \div Tab \in Nat
      BY TableLayout
    <3> QED BY <3>1
  <2> QED BY <2>1, <2>2, <2>3 DEF CopiesPresent, CleanSoFar, CleanExec
<1>4. CASE \/ \E n \in KHeap - KStack .. KStack - KHeap : ksbrk(n)
           \/ \E p \in Procs : fork_faults(p) \/ sys_exit(p) \/ pagefault_handler(p)
  BY <1>1, <1>4 DEF ksbrk, fork_faults, sys_exit, pagefault_handler, maps
<1>5. ASSUME NEW p \in Procs, NEW a \in Ends, uvm_brk(p, a)
      PROVE  CopiesPresent' /\ CleanSoFar' /\ CleanExec'
  BY <1>2, <1>5 DEF uvm_brk
<1>6. ASSUME NEW p \in Procs, NEW n \in Incrs, uvm_sbrk(p, n)
      PROVE  CopiesPresent' /\ CleanSoFar' /\ CleanExec'
  BY <1>2, <1>6 DEF uvm_sbrk
<1>7. ASSUME NEW p \in Procs, NEW q \in Procs, sys_fork(p, q)
      PROVE  CopiesPresent' /\ CleanSoFar' /\ CleanExec'
  BY <1>2, <1>7 DEF sys_fork
<1>8. ASSUME NEW p \in Procs, task_destroy(p)
      PROVE  CopiesPresent' /\ CleanSoFar' /\ CleanExec'
  BY <1>2, <1>8 DEF task_destroy
<1>9. ASSUME NEW p \in Procs, NEW img \in Images, execve(p, img)
      PROVE  CopiesPresent' /\ CleanSoFar' /\ CleanExec'
  BY <1>3, <1>9 DEF execve
<1> QED BY <1>4, <1>5, <1>6, <1>7, <1>8, <1>9 DEF Calls

\* The loops.
LEMMA LoopsClean ==
  ASSUME FewTables, MInv, CInv, Loops
  PROVE  CopiesPresent' /\ CleanSoFar' /\ CleanExec'
<1>0. op \in Ops /\ MapsTyped /\ OpSound /\ KernSound /\ HandSound
  BY DEF MInv, Typed
<1>1. CASE UNCHANGED <<op, pmap, tabs>>
  BY <1>1 DEF CInv, CopiesPresent, CleanSoFar, CleanExec, LeftBehind, Present, HasTable
<1>2. CASE kvm_page_alloc
  <2>1. KHeap + kheap_size < KStack
    BY <1>0, <1>2, Layout DEF kvm_page_alloc, MInv, Typed, KernSound
  <2> QED BY <1>1, <1>2, <2>1 DEF kvm_page_alloc, page_map
<1>3. CASE kvm_page_free
  <2>1. op' = op /\ op.do = "idle"
    BY <1>0, <1>3 DEF kvm_page_free, KernSound
  <2> QED BY <2>1, OtherOp
<1>4. CASE uvm_page_crash
  BY <1>1, <1>4 DEF uvm_page_crash, maps
<1>5. CASE op' = Idle
  BY <1>5, OpIdle, OtherOp
<1>6. CASE uvm_take \/ clone_take \/ load_take
  <2>1. Take /\ op.f = NONE /\ UNCHANGED <<pmap, tabs>>
    BY <1>6 DEF uvm_take, clone_take, load_take, Take, maps
  <2>2. op'.at = op.at /\ op'.do = op.do /\ op'.p = op.p
    BY <2>1, HandTaken
  <2>3. CASE uvm_take
    BY <2>2, <2>3, OtherOp DEF uvm_take, Doing
  <2>4. CASE clone_take
    <3>1. op.do = "fork" /\ pmap[op.p][op.at] # NONE
      BY <2>4 DEF clone_take, Doing, Present
    <3> QED BY <2>1, <2>2, <3>1 DEF CopiesPresent, CleanSoFar, CleanExec
  <2>5. CASE load_take
    <3>1. op.do = "load"
      BY <2>5 DEF load_take, Doing
    <3>2. CleanExec'
      BY <2>1, <2>2, <3>1 DEF CInv, CleanExec, Present, HasTable
    <3> QED BY <2>2, <3>1, <3>2 DEF CopiesPresent, CleanSoFar
  <2> QED BY <1>6, <2>3, <2>4, <2>5
<1>7. CASE uvm_page_alloc \/ uvm_page_free
  <2>1. CASE op' = Idle
    BY <1>5, <2>1
  <2>2. CASE op' # Idle
    <3>1. op.do \in {"grow", "shrink"}
      BY <1>7 DEF uvm_page_alloc, uvm_page_free, Doing
    <3>2. op'.do = op.do
      BY <1>0, <1>7, <2>2 DEF uvm_page_alloc, uvm_page_free, Ops
    <3> QED BY <3>1, <3>2, OtherOp
  <2> QED BY <2>1, <2>2
<1>8. CASE clone_skip \/ clone_page
  <2>1. op.do = "fork" /\ (clone_skip => op.f = NONE)
    BY <1>8 DEF clone_skip, clone_page, Doing
  <2>2. op'.do = op.do /\ op'.f = NONE
    BY <1>0, <1>8, <2>1 DEF clone_skip, clone_page, Ops
  <2> QED BY <2>1, <2>2, OtherOp
<1>9. CASE destroy_page
  <2>1. op.do = "destroy" /\ op'.do = op.do
    BY <1>0, <1>9 DEF destroy_page, Doing, Ops
  <2> QED BY <2>1, OtherOp
<1>10. CASE clean_page
  <2>1. CleanSoFar'
    BY <1>10, JumpStep, WalkStep
  <2>2. op'.do = "clean"
    BY <1>0, <1>10 DEF clean_page, Doing, Ops
  <2> QED BY <2>1, <2>2 DEF CopiesPresent, CleanExec
<1>11. CASE clean_ends
  <2>1. /\ op.do = "clean" /\ ~Cleaning(op.at) /\ UNCHANGED <<pmap, tabs>>
        /\ op' = [op EXCEPT !.do = "load", !.at = Top]
    BY <1>11 DEF clean_ends, Doing, maps
  <2>2. op'.do = "load" /\ op'.p = op.p
    BY <1>0, <2>1, OpLoads
  <2>3. op.at < UMem
    <3>1. op.at \in Pages
      BY <1>0, <2>1 DEF OpSound
    <3> QED BY <2>1, <3>1, Layout DEF Cleaning, Pages
  <2>4. \A a \in UMem .. Top : Present(op.p, a) => LeftBehind(op.p, a)
    BY <2>1, <2>3 DEF CInv, CleanSoFar
  <2>5. CleanExec'
    BY <2>1, <2>2, <2>4 DEF CleanExec, LeftBehind, Present, HasTable
  <2> QED BY <2>2, <2>5 DEF CopiesPresent, CleanSoFar
<1>12. CASE load_page
  <2>1. op.do = "load" /\ op' = [op EXCEPT !.at = NextPage(op.at), !.f = NONE]
    BY <1>12 DEF load_page, Doing
  <2>2. NextPage(op.at) = NONE \/ NextPage(op.at) \in UMem .. UStack - 1
    BY <1>0, <2>1, NextPageIsPage DEF OpSound
  <2>3. NextPage(op.at) \in Pages \cup {NONE} /\ NextPage(op.at) # Top
    BY <2>2, Layout DEF Pages, Top, NONE
  <2>4. op'.do = "load" /\ op'.at # Top
    BY <1>0, <2>1, <2>3, OpAtHand
  <2> QED BY <2>4 DEF CopiesPresent, CleanSoFar, CleanExec
<1>13. CASE \/ uvm_page_null \/ uvm_page_fails \/ load_fails \/ fork_returns
            \/ destroy_returns \/ exec_returns
  BY <1>5, <1>13 DEF uvm_page_null, uvm_page_fails, load_fails, fork_returns,
                     destroy_returns, exec_returns
<1> QED BY <1>2, <1>3, <1>4, <1>6, <1>7, <1>8, <1>9, <1>10, <1>11, <1>12, <1>13 DEF Loops

\* When the cleaning loop of execve has ended, nothing of the old program's
\* code or stack is left, and of its heap only what lies above a table that is
\* missing, although the loop passes over a page too many at each of these.
\* FewTables is what the loop relies on without saying so.
THEOREM ExecStartsClean ==
  ASSUME FewTables
  PROVE  Spec => []CleanExec
<1>1. Init => CInv
  <2> SUFFICES ASSUME Init PROVE CInv
    OBVIOUS
  <2>1. op.do = "idle" /\ op.f = NONE
    BY DEF Init, Idle
  <2>2. \A p \in Procs, a \in PPages :
          pmap[p][a] = IF p = 1 /\ a < KSEnd THEN KHeap + a - KStack ELSE NONE
    BY DEF Init
  <2>3. OneStackPage
    BY <2>2, Layout DEF OneStackPage, PPages
  <2> QED BY <2>1, <2>3 DEF CInv, CopiesPresent, CleanSoFar, CleanExec
<1>2. MInv /\ CInv /\ [Next]_vars => CInv'
  <2> SUFFICES ASSUME MInv, CInv, [Next]_vars PROVE CInv'
    OBVIOUS
  <2>1. OneStackPage'
    <3>1. Appear
      BY PagesAppear
    <3>2. \A a \in PPages : a >= UStack => ~(a < UStack)
      BY Layout DEF PPages
    <3> QED BY <3>1, <3>2 DEF CInv, OneStackPage, Appear
  <2>2. CASE UNCHANGED vars \/ Ended
    <3>1. UNCHANGED <<op, pmap, tabs>>
      BY <2>2 DEF vars, Ended
    <3> QED BY <2>1, <3>1 DEF CInv, CopiesPresent, CleanSoFar, CleanExec, LeftBehind,
                              Present, HasTable
  <2>3. CASE Calls
    BY <2>1, <2>3, CallsClean DEF CInv
  <2>4. CASE Loops
    BY <2>1, <2>4, LoopsClean DEF CInv
  <2> QED BY <2>2, <2>3, <2>4 DEF Next
<1>3. CInv => CleanExec
  BY DEF CInv
<1> QED BY <1>1, <1>2, <1>3, MInvariant, PTL DEF Spec

=============================================================================
