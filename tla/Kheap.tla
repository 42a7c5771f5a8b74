------------------------------- MODULE Kheap -------------------------------
(***************************************************************************)
(* The kernel heap (mm/kmalloc.c on ksbrk of mm/kvm.c): a list of nodes in *)
(* the memory they describe.  Addresses and sizes count units of           *)
(* NODE_T_SIZE, 16 bytes, so a node header is one unit and the rounding of *)
(* sizes to whole units is done.                                           *)
(***************************************************************************)
EXTENDS Integers, FiniteSets

CONSTANTS
  Page,      \* units in a page, 256 in the code
  Skew,      \* curnode + NODE_T_SIZE, which is 16 whole nodes, in units
  Base,      \* where ksbrk starts the heap, on a page boundary
  Limit,     \* KSTACK_BEGIN
  Word,      \* number of values of a size_t
  Requests   \* pairs <<size, align>> that callers ask for

NULL == 0
Bad  == -1

ASSUME HeapAssumption ==
  /\ Page \in Nat /\ Page > 1 /\ Skew \in Nat
  /\ Base \in Nat \ {NULL} /\ Base % Page = 0
  /\ Limit \in Nat /\ Limit % Page = 0 /\ Base <= Limit
  /\ Word \in Nat /\ Word > 2 * Limit
  /\ Requests \subseteq (Nat \ {0}) \X {1, Page}

VARIABLES
  nodes,        \* nodes[a]: the header at address a, for headers in use
  kheap_start,  \* NULL, Base, or (void*)-1 after a failed start
  kheap_end,
  taken,        \* taken[a]: the request that the block at a was given for
  held,         \* number of blocks handed out and not yet freed
  mode          \* "run", or "fault"

vars == <<nodes, kheap_start, kheap_end, taken, held, mode>>
callers == <<taken, held>>

Node(size, status, next, prev) ==
  [size |-> size, status |-> status, next |-> next, prev |-> prev]

\* f, and v at x.
Put(f, x, v) == [y \in DOMAIN f \cup {x} |-> IF y = x THEN v ELSE f[y]]

Init ==
  /\ nodes = <<>>
  /\ kheap_start = NULL
  /\ kheap_end = Base
  /\ taken = <<>> /\ held = 0
  /\ mode = "run"

----------------------------------------------------------------------------
(* ksbrk in whole pages *)

Grown(incr)  == Page * ((incr + Page - 1) \div Page)
Shrunk(incr) == Page * (incr \div Page)

CanGrow(end, incr) == end + incr <= Limit

----------------------------------------------------------------------------
(* do_kmalloc *)

\* The nodes in the order of their next pointers.
Chain(nd) ==
  LET f[i \in 1 .. Cardinality(DOMAIN nd)] ==
        IF i = 1 THEN kheap_start
        ELSE IF f[i - 1] \in DOMAIN nd THEN nd[f[i - 1]].next ELSE NULL
  IN  f

\* padding_amount
Padding(a, align) == IF (a + Skew) % align = 0 THEN 0 ELSE align - (a % align)

\* Mutant: reserved nodes fit as well as free ones.
Fits_Any(nd, a, size, align) == nd[a].size >= size + Padding(a, align)

Fits(nd, a, size, align) ==
  /\ nd[a].status = "free"
  /\ nd[a].size >= size + Padding(a, align)

(* The node in front of an aligned block. *)
PadFront(nd, a, c) ==
  Put([nd EXCEPT ![a].size = c - a - 1, ![a].next = c],
      c, Node((nd[a].next - c - 1) % Word, "free", nd[a].next, a))

(* The node behind a block that is larger than what was asked for. *)
PadBack(nd, c, q, end) ==
  LET n    == nd[c].next
      rest == (IF n = NULL THEN end ELSE n) - q - 1
      nd1  == [nd EXCEPT ![c].next = q]
  IN  Put(IF n = NULL THEN nd1 ELSE [nd1 EXCEPT ![n].prev = q],
          q, Node(rest, "free", n, c))

(* Where a block in node a gets its header. *)
HeaderAt(a, align) ==
  LET pad == Padding(a, align)
  IN  IF pad \in {0, 1} THEN a ELSE a + pad - 1

(* A decent node has been found: split off what is in front and behind. *)
Carve(nd, a, size, align, end) ==
  LET c   == HeaderAt(a, align)
      nd1 == IF c = a THEN nd ELSE PadFront(nd, a, c)
      nd2 == IF nd1[c].size = size THEN nd1
             ELSE PadBack(nd1, c, c + 1 + size, end)
  IN  [nd2 EXCEPT ![c].size = size, ![c].status = "res"]

(* The search of do_kmalloc is over: in node a, or without result. *)
Found(nd, a, size, align, end) ==
  /\ nodes' = Carve(nd, a, size, align, end)
  /\ taken' = Put(taken, HeaderAt(a, align), <<size, align>>)
  /\ held' = held + 1

(* do_kmalloc: the first node that fits; the last one is made large enough *)
(* first, if it is reached.                                                *)
do_kmalloc(size, align) ==
  LET fresh == kheap_start = NULL
      grow0 == Grown(size + Page)
      start == IF fresh THEN Base ELSE kheap_start
      nd    == IF fresh THEN [a \in {Base} |-> Node(grow0 - 1, "free", NULL, NULL)]
               ELSE nodes
      end   == IF fresh THEN kheap_end + grow0 ELSE kheap_end
      list  == IF fresh THEN [i \in {1} |-> Base] ELSE Chain(nodes)
      n     == Cardinality(DOMAIN nd)
      last  == list[n]
      early == {i \in 1 .. n - 1 : Fits(nd, list[i], size, align)}
      need  == size + Page - nd[last].size
      more  == IF need > 0 THEN Grown(need) ELSE 0
      big   == [nd EXCEPT ![last].size = @ + more]
  IN  /\ mode = "run"
      /\ \/ /\ kheap_start = Bad
            /\ mode' = "fault"
            /\ UNCHANGED <<nodes, kheap_start, kheap_end, callers>>
         \/ /\ fresh /\ ~CanGrow(kheap_end, size + Page)               \* ENOMEM
            /\ kheap_start' = Bad
            /\ UNCHANGED <<nodes, kheap_end, callers, mode>>
         \/ /\ kheap_start # Bad
            /\ fresh => CanGrow(kheap_end, size + Page)
            /\ kheap_start' = start
            /\ \/ /\ early # {}
                  /\ LET i == CHOOSE i \in early : \A j \in early : i <= j
                     IN  Found(nd, list[i], size, align, end)
                  /\ kheap_end' = end
               \/ /\ early = {} /\ need > 0 /\ ~CanGrow(end, need)  \* ENOMEM
                  /\ nodes' = nd /\ kheap_end' = end /\ UNCHANGED callers
               \/ /\ early = {} /\ (need > 0 => CanGrow(end, need))
                  /\ kheap_end' = end + more
                  /\ IF Fits(big, last, size, align)
                     THEN Found(big, last, size, align, end + more)
                     ELSE nodes' = big /\ UNCHANGED callers    \* no errno
            /\ UNCHANGED mode

----------------------------------------------------------------------------
(* do_kfree *)

\* Mutant: the second header is lost.
unify_fwd_NoHeader(nd, a) ==
  LET n   == nd[a].next
      nd1 == [b \in DOMAIN nd \ {n} |-> nd[b]]
      nd2 == [nd1 EXCEPT ![a].size = @ + nd[n].size, ![a].next = nd[n].next]
  IN  IF nd[n].next = NULL THEN nd2
      ELSE [nd2 EXCEPT ![nd[n].next].prev = a]

unify_fwd(nd, a) ==
  LET n   == nd[a].next
      nd1 == [b \in DOMAIN nd \ {n} |-> nd[b]]
      nd2 == [nd1 EXCEPT ![a].size = @ + nd[n].size + 1, ![a].next = nd[n].next]
  IN  IF nd[n].next = NULL THEN nd2
      ELSE [nd2 EXCEPT ![nd[n].next].prev = a]

Coalesced(nd, a) ==
  LET nd1 == IF nd[a].next # NULL /\ nd[nd[a].next].status = "free"
             THEN unify_fwd(nd, a) ELSE nd
      p   == nd1[a].prev
  IN  IF p # NULL /\ nd1[p].status = "free" THEN unify_fwd(nd1, p) ELSE nd1

(* do_kfree: coalesce, and give back whole pages from the end of the heap. *)
do_kfree(a) ==
  LET nd    == Coalesced([nodes EXCEPT ![a].status = "free"], a)
      b     == IF a \in DOMAIN nd THEN a ELSE nodes[a].prev
      give  == IF nd[b].next = NULL /\ nd[b].size > 2 * Page
               THEN Shrunk(nd[b].size) ELSE 0
  IN  /\ mode = "run"
      /\ a \in DOMAIN taken
      /\ nodes' = [nd EXCEPT ![b].size = @ - give]
      /\ kheap_end' = kheap_end - give
      /\ taken' = [x \in DOMAIN taken \ {a} |-> taken[x]]
      /\ held' = held - 1
      /\ UNCHANGED <<kheap_start, mode>>

Halted == mode = "fault" /\ UNCHANGED vars

Next ==
  \/ \E r \in Requests : do_kmalloc(r[1], r[2])
  \/ \E a \in DOMAIN taken : do_kfree(a)
  \/ Halted

Spec == Init /\ [][Next]_vars

----------------------------------------------------------------------------
(* Properties *)

TypeOK ==
  /\ DOMAIN nodes \subseteq Base .. Limit
  /\ \A a \in DOMAIN nodes :
       /\ nodes[a].size \in 0 .. Limit
       /\ nodes[a].status \in {"free", "res"}
       /\ nodes[a].next \in {NULL} \cup DOMAIN nodes
       /\ nodes[a].prev \in {NULL} \cup DOMAIN nodes
  /\ kheap_start \in {NULL, Base, Bad}
  /\ kheap_end \in Base .. Limit
  /\ DOMAIN taken \subseteq DOMAIN nodes
  /\ \A a \in DOMAIN taken : taken[a] \in Requests
  /\ mode \in {"run", "fault"}

\* The nodes tile the heap: each ends where its successor begins, the last at
\* the end of the heap, and the prev pointers say the same as the next ones.
Tiled ==
  /\ kheap_start = Base => Base \in DOMAIN nodes /\ nodes[Base].prev = NULL
  /\ \A a \in DOMAIN nodes :
       LET n == nodes[a].next
       IN  /\ a + 1 + nodes[a].size = (IF n = NULL THEN kheap_end ELSE n)
           /\ n # NULL => nodes[n].prev = a
           /\ nodes[a].prev # NULL => nodes[nodes[a].prev].next = a

\* A block belongs to the caller that asked for it until it frees it: it is
\* not handed out twice, its header stays in the list, reserved, with the size
\* that was asked for, and nothing else is reserved.
BlocksKept ==
  /\ Cardinality(DOMAIN taken) = held
  /\ \A a \in DOMAIN taken : nodes[a].status = "res" /\ nodes[a].size = taken[a][1]
  /\ \A a \in DOMAIN nodes : nodes[a].status = "res" => a \in DOMAIN taken

\* Freeing in any order leaves no two free nodes side by side.
NoFreeNeighbours ==
  \A a \in DOMAIN nodes :
    ~ /\ nodes[a].status = "free"
      /\ nodes[a].next # NULL
      /\ nodes[nodes[a].next].status = "free"

\* The last node is never reserved: do_kmalloc enlarges the last node before
\* it looks at its status, and must not enlarge a block somebody holds.
LastIsFree ==
  \A a \in DOMAIN nodes : nodes[a].next = NULL => nodes[a].status = "free"

\* The invariant of the node list, whatever is allocated, freed and merged in
\* whatever order.
ListSound == TypeOK /\ Tiled /\ NoFreeNeighbours /\ LastIsFree

\* What do_kmalloc says: "Start address is aligned to [align]".  Violated:
\* the test of the alignment adds NODE_T_SIZE nodes instead of bytes, and
\* takes a node for aligned that is not.
PageAligned == \A a \in DOMAIN taken : (a + 1) % taken[a][2] = 0

=============================================================================
