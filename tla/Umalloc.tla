------------------------------ MODULE Umalloc ------------------------------
(***************************************************************************)
(* The allocator of user programs, rlibc/stdlib/malloc.c, on top of brk    *)
(* and sbrk, which give and take whole pages.                              *)
(*                                                                         *)
(* Sizes and addresses are in units of 16 bytes, the alignment and the     *)
(* size of a heap_node_t; address 0 is heap_start.  The list of nodes is a *)
(* sequence: a node begins where the one before it ends.                   *)
(***************************************************************************)
EXTENDS Integers, Sequences, FiniteSetsExt

CONSTANTS
  PageSize,    \* units of a page, 256 in the code
  Limit,       \* units of address space for the heap
  Word,        \* sizes are modulo this, 2^28 in the code
  Blocks,      \* names of the blocks a program holds
  MaxAsk       \* largest request, in units

ASSUME UmallocAssumption ==
  /\ PageSize \in Nat \ {0} /\ Limit \in Nat /\ Word \in Nat /\ Limit < Word
  /\ MaxAsk \in Nat \ {0}
  /\ {"free", "new"} \cap Blocks = {}

VARIABLES
  heap,       \* the nodes: size and, if reserved, the block; "free" if not
  heap_end,   \* as malloc.c has it
  brk_end,    \* uheap_end of the kernel
  asked,      \* asked[b]: units the program asked for, 0 if b is not in use
  addr,       \* addr[b]: where it was told they are
  heapMode    \* "run"; "stale": a free has left the size of the last node or
              \* heap_end different from the memory there is; "fault": memory
              \* that is not there was used; "pad": a node was put there

heapVars == <<heap, heap_end, brk_end, asked, addr, heapMode>>

HeapInit ==
  /\ heap = <<>> /\ heap_end = 0 /\ brk_end = 0
  /\ asked = [b \in Blocks |-> 0] /\ addr = [b \in Blocks |-> 0]
  /\ heapMode = "run"

Node(size, of) == [size |-> size, of |-> of]
PageUp(n)      == ((n + PageSize - 1) \div PageSize) * PageSize

\* Where each node ends, the end of a list of nodes and the address of one.
Ends(h) == LET end[i \in 0 .. Len(h)] == IF i = 0 THEN 0 ELSE end[i - 1] + h[i].size + 1
           IN  end
EndOf(h) == Ends(h)[Len(h)]
Start(h, i) == Ends(h)[i - 1]

\* Mutant: the header of the padding is not counted.
create_padding_node_Free(h, i, n, end) ==
  SubSeq(h, 1, i - 1) \o <<[h[i] EXCEPT !.size = n], Node(h[i].size - n, "free")>>
  \o SubSeq(h, i + 1, Len(h))

(* The padding reaches to the next node.  Behind the last one it reaches   *)
(* to heap_end, and is larger than the memory when heap_end is below it.   *)
create_padding_node(h, i, n, end) ==
  LET rest == IF i = Len(h) THEN (end - (Start(h, i) + n + 2)) % Word
              ELSE h[i].size - n - 1
  IN  SubSeq(h, 1, i - 1) \o <<[h[i] EXCEPT !.size = n], Node(rest, "free")>>
      \o SubSeq(h, i + 1, Len(h))

(* Whether there is memory, up to the break, for the header it writes. *)
PaddingThere(h, i, n, top) == i < Len(h) \/ h[i].size = n \/ Start(h, i) + n + 2 <= top

(* unify_fwd: node i takes in the one behind it. *)
unify_fwd(h, i) ==
  SubSeq(h, 1, i - 1) \o <<[h[i] EXCEPT !.size = (@ + h[i + 1].size + 1) % Word]>>
  \o SubSeq(h, i + 2, Len(h))

Fits(h, n) == {i \in DOMAIN h : h[i].of = "free" /\ h[i].size >= n}

(* The node is found: pad it and mark it. *)
Reserve(h, n, b, end) ==
  LET i == Min(Fits(h, n))
      g == IF h[i].size > n THEN create_padding_node(h, i, n, end) ELSE h
  IN  [g EXCEPT ![i].of = b]

----------------------------------------------------------------------------
(* malloc: the outcomes it can have.  It returns a "block" or "null", or    *)
(* does not return ("pad").                                                *)

Outcome(h, end, top, ret) == [nodes |-> h, end |-> end, brk |-> top, ret |-> ret]

\* The last node enlarged to the end of the heap.
Grown(h, top) == [h EXCEPT ![Len(h)].size = top - Start(h, Len(h)) - 1]

(* Where the break is when brk or sbrk runs out of memory on the way from  *)
(* top to want: the pages it got stay.                                     *)
Partial(top, want) == {t \in top .. Limit : t < want /\ (t - top) % PageSize = 0}

(* The heap is made on the first call, behind what failed calls left.  The *)
(* last node is enlarged when the loop comes to it and it is too small,    *)
(* free or not.  Reserved, or still too small since the old size was not   *)
(* true, it is no use and NULL is returned.                                *)
Allocs(n, b) ==
  LET last  == Len(heap)
      first == Min(Fits(heap, n))
      fresh == PageUp(PageSize + n)
      top   == brk_end + PageUp(n - heap[last].size)
      grown == Grown(heap, top)
  IN  CASE heap = <<>> ->
             {Outcome(heap, heap_end, brk_end, "null")} \cup
             (IF fresh > Limit THEN {}
              ELSE {Outcome(Reserve(<<Node(fresh - 1, "free")>>, n, b, fresh),
                            fresh, fresh, "block")})
        [] heap # <<>> /\ Fits(heap, n) # {} ->
             IF PaddingThere(heap, first, n, brk_end)
             THEN {Outcome(Reserve(heap, n, b, heap_end), heap_end, brk_end, "block")}
             ELSE {Outcome(heap, heap_end, brk_end, "pad")}
        [] heap # <<>> /\ Fits(heap, n) = {} /\ heap[last].size >= n ->
             {Outcome(heap, heap_end, brk_end, "null")}
        [] OTHER ->
             {Outcome(heap, heap_end, t, "null") : t \in Partial(brk_end, top)} \cup
             (IF top > Limit THEN {}
              ELSE IF Fits(grown, n) = {} THEN {Outcome(grown, top, top, "null")}
              ELSE {Outcome(Reserve(grown, n, b, top), top, top, "block")})

\* The node of a block.
NodeOf(h, b) == CHOOSE i \in DOMAIN h : h[i].of = b

Running == heapMode \in {"run", "stale"}

\* Units of memory at x are there.
There(x, units, top) == x + units <= top

Alloc(n, b, touched) ==
  \E o \in Allocs(n, b) :
    LET x == Start(o.nodes, NodeOf(o.nodes, b)) + 1
    IN  /\ Running /\ asked[b] = 0
        /\ heap' = o.nodes /\ heap_end' = o.end /\ brk_end' = o.brk
        /\ asked' = IF o.ret = "block" THEN [asked EXCEPT ![b] = n] ELSE asked
        /\ addr' = IF o.ret = "block" THEN [addr EXCEPT ![b] = x] ELSE addr
        /\ heapMode' = IF o.ret = "pad" THEN "pad"
                       ELSE IF touched /\ ~(o.ret = "block" /\ There(x, n, o.brk))
                       THEN "fault" ELSE heapMode

malloc(n, b) == Alloc(n, b, FALSE)

(* memset of what malloc returned, NULL or not. *)
calloc(n, b) == Alloc(n, b, TRUE)

\* Mutant: the next node is taken in whatever its status.
NextFree_Any(h, i) == i < Len(h)

NextFree(h, i) == i < Len(h) /\ h[i + 1].of = "free"

(* free: unify with the next node, then with the one before.  The test for *)
(* the last element and the resize behind it use the freed node's header,  *)
(* even where it has just been merged away.                                *)
Freed(h, i) ==
  LET marked  == [h EXCEPT ![i].of = "free"]
      forward == IF NextFree(h, i) THEN unify_fwd(marked, i) ELSE marked
      back    == i > 1 /\ h[i - 1].of = "free"
      joined  == IF back THEN unify_fwd(forward, i - 1) ELSE forward
      isLast  == i = Len(forward)
      end     == Start(h, i) + 1 + PageSize
  IN  [nodes |-> IF isLast /\ ~back THEN [joined EXCEPT ![i].size = PageSize] ELSE joined,
       last  |-> isLast,
       end   |-> end,
       stale |-> isLast /\ back /\ EndOf(joined) # end]

(* The heap after free(node i of h), with top the kernel's break.  A brk   *)
(* that has to give memory may fail, which nobody looks at.                *)
Release(h, i, end, top) ==
  LET f    == Freed(h, i)
      want == PageUp(f.end)
  IN  \E given \in BOOLEAN :
        /\ given /\ f.last => want <= Limit
        /\ ~given => f.last /\ want > top
        /\ heap' = f.nodes
        /\ heap_end' = IF f.last THEN f.end ELSE end
        /\ IF f.last /\ ~given THEN brk_end' \in Partial(top, want)
           ELSE brk_end' = IF f.last THEN want ELSE top
        /\ heapMode' = IF f.stale \/ ~given THEN "stale" ELSE heapMode

free(b) ==
  /\ Running /\ asked[b] # 0
  /\ Release(heap, NodeOf(heap, b), heap_end, brk_end)
  /\ asked' = [asked EXCEPT ![b] = 0] /\ addr' = [addr EXCEPT ![b] = 0]

(* A smaller size, or the same: what is left becomes a node of its own. *)
realloc_shrink(b, n) ==
  LET i == NodeOf(heap, b)
  IN  /\ Running /\ asked[b] # 0 /\ n <= heap[i].size
      /\ \/ /\ PaddingThere(heap, i, n, brk_end)
            /\ heap' = IF n < heap[i].size THEN create_padding_node(heap, i, n, heap_end)
                       ELSE heap
            /\ asked' = [asked EXCEPT ![b] = n]
            /\ UNCHANGED heapMode
         \/ /\ ~PaddingThere(heap, i, n, brk_end)
            /\ heapMode' = "pad" /\ UNCHANGED <<heap, asked>>
      /\ UNCHANGED <<heap_end, brk_end, addr>>

(* A larger one: malloc, memcpy of the old node's size, free.  Nobody      *)
(* looks whether there was memory.  The block keeps its name and moves.    *)
realloc_grow(b, n) ==
  LET size == heap[NodeOf(heap, b)].size
  IN  /\ Running /\ asked[b] # 0 /\ n > size
      /\ \E o \in Allocs(n, "new") :
           LET old   == NodeOf(o.nodes, b)
               x     == Start(o.nodes, NodeOf(o.nodes, "new")) + 1
               moved == [i \in DOMAIN o.nodes |->
                           IF o.nodes[i].of = "new" THEN Node(o.nodes[i].size, b)
                           ELSE o.nodes[i]]
               whole == o.ret = "block" /\ There(x, size, o.brk) /\ There(addr[b], size, o.brk)
           IN  \/ /\ ~whole
                  /\ heapMode' = IF o.ret = "pad" THEN "pad" ELSE "fault"
                  /\ UNCHANGED <<heap, heap_end, brk_end, asked, addr>>
               \/ /\ whole
                  /\ Release(moved, old, o.end, o.brk)
                  /\ asked' = [asked EXCEPT ![b] = n]
                  /\ addr' = [addr EXCEPT ![b] = x]

HeapNext ==
  \/ \E b \in Blocks, n \in 1 .. MaxAsk :
       malloc(n, b) \/ calloc(n, b) \/ realloc_shrink(b, n) \/ realloc_grow(b, n)
  \/ \E b \in Blocks : free(b)

HeapSpec == HeapInit /\ [][HeapNext]_heapVars

----------------------------------------------------------------------------
(* Properties *)

\* The nodes tile the memory the kernel gave: no malloc, free or realloc, in
\* any order, leaves a gap or an overlap, or a node that reaches behind
\* heap_end, which the kernel's break covers.  It ends with the first free
\* that merges the last node backwards, or whose brk gets no memory.
HeapTiled ==
  heapMode = "run" /\ heap # <<>> =>
    /\ EndOf(heap) = heap_end
    /\ heap_end <= brk_end
    /\ \A i \in DOMAIN heap : heap[i].size >= 0

\* A program's block stays its own, through every order of calls and also
\* after the last node's size has gone wrong: it is one reserved node, at the
\* address the program was told, and the node has the size it asked for; what
\* is reserved belongs to somebody.  Once the size of the last node is not
\* true, that node alone may be smaller than its owner thinks, and a block may
\* lie in memory the kernel has not given.
BlocksOwned ==
  /\ \A b \in Blocks : asked[b] # 0 =>
       \E i \in DOMAIN heap :
         /\ heap[i].of = b /\ Start(heap, i) + 1 = addr[b]
         /\ heap[i].size >= asked[b] \/ (heapMode # "run" /\ i = Len(heap))
         /\ \A j \in DOMAIN heap : heap[j].of = b => i = j
  /\ \A i \in DOMAIN heap : heap[i].of # "free" => asked[heap[i].of] # 0


=============================================================================
