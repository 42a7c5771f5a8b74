------------------------------- MODULE Memory -------------------------------
(***************************************************************************)
(* Physical frames and virtual pages: the frame bitmap (mm/paging.c), the  *)
(* kernel heap's pages (mm/kvm.c), a process's heap (mm/uvm.c), and what   *)
(* fork, wait and execve do to address spaces (clone_page_dir,             *)
(* task_destroy, the middle of loader/exec.c and load_elf).                *)
(*                                                                         *)
(* Addresses are page numbers.  Page tables below KStack are made once by  *)
(* paging_init and linked into every directory, so those pages are one     *)
(* map, kmap; the pages from KStack on are a map per process.              *)
(*                                                                         *)
(* A call runs in one piece.  Its loops go page by page here, and op says  *)
(* where it is: the frame between frame_alloc and page_map is in its hand, *)
(* because page_map may call kmalloc for a page table in between, and      *)
(* kmalloc takes frames as well.                                           *)
(***************************************************************************)
EXTENDS Integers, FiniteSets, FiniteSetsExt

CONSTANTS
  NFrames,  \* frames found by register_mem, memsize in the code
  Tab,      \* pages of a page table
  KHeap,    \* identity_end: the first page of the kernel heap
  KStack,   \* KSTACK_BEGIN
  KSEnd,    \* KSTACK_END, as the first page behind the kernel stack
  UMem,     \* UMEM_BEGIN
  UStack,   \* USTACK_BEGIN
  NPages,   \* pages of the address space
  Procs,    \* processes, 1 the first
  Images,   \* programs: the sets of pages load_elf maps
  Ends,     \* arguments of brk
  Incrs,    \* arguments of sbrk, in pages
  MaxCalls  \* bound on the calls of a behaviour

ASSUME LayoutAssumption ==
  /\ {NFrames, Tab, KHeap, KStack, KSEnd, UMem, UStack, NPages} \subseteq Nat
  /\ Tab > 0 /\ 0 < KHeap /\ KHeap < KStack
  /\ KStack < KSEnd /\ KSEnd <= UMem
  /\ UMem < UStack /\ UStack < NPages
  /\ \A b \in {KStack, UMem, UStack, NPages} : b % Tab = 0
  /\ KHeap + KSEnd - KStack <= NFrames
  /\ 1 \in Procs /\ Procs \subseteq Nat /\ MaxCalls \in Nat
  /\ Ends \subseteq 0 .. NPages - 1
  /\ Incrs \subseteq -(NPages \div 2) .. NPages \div 2
  /\ \A i \in Images : i \subseteq UMem .. UStack - 1 /\ i # {} /\ IsFiniteSet(i)

Frames == 0 .. NFrames - 1
KPages == 0 .. KStack - 1         \* one map for all
PPages == KStack .. NPages - 1    \* a map per process
Pages  == 0 .. NPages - 1
Top    == NPages - 1              \* the page of USTACK_END
NONE   == -1                      \* not present; no frame in hand

VARIABLES
  used,         \* the frames marked in the bitmap
  kmap,         \* kmap[a]: frame of a page that all processes share
  pmap,         \* pmap[p][a]: frame of a page of process p
  tabs,         \* tabs[p]: the tables from KStack on that p's directory has
  kheap_size,   \* pages of the kernel heap
  ksbrk_left,   \* pages ksbrk has yet to add (or to remove, if negative)
  uheap_begin, uheap_end,
  proc,         \* "none", "boot" (before its first program), "live", "dead"
  op,           \* the call in progress
  calls,        \* number of calls so far
  lost,         \* history: frames marked as used that no map reaches any more
  mode          \* "run", or how it ended: "panic" (a page fault), "wild" (a
                \* process runs on in a half-made address space)

vars == <<used, kmap, pmap, tabs, kheap_size, ksbrk_left, uheap_begin,
          uheap_end, proc, op, calls, lost, mode>>

maps == <<kmap, pmap, tabs>>
user == <<uheap_begin, uheap_end, proc>>
kern == <<kheap_size, ksbrk_left>>

Idle == [do |-> "idle", p |-> 1, q |-> 1, at |-> 0, to |-> 0, f |-> NONE,
         img |-> {}]
Call(do, p, q, at, to, img) ==
  [do |-> do, p |-> p, q |-> q, at |-> at, to |-> to, f |-> NONE, img |-> img]

----------------------------------------------------------------------------
(* paging.c *)

\* Mutant: exhaustion is reported as the last frame.
frame_alloc_Last == IF Frames \subseteq used THEN NFrames - 1 ELSE Min(Frames \ used)

(* find_free_frame and the error value of frame_alloc: 0. *)
frame_alloc == IF Frames \subseteq used THEN 0 ELSE Min(Frames \ used)

(* get_phys: the frame of a page, 0 if there is none. *)
get_phys(p, a) ==
  LET e == IF a < KStack THEN kmap[a] ELSE pmap[p][a]
  IN  IF e = NONE THEN 0 ELSE e

Present(p, a) == pmap[p][a] # NONE
HasTable(p, a) == a < KStack \/ a \div Tab \in tabs[p]

(* page_map, and page_map(a, 0, 0), which unmaps.  A table is made when it  *)
(* is missing.                                                             *)
page_map(p, a, f) ==
  IF a < KStack
  THEN kmap' = [kmap EXCEPT ![a] = f] /\ UNCHANGED <<pmap, tabs>>
  ELSE /\ pmap' = [pmap EXCEPT ![p][a] = f]
       /\ tabs' = [tabs EXCEPT ![p] = @ \cup {a \div Tab}]
       /\ UNCHANGED kmap

(* kmalloc_pa for the table fails: NULL, and nothing is mapped. *)
page_map_fails(p, a) == ~HasTable(p, a) /\ UNCHANGED maps

(* The frame a mapping replaces is reached by nobody any more. *)
Replaced(p, a) == {get_phys(p, a)} \ {0}

(* paging_init: identity_map, create_kstack, kvm_init.  The first process  *)
(* has the directory paging_init made.                                     *)
Init ==
  /\ used = 0 .. KHeap + KSEnd - KStack - 1
  /\ kmap = [a \in KPages |-> IF a \in 1 .. KHeap - 1 THEN a ELSE NONE]
  /\ pmap = [p \in Procs |-> [a \in PPages |->
               IF p = 1 /\ a < KSEnd THEN KHeap + a - KStack ELSE NONE]]
  /\ tabs = [p \in Procs |-> IF p = 1 THEN {a \div Tab : a \in KStack .. KSEnd - 1}
                             ELSE {}]
  /\ kheap_size = 0 /\ ksbrk_left = 0
  /\ uheap_begin = [p \in Procs |-> 0] /\ uheap_end = [p \in Procs |-> 0]
  /\ proc = [p \in Procs |-> IF p = 1 THEN "boot" ELSE "none"]
  /\ op = Idle /\ calls = 0 /\ lost = {} /\ mode = "run"

----------------------------------------------------------------------------
(* kvm.c.  ksbrk is called by kmalloc and kfree: from calls that are not    *)
(* modelled, or by page_map for a table, with a frame in hand.              *)

Quiet == op.do = "idle" /\ ksbrk_left = 0 /\ mode = "run"

NeedsTable == op.f # NONE /\ op.do # "idle" /\
              ~HasTable(IF op.do = "fork" THEN op.q ELSE op.p, op.at)

ksbrk(n) ==
  /\ ksbrk_left = 0 /\ mode = "run"
  /\ op.do = "idle" \/ (NeedsTable /\ n > 0)
  /\ n # 0
  /\ KHeap + kheap_size + n <= KStack
  /\ kheap_size + n >= 0
  /\ ksbrk_left' = n
  /\ UNCHANGED <<used, maps, kheap_size, user, op, lost, mode>>

kvm_page_alloc ==
  LET a == KHeap + kheap_size
  IN  /\ ksbrk_left > 0 /\ mode = "run"
      /\ used' = used \cup {frame_alloc}
      /\ page_map(1, a, frame_alloc)
      /\ lost' = lost \cup Replaced(1, a)
      /\ kheap_size' = kheap_size + 1 /\ ksbrk_left' = ksbrk_left - 1
      /\ UNCHANGED <<user, op, mode>>

\* Mutant: the page is marked free but stays mapped.
kvm_page_free_Mapped ==
  /\ ksbrk_left < 0 /\ mode = "run"
  /\ used' = used \ {get_phys(1, KHeap + kheap_size - 1)}
  /\ kheap_size' = kheap_size - 1 /\ ksbrk_left' = ksbrk_left + 1
  /\ UNCHANGED <<maps, user, op, lost, mode>>

(* The page behind the heap's last one is unmapped. *)
kvm_page_free ==
  LET a == KHeap + kheap_size
  IN  /\ ksbrk_left < 0 /\ mode = "run"
      /\ used' = used \ {get_phys(1, a)}
      /\ page_map(1, a, NONE)
      /\ kheap_size' = kheap_size - 1 /\ ksbrk_left' = ksbrk_left + 1
      /\ UNCHANGED <<user, op, lost, mode>>

----------------------------------------------------------------------------
(* uvm.c *)

\* A process can make a call: it has a stack and code to return to.
CanCall(p) == /\ Quiet /\ proc[p] = "live"
              /\ Present(p, UMem) /\ Present(p, Top)

Begin(c) == op' = c /\ UNCHANGED <<used, maps, kern, user, lost, mode>>

uvm_brk(p, a) ==
  /\ CanCall(p)
  /\ a >= UMem /\ a < UStack
  /\ \/ a > uheap_end[p] /\ Begin(Call("grow", p, p, uheap_end[p], a, {}))
     \/ a < uheap_end[p] /\ Begin(Call("shrink", p, p, uheap_end[p], a, {}))

(* The bounds are compared after the addition, which wraps. *)
uvm_sbrk(p, n) ==
  LET end == uheap_end[p]
      new == (end + n) % NPages
  IN  /\ CanCall(p)
      /\ \/ n > 0 /\ new <= UStack /\ Begin(Call("grow", p, p, end, end + n, {}))
         \/ n < 0 /\ new >= uheap_begin[p]
                  /\ Begin(Call("shrink", p, p, end, new, {}))

Doing(do) == mode = "run" /\ ksbrk_left = 0 /\ op.do = do

(* frame_alloc() as the argument of a page_map to come. *)
Take ==
  /\ used' = used \cup {frame_alloc}
  /\ op' = [op EXCEPT !.f = frame_alloc]
  /\ UNCHANGED <<maps, kern, user, lost, mode>>

uvm_take == Doing("grow") /\ op.f = NONE /\ op.at < UStack /\ Take

(* page_map returns the address, and NULL for page 0: a mapping that its    *)
(* caller takes for a failure.                                             *)
uvm_page_alloc ==
  /\ Doing("grow") /\ op.f # NONE /\ op.at # 0
  /\ page_map(op.p, op.at, op.f)
  /\ lost' = lost \cup Replaced(op.p, op.at)
  /\ uheap_end' = [uheap_end EXCEPT ![op.p] = op.at + 1]
  /\ op' = IF op.at + 1 = op.to THEN Idle
           ELSE [op EXCEPT !.at = @ + 1, !.f = NONE]
  /\ UNCHANGED <<used, kern, uheap_begin, proc, mode>>

uvm_page_null ==
  /\ Doing("grow") /\ op.f # NONE /\ op.at = 0
  /\ page_map(op.p, 0, op.f)
  /\ lost' = lost \cup Replaced(op.p, 0)
  /\ op' = Idle
  /\ UNCHANGED <<used, kern, user, mode>>

(* No table, or no address space left: the pages so far are kept. *)
uvm_page_fails ==
  /\ Doing("grow")
  /\ \/ op.f # NONE /\ page_map_fails(op.p, op.at)
     \/ op.f = NONE /\ op.at >= UStack /\ UNCHANGED maps
  /\ lost' = lost \cup ({op.f} \ {NONE, 0})
  /\ op' = Idle
  /\ UNCHANGED <<used, kern, user, mode>>

(* Below UMem are the stack the call runs on and the kernel. *)
uvm_page_free ==
  LET a == (op.at - 1) % NPages
  IN  /\ Doing("shrink") /\ a >= UMem
      /\ used' = used \ {get_phys(op.p, a)}
      /\ page_map(op.p, a, NONE) \/ page_map_fails(op.p, a)
      /\ uheap_end' = [uheap_end EXCEPT ![op.p] = a]
      /\ op' = IF a = op.to THEN Idle ELSE [op EXCEPT !.at = a]
      /\ UNCHANGED <<kern, uheap_begin, proc, lost, mode>>

uvm_page_crash ==
  /\ Doing("shrink") /\ (op.at - 1) % NPages < UMem
  /\ mode' = "panic"
  /\ UNCHANGED <<used, maps, kern, user, op, lost>>

----------------------------------------------------------------------------
(* fork: create_page_dir and clone_page_dir.  The child's task_t is zeroed  *)
(* and its heap bounds are not copied.                                     *)

sys_fork(p, q) ==
  /\ CanCall(p) /\ proc[q] = "none"
  /\ Begin(Call("fork", p, q, KStack, 0, {}))

(* create_page_dir failed: NULL->tables is written. *)
fork_faults(p) ==
  /\ CanCall(p) /\ \E q \in Procs : proc[q] = "none"
  /\ mode' = "panic"
  /\ UNCHANGED <<used, maps, kern, user, op, lost>>

(* i += PAGE_SIZE has wrapped, in clone_page_dir and task_destroy. *)
LoopEnds(a) == a % NPages < KStack

clone_skip ==
  /\ Doing("fork") /\ op.f = NONE /\ ~LoopEnds(op.at)
  /\ ~Present(op.p, op.at % NPages)
  /\ op' = [op EXCEPT !.at = (@ + 1) % NPages]
  /\ UNCHANGED <<used, maps, kern, user, lost, mode>>

clone_take ==
  /\ Doing("fork") /\ op.f = NONE /\ ~LoopEnds(op.at)
  /\ Present(op.p, op.at)
  /\ Take

(* The frame is mapped at page 0 for the copy, and page 0 unmapped again;   *)
(* then page_map to the new directory, whose result nobody looks at.       *)
clone_page ==
  /\ Doing("fork") /\ op.f # NONE
  /\ kmap' = [kmap EXCEPT ![0] = NONE]
  /\ \/ /\ pmap' = [pmap EXCEPT ![op.q][op.at] = op.f]
        /\ tabs' = [tabs EXCEPT ![op.q] = @ \cup {op.at \div Tab}]
        /\ lost' = lost \cup Replaced(op.p, 0)
     \/ /\ ~HasTable(op.q, op.at)
        /\ lost' = lost \cup Replaced(op.p, 0) \cup ({op.f} \ {0})
        /\ UNCHANGED <<pmap, tabs>>
  /\ op' = [op EXCEPT !.at = (@ + 1) % NPages, !.f = NONE]
  /\ UNCHANGED <<used, kern, user, mode>>

fork_returns ==
  /\ Doing("fork") /\ op.f = NONE /\ LoopEnds(op.at)
  /\ proc' = [proc EXCEPT ![op.q] = "live"]
  /\ uheap_begin' = [uheap_begin EXCEPT ![op.q] = 0]
  /\ uheap_end' = [uheap_end EXCEPT ![op.q] = 0]
  /\ op' = Idle
  /\ UNCHANGED <<used, maps, kern, lost, mode>>

sys_exit(p) ==
  /\ CanCall(p) /\ p # 1
  /\ proc' = [proc EXCEPT ![p] = "dead"]
  /\ UNCHANGED <<used, maps, kern, uheap_begin, uheap_end, op, lost, mode>>

(* task_destroy, from sys_wait or task_kill of the parent. *)
task_destroy(q) ==
  /\ Quiet /\ proc[q] = "dead"
  /\ Begin(Call("destroy", q, q, KStack, 0, {}))

destroy_page ==
  /\ Doing("destroy") /\ ~LoopEnds(op.at)
  /\ IF Present(op.p, op.at)
     THEN used' = used \ {get_phys(op.p, op.at)} /\ page_map(op.p, op.at, NONE)
     ELSE UNCHANGED <<used, maps>>
  /\ op' = [op EXCEPT !.at = (@ + 1) % NPages]
  /\ UNCHANGED <<kern, user, lost, mode>>

(* clear_page_dir and the kfree of the directory and the task. *)
destroy_returns ==
  /\ Doing("destroy") /\ LoopEnds(op.at)
  /\ tabs' = [tabs EXCEPT ![op.p] = {}]
  /\ proc' = [proc EXCEPT ![op.p] = "none"]
  /\ op' = Idle
  /\ UNCHANGED <<used, kmap, pmap, kern, uheap_begin, uheap_end, lost, mode>>

----------------------------------------------------------------------------
(* execve from "Clean up the user-space" on.  Before it, every failure      *)
(* leaves memory as it was.                                                *)

execve(p, img) ==
  /\ CanCall(p) \/ (Quiet /\ proc[p] = "boot")
  /\ Begin(Call("clean", p, p, UMem, 0, img))

\* Mutants: the check for overflow is dropped; a missing table is skipped and
\* the page of the same number in the one after the next is looked at.
Cleaning_Overflow(a) == a < NPages
NextToClean_Far(p, a) == (a + 1 + IF HasTable(p, a) THEN 0 ELSE 2 * Tab) % NPages

Cleaning(a) == a >= UMem /\ a < NPages

(* A page further, and a table further if this one is missing. *)
NextToClean(p, a) == (a + 1 + IF HasTable(p, a) THEN 0 ELSE Tab) % NPages

clean_page ==
  /\ Doing("clean") /\ Cleaning(op.at)
  /\ IF HasTable(op.p, op.at) /\ Present(op.p, op.at)
     THEN used' = used \ {get_phys(op.p, op.at)} /\ page_map(op.p, op.at, NONE)
     ELSE UNCHANGED <<used, maps>>
  /\ op' = [op EXCEPT !.at = NextToClean(op.p, @)]
  /\ UNCHANGED <<kern, user, lost, mode>>

clean_ends ==
  /\ Doing("clean") /\ ~Cleaning(op.at)
  /\ op' = [op EXCEPT !.do = "load", !.at = Top]
  /\ UNCHANGED <<used, maps, kern, user, lost, mode>>

load_take == Doing("load") /\ op.f = NONE /\ op.at # NONE /\ Take

\* The pages of the image that are still to come, in the order of load_elf.
NextPage(a) ==
  LET rest == {b \in op.img : a = Top \/ b > a}
  IN  IF rest = {} THEN NONE ELSE Min(rest)

(* The stack page first, then the segments. *)
load_page ==
  /\ Doing("load") /\ op.f # NONE
  /\ page_map(op.p, op.at, op.f)
  /\ lost' = lost \cup Replaced(op.p, op.at)
  /\ op' = [op EXCEPT !.at = NextPage(@), !.f = NONE]
  /\ UNCHANGED <<used, kern, user, mode>>

(* goto bad: no table, an unreadable file, not an ELF file.  The caller is  *)
(* told, but its program is gone.                                          *)
load_fails ==
  /\ Doing("load")
  /\ \/ op.f # NONE /\ page_map_fails(op.p, op.at)
     \/ op.f = NONE /\ op.at # Top /\ UNCHANGED maps
  /\ lost' = lost \cup ({op.f} \ {NONE, 0})
  /\ op' = Idle /\ mode' = "wild"
  /\ UNCHANGED <<used, kern, user>>

(* The heap begins at the next page table boundary above the image's end,   *)
(* which lies in its last page or, when that page is full, just behind it.  *)
HeapBegins(img) ==
  {((m \div Tab + 1) * Tab) % NPages : m \in {Max(img), Max(img) + 1}}

exec_returns ==
  /\ Doing("load") /\ op.at = NONE
  /\ \E b \in HeapBegins(op.img) :
       /\ uheap_begin' = [uheap_begin EXCEPT ![op.p] = b]
       /\ uheap_end' = [uheap_end EXCEPT ![op.p] = b]
  /\ proc' = [proc EXCEPT ![op.p] = "live"]
  /\ op' = Idle
  /\ UNCHANGED <<used, maps, kern, lost, mode>>

(* pagefault_handler: the process runs without its code or its stack. *)
pagefault_handler(p) ==
  /\ Quiet /\ proc[p] = "live"
  /\ ~Present(p, UMem) \/ ~Present(p, Top)
  /\ mode' = "panic"
  /\ UNCHANGED <<used, maps, kern, user, op, lost>>

Ended == (mode # "run" \/ (Quiet /\ calls = MaxCalls)) /\ UNCHANGED vars

Loops ==
  \/ kvm_page_alloc \/ kvm_page_free
  \/ uvm_take \/ uvm_page_alloc \/ uvm_page_null \/ uvm_page_fails
  \/ uvm_page_free \/ uvm_page_crash
  \/ clone_skip \/ clone_take \/ clone_page \/ fork_returns
  \/ destroy_page \/ destroy_returns
  \/ clean_page \/ clean_ends \/ load_take \/ load_page \/ load_fails
  \/ exec_returns

Calls ==
  \/ \E n \in KHeap - KStack .. KStack - KHeap : ksbrk(n)
  \/ \E p \in Procs :
       \/ \E a \in Ends : uvm_brk(p, a)
       \/ \E n \in Incrs : uvm_sbrk(p, n)
       \/ \E q \in Procs : sys_fork(p, q)
       \/ fork_faults(p)
       \/ sys_exit(p)
       \/ task_destroy(p)
       \/ \E img \in Images : execve(p, img)
       \/ pagefault_handler(p)

Next ==
  \/ Loops /\ UNCHANGED calls
  \/ calls < MaxCalls /\ Calls /\ calls' = calls + 1
  \/ Ended

Spec == Init /\ [][Next]_vars

(* A call on the processor goes on: interrupts are off until it returns. *)
FairSpec == Spec /\ WF_vars(Loops /\ UNCHANGED calls)

----------------------------------------------------------------------------
(* Properties *)

TypeOK ==
  /\ used \subseteq Frames /\ lost \subseteq Frames
  /\ kmap \in [KPages -> Frames \cup {NONE}]
  /\ pmap \in [Procs -> [PPages -> Frames \cup {NONE}]]
  /\ \A p \in Procs : tabs[p] \subseteq 0 .. NPages \div Tab
  /\ kheap_size \in 0 .. KStack - KHeap
  /\ ksbrk_left \in KHeap - KStack .. KStack - KHeap
  /\ uheap_begin \in [Procs -> Pages] /\ uheap_end \in [Procs -> Pages]
  /\ proc \in [Procs -> {"none", "boot", "live", "dead"}]
  /\ op.f \in Frames \cup {NONE} /\ op.p \in Procs /\ op.q \in Procs
  /\ mode \in {"run", "panic", "wild"} /\ calls \in 0 .. MaxCalls

\* Where a frame can be: a page of the kernel, a page of a process, in hand.
InKernel(f)  == {a \in KPages : kmap[a] = f}
InProc(p, f) == {a \in PPages : pmap[p][a] = f}

\* No frame but 0, which frame_alloc returns when there is none, is in two
\* hands: two pages of one or of two address spaces, the kernel's and a
\* process's, or a page and the call that is about to map it.  So no process
\* sees another's memory, whatever the order of fork, exit, exec and heap
\* calls, with memory running out in any of them.
NoSharing ==
  \A f \in Frames \ {0} :
    /\ \A a, b \in InKernel(f) : a = b
    /\ \A p, q \in Procs : \A a \in InProc(p, f), b \in InProc(q, f) :
         p = q /\ a = b
    /\ InKernel(f) # {} => \A p \in Procs : InProc(p, f) = {}
    /\ op.f = f => InKernel(f) = {} /\ \A p \in Procs : InProc(p, f) = {}

\* The bitmap agrees with the maps: a frame but 0 is marked exactly when it
\* is mapped, in hand, or one of those the kernel is known to lose.  A frame
\* that is mapped is never handed out again.
Accounted ==
  \A f \in Frames \ {0} :
    f \in used <=> \/ f \in lost
                   \/ InKernel(f) # {} \/ op.f = f
                   \/ \E p \in Procs : InProc(p, f) # {}

\* The invariant of the frame bitmap, the page tables and the heap limits.
FramesSound == TypeOK /\ Accounted

\* exec starts the new program in an empty user space: when the cleaning loop
\* of execve has ended, code and stack of the old image are gone, although the
\* loop moves a page too far past each missing table.  Heap can be left only
\* above a table that is missing below it, which takes a fork short of memory.
CleanExec ==
  op.do = "load" /\ op.at = Top =>
    \A a \in UMem .. Top :
      Present(op.p, a) => a < UStack /\ \E b \in UMem .. a : ~HasTable(op.p, b)

\* Every call that goes page by page over an address space ends, although
\* its counter wraps at the last page.
CallsReturn == (op.do # "idle") ~> (op.do = "idle" \/ mode # "run")

\* What memory_map.md says of page 0: "Null page. Not mapped in."  Violated
\* by the first sbrk of a child of fork, whose heap begins at 0.
NullUnmapped == op.do = "idle" => kmap[0] = NONE

=============================================================================
