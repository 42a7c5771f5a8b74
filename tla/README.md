# A verification project for RazOS

RazOS is a small 32-bit operating system: a preemptive kernel (`kernel/`) and
a C library with a shell and a few programs (`rlibc/`).  This directory holds
TLA+ models of its parts, the TLC configurations that check them on small
instances, and TLAPS proofs of what can be said for every instance.

## 1. The system

### How the parts run

There is one processor.  User programs run with interrupts on and are
preempted by the timer (`drivers/isr.s`, `isr32`), which calls `sched_switch`.
A system call enters through `sysenter`, which turns interrupts off; it runs
to the end in one piece, except where it calls `sched_switch` itself
(`sys_wait`, `sys_sched_yield`, the blocking loops of pipes and FIFOs) and in
`read_stdin`, which turns interrupts back on while it waits for the keyboard.
So the interleavings that matter are those of whole system calls, of the parts
of the four calls that give up the processor, and of the keyboard interrupt
with `read_stdin`.  Nothing is persistent: the file system lives in memory, and
a crash ends in the endless loop of `panic`.

### Components

| component | state | operations | hard because | correct when |
|---|---|---|---|---|
| tasking, scheduler (`mm/task.c`, `task.s`, `syscall/sys_tasking.c`, `isr32`) | task table, parent links, wait queues, child counters, `cur_task`, `sched_halted` | fork, exit, wait, yield, timer tick | exits race with waits; pids and slots are reused; orphans change parent | no lost wakeup, queues hold exactly the dead children, someone is always ready, nobody starves |
| pipes (`fs/pipe.c`) | per pipe: reader and writer counters, block list, `read_at`, `write_at`, `st_size` | create, read, write, close; copied by fork and `F_DUPFD` | the counters do not follow the copies; readers loop over `sched_switch` with pointers taken before it; block arithmetic | deleted with the last user and not before, no end of file while there is a writer, bytes arrive in order |
| named FIFOs (`fs/fifofs.c`) | like pipes, plus open counters | open (blocking), read, write, close | opens block on each other; counters survive failed opens | opens pair up, counters equal the open descriptors |
| keyboard and stdin (`drivers/kb.c`, `fs/stdin.c`) | modifier state, ring buffer, `stdin_buf_size` | scancode interrupt, read | the interrupt runs between the instructions of `read_stdin`; the ring can be full | characters arrive once, in order, and are counted right |
| VFS and RAM files (`fs/vfs.c`, `fs/ramfs.c`, `do_fcntl.c`, `stat.c`, `initrd.c`) | node list, descriptor tables, file blocks | open, creat, close, read, write, lseek, fcntl, fstat | partial failures leave half-made nodes; block arithmetic | reads return what was written; a failed call changes nothing |
| kernel heap (`mm/kmalloc.c`, `mm/kvm.c`) | block list, heap end | kmalloc, kfree, kbrk | coalescing, alignment padding, shrinking | blocks tile the heap, no two live blocks overlap |
| physical memory and paging (`mm/paging.c`) | frame bitmap, page directories | frame_alloc, frame_free, page_map, clone | exhaustion, frame 0 as the error value, off-by-one pages | no frame in two hands, none lost |
| user memory (`mm/uvm.c`, `rlibc/stdlib/malloc.c`) | heap bounds, user block list | brk, sbrk, malloc, free, realloc | half-grown heaps, merging | as for the kernel heap |
| program loading (`loader/`) | user address space | execve | the old image is destroyed before the new one is checked | a failed exec returns to the caller |
| system call dispatch (`syscall/`) | table | dispatch | bounds of the table | every number reaches its handler |
| shell (`rlibc/rash.c`) | the line, the ends of its pipes, its children | fork, pipe, dup2, exec, wait | its processes work side by side on the same pipes; as process 1 it adopts orphans, which `wait` may return | commands are connected as the line says, the prompt comes when they have ended |
| terminal (`rlibc/term.c`) | one pipe, one shell | pipe, fork, dup, close, write | it ignores the result of `pipe`, its child holds a second copy of the read end, nobody closes at exit | the pipe outlives its users, the shell hears what is typed |
| environment (`rlibc/stdlib/env.c`, `setup_rlibc.c`, `crt0.s`) | `environ` | getenv, setenv, unsetenv, hand-over at exec | missing terminators, an array one pointer short | getenv returns what setenv stored |
| string functions (`kernel/lib/string.c`, `rlibc/string`) | `strtok`'s static pointer | copy, compare, search | overlap, ends of both arguments | as the C standard says |
| C library and drivers without state of interest (`stdio`, `math`, `time`, VGA, PIT, GDT, IDT) | none or hardware | pure functions, port I/O | - | not modelled |

## 2. The modules

| module | models | composed with |
|---|---|---|
| `Tasking` | task table, scheduler, fork, exit, wait, timer, halting of the scheduler | refines `Lifecycle` |
| `Lifecycle` | what a process goes through, without table, queues or counters | - |
| `Tasking_proofs` | theorems about `Tasking`, for every table size | extends `Tasking` |
| `PipeData` | the bytes of one pipe in their blocks | - |
| `Rash` | the shell: a line, its tokens, its commands, their processes and pipes, its children as process 1 | - |
| `Term` | the terminal, its pipe, the shell behind it and that shell's commands | - |
| `Term_proofs` | the terminal's pipe, for any number of commands and width of the counters | extends `Term` |
| `Pipeline_proofs` | what a pipe keeps of its bytes, for every block size; the shell sets up its pipelines as a line says, for every set of lines and number of orphans | extends `PipeData`, `Rash` |
| `Stdin` | the keyboard ring buffer, the interrupt against the reader | - |
| `Io_proofs` | the characters of the ring, the keys of the driver, the bytes and names of files | extends `Stdin`, `Keyboard`, `Vfs` |
| `Kheap` | kernel heap: node list, `do_kmalloc`, `do_kfree`, `ksbrk` | - |
| `Kheap_proofs` | the node list and its owners, for every page and heap size | extends `Kheap` |
| `Memory` | frame bitmap, page tables, kernel heap pages, brk, and the address spaces of fork, exec and exit | - |
| `Memory_proofs` | frames, bitmap and address spaces, for every layout and number of processes | extends `Memory` |
| `Keyboard` | `kb_handler` behind an external keyboard | - |
| `Fifo` | the ends of a named FIFO: waiting opens, counters, reads, writes | - |
| `Fifo_proofs` | the counters, for any number of processes and descriptors | extends `Fifo` |
| `Vfs` | node list, descriptors, RAM files, standard nodes, the initial RAM disk | - |
| `Env` | `environ`: getenv, setenv, unsetenv | - |
| `Exec` | what `execve` holds, the stack it builds, what `crt0` and `init_rlibc` read from it | extends `Env` |
| `Umalloc` | the user heap | - |
| `User_proofs` | what `execve` gives back and hands over, the environment, the user heap and the string functions, for every set of vectors, names, sizes and texts | extends `Exec`, `Umalloc`, `Strings` |
| `Strings` | the string functions over a memory of bytes | - |
| `MC_*` | instances for TLC | extend the module they are named after; three put components side by side that share no state here: `MC_Pipes` (`PipeData`, `Rash`, `Term`), `MC_Io` (`Stdin`, `Keyboard`, `Vfs`), `MC_User` (`Exec`, `Umalloc`, `Strings`) |

Operators whose names end in an underscore and a word (`sched_next_NoWrap`)
are deliberate mistakes: the form a plausible bug would give to the operator
below them.  No specification uses them; they serve to show that a property
would notice.

### How state and actions correspond to the code

**Tasking.**  `tasks[]` is split into one function per field: `state[p]`
(`"FREE"` where the slot is NULL), `ppid`, `children`, `wait_queue` (the linked
list of dead children, as a sequence), and the set `waiting` of tasks inside
the loop of `sys_wait`.  `cur_task` and `sched_halted` keep their names; `mode`
says whether the kernel runs, has panicked or was shut down.  Every system call
of `sys_tasking.c` is an action of its own, with its error returns as further
actions (`ForkFails`, `WaitNoChild`); `isr32` is the timer.  `sys_exit` does in
one step all that `task_kill` does, the reparenting, queueing, waking and the
switch included, as the code does with interrupts off.  A blocked `sys_wait`
is resumed by `WaitAgain`.  `ReadStdin` and `StdinReady` are the two ends of
`read_stdin` as the scheduler sees it.

**Term.**  `holds[p]` are the descriptors of a process for the terminal's pipe:
`fd[0]`, `fd[1]`, and descriptor 0 where it is the copy `dup` made.  `main` is
followed call by call, with the two results it does not look at: a `pipe` that failed
ends the behaviour at the first use of a descriptor (`goes_wild`), and a child whose
`execv` failed goes on in the terminal's code (`closes_input`, `reads`, `writes`).
Fork copies descriptors without counting them, exit drops them without closing,
and a command of the shell whose input is redirected closes a copy that nobody counted
(`job_redirected`).  `size_t` counters wrap (`Word`).  This shell is the child of the
terminal and not process 1: it adopts nobody.

**PipeData.**  `blocks[b]` is the b-th block that was allocated; `next`
pointers, freed blocks and uninitialised memory are explicit, so that the model
can follow a stale pointer and say so (`mode`).  The k-th byte written is the
number k.  Both loops of `write_pipe` are put in closed form: `At(i)` is the
block of the i-th turn, `m` the number of `kmalloc` calls that succeed.  A call that
would follow a pointer never set, NULL or one to a freed block ends the behaviour (`Crash`).

**Stdin.**  The interrupt is atomic (interrupt gate); `read_stdin` is split at
every access to a shared variable.  `read_at` and `write_at` are ordinary
variables, which an optimising build (the Makefile's `-O2`) keeps in registers
during the loop; `regs` holds them.  `stdin_buf_size` is volatile: it is
loaded and stored for each character.

**Kheap.**  Addresses count headers of 16 bytes.  `nodes[a]` is the header at
`a`, with its `next` and `prev`, which are followed and updated as in the code,
not derived from the order of addresses.  `ksbrk` moves the end by whole pages
and fails at `KSTACK_BEGIN`; exhaustion of physical frames never reaches it,
because `frame_alloc` reports it as frame 0, which `kvm_page_alloc` maps.

**Memory.**  Addresses are page numbers (the linker script keeps segments on pages of
their own), an image may end on a page or inside it (`HeapBegins`), `kmap` the pages whose tables all
directories share, `pmap[p]` the others.  A call runs in one piece in the
code; its loops go page by page here because `page_map` may need a page table,
and the `kmalloc` behind it takes frames from the same bitmap while the caller
has one in hand.  `op` is the call and its place.  `frame_alloc` returns frame
0 when memory is out, as in the code.  The frames the kernel is known to lose
are counted in a history variable, so that `Accounted` is an equality.

**Keyboard.**  `kb_handler` reads the byte at the head of `wire`; it is `Prefix`
when the byte is one after which the code returns, and `Decode` otherwise.
`flags` and `tempfl` are the sets of the bits' names; the operators of the handler
take them as `f` and `t`.  `KeyTable` is the keyboard of `refs/kb_ref.txt`, with the
keycodes of `kb.h`: 101 keys in families that go through the same cases of the
switch.  Only the two GUI keys and the menu key are left out, which `kb.h` names and
the handler does not know.  The keyboard itself is external: the keys are
pressed, repeated and released in any order, their bytes queued on `wire` ahead of
the interrupts.

**Fifo.**  A process waits in one of three loops (`pc`), each of which calls
`sched_switch` between two tests.  The header comes from `kmalloc` and its
counters are never set, so `mkfifo` chooses them from `Garbage`.  `clean`
records that nothing has happened that spoils the counters: garbage, a failed
open, a copied descriptor, an exit with open ends.  A creation that got no header
leaves NULL in `fifofs_nodes` (`"broken"`), one that got no first block the header it has
freed (`"dangling"`); `stat` of a FIFO is an open and a close.

**Vfs.**  `nodes` is the list from `vfs_root` on, `data[i]` the blocks that can
be reached from `ramfs_nodes`, `files` one process's descriptors.  `Written` and
`ByteAt` follow the two divisions of `ramfs.c`, the one by 0xFF and the one by
0x100.  `creat_vfs` has its failures with what they leave in the list.  `Laid` is the loop of
`mk-initrd.c` that lays out the image; `VfsInit` loads it as `init_initrd` does,
through `open_vfs`, `creat_vfs` and `write_vfs` with what they leave when memory runs out
(`Loads`, `Boots`).  The files of a disk have different names, as the Makefile's.  `want`,
`sane` and `risky` are history: the file as its writers understand it, whether it
was written as the code supports, and whether a call was made that may upset it.

**Exec, Env, Umalloc, Strings.**  `Exec` follows the kernel blocks and the
descriptor `execve` holds, with a failure at every allocation, and builds the
stack as bytes, which `_start` and `init_rlibc` read back.  Its two loops, over the
strings and over the pointers, are recursive functions of their turns.  A string of the
environment is a pair of name and value; what a block held before (`Stale`) stays in
front of and behind a value without a terminator.  `setenv` has each of its failures as a disjunct:
no array, no string for a new variable, none for a variable whose old string is freed, and
the `realloc` that copies to NULL.  `envMode` is `"wild"` from the moment a string
runs into the next header, or the NULL behind a full array is overwritten; what follows is not
defined.  `Umalloc` keeps the node list as a sequence, sizes in units of a header.  Its
calls go on after a free has left the last node's size untrue (`"stale"`): later
padding reaches to `heap_end` as the code computes it, and a `malloc` may hand out room behind
the break; a behaviour ends only when memory that is not there is used.  `Strings` writes
each loop of `string.c` as a recursive function of the place it has come to or of its
turns; the properties say by quantifiers what `string.h` promises.

**Rash.**  `rash_read_line`, `rash_split_line` and the loop of `rash_launch` are
recursive functions of the number of turns, over the characters and tokens; `over` and `wild` record writes past the
token array and reads of the NULL behind it.  From `do_commands` on, the shell
and its children take one system call at a time in any order, on pipes with the
counters `close_pipe` keeps.  The first shell is process 1: a process that ends gives it
its children (`task_kill`), which `children` does not count, and `wait` returns whoever
is first in the queue, or ECHILD when the count is 0.  Commands a line has left running
go on beside the next one (`strays`).

## 3. What is checked

| run | bounds | shows |
|---|---|---|
| `tasking` | 5 slots, counters modulo 8 | tree, queues, counters, wakeups, scheduler, refinement, starvation; 149 286 states |
| `pipes` | blocks of 4 bytes, 10 bytes in all; 2 lines of 22 kinds, pipelines of up to 3 commands, token array of 4, 2 orphans; 2 commands behind the terminal, counters modulo 4 | bytes counted and in order in the first block; commands wired as the line says, one `wait` for each; the terminal's pipe kept |
| `io` | ring of 4, reads of up to 2, 9 keys; 12 keys of all kinds, 8 bytes ahead, 3 strokes; blocks of 4 bytes, 4 descriptors, 3 calls behind the loading of a disk of 2 files | order, no overcount, unset bytes only from a full ring, reads return; decoded as typed, no modifier hangs; files read back, plain calls safe, names stable; 1.0 million states |
| `kheap` | pages of 4 units, heap of 5 pages, 3 request sizes and one that never fits | tiling, ownership, merging, last node free |
| `memory` | 10 frames, tables of 4 pages, 24 pages, 2 processes, 5 calls | no frame in two hands, bitmap exact, clean exec, every loop ends |
| `fifo` | 2 processes, 2 descriptors each, blocks of 1 byte, 4 opens and copies | counters exact, opens meet, reads learn of the end |
| `user` | vectors of up to 3 strings, 3 variables in an array of 2, heap of 5 pages, memory of 6 bytes | arguments, environment, heap, strings; 1.5 million states |
| `pipe_bytes`, `shell_pipe`, `shell_wait`, `user_heap`, `user_strings` | as `pipes` and `user`, one component each | expected violations, see section 5 |

**tasking.**  `QueueHoldsTheDead` and `ChildrenCounted` tie
parent links, queues and counters together; `NoLostWakeup` says that a task
blocked in `sys_wait` has no dead child in its queue, whichever way exit and
wait interleave; `NoCycle` and `SomeTaskReady` rule out the panic of
`sched_next`; `ImplementsLifecycle` is the refinement.  `StarvationFree` and
`WaitReturns` are the liveness properties.  Five slots allow a grandparent,
parent, child and sibling beside pid 1, pids reused while others still wait, and
chains of orphans; each property's mutant is found within them.

**pipes.**  Ten bytes in blocks of four fill a second block and reach a third, so
that blocks are read to their end and freed, writes start at the last byte of a block
and behind it, and `kmalloc` fails at each block of a write.  What holds there is `InOrder`
and `PendingInPlace`: nothing is lost to the counts, and the bytes of the first block but its last
come out in order whatever is written behind them.  That the others do not is the
run `pipe_bytes`.  The lines of the shell have words, quotes, escapes and backspaces, redirections
in several orders, and senseless ones; each comes with what it asks for, and
`CommandsWired` compares.  `LineDone` counts what a line leaves behind.  Two orphans are enough
for a `wait` to return one in a command's place twice, and for the command left over to end
during the next line.  The terminal's pipe is a case of its own: its shell holds two
copies of the read end, each command another two, and `readers` goes through 0 and wraps;
with counters modulo 4 it does so within two commands.

**io.**  The ring lets typing be a whole ring ahead (`MaxAhead = Ring`); one character
further and unread characters are overwritten.  `RingSound` is order, the bound
on the count and the place of unread characters in the ring.  Nine keys go round
the ring of four twice.

The keys are one of each kind the handler tells apart: both
shifts, both controls, two locks, a letter, a symbol, a keypad key, an extended
key, print screen and pause.  The one case the handler gets wrong is in the
properties: print screen released under a held left shift (`unshifted`).

A block of four bytes has its divisions disagree at offset 3, as those of 256 do at
255.  The disk has a file of more than a block and one whose name is cut, and is loaded whole
or until memory runs out; three calls then extend a file over a block's end and read it back, or
break one in any of the ways `risky` lists.

**kheap**: five pages are needed for an aligned block with padding on both
sides, and for the shrinking of `do_kfree`, which starts above two pages.
`ListSound` is the shape of the node list, `BlocksKept` the owners' view.

**memory.**  Ten frames run out in the middle of a clone, a load, a brk or the
kernel heap's growth; two processes of two page tables each are enough for a
fork into a reused slot and for tables that are missing in between.  `NoSharing` excepts
frame 0, which the code hands out when there is no other.  `CallsReturn` is about
the loops whose counter wraps at the end of the address space.

**fifo.**  With blocks of one byte every read frees blocks.  The properties name
what spoils the counters, so they say what the code can be relied on for:
without those, `readers` and `writers` are exact.  `OpensMeet` and `ReadEnds` speak of the processes that
have an end open or wait for one, not of the counters the loops look at.

**user.**  `ArgumentsArrive` compares the vectors passed to `execve` with what
`main` gets, `EnvKept` what `getenv` returns with what was set, through every failed
allocation of `setenv`: a failed rewriting may lose variables, and no call gives
one another's value or an older one.  An array of two pointers that takes three
variables is full, overrun and resized.  `BlocksOwned` goes on after the free that
leaves the last node's size wrong; `HeapTiled` ends there.  The other exceptions
the code has are in the comments of the properties; with those removed each of them is
violated.  The strings are checked on every memory of six bytes, so with all overlaps;
where the code departs from `string.h`, `LooksRight` and `CopiesRight` say nothing
rather than repeat the code.

### Fairness

* `Tasking!FairSpec`: weak fairness of `isr32`, because the timer interrupt
  comes whenever a task runs with interrupts on, and of `WaitAgain`, which is the
  continuation of a system call on the processor.  No fairness is assumed of
  programs: they may never exit or wait.  The properties except runs that end
  in a panic or shutdown, and those in which a keyboard read holds the
  scheduler.
* `Stdin!Spec` (and `MC_Io!IoSpec`): weak fairness of the reader's instructions: it is the only
  task that runs, and interrupts return to it.  None of the keyboard.
* `Memory!FairSpec`: weak fairness of the steps inside a call's loop, which
  nothing interrupts.  None of the calls themselves.
* `Fifo!FairSpec`: weak fairness of a waiting process's next test, which is
  `StarvationFree` of `Tasking` for a task that is ready in its loop.  Nobody is assumed to open, write or close.

`pipes`, `io` and `user` do not check for deadlock: they may stop when the bound on
strokes, calls or lines is reached, when the shell has exited, when the kernel has
panicked, and where memory was used that is not there.

## 4. What is proved

Eight modules hold proofs; `User_proofs` is about four components, `Exec`, `Env`,
`Umalloc` and `Strings`, `Io_proofs` about `Stdin`, `Keyboard` and `Vfs`, and `Pipeline_proofs`
about `PipeData` and `Rash`; the components of one module share no state.  Each theorem holds for every value of the constants that satisfies the component's named assumption; none depends on
the bounds of the runs.

| theorem | says | beyond the module's assumption |
|---|---|---|
| `Tasking_proofs` | | |
| `TypeCorrect` | `Spec => []TypeOK` | |
| `InvariantHolds` | `Spec => []IInv` | |
| `SchedulerNeverPanics` | `Spec => []SomeTaskReady` | |
| `QueuesCorrect`, `CountersCorrect`, `WakeupsCorrect`, `TreeCorrect` | the invariants of the run `tasking`, and that every task has a living parent | |
| `Refinement` | `Spec => ImplementsLifecycle` | |
| `Term_proofs!PipeOutlivesUsers` | `TermSpec => []LineKept` | |
| `Term_proofs!ShellHears` | `TermSpec => []Heard` | |
| `Pipeline_proofs!FirstBlockInOrder` | `Spec => []InOrder` | |
| `Pipeline_proofs!FirstBlockKept` | `Spec => []PendingInPlace` | |
| `Pipeline_proofs!PipelinesWired` | `RashSpec => []CommandsWired` | every line is `Understood` |
| `Pipeline_proofs!LinesEndClean` | `RashSpec => []LineDone` | every line is `Understood` |
| `Fifo_proofs!CountersCorrect` | `Spec => []CountersExact` | |
| `Io_proofs!RingCorrect` | `Spec /\ []Within => []RingSound` | `Within`: typing is at most a ring ahead |
| `Io_proofs!MissesOnlyWhenFull` | `Spec /\ []Within => UnsetOnlyWhenFull` | `Within` |
| `Io_proofs!KeysUnderstood` | `KbSpec => []Decoded` | |
| `Io_proofs!ModifiersStayTracked` | `KbSpec => []ModifiersTracked` | |
| `Io_proofs!ReadsInPlace` | `VfsSpec => []InPlace` | |
| `Io_proofs!PlainCallsStaySafe` | `VfsSpec => []PlainCallsSafe` | |
| `Io_proofs!NamesStayStable` | `VfsSpec => NamesStable` | |
| `Memory_proofs!FramesNeverShared` | `Spec => []NoSharing` | |
| `Memory_proofs!FramesAccounted` | `Spec => []FramesSound` | |
| `Memory_proofs!ExecStartsClean` | `Spec => []CleanExec` | `FewTables` |
| `Kheap_proofs!ListStaysSound` | `Spec => []ListSound` | |
| `Kheap_proofs!BlocksStayKept` | `Spec => []BlocksKept` | |
| `User_proofs!ExecGivesBack` | `Spec => []NothingHeld` | |
| `User_proofs!ArgumentsAlwaysArrive` | `Spec => []ArgumentsArrive` | |
| `User_proofs!EnvironmentKept` | `Spec => []EnvKept` | `NoValueIsNull` |
| `User_proofs!HeapStaysTiled` | `HeapSpec => []HeapTiled` | |
| `User_proofs!BlocksStayOwned` | `HeapSpec => []BlocksOwned` | |
| `User_proofs!TokensFound` | `StrSpec => []TokensSplit` | |
| `User_proofs!LooksAreRight` | `StrSpec => []LooksRight` | |
| `User_proofs!CopiesAreRight` | `StrSpec => []CopiesRight` | |

### Tasking

The assumptions are a table of at least one slot, and a counter type that can
count the table.  The inductive invariant `IInv` is the type invariant, the facts about the
tables (`ParentAlive`, `QueueHoldsTheDead`, `ChildrenCounted`, `NoLostWakeup`,
`NoCycle`, and `FreeZeroed`: a free slot has no parent and no child), `CurrentReady` and `SomeTaskReady`.  None of these is inductive
alone.  `SomeTaskReady` is the interesting one.  When the last ready task calls
`sys_wait`, it blocks only with a living child and no dead one.  If all its
descendants were blocked as well, each would have a living child among the
blocked tasks; but `NoCycle` says that every non-empty set of live tasks has a
member without a child in the set.  In this form, quantified over sets,
absence of cycles is preserved by fork (a new task has no children), by exit
(orphans move to pid 1, which is nobody's child) and needs neither a birth
order nor induction over the tree.  That `sched_next` finds a task, given that
there is one, uses the least element of a set of naturals
(`WellFoundedInduction`'s minimum of a well-founded order).

The refinement maps a slot to its abstract stage and the queue of a parent to
the set of dead children nobody has collected.  Steps of the scheduler stutter,
and `IInv` shows that a reused slot was empty in the abstract state too.

### Pipes and FIFOs

`LineKept` does not say why the pipe lives.  `TermInv` does: `writers` is 2 until the
child has closed its write end and 1 from then on, because commands inherit no write
end and the terminal never closes its own (`WriteEnds`); so close_pipe's test for both
counters at 0 fails whatever `readers` has come to.  `ReadEnds` says what `readers` is as
long as no command has closed a copy, `Order` which of the two forks and closes come
first, `NotMade` that nobody holds an end of a pipe that was not made.

`FifoInv` needs beside `CountersExact` that a process that is gone is not inside a
call, and that nothing is open before the FIFO exists.  The exceptions are those
of the property: garbage at the start, failed opens, copies, and exits with ends
still open.

`FirstBlockInOrder` and `FirstBlockKept` have no bound on the bytes.  `DInv` says that the
counts agree, and that, until the reader has passed the first block, `write_at` is the number of
bytes written and those to come lie in the first block where the reader will look.  The
hard case is a write whose walk ends anywhere in the list: it does not end at the
first block unless it stays there (`WalkLeaves`), because no `next` ever points to it.
That is all that can be said: from the last byte of the block on, `BytesInOrder` is violated.

### Standard input

`Within` says that the characters typed and not yet read never exceed the ring.
Nothing in `push_stdin` ensures it, and without it unread characters are
overwritten, so the theorems take it as an assumption on the behaviour (the run
has it as a bound, `MaxAhead = Ring`).  The inductive invariant `RInv` has three parts: `Positions`
(the two positions are the numbers of characters read and typed, modulo the
ring, and each unread character is in its slot), `Counting` (the count, with the
character that is being popped, promises no more than is there) and `Snapshot`
(the registers of `read_stdin` are the positions at some earlier time since its
loop began, so that the reader is at most late).  `Snapshot` is what lets an
interrupt fall between any two instructions.

### Keyboard

The assumption is that the keys are keys of `KeyTable`.  What has been decoded and
what has been struck differ by the bytes on the wire, so neither `Decoded` nor
`ModifiersTracked` is inductive.  `KbInv` looks ahead: the bytes on the wire lead the
driver, from the state it is in, to one in which it has decoded all that was
struck, waits for no more bytes (`tempfl` is empty) and has the flags of the keys
that are down and the locks that are on (`Agrees`).  "Leads" is a path of states
under `Step`, the handler as a function of a byte, so that no induction over the
wire is needed: reading a byte takes the first state off the path, a key adds its
bytes to the end.  That every packet on the way is one of those at the end gives the
prefix of `Decoded`, and an empty wire means that the driver is at the end.

The work is in `EveryKey`: whatever flags agree with the keys that are held, the
bytes of a key going down or up take the driver to flags that agree again, and to
a packet with the keycode and the legend that shift, caps lock and num lock select.
There is one lemma per family (`MakesMod`, `MakesLock`, `MakesChar`, `MakesPad`,
`MakesFixed`, `MakesMute`, `MakesPrintScreen`, `MakesPause`), which rest on what the
two character tables and the cases of the switch hold for that family (`CharIs`,
`PadIs`, `FixedIs`, `MuteIs`).  The exception `unshifted` is needed in one place only:
print screen's release ends in E0 AA, whose AA the handler takes for the left shift.

### Files

The assumptions are blocks of two bytes or more (the code divides by the size less
one), descriptors that leave room for the standard ones, and initial RAM disks of
any number of files of any length.  `FsInv` has three parts.  `StoreOk` says of every
file that was written from start to end that byte k lies in block k / 256 at place
k % 256, which is not how `ramfs.c` computes it: `Agree` is the condition under which the
division by 255 gives the same block, `PlaceIs` what follows from it for a whole
transfer, and `WrittenIs` what a write leaves of the blocks, with or without the one
linked behind them.  `SafeOk` says that, while nothing risky has happened, every
file has a block behind its last byte; that is the block the next write starts in, and
without it `PlainCallsSafe` would fail at a file that ends with a block.  `FilesOk`
says that descriptors point to nodes, and into their file.  The initial state is
the hardest: `LaidGood` shows that `mk-initrd` lays out every disk so that each file is
where its node says (by the least number of files for which it would not), and
`DiskBlocks` that the one write of `init_initrd` brings it into the blocks, and `LoadsOk` that the
invariant also holds of what a creation or a write that ran out of memory leaves.

`NamesStable` is an action property: `NamesStep` shows that no step renames a node or
inserts one before another, `LookupStays` that the first node of a name then stays
the first.

### Memory

`Placed` generalises `NoSharing` and `Accounted` to a relation between bitmap, lost
frames, maps and the frames a call has in hand; every change of a map is one of a few moves of
that relation (map, unmap, move, copy), each a lemma.  `MInv` adds what the moves
need: that `ksbrk` is never asked for more than there is
(`KernSound`), which loops hold a frame and where (`HandSound`,
`OpSound`), that pages not yet copied, done with, or of a process that does not
exist are not present (`Absent`), and that a page is
mapped only under a table (`TabsCover`).  `CleanExec` needs more: that a process has at most
one stack page (`OneStackPage`), that a fork copies only what the parent has (`CopiesPresent`) and how far the
cleaning loop has come (`CleanSoFar`).  `FewTables` says that the user space takes
at most as many page tables as a directory has entries, `Tab` of `Tab` pages each:
1024 of 1024 in the code, where it is true of any 32-bit address space.

### Kernel heap

`HeapAssumption` says that the heap is made of whole pages and that its base is not above its limit.  `Tiled` is not inductive: it does not exclude a node whose header lies
inside another node, in which case splitting would overwrite it.  `KInv` therefore
says `Abutting` in a stronger form, that no node begins inside another, besides
the links in both directions (`Linked`), `Merged`, `LastFree` and the owners' view
(`Owned`).  The loops of `do_kmalloc` and `do_kfree` are walks along `next`;
`Chain` is a recursive function, and the proof that it visits every node and ends
at the last one goes by the least address it misses.  The operations on the list
(`split`, `unify`, the carving of an aligned block, the merging of both neighbours) each have a
lemma that takes a well-formed list to a well-formed list, and the growth and the shrinking of the
heap have their page arithmetic.

### Program loading, environment and user heap

`NothingHeld` speaks only of the moments when `execve` is over.  `XInv` says at every
place of the call which blocks are held (`Held`, a function of the place alone)
and that all others are left over from a copy that ran out of memory
(`BlocksSound`), how the descriptor table differs from the one the call found
(`FilesSound`), and that only an empty vector leads astray (`WildOnlyEmpty`).

`ArgumentsArrive` compares what is pushed byte by byte with what is read word by
word and string by string, and says so only in `main`, when `init_rlibc` has overwritten
the = of every string of the environment.  The assumptions are those of the
machine and of C: `Top` is an address of 32 bits, the mapped part of the stack lies
below it, a string holds characters other than zero, and a string of the
environment has a = behind its first character.  `VectorPushed` says what one
vector is on the stack: pointers in order with a zero word behind the last
(`Pointing`), each string whole at its address (`Holding`), the strings apart from
each other and on the far side of the pointers, and nothing that was there before changed
(`Grows`).  `VectorRead` and `StringRead` say that such bytes are read as the vector
and its strings; a pointer is not taken for the end, because it is not zero below
`Top`.  `AInv` keeps this layout for both vectors while `init_rlibc` works, with the strings it is
done with left out: the zero it writes lies in the string it reads, so neither in a later string,
nor among the pointers, nor in the arguments (`RestKept`, `PointingKept`,
`HoldingKept`).  `EnvIs` says that `environ` then has no variable twice, only variables of those strings, each with the
value of the last of them, and all of them unless a `setenv` failed.

`VInv` says of each variable that its first entry in `environ`, the one `setenv`
rewrites, has one of the values the calls so far allow (`envSet`: one value, or none as well where a
failed rewriting may have hidden it); that `getenv` finds this entry follows when
the name begins no other.  The specification is the one of `Exec`, so the
theorem covers the environment a new program gets from its predecessor.
`NoValueIsNull` says that the constant `NoValue`, which stands for a NULL pointer, is
no part of a string; TLC's model value is none.

The user heap is a sequence of nodes whose addresses are sums of sizes.  `Ends` is
a recursive function; `EndsAre` shows that it exists, by the least length for
which it would not.  `UInv` does not follow the sequence but the set `Res` of triples (place,
size, owner) of the reserved nodes: `RewriteRes`, `SplitRes` and `JoinRes` say that
rewriting, splitting and joining nodes changes this set by at most the triple
concerned, and every call is a composition of these.  `Owned` relates the set to what
the program was told.  It is stronger than `BlocksOwned` in that no node is
left with the name a growing block has on its way.  A grown block of `realloc` is the hard case: for
a moment the block has two triples, and the old one must be the one that goes.
Ownership is proved in every mode: after a free that left the last node's size wrong
the calls go on, and the only triple that may then be smaller than its owner thinks is that of the last
node (`Excused`).  `HeapTiled` only says something before that.

### Strings

What the functions of `string.c` compute is proved for memories of every size and
content.  Each loop gets a closed form: a search finds `FirstOf` or `LastOf` the places
it looks for, a comparison leaves at the first difference (`LoopLeaves`), a copy
turns the memory into `Blit` of it (`LoopWrites`, `CopiedIs`, `MovedBack`).  The proof of one is in
two parts.  The closed form satisfies the loop's equation, so that there is a
function that does; and whatever satisfies it is the closed form, by the least
turn (`EveryTurn`) or the last place (`EveryPlace`) at which it would not be.  This takes the place
of an induction principle.  Everything rests on `Length`: `strlen` counts
to the first zero, and the byte at the end of the memory is one.

`StrstrFirst` is the least obvious of them.  The inner loop of `strstr` compares the
terminator of the sought string as well, and `strstr` takes a difference just there, and
nowhere else, for a match (`MismatchIs`); so it finds the places where more
characters follow.  `StrstrFinds` draws from it what `string.h` can be held to: what it finds is the
first occurrence, and it finds one whenever there is one before the end.  `strspn` adds up the pairs of equal
characters; that this is the length of the initial portion where no character of `str2`
is repeated or comes back (`SpanClear`) is a counting argument.  For `strncmp`, which
compares the lengths of the rests at every place, the case to exclude is a difference at the end of the
shorter string: the lengths have decided before.

`TokensSplit` speaks of the moment when `strtok` has returned NULL.  `StrIInv` says of
every call that the text from the static pointer on is still the original one
and does not begin within a word (`RestAt`), and that the results so far are the words in
front of it in their order (`FoundTo`).  `NextWord` shows that the zero a call writes is
behind the word it returns and in front of the rest, so that no later call sees it.

### Shell

A line is given as the keys that are typed together with what they ask for.
`Understood` says of one line that reading, splitting and taking it apart finds the
commands, arguments and files it asks for; it is a fact about one line and the
three parsing functions, without any state, and what these compute for every line is an
induction over data.  So TLC evaluates it for the lines of the instance
(`LinesUnderstood` in `MC_Pipes`), and the theorems take it as a hypothesis and are
about the rest: everything from `do_commands` on, for any number of commands, pipes
and descriptors.

Neither invariant is inductive: `CommandsWired` speaks of programs that run, `LineDone` of
the prompt.  `RashInv` says how far each process is with its descriptors
(`KidFine`): it starts with all ends of all pipes at the places `pipe` gave, then has
its standard output, then its standard input, and while it closes the rest no end
is anywhere but at a place still to be closed (`OnlyAt`), so that none is left
when there is nothing more to close (`NoEnds`).  The same is said of the shell
(`ShellFine`).  That the `2 * m` descriptors of m pipes are different ones
(`PipesOk`) follows from `get_free_fd` giving one that is not in use (`NewPipe`).
Pipes that were deleted too early do not matter to either: `close_pipe` changes no
descriptor, and a close of a pipe that is gone stops the machine.

For `LineDone`, `FamilyFine` follows the shell's children.  Running strays, the queue and the
running commands together are `children` and the orphans adopted so far (`Balanced`): fork and
`wait` change both sides, `task_kill` moves a process from one place to another or adds
an orphan to both.  During the forks `children` is the number of commands and during the waits
the number of calls left (`Phase`), so no call meets ECHILD and the count is 0 at the
prompt.  `QueueFine` says that the dead commands of the line are in the queue, each
once; without orphans nothing is left of it.

The third part of `LineDone` is about the array of tokens.  `OverflowIsLong` shows
for every line, understood or not, that a token is written past the array only with
more tokens than `ArgBuf`, and `PartsKeepLength` that the loop of `rash_launch` keeps
their number.  Both are about loops over a line and still need no induction principle
of the library: `LoopRuns` and `TurnsKeep` argue with the least turn for which
they would be false.

### Only model-checked

* Liveness (`StarvationFree`, `WaitReturns`, `ReadReturns`, `ReadEnds`, `CallsReturn`,
  `OpensMeet`): the prover has no rules for fairness and `ENABLED`.
* That the shell reads every line as it is meant (`Understood`, and with it the hypothesis
  of `PipelinesWired` and `LinesEndClean`): an induction over the characters.

## 5. Where code and documentation disagree

Five runs state what a comment or a header says, and TLC finds it violated.

* `shell_pipe`, the one that costs most: `creat_pipe` counts two holders of each end, but
  a shell with a pipeline has three processes or more, each of which closes both
  ends, while the copies the commands work with are not counted.  So the pipe is
  deleted under the comment "No readers and writers left" while the commands are connected to it.
* `pipe_bytes`: "Find the location where we can start writing" (pipe.c:108), but
  block and offset are computed with different divisors; from the last byte of a block on the
  reader gets bytes that were never written, or meets a freed block.
* `shell_wait`: "Launch a program and wait for it to terminate." (rash.c:126).  Once a
  program has left a child behind, a call of `wait` may return that one, and the shell
  prompts with a command still running.
* `user_heap`: "so at least a heap_node_t struct with size 0 fits in the padding"
  (malloc.c:56).  After the free of a last block behind a free one, the last node is larger
  than the memory `brk` has left, and the padding of the next `malloc` is written behind it.
* `user_strings`: "Move block of memory of size [num] bytes" (string.h:28); `memmove` to a
  higher address leaves out the first byte.

The following configurations state further promises that the code does not keep.
They are not in the list of runs; TLC finds each of them violated.

| configuration | module | property | |
|---|---|---|---|
| `MC_TaskingRead.cfg` | `MC_Tasking` | `ReadersYield` | a process that reads the keyboard halts the scheduler; the manual (doc/chapters/kernel.tex:292) says it gives up its turn |
| `MC_TaskingCount.cfg` | `MC_Tasking` | `NumberOfChildren` | adopted children are not in `children` of pid 1, "Number of children" (mm/task.h:80); its `wait` reports ECHILD with zombies of its own |
| `MC_IoCount.cfg` | `MC_Io` | `CountExact` | a key that arrives inside `stdin_buf_size--` is never counted |
| `MC_KheapAlign.cfg` | `MC_Kheap` | `PageAligned` | `kmalloc_pa` can return a block that is not page aligned, against kmalloc.c:62 and :241 |
| `MC_MemoryNull.cfg` | `MC_Memory` | `NullUnmapped` | memory_map.md calls page 0 "Null page. Not mapped in."; the first sbrk of a forked child maps it, its heap begins at 0 |

What the modules model besides, and the properties name as exceptions:

* pipes and FIFOs: after a block was read to its end, `hdr->data` still points to
  it (`mode = "uaf"`; `Fifo!HeaderKept` states the opposite); each `write_pipe`
  allocates a new block, full or not, and drops the one allocated by the call before;
* the terminal: a `pipe` that failed is used, a child whose `execv` failed goes on as a
  second terminal, and `main` returns without closing the write end, so that its shell
  never sees an end of file;
* FIFOs: counters are never initialised, and stay up after an open that fails; a creation
  without memory for the first block leaves a freed header in the table;
* files: positions where `/ 0xFF` and `% 0x100` differ, writes that are not at the
  end (the rest of the file is lost, and `st_size` grows all the same), seeks out
  of the file, `fstat` of a closed descriptor, half-made nodes;
* frames: one is lost for each page the kernel heap shrinks by, frame 0 is shared
  when memory is out;
* `execve`: blocks and a descriptor leak on three of its error paths;
* the environment: values without terminator, a NULL behind the array every
  fourth variable, a name that begins another finds the other's value, a failed
  rewriting hides all variables behind the one it was to change;
* the user heap: `calloc` and `realloc` use what `malloc` returned without looking, and
  after a stale free that may be room the kernel has not given;
* strings: `memmove` upwards leaves out the first byte, `strstr` misses a match at
  the end, `strspn` counts pairs of equal characters, `strncpy` and `strcat` write no
  terminator, the sign of `strcmp`;
* the shell: a token array one entry short, a redirection at the end of a line.

## 6. Not modelled, and the plan

The component list of `PROJECT.json` names every part with its status.  Left out
for good:

* boot, descriptor tables, timer set-up, console and VGA: a fixed sequence and
  port I/O, without a choice a model could explore;
* formatted output (`vdprintf.c`, `vsprintf.c`), numbers from strings, sorting,
  calendar: functions of their arguments, better served by unit tests;
* mathematics: floating point is beyond TLC;
* the dispatch table and register conventions of system calls;
* the drawing of `term.c`;
* `pipes[]`, `fifofs_nodes[]` and `ramfs_nodes[]` are arrays of one element (pipe.c:31): which
  data the second inode overwrites is up to the linker.  The modules give every inode an entry.
* image segments that share a page: the linker script aligns them (`Memory`).

The bump allocator that serves `kmalloc` before paging is set up has no free, and
runs once in a fixed order.

Abstractions that hold throughout: one processor; system calls are atomic
between the points where they give up the processor or turn interrupts on;
a kernel page fault or general protection fault ends in `panic`; use of freed or
uninitialised memory ends a behaviour in a mode of its own, since anything
could follow.

What could come next: `Rash` on top of `Tasking`, so that its wait queue is the
kernel's and not a copy of its rules; a pipe's waiting readers as processes, with the liveness
of the terminal's end; and `Fifo` with the bytes of `PipeData`.
