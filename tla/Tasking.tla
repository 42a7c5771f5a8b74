------------------------------ MODULE Tasking ------------------------------
(***************************************************************************)
(* The task table and scheduler of the kernel: mm/task.c, mm/task.s, the   *)
(* tasking system calls of syscall/sys_tasking.c and the timer interrupt   *)
(* isr32 of drivers/isr.s.                                                 *)
(*                                                                         *)
(* sysenter clears the interrupt flag, so a system call runs without       *)
(* interruption up to the points where it calls sched_switch itself; the   *)
(* timer only preempts user code.  Hence one action per system call, and a *)
(* second one, WaitAgain, for the part of sys_wait behind its              *)
(* sched_switch.  The one call that turns interrupts back on is            *)
(* read_stdin, which halts the scheduler first: ReadStdin .. StdinReady.   *)
(*                                                                         *)
(* The list of killed children hangs off the parent's wait_queue field and *)
(* is threaded through the same field of the dead tasks; it is modelled as *)
(* the sequence of the pids on it.  A freed slot holds zeroes, what memset *)
(* in alloc_empty_task leaves there.                                       *)
(***************************************************************************)
EXTENDS Integers, Sequences, FiniteSets

CONSTANTS MaxPid,   \* countof(tasks) - 1, 255 in the code
          Word      \* the number of values of uint32_t, 2^32 in the code

ASSUME TableAssumption == MaxPid \in Nat \ {0}
ASSUME WordAssumption  == Word \in Nat /\ Word > MaxPid

VARIABLES
  state,         \* task->state; FREE when tasks[pid] == NULL
  ppid,          \* task->ppid
  children,      \* task->children, a uint32_t
  wait_queue,    \* pids on task->wait_queue, oldest death first
  waiting,       \* tasks whose saved eip is inside sys_wait
  cur_task,      \* the running task
  sched_halted,  \* TRUE while read_stdin keeps the scheduler stopped
  mode           \* "run", or what stopped the machine

vars == <<state, ppid, children, wait_queue, waiting, cur_task,
          sched_halted, mode>>

tables == <<state, ppid, children, wait_queue>>

Pid    == 1 .. MaxPid
States == {"FREE", "READY", "BLOCK_WAIT", "EXITING"}

\* "off": shutdown(); "fault": a NULL task is dereferenced or kmalloc fails;
\* "noready": the panic of sched_next.
Modes  == {"run", "off", "fault", "noready"}

----------------------------------------------------------------------------
(* Helpers *)

Least(S)    == CHOOSE x \in S : \A y \in S : x <= y
Elems(q)    == {q[i] : i \in 1 .. Len(q)}
Minus(c, n) == (c + Word - n) % Word            \* uint32_t subtraction
Plus(c, n)  == (c + n) % Word

ReadyIn(st) == {p \in Pid : st[p] = "READY"}

\* Mutants of sched_next: no second loop, NULL past the end of the table; and
\* a scan that always starts at pid 1.
sched_next_NoWrap(st) ==
  LET behind == {p \in ReadyIn(st) : p > cur_task}
  IN  IF behind # {} THEN Least(behind) ELSE 0

sched_next_FromOne(st) == Least(ReadyIn(st))

\* Round robin: the first ready task behind the current one, then from pid 1
\* up to and including the current one.
sched_next(st) ==
  LET behind == {p \in ReadyIn(st) : p > cur_task}
  IN  Least(IF behind # {} THEN behind ELSE ReadyIn(st))

\* sched_switch with the task states st; sched_next panics on no ready task.
sched_switch(st) ==
  /\ cur_task' = IF ReadyIn(st) # {} THEN sched_next(st) ELSE cur_task
  /\ mode' = IF ReadyIn(st) # {} THEN mode ELSE "noready"

Running == mode = "run" /\ ~sched_halted

\* The current task runs user code: interrupts are on, it may trap.
UserMode == Running /\ cur_task \notin waiting

----------------------------------------------------------------------------
(* task_init: the first task, pid 1, with no parent. *)
Init ==
  /\ state = [p \in Pid |-> IF p = 1 THEN "READY" ELSE "FREE"]
  /\ ppid = [p \in Pid |-> 0]
  /\ children = [p \in Pid |-> 0]
  /\ wait_queue = [p \in Pid |-> <<>>]
  /\ waiting = {}
  /\ cur_task = 1
  /\ sched_halted = FALSE
  /\ mode = "run"

(* The lowest free pid, for the child. *)
FreePids         == {p \in Pid : state[p] = "FREE"}
alloc_empty_task == Least(FreePids)

task_fork_inner(pid) ==
  /\ state' = [state EXCEPT ![pid] = "READY"]
  /\ ppid' = [ppid EXCEPT ![pid] = cur_task]
  /\ children' = [children EXCEPT ![cur_task] = Plus(@, 1)]

(* sys_fork: the child returns to user code when it is first scheduled;    *)
(* the parent goes on without a switch.                                    *)
sys_fork ==
  /\ UserMode
  /\ FreePids # {}
  /\ task_fork_inner(alloc_empty_task)
  /\ UNCHANGED <<wait_queue, waiting, cur_task, sched_halted, mode>>

(* sys_fork with a full table dereferences the NULL of alloc_empty_task    *)
(* (the null page is not mapped: a page fault, which panics); with no      *)
(* memory for the task_t, alloc_empty_task panics itself.                  *)
ForkFails ==
  /\ UserMode
  /\ mode' = "fault"
  /\ UNCHANGED <<tables, waiting, cur_task, sched_halted>>

(* task_kill of the current task t: destroy the dead children on its       *)
(* queue, give its other children to pid 1, append t to its parent's queue *)
(* and wake the parent if it is blocked in sys_wait.  task_destroy         *)
(* decrements the counter of the ppid of each task it frees; reparenting   *)
(* touches no counter.  One operator per field of the table.               *)

\* Mutants: the parent is not woken; the dead children are not destroyed.
StateAfterKill_NoWake(t) ==
  [p \in Pid |->
     IF p \in Elems(wait_queue[t]) THEN "FREE"
     ELSE IF p = t THEN "EXITING" ELSE state[p]]

StateAfterKill_KeepDead(t) ==
  [p \in Pid |->
     IF p = t THEN "EXITING"
     ELSE IF p = ppid[t] /\ state[p] = "BLOCK_WAIT" THEN "READY"
     ELSE state[p]]

StateAfterKill(t) ==
  [p \in Pid |->
     IF p \in Elems(wait_queue[t]) THEN "FREE"
     ELSE IF p = t THEN "EXITING"
     ELSE IF p = ppid[t] /\ state[p] = "BLOCK_WAIT" THEN "READY"
     ELSE state[p]]

\* Mutant: orphans go to the first living task that is not the orphan itself
\* and not init.
PpidAfterKill_ToFirst(t) ==
  LET heirs(p) == {h \in Pid \ {1, t, p} : state[h] = "READY"}
  IN  [p \in Pid |->
         IF p \in Elems(wait_queue[t]) THEN 0
         ELSE IF p # 1 /\ ppid[p] = t
              THEN IF heirs(p) = {} THEN 1 ELSE Least(heirs(p))
         ELSE ppid[p]]

PpidAfterKill(t) ==
  [p \in Pid |->
     IF p \in Elems(wait_queue[t]) THEN 0
     ELSE IF p # 1 /\ ppid[p] = t THEN 1
     ELSE ppid[p]]

\* Mutant: the death of a task is counted at once, and again when reaped.
ChildrenAfterKill_Twice(t) ==
  [p \in Pid |->
     IF p \in Elems(wait_queue[t]) THEN 0
     ELSE IF p = ppid[t] THEN Minus(children[p], 1) ELSE children[p]]

ChildrenAfterKill(t) ==
  [p \in Pid |->
     IF p \in Elems(wait_queue[t]) THEN 0
     ELSE Minus(children[p],
                Cardinality({z \in Elems(wait_queue[t]) : ppid[z] = p}))]

\* Mutant: the walk to the end of the parent's list is left out.
QueueAfterKill_Overwrite(t) ==
  [p \in Pid |->
     IF p = t \/ p \in Elems(wait_queue[t]) THEN <<>>
     ELSE IF p = ppid[t] THEN <<t>> ELSE wait_queue[p]]

QueueAfterKill(t) ==
  [p \in Pid |->
     IF p = t \/ p \in Elems(wait_queue[t]) THEN <<>>
     ELSE IF p = ppid[t] THEN Append(wait_queue[p], t)
     ELSE wait_queue[p]]

task_kill(t) ==
  /\ state' = StateAfterKill(t)
  /\ ppid' = PpidAfterKill(t)
  /\ children' = ChildrenAfterKill(t)
  /\ wait_queue' = QueueAfterKill(t)

(* sys_exit of any task but pid 1. *)
sys_exit ==
  /\ UserMode
  /\ cur_task # 1
  /\ task_kill(cur_task)
  /\ sched_switch(state')
  /\ UNCHANGED <<waiting, sched_halted>>

(* sys_exit of pid 1 shuts the machine down. *)
Shutdown ==
  /\ UserMode
  /\ cur_task = 1
  /\ mode' = "off"
  /\ UNCHANGED <<tables, waiting, cur_task, sched_halted>>

(* The body of sys_wait behind the label again: take the first dead child  *)
(* off the queue and destroy it, or block until a child dies.              *)
Reap ==
  LET child == Head(wait_queue[cur_task])
  IN  /\ wait_queue[cur_task] # <<>>
      /\ state' = [state EXCEPT ![child] = "FREE"]
      /\ ppid' = [ppid EXCEPT ![child] = 0]
      /\ children' = [children EXCEPT ![ppid[child]] = Minus(@, 1),
                                      ![child] = 0]
      /\ wait_queue' = [wait_queue EXCEPT ![cur_task] = Tail(@),
                                          ![child] = <<>>]
      /\ waiting' = waiting \ {cur_task}
      /\ UNCHANGED <<cur_task, sched_halted, mode>>

Block ==
  /\ wait_queue[cur_task] = <<>>
  /\ state' = [state EXCEPT ![cur_task] = "BLOCK_WAIT"]
  /\ waiting' = waiting \cup {cur_task}
  /\ sched_switch(state')
  /\ UNCHANGED <<ppid, children, wait_queue, sched_halted>>

(* Mutant: the ECHILD test is left out. *)
sys_wait_NoTest == UserMode /\ (Reap \/ Block)

(* sys_wait: only a task with a nonzero counter gets past ECHILD. *)
sys_wait ==
  /\ UserMode
  /\ children[cur_task] # 0
  /\ Reap \/ Block

(* ECHILD: nothing changes but errno. *)
WaitNoChild ==
  /\ UserMode
  /\ children[cur_task] = 0
  /\ UNCHANGED vars

(* A task scheduled again inside sys_wait goes on behind again. *)
WaitAgain ==
  /\ Running
  /\ cur_task \in waiting
  /\ Reap \/ Block

(* sys_sched_yield: give up the rest of the time slice. *)
sys_sched_yield ==
  /\ UserMode
  /\ sched_switch(state)
  /\ UNCHANGED <<tables, waiting, sched_halted>>

(* The timer interrupt: a switch, unless the scheduler is halted. *)
isr32 ==
  /\ mode = "run"
  /\ cur_task \notin waiting
  /\ \/ ~sched_halted /\ sched_switch(state)
     \/ sched_halted /\ UNCHANGED <<cur_task, mode>>
  /\ UNCHANGED <<tables, waiting, sched_halted>>

(* read_stdin: halt the scheduler and spin, with interrupts on, until the  *)
(* keyboard handler has delivered enough characters; then continue.        *)
ReadStdin ==
  /\ UserMode
  /\ sched_halted' = TRUE
  /\ UNCHANGED <<tables, waiting, cur_task, mode>>

StdinReady ==
  /\ mode = "run"
  /\ sched_halted
  /\ sched_halted' = FALSE
  /\ UNCHANGED <<tables, waiting, cur_task, mode>>

(* panic loops forever. *)
Stopped ==
  /\ mode # "run"
  /\ UNCHANGED vars

Next ==
  \/ sys_fork \/ ForkFails
  \/ sys_exit \/ Shutdown
  \/ sys_wait \/ WaitNoChild \/ WaitAgain
  \/ sys_sched_yield \/ isr32
  \/ ReadStdin \/ StdinReady
  \/ Stopped

Spec == Init /\ [][Next]_vars

(* The timer goes on ticking, and kernel code behind a switch runs on. The *)
(* keyboard owes nobody a key, and no program owes the kernel a call.      *)
Fairness == WF_vars(isr32) /\ WF_vars(WaitAgain)

FairSpec == Spec /\ Fairness

----------------------------------------------------------------------------
(* Properties *)

Live(p) == state[p] \in {"READY", "BLOCK_WAIT"}
Kids(t) == {p \in Pid : state[p] # "FREE" /\ ppid[p] = t}

\* Every variable has its type: what the fields of struct task_t can hold,
\* and cur_task is always a slot of the table.
TypeOK ==
  /\ state \in [Pid -> States]
  /\ ppid \in [Pid -> 0 .. MaxPid]
  /\ children \in [Pid -> 0 .. Word - 1]
  /\ wait_queue \in [Pid -> Seq(Pid)]
  /\ waiting \in SUBSET Pid
  /\ cur_task \in Pid
  /\ sched_halted \in BOOLEAN
  /\ mode \in Modes

\* Every task but pid 1 has a parent in the table that is not dying, so
\* tasks[task->ppid] in task_kill and task_destroy is never NULL and never a
\* task that can no longer reap; pid 1 itself never dies.
ParentAlive ==
  /\ Live(1) /\ ppid[1] = 0
  /\ \A p \in Pid \ {1} :
       state[p] # "FREE" => ppid[p] \in Pid \ {p} /\ Live(ppid[p])

\* A task's wait_queue lists exactly its dead children, each of them once;
\* so a dead task is on one list, its parent's, and the field of a dead or
\* free task links nothing that task_kill would destroy.
QueueHoldsTheDead ==
  \A p \in Pid :
    /\ Elems(wait_queue[p]) = {z \in Kids(p) : state[z] = "EXITING"}
    /\ \A i, j \in 1 .. Len(wait_queue[p]) :
         wait_queue[p][i] = wait_queue[p][j] => i = j

\* children counts the children in the table, living or dead, for every task
\* but pid 1; pid 1 adopts orphans without counting them, so its counter can
\* only be too low.  In particular no decrement wraps the uint32_t.
ChildrenCounted ==
  \A p \in Pid :
    Live(p) => /\ children[p] <= Cardinality(Kids(p))
               /\ p # 1 => children[p] = Cardinality(Kids(p))

\* No lost wakeup: a task inside sys_wait has a child to wait for; while it
\* is blocked none of them is dead, and once it is ready one of them is: the
\* goto again of sys_wait never blocks a second time for nothing.
NoLostWakeup ==
  \A p \in Pid :
    /\ state[p] = "BLOCK_WAIT" => p \in waiting /\ wait_queue[p] = <<>>
    /\ p \in waiting /\ state[p] = "READY" => wait_queue[p] # <<>>
    /\ p \in waiting => children[p] # 0

\* The running task is ready, and only a task in the table can be inside
\* sys_wait: the scheduler never resumes a blocked, dead or freed task.
CurrentReady ==
  /\ mode = "run" => state[cur_task] = "READY"
  /\ \A p \in waiting : Live(p)

\* The parent relation has no cycle: in every set of tasks some task has no
\* child in the set.
NoCycle ==
  \A S \in SUBSET {p \in Pid : Live(p)} :
    S # {} => \E p \in S : Kids(p) \cap S = {}

\* sched_next never panics with "No tasks ready to schedule!": however tasks
\* fork, exit and wait, they cannot all be blocked in sys_wait.
SomeTaskReady == mode # "noready"

\* A ready task runs again, unless a program halts the scheduler by reading
\* the keyboard or the machine stops: round robin starves nobody.
StarvationFree ==
  \A p \in Pid :
    state[p] = "READY" ~> (cur_task = p \/ sched_halted \/ mode # "run")

\* A task inside sys_wait one of whose children has died comes back from it
\* (same provisos).
WaitReturns ==
  \A p \in Pid :
    (p \in waiting /\ \E z \in Kids(p) : state[z] = "EXITING")
      ~> (p \notin waiting \/ sched_halted \/ mode # "run")

\* What the manual (doc/chapters/kernel.tex) says of the scheduler: every
\* ready process gets its time slice, and a process that has to wait for a
\* read gives up its turn.  Violated by read_stdin.
ReadersYield ==
  \A p \in Pid : state[p] = "READY" ~> (cur_task = p \/ mode # "run")

\* What task.h says of the field children: "Number of children".  Violated
\* for pid 1, which adopts orphans without counting them.
NumberOfChildren ==
  \A p \in Pid : Live(p) => children[p] = Cardinality(Kids(p))

----------------------------------------------------------------------------
(* The table implements the life cycle of Lifecycle. *)

life == [p \in Pid |-> CASE state[p] = "FREE"    -> "free"
                         [] state[p] = "EXITING" -> "zombie"
                         [] OTHER                -> "alive"]

L == INSTANCE Lifecycle WITH life <- life, parent <- ppid

\* Every step of the kernel is a birth, a death, the collection of a zombie
\* by its own living parent, or invisible to processes: sys_wait and
\* task_kill never free a running task or somebody else's child, and no dead
\* task comes back.
ImplementsLifecycle == L!Spec

=============================================================================
