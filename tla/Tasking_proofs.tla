--------------------------- MODULE Tasking_proofs ---------------------------
(***************************************************************************)
(* Proofs about Tasking for a table of any size.                           *)
(***************************************************************************)
EXTENDS Tasking, FiniteSetTheorems, WellFoundedInduction, TLAPS

----------------------------------------------------------------------------
(* Facts about the helpers *)

\* Least, the order in which the loops of task.c scan the table, is defined
\* on every nonempty set of pids.
LEMMA LeastInSet ==
  ASSUME NEW S \in SUBSET Nat, S # {}
  PROVE  Least(S) \in S
<1> DEFINE R == {r \in Nat \X Nat : r[1] < r[2]}
<1>1. IsWellFoundedOn(R, Nat)
  BY NatLessThanWellFounded DEF OpToRel
<1> HIDE DEF R
<1>2. PICK x \in S : \A y \in S : ~ (<<y, x>> \in R)
  BY <1>1, WFMin
<1>3. ASSUME NEW y \in S PROVE x <= y
  <2>1. <<y, x>> \in Nat \X Nat /\ y \in Nat /\ x \in Nat
    OBVIOUS
  <2>2. <<y, x>>[1] = y /\ <<y, x>>[2] = x
    OBVIOUS
  <2>3. ~ (y < x)
    BY <1>2, <2>1, <2>2 DEF R
  <2>4. QED
    BY <2>1, <2>3
<1>4. QED
  BY <1>3 DEF Least

\* alloc_empty_task returns a free pid whenever there is one.
LEMMA FreshPid ==
  ASSUME FreePids # {}
  PROVE  alloc_empty_task \in FreePids
<1>1. FreePids \in SUBSET Nat
  BY DEF FreePids, Pid
<1>2. QED
  BY <1>1, LeastInSet DEF alloc_empty_task

\* sched_next returns a ready task whenever there is one.
LEMMA SchedNextReady ==
  ASSUME NEW st, ReadyIn(st) # {}
  PROVE  sched_next(st) \in ReadyIn(st)
<1> DEFINE behind == {p \in ReadyIn(st) : p > cur_task}
<1> DEFINE S == IF behind # {} THEN behind ELSE ReadyIn(st)
<1>1. S \in SUBSET Nat /\ S # {} /\ S \subseteq ReadyIn(st)
  BY DEF ReadyIn, Pid
<1>2. Least(S) \in S
  BY <1>1, LeastInSet
<1>3. QED
  BY <1>1, <1>2 DEF sched_next

\* The table is finite, so every set of pids has a size of at most MaxPid.
LEMMA PidsFinite ==
  /\ IsFiniteSet(Pid) /\ Cardinality(Pid) = MaxPid
  /\ \A S \in SUBSET Pid : /\ IsFiniteSet(S)
                           /\ Cardinality(S) \in Nat
                           /\ Cardinality(S) <= MaxPid
<1>1. IsFiniteSet(Pid) /\ Cardinality(Pid) = MaxPid
  BY FS_Interval, TableAssumption DEF Pid
<1>2. QED
  BY <1>1, FS_Subset, FS_CardinalityType

\* Counter arithmetic within the table size is exact.
LEMMA PlusOne ==
  ASSUME NEW c \in 0 .. MaxPid - 1
  PROVE  Plus(c, 1) = c + 1
  BY TableAssumption, WordAssumption, SMTT(30) DEF Plus

LEMMA MinusZero ==
  ASSUME NEW c \in 0 .. Word - 1
  PROVE  Minus(c, 0) = c
  BY TableAssumption, WordAssumption, SMTT(30) DEF Minus

LEMMA MinusOne ==
  ASSUME NEW c \in 0 .. Word - 1, c # 0
  PROVE  Minus(c, 1) = c - 1
  BY TableAssumption, WordAssumption, SMTT(30) DEF Minus

\* Counters stay uint32_t values whatever is added or subtracted.
LEMMA CounterType ==
  /\ \A c, n \in Nat : Plus(c, n) \in 0 .. Word - 1
  /\ \A c \in 0 .. Word - 1, n \in 0 .. MaxPid : Minus(c, n) \in 0 .. Word - 1
  BY TableAssumption, WordAssumption, SMTT(30) DEF Plus, Minus

\* What is on a queue of pids are pids; an empty set of members is an empty
\* queue.
LEMMA ElemsOfQueue ==
  ASSUME NEW q \in Seq(Pid)
  PROVE  /\ Elems(q) \subseteq Pid
         /\ Elems(q) = {} <=> q = <<>>
         /\ q # <<>> => /\ Head(q) \in Elems(q)
                       /\ Tail(q) \in Seq(Pid)
<1>1. Len(q) \in Nat /\ \A i \in 1 .. Len(q) : q[i] \in Pid
  OBVIOUS
<1>2. Elems(q) \subseteq Pid
  BY <1>1 DEF Elems
<1>3. CASE q = <<>>
  <2>1. Len(q) = 0
    BY <1>3
  <2>2. Elems(q) = {}
    BY <2>1 DEF Elems
  <2>3. QED
    BY <1>2, <1>3, <2>2
<1>4. CASE q # <<>>
  <2>1. 1 \in 1 .. Len(q) /\ Head(q) = q[1] /\ Tail(q) \in Seq(Pid)
    BY <1>4
  <2>2. Head(q) \in Elems(q)
    BY <2>1 DEF Elems
  <2>3. QED
    BY <1>2, <1>4, <2>1, <2>2
<1>5. QED
  BY <1>3, <1>4

----------------------------------------------------------------------------
(* Type correctness *)

LEMMA SwitchType ==
  ASSUME NEW st, cur_task \in Pid, mode \in Modes, sched_switch(st)
  PROVE  cur_task' \in Pid /\ mode' \in Modes
  BY SchedNextReady DEF sched_switch, ReadyIn, Modes

\* task_kill leaves well-formed tables.
LEMMA KillType ==
  ASSUME TypeOK, NEW t \in Pid, task_kill(t)
  PROVE  /\ state' \in [Pid -> States]
         /\ ppid' \in [Pid -> 0 .. MaxPid]
         /\ children' \in [Pid -> 0 .. Word - 1]
         /\ wait_queue' \in [Pid -> Seq(Pid)]
<1>1. state' \in [Pid -> States]
  BY DEF TypeOK, task_kill, StateAfterKill, States
<1>2. ppid' \in [Pid -> 0 .. MaxPid]
  BY TableAssumption DEF TypeOK, task_kill, PpidAfterKill
<1>3. children' \in [Pid -> 0 .. Word - 1]
  <2>1. ASSUME NEW p \in Pid
        PROVE  Cardinality({z \in Elems(wait_queue[t]) : ppid[z] = p})
                 \in 0 .. MaxPid
    <3>1. {z \in Elems(wait_queue[t]) : ppid[z] = p} \in SUBSET Pid
      BY ElemsOfQueue DEF TypeOK
    <3>2. QED
      BY <3>1, PidsFinite, TableAssumption
  <2>2. ASSUME NEW p \in Pid
        PROVE  ChildrenAfterKill(t)[p] \in 0 .. Word - 1
    <3> DEFINE n == Cardinality({z \in Elems(wait_queue[t]) : ppid[z] = p})
    <3>1. n \in 0 .. MaxPid
      BY <2>1
    <3>2. ChildrenAfterKill(t)[p] = IF p \in Elems(wait_queue[t]) THEN 0
                                    ELSE Minus(children[p], n)
      BY DEF ChildrenAfterKill
    <3> HIDE DEF n
    <3>3. children[p] \in 0 .. Word - 1
      BY DEF TypeOK
    <3>4. Minus(children[p], n) \in 0 .. Word - 1
      BY <3>1, <3>3, CounterType
    <3>5. 0 \in 0 .. Word - 1
      BY WordAssumption, TableAssumption
    <3>6. QED
      BY <3>2, <3>4, <3>5
  <2>3. QED
    BY <2>2 DEF task_kill, ChildrenAfterKill
<1>4. wait_queue' \in [Pid -> Seq(Pid)]
  BY DEF TypeOK, task_kill, QueueAfterKill
<1>5. QED
  BY <1>1, <1>2, <1>3, <1>4

\* TypeOK is preserved by every action.
LEMMA TypeStep == TypeOK /\ [Next]_vars => TypeOK'
<1> SUFFICES ASSUME TypeOK, [Next]_vars PROVE TypeOK'
  OBVIOUS
<1>1. CASE sys_fork
  <2> DEFINE n == alloc_empty_task
  <2>1. n \in Pid
    BY <1>1, FreshPid DEF sys_fork, FreePids
  <2>2. Plus(children[cur_task], 1) \in 0 .. Word - 1
    BY CounterType, WordAssumption DEF TypeOK
  <2>3. state' = [state EXCEPT ![n] = "READY"]
    BY <1>1 DEF sys_fork, task_fork_inner
  <2>4. ppid' = [ppid EXCEPT ![n] = cur_task]
    BY <1>1 DEF sys_fork, task_fork_inner
  <2>5. children' = [children EXCEPT ![cur_task] = Plus(children[cur_task], 1)]
    BY <1>1 DEF sys_fork, task_fork_inner
  <2> HIDE DEF n
  <2>6. state' \in [Pid -> States]
    BY <2>1, <2>3 DEF TypeOK, States
  <2>7. ppid' \in [Pid -> 0 .. MaxPid]
    <3>1. cur_task \in 0 .. MaxPid
      BY DEF TypeOK, Pid
    <3>2. QED
      BY <2>1, <2>4, <3>1 DEF TypeOK
  <2>8. children' \in [Pid -> 0 .. Word - 1]
    BY <2>2, <2>5 DEF TypeOK
  <2>9. QED
    BY <1>1, <2>6, <2>7, <2>8 DEF sys_fork, TypeOK
<1>2. CASE sys_exit
  BY <1>2, KillType, SwitchType DEF sys_exit, TypeOK
<1>3. ASSUME Reap PROVE TypeOK'
  <2> DEFINE child == Head(wait_queue[cur_task])
  <2>1. child \in Pid /\ Tail(wait_queue[cur_task]) \in Seq(Pid)
    BY <1>3, ElemsOfQueue DEF Reap, TypeOK
  <2>2. ASSUME NEW p \in Pid PROVE Minus(children[p], 1) \in 0 .. Word - 1
    <3>1. children[p] \in 0 .. Word - 1 /\ 1 \in 0 .. MaxPid
      BY TableAssumption DEF TypeOK
    <3>2. QED
      BY <3>1, CounterType
  <2>3. state' \in [Pid -> States] /\ ppid' \in [Pid -> 0 .. MaxPid]
    BY <1>3, TableAssumption DEF Reap, TypeOK, States
  <2>4. children' \in [Pid -> 0 .. Word - 1]
    <3>1. children' = [children EXCEPT
                         ![ppid[child]] = Minus(children[ppid[child]], 1),
                         ![child] = 0]
      BY <1>3 DEF Reap
    <3>2. 0 \in 0 .. Word - 1 /\ children \in [Pid -> 0 .. Word - 1]
      BY WordAssumption, TableAssumption DEF TypeOK
    <3> HIDE DEF child
    <3>3. QED
      BY <2>2, <3>1, <3>2
  <2>5. wait_queue' \in [Pid -> Seq(Pid)]
    <3>1. wait_queue' = [wait_queue EXCEPT
                           ![cur_task] = Tail(wait_queue[cur_task]),
                           ![child] = <<>>]
      BY <1>3 DEF Reap
    <3>2. <<>> \in Seq(Pid) /\ wait_queue \in [Pid -> Seq(Pid)]
      BY DEF TypeOK
    <3> HIDE DEF child
    <3>3. QED
      BY <2>1, <3>1, <3>2
  <2>6. QED
    BY <1>3, <2>3, <2>4, <2>5 DEF Reap, TypeOK
<1>4. ASSUME Block PROVE TypeOK'
  BY <1>4, SwitchType DEF Block, TypeOK, States
<1>5. CASE sys_wait \/ WaitAgain
  BY <1>3, <1>4, <1>5 DEF sys_wait, WaitAgain
<1>6. CASE sys_sched_yield
  BY <1>6, SwitchType DEF sys_sched_yield, tables, TypeOK
<1>7. CASE isr32
  BY <1>7, SwitchType DEF isr32, tables, TypeOK
<1>8. CASE ForkFails \/ Shutdown \/ ReadStdin \/ StdinReady
  BY <1>8 DEF ForkFails, Shutdown, ReadStdin, StdinReady, tables, TypeOK, Modes
<1>9. CASE WaitNoChild \/ Stopped \/ UNCHANGED vars
  BY <1>9 DEF WaitNoChild, Stopped, vars, TypeOK
<1>10. QED
  BY <1>1, <1>2, <1>5, <1>6, <1>7, <1>8, <1>9 DEF Next

LEMMA TypeInit == Init => TypeOK
<1>1. 1 \in Pid /\ 0 \in 0 .. MaxPid /\ 0 \in 0 .. Word - 1
  BY TableAssumption, WordAssumption DEF Pid
<1> SUFFICES ASSUME Init PROVE TypeOK
  OBVIOUS
<1>2. state \in [Pid -> States]
  BY DEF Init, States
<1>3. ppid \in [Pid -> 0 .. MaxPid] /\ children \in [Pid -> 0 .. Word - 1]
  BY <1>1 DEF Init
<1>4. wait_queue \in [Pid -> Seq(Pid)] /\ waiting \in SUBSET Pid
  BY DEF Init
<1>5. cur_task \in Pid /\ sched_halted \in BOOLEAN /\ mode \in Modes
  BY <1>1 DEF Init, Modes
<1>6. QED
  BY <1>2, <1>3, <1>4, <1>5 DEF TypeOK

\* The type invariant holds for a task table of every size.
THEOREM TypeCorrect == Spec => []TypeOK
  BY TypeInit, TypeStep, PTL DEF Spec

----------------------------------------------------------------------------
(* The inductive invariant *)

\* A freed slot is as memset leaves it: it names no parent and counts no
\* child.
FreeZeroed ==
  \A p \in Pid : state[p] = "FREE" => ppid[p] = 0 /\ children[p] = 0

\* The part about the tables and the tasks inside sys_wait.
Tables ==
  /\ ParentAlive
  /\ QueueHoldsTheDead
  /\ ChildrenCounted
  /\ NoLostWakeup
  /\ NoCycle
  /\ FreeZeroed

IInv == TypeOK /\ Tables /\ CurrentReady /\ SomeTaskReady

LEMMA KidsFinite ==
  ASSUME NEW p
  PROVE  /\ Kids(p) \subseteq Pid
         /\ IsFiniteSet(Kids(p))
         /\ Cardinality(Kids(p)) \in 0 .. MaxPid
<1>1. Kids(p) \in SUBSET Pid
  BY DEF Kids
<1>2. QED
  BY <1>1, PidsFinite, TableAssumption

\* The heart of the matter: when the tables are in order, some task is ready.
\* If none were, every living task would be blocked in sys_wait with a child
\* that is not dead, hence living and blocked in turn; but the parent
\* relation has no cycle.
LEMMA SomeoneReady == TypeOK /\ Tables => ReadyIn(state) # {}
<1> SUFFICES ASSUME TypeOK, Tables, ReadyIn(state) = {} PROVE FALSE
  OBVIOUS
<1> DEFINE S == {p \in Pid : Live(p)}
<1>1. 1 \in S
  BY TableAssumption DEF Tables, ParentAlive, Pid
<1>2. PICK p \in S : Kids(p) \cap S = {}
  BY <1>1 DEF Tables, NoCycle
<1>3. state[p] = "BLOCK_WAIT"
  BY DEF ReadyIn, Live
<1>4. wait_queue[p] = <<>> /\ children[p] # 0
  BY <1>3 DEF Tables, NoLostWakeup
<1>5. Kids(p) # {}
  <2> SUFFICES ASSUME Kids(p) = {} PROVE FALSE
    OBVIOUS
  <2>1. children[p] <= Cardinality(Kids(p)) /\ children[p] \in 0 .. Word - 1
    <3>1. p \in Pid /\ Live(p)
      OBVIOUS
    <3>2. QED
      BY <3>1 DEF Tables, ChildrenCounted, TypeOK
  <2>2. Cardinality(Kids(p)) = 0
    BY FS_EmptySet
  <2>3. QED
    BY <1>4, <2>1, <2>2
<1>6. PICK k \in Kids(p) : TRUE
  BY <1>5
<1>7. k \in Pid /\ state[k] = "EXITING"
  BY <1>2 DEF Kids, Live, TypeOK, States
<1>8. k \in Elems(wait_queue[p])
  BY <1>6, <1>7 DEF Tables, QueueHoldsTheDead
<1>9. QED
  BY <1>4, <1>8, ElemsOfQueue DEF TypeOK

\* No task in the table has a free or dead parent, so such a pid has no
\* children and an empty queue.
LEMMA OnlyTheLivingHaveKids ==
  ASSUME TypeOK, Tables, NEW p \in Pid, ~Live(p)
  PROVE  Kids(p) = {} /\ wait_queue[p] = <<>>
<1>1. Kids(p) = {}
  <2> SUFFICES ASSUME NEW k \in Kids(p) PROVE FALSE
    OBVIOUS
  <2>1. k \in Pid /\ state[k] # "FREE" /\ ppid[k] = p
    BY DEF Kids
  <2>2. k # 1
    BY <2>1 DEF Tables, ParentAlive, Pid
  <2>3. QED
    BY <2>1, <2>2 DEF Tables, ParentAlive
<1>2. Elems(wait_queue[p]) = {}
  BY <1>1 DEF Tables, QueueHoldsTheDead
<1>3. QED
  BY <1>1, <1>2, ElemsOfQueue DEF TypeOK

----------------------------------------------------------------------------
(* sys_fork *)

LEMMA ForkKeepsTables ==
  ASSUME IInv, sys_fork
  PROVE  Tables'
<1>0. PICK n \in FreePids : n = alloc_empty_task
  BY FreshPid DEF sys_fork
<1>1. n \in Pid /\ state[n] = "FREE"
  BY <1>0 DEF FreePids
<1> PICK c \in Pid : c = cur_task
  BY DEF IInv, TypeOK
<1>2. Live(c) /\ c # n /\ state[c] = "READY"
  BY <1>1 DEF IInv, TypeOK, CurrentReady, sys_fork, UserMode, Running, Live
<1>3. /\ state' = [state EXCEPT ![n] = "READY"]
      /\ ppid' = [ppid EXCEPT ![n] = c]
      /\ children' = [children EXCEPT ![c] = Plus(children[c], 1)]
      /\ wait_queue' = wait_queue /\ waiting' = waiting
  BY <1>0 DEF sys_fork, task_fork_inner
<1>4. TypeOK /\ Tables
  BY DEF IInv
<1>5. Kids(n) = {} /\ wait_queue[n] = <<>> /\ n # 1 /\ n \notin waiting
  <2>1. ~Live(n)
    BY <1>1 DEF Live
  <2>2. Live(1)
    BY <1>4 DEF Tables, ParentAlive
  <2>3. n \notin waiting
    BY <2>1 DEF IInv, CurrentReady
  <2>4. QED
    BY <1>1, <1>4, <2>1, <2>2, <2>3, OnlyTheLivingHaveKids
<1>6. ASSUME NEW p \in Pid
      PROVE  /\ p # c => Kids(p)' = Kids(p)
             /\ p = c => Kids(p)' = Kids(p) \cup {n}
             /\ n \notin Kids(p)
             /\ Live(p)' <=> Live(p) \/ p = n
             /\ p # n => state'[p] = state[p] /\ ppid'[p] = ppid[p]
             /\ p # c => children'[p] = children[p]
  BY <1>1, <1>2, <1>3, <1>4 DEF Kids, Live, TypeOK
<1>7. state'[n] = "READY" /\ ppid'[n] = c /\ children'[c] = Plus(children[c], 1)
  BY <1>1, <1>2, <1>3, <1>4 DEF TypeOK
<1>8. children[c] \in 0 .. MaxPid - 1 /\ children'[c] = children[c] + 1
  <2>1. children[c] <= Cardinality(Kids(c)) /\ children[c] \in Nat
    BY <1>2, <1>4 DEF Tables, ChildrenCounted, TypeOK
  <2>2. Kids(c) \cup {n} \in SUBSET Pid
    BY <1>1 DEF Kids
  <2>3. Cardinality(Kids(c) \cup {n}) <= MaxPid
    BY <2>2, PidsFinite
  <2>4. Cardinality(Kids(c) \cup {n}) = Cardinality(Kids(c)) + 1
    BY <1>2, <1>6, KidsFinite, FS_AddElement
  <2>5. children[c] \in 0 .. MaxPid - 1
    BY <2>1, <2>3, <2>4, KidsFinite, TableAssumption
  <2>6. QED
    BY <1>7, <2>5, PlusOne
<1>9. ParentAlive'
  <2>1. Live(1)' /\ ppid'[1] = 0
    BY <1>4, <1>5, <1>6, TableAssumption DEF Tables, ParentAlive, Pid
  <2>2. ASSUME NEW p \in Pid \ {1}, state'[p] # "FREE"
        PROVE  /\ ppid'[p] \in Pid \ {p}
               /\ state'[ppid'[p]] \in {"READY", "BLOCK_WAIT"}
    <3>1. CASE p = n
      BY <1>2, <1>6, <1>7, <3>1
    <3>2. CASE p # n
      <4>1. ppid'[p] = ppid[p] /\ state[p] # "FREE"
        BY <1>6, <2>2, <3>2
      <4>2. ppid[p] \in Pid \ {p} /\ Live(ppid[p])
        BY <1>4, <4>1 DEF Tables, ParentAlive
      <4>3. ppid[p] # n
        BY <1>1, <4>2 DEF Live
      <4>4. QED
        BY <1>6, <4>1, <4>2, <4>3 DEF Live
    <3>3. QED
      BY <3>1, <3>2
  <2>3. QED
    BY <2>1, <2>2 DEF ParentAlive, Live
<1>10. QueueHoldsTheDead'
  <2> SUFFICES ASSUME NEW p \in Pid
               PROVE  Elems(wait_queue[p]) = {z \in Kids(p)' : state'[z] = "EXITING"}
    BY <1>3, <1>4 DEF Tables, QueueHoldsTheDead
  <2>1. Elems(wait_queue[p]) = {z \in Kids(p) : state[z] = "EXITING"}
    BY <1>4 DEF Tables, QueueHoldsTheDead
  <2>2. \A z \in Kids(p) : z # n /\ state'[z] = state[z]
    BY <1>6 DEF Kids
  <2>3. QED
    BY <1>6, <1>7, <2>1, <2>2
<1>11. ChildrenCounted'
  <2> SUFFICES ASSUME NEW p \in Pid, Live(p)'
               PROVE  /\ children'[p] <= Cardinality(Kids(p)')
                      /\ p # 1 => children'[p] = Cardinality(Kids(p)')
    BY DEF ChildrenCounted
  <2>1. CASE p = n
    <3>1. Kids(p)' = {} /\ children'[p] = 0
      BY <1>1, <1>2, <1>4, <1>5, <1>6, <2>1 DEF Tables, FreeZeroed
    <3>2. Cardinality({}) = 0
      BY FS_EmptySet
    <3>3. QED
      BY <3>1, <3>2
  <2>2. CASE p = c
    <3>1. Cardinality(Kids(c) \cup {n}) = Cardinality(Kids(c)) + 1
      BY <1>2, <1>6, KidsFinite, FS_AddElement
    <3>2. /\ children[c] <= Cardinality(Kids(c))
          /\ c # 1 => children[c] = Cardinality(Kids(c))
      BY <1>2, <1>4 DEF Tables, ChildrenCounted
    <3>3. Kids(p)' = Kids(c) \cup {n}
      BY <1>6, <2>2
    <3>4. QED
      BY <1>8, <2>2, <3>1, <3>2, <3>3, KidsFinite
  <2>3. CASE p # n /\ p # c
    BY <1>4, <1>6, <2>3 DEF Tables, ChildrenCounted
  <2>4. QED
    BY <2>1, <2>2, <2>3
<1>12. NoLostWakeup'
  <2> SUFFICES ASSUME NEW p \in Pid
               PROVE  /\ state'[p] = "BLOCK_WAIT" =>
                            p \in waiting /\ wait_queue[p] = <<>>
                      /\ p \in waiting /\ state'[p] = "READY" =>
                            wait_queue[p] # <<>>
                      /\ p \in waiting => children'[p] # 0
    BY <1>3 DEF NoLostWakeup
  <2>1. p \in waiting => children'[p] # 0
    BY <1>4, <1>6, <1>8 DEF Tables, NoLostWakeup
  <2>2. CASE p = n
    BY <1>5, <1>7, <2>1, <2>2
  <2>3. CASE p # n
    BY <1>4, <1>6, <2>1, <2>3 DEF Tables, NoLostWakeup
  <2>4. QED
    BY <2>2, <2>3
<1>13. NoCycle'
  <2> SUFFICES ASSUME NEW S \in SUBSET {p \in Pid : Live(p)'}, S # {}
               PROVE  \E p \in S : Kids(p)' \cap S = {}
    BY DEF NoCycle
  <2>1. CASE n \in S
    BY <1>1, <1>2, <1>5, <1>6, <2>1
  <2>2. CASE n \notin S
    <3>1. S \in SUBSET {p \in Pid : Live(p)}
      BY <1>6, <2>2
    <3>2. PICK p \in S : Kids(p) \cap S = {}
      BY <1>4, <3>1 DEF Tables, NoCycle
    <3>3. p \in Pid
      BY <3>1
    <3>4. Kids(p)' \subseteq Kids(p) \cup {n}
      BY <1>6, <3>3
    <3>5. QED
      BY <2>2, <3>2, <3>4
  <2>3. QED
    BY <2>1, <2>2
<1>14. FreeZeroed'
  BY <1>2, <1>4, <1>6, <1>7 DEF Tables, FreeZeroed, Live
<1>15. QED
  BY <1>9, <1>10, <1>11, <1>12, <1>13, <1>14 DEF Tables

----------------------------------------------------------------------------
(* Queues *)

Inj(q) == \A i, j \in 1 .. Len(q) : q[i] = q[j] => i = j

\* Appending a pid that is not on a queue keeps it free of duplicates.
LEMMA AppendElems ==
  ASSUME NEW q \in Seq(Pid), NEW x \in Pid, x \notin Elems(q), Inj(q)
  PROVE  Elems(Append(q, x)) = Elems(q) \cup {x} /\ Inj(Append(q, x))
<1> DEFINE r == Append(q, x)
<1>1. /\ Len(q) \in Nat /\ Len(r) = Len(q) + 1
      /\ \A i \in 1 .. Len(q) : r[i] = q[i] /\ q[i] # x
      /\ r[Len(q) + 1] = x
  BY DEF Elems
<1> HIDE DEF r
<1>2. Elems(r) = Elems(q) \cup {x}
  <2>1. ASSUME NEW i \in 1 .. Len(r) PROVE r[i] \in Elems(q) \cup {x}
    BY <1>1 DEF Elems
  <2>2. ASSUME NEW i \in 1 .. Len(q) PROVE q[i] \in Elems(r)
    BY <1>1 DEF Elems
  <2>3. x \in Elems(r)
    BY <1>1 DEF Elems
  <2>4. QED
    BY <2>1, <2>2, <2>3 DEF Elems
<1>3. Inj(r)
  BY <1>1 DEF Inj
<1>4. QED
  BY <1>2, <1>3 DEF r

\* Taking the first pid off a queue without duplicates leaves the others.
LEMMA TailElems ==
  ASSUME NEW q \in Seq(Pid), q # <<>>, Inj(q)
  PROVE  Elems(Tail(q)) = Elems(q) \ {Head(q)} /\ Inj(Tail(q))
<1> DEFINE r == Tail(q)
<1>1. /\ Len(q) \in Nat \ {0} /\ Len(r) = Len(q) - 1 /\ Head(q) = q[1]
      /\ \A i \in 1 .. Len(r) : r[i] = q[i + 1]
  OBVIOUS
<1> HIDE DEF r
<1>2. Elems(r) = Elems(q) \ {Head(q)}
  <2>1. ASSUME NEW i \in 1 .. Len(r) PROVE r[i] \in Elems(q) \ {Head(q)}
    <3>1. i + 1 \in 1 .. Len(q) /\ i + 1 # 1 /\ 1 \in 1 .. Len(q)
      BY <1>1
    <3>2. q[i + 1] # q[1]
      BY <3>1 DEF Inj
    <3>3. QED
      BY <1>1, <3>1, <3>2 DEF Elems
  <2>2. ASSUME NEW i \in 1 .. Len(q), q[i] # Head(q) PROVE q[i] \in Elems(r)
    <3>1. i - 1 \in 1 .. Len(r) /\ (i - 1) + 1 = i
      BY <1>1, <2>2
    <3>2. r[i - 1] = q[i]
      BY <1>1, <3>1
    <3>3. QED
      BY <3>1, <3>2 DEF Elems
  <2>3. QED
    BY <2>1, <2>2 DEF Elems
<1>3. Inj(r)
  <2> SUFFICES ASSUME NEW i \in 1 .. Len(r), NEW j \in 1 .. Len(r), r[i] = r[j]
               PROVE  i = j
    BY DEF Inj
  <2>1. i + 1 \in 1 .. Len(q) /\ j + 1 \in 1 .. Len(q) /\ q[i + 1] = q[j + 1]
    BY <1>1
  <2>2. i + 1 = j + 1
    BY <2>1 DEF Inj
  <2>3. QED
    BY <2>2
<1>4. QED
  BY <1>2, <1>3 DEF r

----------------------------------------------------------------------------
(* sys_wait blocks *)

LEMMA BlockKeepsTables ==
  ASSUME IInv, Block, state[cur_task] = "READY", children[cur_task] # 0
  PROVE  Tables'
<1> PICK c \in Pid : c = cur_task
  BY DEF IInv, TypeOK
<1>1. TypeOK /\ Tables
  BY DEF IInv
<1>2. /\ state' = [state EXCEPT ![c] = "BLOCK_WAIT"]
      /\ ppid' = ppid /\ children' = children /\ wait_queue' = wait_queue
      /\ waiting' = waiting \cup {c}
      /\ wait_queue[c] = <<>>
  BY DEF Block
<1>3. ASSUME NEW p \in Pid
      PROVE  /\ Kids(p)' = Kids(p)
             /\ Live(p)' <=> Live(p)
             /\ state'[p] = IF p = c THEN "BLOCK_WAIT" ELSE state[p]
  BY <1>1, <1>2 DEF Kids, Live, TypeOK
<1>4. ParentAlive'
  BY <1>1, <1>2, <1>3, TableAssumption DEF Tables, ParentAlive, Live, Pid
<1>5. QueueHoldsTheDead'
  <2> SUFFICES ASSUME NEW p \in Pid
               PROVE  Elems(wait_queue[p]) = {z \in Kids(p) : state'[z] = "EXITING"}
    BY <1>1, <1>2, <1>3 DEF Tables, QueueHoldsTheDead
  <2>1. Elems(wait_queue[p]) = {z \in Kids(p) : state[z] = "EXITING"}
    BY <1>1 DEF Tables, QueueHoldsTheDead
  <2>2. \A z \in Kids(p) : state'[z] = "EXITING" <=> state[z] = "EXITING"
    BY <1>3 DEF Kids
  <2>3. QED
    BY <2>1, <2>2
<1>6. ChildrenCounted'
  BY <1>1, <1>2, <1>3 DEF Tables, ChildrenCounted
<1>7. NoLostWakeup'
  BY <1>1, <1>2, <1>3 DEF Tables, NoLostWakeup
<1>8. NoCycle'
  <2>1. {p \in Pid : Live(p)'} = {p \in Pid : Live(p)}
    BY <1>3
  <2> SUFFICES ASSUME NEW S \in SUBSET {p \in Pid : Live(p)}, S # {}
               PROVE  \E p \in S : Kids(p)' \cap S = {}
    BY <2>1 DEF NoCycle
  <2>2. QED
    BY <1>1, <1>3 DEF Tables, NoCycle
<1>9. FreeZeroed'
  BY <1>1, <1>2, <1>3 DEF Tables, FreeZeroed
<1>10. QED
  BY <1>4, <1>5, <1>6, <1>7, <1>8, <1>9 DEF Tables

----------------------------------------------------------------------------
(* sys_wait takes a dead child *)

LEMMA ReapKeepsTables ==
  ASSUME IInv, Reap, state[cur_task] = "READY", children[cur_task] # 0
  PROVE  Tables'
<1> PICK c \in Pid : c = cur_task
  BY DEF IInv, TypeOK
<1>1. TypeOK /\ Tables
  BY DEF IInv
<1>2. wait_queue[c] \in Seq(Pid) /\ wait_queue[c] # <<>>
  BY <1>1 DEF TypeOK, Reap
<1> PICK k \in Pid : k = Head(wait_queue[c])
  BY <1>2, ElemsOfQueue
<1>3. k \in Kids(c) /\ state[k] = "EXITING" /\ ppid[k] = c /\ k # c
  <2>1. k \in Elems(wait_queue[c])
    BY <1>2, ElemsOfQueue
  <2>2. QED
    BY <1>1, <2>1 DEF Tables, QueueHoldsTheDead, Kids
<1>4. /\ state' = [state EXCEPT ![k] = "FREE"]
      /\ ppid' = [ppid EXCEPT ![k] = 0]
      /\ children' = [children EXCEPT ![c] = Minus(children[c], 1), ![k] = 0]
      /\ wait_queue' = [wait_queue EXCEPT ![c] = Tail(wait_queue[c]), ![k] = <<>>]
      /\ waiting' = waiting \ {c}
  BY <1>3 DEF Reap
<1>5. ~Live(k) /\ k # 1 /\ Kids(k) = {} /\ wait_queue[k] = <<>> /\ k \notin waiting
  <2>1. ~Live(k)
    BY <1>3 DEF Live
  <2>2. Live(1)
    BY <1>1 DEF Tables, ParentAlive
  <2>3. k \notin waiting
    BY <2>1 DEF IInv, CurrentReady
  <2>4. QED
    BY <1>1, <2>1, <2>2, <2>3, OnlyTheLivingHaveKids
<1>6. ASSUME NEW p \in Pid
      PROVE  /\ Kids(p)' = Kids(p) \ {k}
             /\ p # c => k \notin Kids(p)
             /\ Live(p)' <=> Live(p)
             /\ p # k => state'[p] = state[p] /\ ppid'[p] = ppid[p]
             /\ p \notin {k, c} => /\ children'[p] = children[p]
                                  /\ wait_queue'[p] = wait_queue[p]
  BY <1>1, <1>3, <1>4, <1>5 DEF Kids, Live, TypeOK
<1>7. /\ state'[k] = "FREE" /\ ppid'[k] = 0 /\ children'[k] = 0
      /\ wait_queue'[k] = <<>>
      /\ wait_queue'[c] = Tail(wait_queue[c])
  BY <1>1, <1>3, <1>4 DEF TypeOK
<1>8. children'[c] = children[c] - 1 /\ children[c] \in Nat
  <2>1. children[c] \in 0 .. Word - 1 /\ children[c] # 0
    BY <1>1 DEF TypeOK
  <2>2. children'[c] = Minus(children[c], 1)
    BY <1>1, <1>3, <1>4 DEF TypeOK
  <2>3. Minus(children[c], 1) = children[c] - 1
    BY <2>1, MinusOne
  <2>4. QED
    BY <2>1, <2>2, <2>3
<1>9. ParentAlive'
  <2>1. Live(1)' /\ ppid'[1] = 0
    BY <1>1, <1>5, <1>6, TableAssumption DEF Tables, ParentAlive, Pid
  <2>2. ASSUME NEW p \in Pid \ {1}, state'[p] # "FREE"
        PROVE  /\ ppid'[p] \in Pid \ {p}
               /\ state'[ppid'[p]] \in {"READY", "BLOCK_WAIT"}
    <3>1. p # k /\ ppid'[p] = ppid[p] /\ state[p] # "FREE"
      BY <1>6, <1>7, <2>2
    <3>2. ppid[p] \in Pid \ {p} /\ Live(ppid[p])
      BY <1>1, <3>1 DEF Tables, ParentAlive
    <3>3. ppid[p] # k
      BY <1>5, <3>2
    <3>4. QED
      BY <1>6, <3>1, <3>2, <3>3 DEF Live
  <2>3. QED
    BY <2>1, <2>2 DEF ParentAlive, Live
<1>10. QueueHoldsTheDead'
  <2> SUFFICES ASSUME NEW p \in Pid
               PROVE  /\ Elems(wait_queue'[p])
                            = {z \in Kids(p)' : state'[z] = "EXITING"}
                      /\ Inj(wait_queue'[p])
    BY DEF QueueHoldsTheDead, Inj, Elems
  <2>1. /\ Elems(wait_queue[p]) = {z \in Kids(p) : state[z] = "EXITING"}
        /\ Inj(wait_queue[p])
    BY <1>1 DEF Tables, QueueHoldsTheDead, Inj
  <2>2. {z \in Kids(p)' : state'[z] = "EXITING"}
          = {z \in Kids(p) : state[z] = "EXITING"} \ {k}
    BY <1>6 DEF Kids
  <2>3. CASE p = c
    BY <1>2, <1>7, <2>1, <2>2, <2>3, TailElems
  <2>4. CASE p = k
    BY <1>5, <1>7, <2>1, <2>2, <2>4
  <2>5. CASE p \notin {k, c}
    BY <1>6, <2>1, <2>2, <2>5
  <2>6. QED
    BY <2>3, <2>4, <2>5
<1>11. ChildrenCounted'
  <2> SUFFICES ASSUME NEW p \in Pid, Live(p)'
               PROVE  /\ children'[p] <= Cardinality(Kids(p)')
                      /\ p # 1 => children'[p] = Cardinality(Kids(p)')
    BY DEF ChildrenCounted
  <2>1. /\ children[p] <= Cardinality(Kids(p))
        /\ p # 1 => children[p] = Cardinality(Kids(p))
    BY <1>1, <1>6 DEF Tables, ChildrenCounted
  <2>2. CASE p = c
    <3>1. Cardinality(Kids(c) \ {k}) = Cardinality(Kids(c)) - 1
      BY <1>3, KidsFinite, FS_RemoveElement
    <3>2. Kids(p)' = Kids(c) \ {k}
      BY <1>6, <2>2
    <3>3. QED
      BY <1>8, <2>1, <2>2, <3>1, <3>2, KidsFinite
  <2>3. CASE p # c
    <3>1. p # k /\ k \notin Kids(p) /\ Kids(p)' = Kids(p) \ {k}
      BY <1>5, <1>6, <2>3
    <3>2. Kids(p)' = Kids(p)
      BY <3>1
    <3>3. QED
      BY <1>6, <2>1, <2>3, <3>1, <3>2
  <2>4. QED
    BY <2>2, <2>3
<1>12. NoLostWakeup'
  <2> SUFFICES ASSUME NEW p \in Pid
               PROVE  /\ state'[p] = "BLOCK_WAIT" =>
                            p \in waiting' /\ wait_queue'[p] = <<>>
                      /\ p \in waiting' /\ state'[p] = "READY" =>
                            wait_queue'[p] # <<>>
                      /\ p \in waiting' => children'[p] # 0
    BY DEF NoLostWakeup
  <2>1. CASE p = k
    BY <1>4, <1>5, <1>7, <2>1
  <2>2. CASE p = c
    BY <1>3, <1>4, <1>6, <2>2
  <2>3. CASE p \notin {k, c}
    BY <1>1, <1>4, <1>6, <2>3 DEF Tables, NoLostWakeup
  <2>4. QED
    BY <2>1, <2>2, <2>3
<1>13. NoCycle'
  <2>1. {p \in Pid : Live(p)'} = {p \in Pid : Live(p)}
    BY <1>6
  <2> SUFFICES ASSUME NEW S \in SUBSET {p \in Pid : Live(p)}, S # {}
               PROVE  \E p \in S : Kids(p)' \cap S = {}
    BY <2>1 DEF NoCycle
  <2>2. PICK p \in S : Kids(p) \cap S = {}
    BY <1>1 DEF Tables, NoCycle
  <2>3. QED
    BY <1>6, <2>2
<1>14. FreeZeroed'
  BY <1>1, <1>3, <1>6, <1>7 DEF Tables, FreeZeroed, Live
<1>15. QED
  BY <1>9, <1>10, <1>11, <1>12, <1>13, <1>14 DEF Tables

----------------------------------------------------------------------------
(* sys_exit *)

LEMMA KillKeepsTables ==
  ASSUME IInv, NEW t \in Pid, t # 1, state[t] = "READY", t \notin waiting,
         task_kill(t), waiting' = waiting
  PROVE  Tables'
<1>1. TypeOK /\ Tables
  BY DEF IInv
<1> PICK D \in SUBSET Pid : D = Elems(wait_queue[t])
  BY <1>1, ElemsOfQueue DEF TypeOK
<1> PICK r \in Pid : r = ppid[t]
  BY <1>1 DEF Tables, ParentAlive
<1>2. /\ r # t /\ Live(r) /\ Live(t) /\ Live(1)
      /\ ppid[1] = 0 /\ 1 \in Pid /\ t # 0
  BY <1>1, TableAssumption DEF Tables, ParentAlive, Live, Pid
<1>3. /\ \A z \in Pid : z \in D <=> state[z] = "EXITING" /\ ppid[z] = t
      /\ \A z \in D : ~Live(z)
      /\ t \notin D /\ r \notin D /\ 1 \notin D
  <2>1. D = {z \in Kids(t) : state[z] = "EXITING"}
    BY <1>1 DEF Tables, QueueHoldsTheDead
  <2>2. QED
    BY <1>2, <2>1 DEF Kids, Live
<1>4. ASSUME NEW p \in Pid
      PROVE  /\ state'[p] = IF p \in D THEN "FREE"
                             ELSE IF p = t THEN "EXITING"
                             ELSE IF p = r /\ state[p] = "BLOCK_WAIT" THEN "READY"
                             ELSE state[p]
             /\ ppid'[p] = IF p \in D THEN 0
                            ELSE IF p # 1 /\ ppid[p] = t THEN 1 ELSE ppid[p]
             /\ wait_queue'[p] = IF p = t \/ p \in D THEN <<>>
                                  ELSE IF p = r THEN Append(wait_queue[p], t)
                                  ELSE wait_queue[p]
             /\ p \in D => children'[p] = 0
  BY DEF task_kill, StateAfterKill, PpidAfterKill, QueueAfterKill, ChildrenAfterKill
<1>5. ASSUME NEW p \in Pid \ {t}, p \notin D
      PROVE  children'[p] = children[p]
  <2>1. {z \in D : ppid[z] = p} = {}
    BY <1>3
  <2>2. children'[p] = Minus(children[p], Cardinality({z \in D : ppid[z] = p}))
    BY <1>5 DEF task_kill, ChildrenAfterKill
  <2>3. children'[p] = Minus(children[p], 0)
    BY <2>1, <2>2, FS_EmptySet
  <2>4. children[p] \in 0 .. Word - 1
    BY <1>1 DEF TypeOK
  <2>5. QED
    BY <2>3, <2>4, MinusZero
<1>6. ASSUME NEW p \in Pid
      PROVE  /\ Live(p)' <=> Live(p) /\ p # t
             /\ state'[p] # "FREE" <=> state[p] # "FREE" /\ p \notin D
             /\ state'[p] = "EXITING" <=> p = t \/ (state[p] = "EXITING" /\ p \notin D)
  BY <1>2, <1>3, <1>4 DEF Live
<1>7. ASSUME NEW p \in Pid
      PROVE  /\ p = t => Kids(p)' = {}
             /\ p \notin {1, t} => Kids(p)' = Kids(p)
             /\ p = 1 => Kids(p)' = Kids(1) \cup (Kids(t) \ D)
  <2>1. Kids(p)' = {k \in Pid : state'[k] # "FREE" /\ ppid'[k] = p}
    BY DEF Kids
  <2>2. CASE p = t
    <3>1. ASSUME NEW k \in Pid, state'[k] # "FREE" PROVE ppid'[k] # t
      BY <1>2, <1>4, <1>6, <3>1
    <3>2. QED
      BY <2>1, <2>2, <3>1
  <2>3. CASE p \notin {1, t}
    <3>1. \A k \in Pid : state'[k] # "FREE" /\ ppid'[k] = p
                          <=> state[k] # "FREE" /\ ppid[k] = p
      BY <1>2, <1>3, <1>4, <1>6, <2>3
    <3>2. QED
      BY <2>1, <2>3, <3>1 DEF Kids
  <2>4. CASE p = 1
    <3>1. \A k \in Pid : state'[k] # "FREE" /\ ppid'[k] = 1
                          <=> \/ state[k] # "FREE" /\ ppid[k] = 1
                              \/ state[k] # "FREE" /\ ppid[k] = t /\ k \notin D
      <4> SUFFICES ASSUME NEW k \in Pid
                   PROVE  state'[k] # "FREE" /\ ppid'[k] = 1
                          <=> \/ state[k] # "FREE" /\ ppid[k] = 1
                              \/ state[k] # "FREE" /\ ppid[k] = t /\ k \notin D
        OBVIOUS
      <4>1. CASE k \in D
        BY <1>3, <1>6, <4>1
      <4>2. CASE k \notin D
        <5>1. ppid'[k] = IF k # 1 /\ ppid[k] = t THEN 1 ELSE ppid[k]
          BY <1>4, <4>2
        <5>2. state'[k] # "FREE" <=> state[k] # "FREE"
          BY <1>6, <4>2
        <5>3. QED
          BY <1>2, <4>2, <5>1, <5>2
      <4>3. QED
        BY <4>1, <4>2
    <3>2. QED
      BY <2>1, <2>4, <3>1 DEF Kids
  <2>5. QED
    BY <2>2, <2>3, <2>4
<1>8. ParentAlive'
  <2>1. Live(1)' /\ ppid'[1] = 0
    BY <1>2, <1>3, <1>4, <1>6
  <2>2. ASSUME NEW p \in Pid \ {1}, state'[p] # "FREE"
        PROVE  /\ ppid'[p] \in Pid \ {p}
               /\ state'[ppid'[p]] \in {"READY", "BLOCK_WAIT"}
    <3>1. state[p] # "FREE" /\ p \notin D
      BY <1>6, <2>2
    <3>2. ppid[p] \in Pid \ {p} /\ Live(ppid[p])
      BY <1>1, <3>1 DEF Tables, ParentAlive
    <3>3. CASE ppid[p] = t
      <4>1. ppid'[p] = 1
        BY <1>4, <3>1, <3>3
      <4>2. QED
        BY <1>2, <2>1, <4>1 DEF Live
    <3>4. CASE ppid[p] # t
      <4>1. ppid'[p] = ppid[p]
        BY <1>4, <3>1, <3>4
      <4>2. QED
        BY <1>6, <3>2, <3>4, <4>1 DEF Live
    <3>5. QED
      BY <3>3, <3>4
  <2>3. QED
    BY <2>1, <2>2 DEF ParentAlive, Live
<1>9. QueueHoldsTheDead'
  <2> SUFFICES ASSUME NEW p \in Pid
               PROVE  /\ Elems(wait_queue'[p])
                            = {z \in Kids(p)' : state'[z] = "EXITING"}
                      /\ Inj(wait_queue'[p])
    BY DEF QueueHoldsTheDead, Inj, Elems
  <2>1. /\ Elems(wait_queue[p]) = {z \in Kids(p) : state[z] = "EXITING"}
        /\ Inj(wait_queue[p]) /\ wait_queue[p] \in Seq(Pid)
    BY <1>1 DEF Tables, QueueHoldsTheDead, Inj, TypeOK
  <2>2. \A z \in Kids(t) \ D : z # t /\ state[z] # "EXITING"
    BY <1>2, <1>3 DEF Kids
  <2>3. CASE p = t \/ p \in D
    <3>1. wait_queue'[p] = <<>>
      BY <1>4, <2>3
    <3>2. Elems(<<>>) = {} /\ Inj(<<>>)
      BY DEF Elems, Inj
    <3>3. Kids(p)' = {}
      BY <1>1, <1>3, <1>7, <2>3, OnlyTheLivingHaveKids
    <3>4. QED
      BY <3>1, <3>2, <3>3
  <2>4. CASE p \notin D \cup {t}
    <3>1. {z \in Kids(p)' : state'[z] = "EXITING"}
            = {z \in Kids(p) : z = t \/ state[z] = "EXITING"}
      <4>1. \A z \in Kids(p) : z \in Pid /\ ppid[z] = p /\ z \notin D
        BY <1>3, <2>4 DEF Kids
      <4>2. \A z \in Kids(p) : state'[z] = "EXITING" <=> z = t \/ state[z] = "EXITING"
        BY <1>6, <4>1
      <4>3. \A z \in Kids(t) \ D : state'[z] # "EXITING"
        BY <1>6, <2>2 DEF Kids
      <4>4. QED
        BY <1>7, <2>4, <4>2, <4>3
    <3>2. CASE p = r
      <4>1. t \in Kids(p) /\ t \notin Elems(wait_queue[p])
        BY <1>2, <2>1, <3>2 DEF Kids, Live
      <4>2. wait_queue'[p] = Append(wait_queue[p], t)
        BY <1>4, <2>4, <3>2
      <4>3. /\ Elems(wait_queue'[p]) = Elems(wait_queue[p]) \cup {t}
            /\ Inj(wait_queue'[p])
        BY <2>1, <4>1, <4>2, AppendElems
      <4>4. QED
        BY <2>1, <3>1, <4>1, <4>3
    <3>3. CASE p # r
      <4>1. wait_queue'[p] = wait_queue[p]
        BY <1>4, <2>4, <3>3
      <4>2. t \notin Kids(p)
        BY <3>3 DEF Kids
      <4>3. QED
        BY <2>1, <3>1, <4>1, <4>2
    <3>4. QED
      BY <3>2, <3>3
  <2>5. QED
    BY <2>3, <2>4
<1>10. ChildrenCounted'
  <2> SUFFICES ASSUME NEW p \in Pid, Live(p)'
               PROVE  /\ children'[p] <= Cardinality(Kids(p)')
                      /\ p # 1 => children'[p] = Cardinality(Kids(p)')
    BY DEF ChildrenCounted
  <2>1. Live(p) /\ p # t /\ p \notin D
    BY <1>3, <1>6
  <2>2. /\ children'[p] = children[p]
        /\ children[p] <= Cardinality(Kids(p))
        /\ p # 1 => children[p] = Cardinality(Kids(p))
    BY <1>1, <1>5, <2>1 DEF Tables, ChildrenCounted
  <2>3. CASE p # 1
    BY <1>7, <2>1, <2>2, <2>3
  <2>4. CASE p = 1
    <3>1. Kids(p)' \in SUBSET Pid /\ Kids(p) \subseteq Kids(p)'
      BY <1>7, <2>4 DEF Kids
    <3>2. Cardinality(Kids(p)) <= Cardinality(Kids(p)')
      BY <3>1, PidsFinite, FS_Subset
    <3>3. /\ Cardinality(Kids(p)) \in Nat /\ Cardinality(Kids(p)') \in Nat
          /\ children[p] \in 0 .. Word - 1
      BY <1>1, <3>1, PidsFinite, KidsFinite DEF TypeOK
    <3>4. QED
      BY <2>2, <2>4, <3>2, <3>3
  <2>5. QED
    BY <2>3, <2>4
<1>11. NoLostWakeup'
  <2> SUFFICES ASSUME NEW p \in Pid
               PROVE  /\ state'[p] = "BLOCK_WAIT" =>
                            p \in waiting /\ wait_queue'[p] = <<>>
                      /\ p \in waiting /\ state'[p] = "READY" =>
                            wait_queue'[p] # <<>>
                      /\ p \in waiting => children'[p] # 0
    BY DEF NoLostWakeup
  <2>1. CASE p = t \/ p \in D
    <3>1. p \notin waiting
      BY <1>3, <2>1 DEF IInv, CurrentReady
    <3>2. QED
      BY <1>4, <2>1, <3>1
  <2>2. CASE p \notin D \cup {t}
    <3>1. p \in waiting => children'[p] # 0
      BY <1>1, <1>5, <2>2 DEF Tables, NoLostWakeup
    <3>2. CASE p = r
      <4>1. wait_queue'[p] = Append(wait_queue[p], t) /\ wait_queue[p] \in Seq(Pid)
        BY <1>1, <1>4, <2>2, <3>2 DEF TypeOK
      <4>2. wait_queue'[p] # <<>>
        BY <4>1
      <4>3. QED
        BY <1>4, <2>2, <3>1, <3>2, <4>2
    <3>3. CASE p # r
      BY <1>1, <1>4, <2>2, <3>1, <3>3 DEF Tables, NoLostWakeup
    <3>4. QED
      BY <3>2, <3>3
  <2>3. QED
    BY <2>1, <2>2
<1>12. NoCycle'
  <2> SUFFICES ASSUME NEW S \in SUBSET {p \in Pid : Live(p)'}, S # {}
               PROVE  \E p \in S : Kids(p)' \cap S = {}
    BY DEF NoCycle
  <2>1. \A p \in S : p \in Pid /\ Live(p) /\ p # t
    BY <1>6
  <2>2. ASSUME NEW p \in Pid PROVE 1 \notin Kids(p)'
    BY <1>2, <1>3, <1>4 DEF Kids, Pid
  <2>3. CASE S = {1}
    BY <1>2, <2>2, <2>3
  <2>4. CASE S # {1}
    <3>1. S \ {1} \in SUBSET {p \in Pid : Live(p)} /\ S \ {1} # {}
      BY <2>1, <2>4
    <3>2. PICK p \in S \ {1} : Kids(p) \cap (S \ {1}) = {}
      BY <1>1, <3>1 DEF Tables, NoCycle
    <3>3. p \in Pid /\ Kids(p)' = Kids(p) /\ 1 \notin Kids(p)'
      BY <1>7, <2>1, <2>2
    <3>4. QED
      BY <3>2, <3>3
  <2>5. QED
    BY <2>3, <2>4
<1>13. FreeZeroed'
  <2> SUFFICES ASSUME NEW p \in Pid, state'[p] = "FREE"
               PROVE  ppid'[p] = 0 /\ children'[p] = 0
    BY DEF FreeZeroed
  <2>1. CASE p \in D
    BY <1>4, <2>1
  <2>2. CASE p \notin D
    <3>1. p # t /\ state[p] = "FREE"
      BY <1>2, <1>6, <2>2 DEF Live
    <3>2. ppid[p] = 0 /\ children[p] = 0
      BY <1>1, <3>1 DEF Tables, FreeZeroed
    <3>3. QED
      BY <1>2, <1>4, <1>5, <2>2, <3>1, <3>2
  <2>3. QED
    BY <2>1, <2>2
<1>14. QED
  BY <1>8, <1>9, <1>10, <1>11, <1>12, <1>13 DEF Tables

----------------------------------------------------------------------------
(* The invariant of the specification *)

LEMMA InvInit == Init => IInv
<1> SUFFICES ASSUME Init PROVE IInv
  OBVIOUS
<1>1. TypeOK
  BY TypeInit
<1>2. 1 \in Pid
  BY TableAssumption DEF Pid
<1>3. /\ \A p \in Pid : /\ Live(p) <=> p = 1
                        /\ ppid[p] = 0 /\ children[p] = 0
                        /\ wait_queue[p] = <<>>
                        /\ state[p] # "EXITING" /\ state[p] # "BLOCK_WAIT"
                        /\ p # 1 => state[p] = "FREE"
      /\ waiting = {}
  BY DEF Init, Live
<1>4. ASSUME NEW p \in Pid PROVE Kids(p) = {}
  BY <1>3 DEF Kids, Pid
<1>5. ParentAlive
  BY <1>2, <1>3 DEF ParentAlive
<1>6. QueueHoldsTheDead
  <2>1. Elems(<<>>) = {} /\ Len(<<>>) = 0
    BY DEF Elems
  <2>2. QED
    BY <1>3, <1>4, <2>1 DEF QueueHoldsTheDead
<1>7. ChildrenCounted
  <2>1. Cardinality({}) = 0
    BY FS_EmptySet
  <2>2. QED
    <3> SUFFICES ASSUME NEW p \in Pid
                 PROVE  children[p] <= Cardinality(Kids(p))
                        /\ children[p] = Cardinality(Kids(p))
      BY DEF ChildrenCounted
    <3>1. children[p] = 0 /\ Cardinality(Kids(p)) = 0
      BY <1>3, <1>4, <2>1
    <3>2. QED
      BY <3>1
<1>8. NoLostWakeup /\ FreeZeroed
  BY <1>3 DEF NoLostWakeup, FreeZeroed
<1>9. NoCycle
  BY <1>4 DEF NoCycle
<1>10. CurrentReady /\ SomeTaskReady
  BY <1>2 DEF Init, CurrentReady, SomeTaskReady
<1>11. QED
  BY <1>1, <1>5, <1>6, <1>7, <1>8, <1>9, <1>10 DEF IInv, Tables

\* sched_switch on tables in order hands the processor to a ready task.
LEMMA SwitchToReady ==
  ASSUME mode = "run", ReadyIn(state') # {}, sched_switch(state')
  PROVE  mode' = "run" /\ cur_task' \in Pid /\ state'[cur_task'] = "READY"
  BY SchedNextReady DEF sched_switch, ReadyIn

LEMMA InvStep == IInv /\ [Next]_vars => IInv'
<1> SUFFICES ASSUME IInv, [Next]_vars PROVE IInv'
  OBVIOUS
<1>1. TypeOK'
  BY TypeStep DEF IInv
<1>2. Tables' => (ReadyIn(state) # {})'
  <2>1. (TypeOK /\ Tables => ReadyIn(state) # {})'
    BY SomeoneReady, PTL
  <2>2. QED
    BY <1>1, <2>1
<1>3. /\ Running => mode = "run" /\ state[cur_task] = "READY"
      /\ cur_task \in Pid
      /\ cur_task \in waiting => children[cur_task] # 0
      /\ cur_task \in waiting /\ state[cur_task] = "READY"
            => wait_queue[cur_task] # <<>>
  BY DEF IInv, CurrentReady, Running, TypeOK, Tables, NoLostWakeup
\* Once the tables are shown to be in order again, the switch finds a task.
<1>4. ASSUME Tables', sched_switch(state'), mode = "run",
             \A p \in waiting' : Live(p)'
      PROVE  IInv'
  <2>1. mode' = "run" /\ state'[cur_task'] = "READY"
    BY <1>2, <1>4, SwitchToReady DEF ReadyIn
  <2>2. CurrentReady' /\ SomeTaskReady'
    BY <1>4, <2>1 DEF CurrentReady, SomeTaskReady
  <2>3. QED
    BY <1>1, <1>4, <2>2 DEF IInv
<1>5. CASE sys_fork
  <2>1. Tables'
    BY <1>5, ForkKeepsTables
  <2>2. \A p \in Pid : Live(p) => Live(p)'
    BY <1>5, FreshPid DEF IInv, TypeOK, sys_fork, task_fork_inner, FreePids, Live
  <2>3. state'[cur_task'] = "READY"
    BY <1>3, <1>5, FreshPid
       DEF IInv, TypeOK, sys_fork, task_fork_inner, FreePids, UserMode
  <2>4. CurrentReady' /\ SomeTaskReady'
    BY <1>5, <2>2, <2>3 DEF IInv, TypeOK, sys_fork, CurrentReady, SomeTaskReady
  <2>5. QED
    BY <1>1, <2>1, <2>4 DEF IInv
<1>6. CASE sys_exit
  <2>1. Tables'
    BY <1>3, <1>6, KillKeepsTables DEF sys_exit, UserMode
  <2>2. \A p \in waiting' : Live(p)'
    <3> SUFFICES ASSUME NEW p \in waiting PROVE state'[p] \in {"READY", "BLOCK_WAIT"}
      BY <1>6 DEF sys_exit, Live
    <3>1. p \in Pid /\ Live(p) /\ p # cur_task
      BY <1>6 DEF IInv, TypeOK, CurrentReady, sys_exit, UserMode
    <3>2. p \notin Elems(wait_queue[cur_task])
      BY <1>3, <3>1 DEF IInv, Tables, QueueHoldsTheDead, Live
    <3>3. QED
      BY <1>6, <3>1, <3>2 DEF sys_exit, task_kill, StateAfterKill, Live
  <2>3. QED
    BY <1>3, <1>4, <1>6, <2>1, <2>2 DEF sys_exit, UserMode
<1>7. ASSUME Reap, Running, children[cur_task] # 0 PROVE IInv'
  <2>1. Tables'
    BY <1>3, <1>7, ReapKeepsTables
  <2>2. PICK k \in Pid : k = Head(wait_queue[cur_task])
    BY <1>3, <1>7, ElemsOfQueue DEF Reap, IInv, TypeOK
  <2>3. state[k] = "EXITING"
    <3>1. k \in Elems(wait_queue[cur_task])
      BY <1>3, <1>7, <2>2, ElemsOfQueue DEF Reap, IInv, TypeOK
    <3>2. QED
      BY <1>3, <3>1 DEF IInv, Tables, QueueHoldsTheDead
  <2>4. state' = [state EXCEPT ![k] = "FREE"]
    BY <1>7, <2>2 DEF Reap
  <2>5. \A p \in Pid : Live(p) => state'[p] = state[p]
    BY <2>3, <2>4 DEF IInv, TypeOK, Live
  <2>6. CurrentReady' /\ SomeTaskReady'
    BY <1>3, <1>7, <2>5
       DEF IInv, TypeOK, Reap, CurrentReady, SomeTaskReady, Live
  <2>7. QED
    BY <1>1, <2>1, <2>6 DEF IInv
<1>8. ASSUME Block, Running, children[cur_task] # 0 PROVE IInv'
  <2>1. Tables'
    BY <1>3, <1>8, BlockKeepsTables
  <2>2. \A p \in waiting' : Live(p)'
    BY <1>3, <1>8 DEF Block, IInv, TypeOK, CurrentReady, Live
  <2>3. QED
    BY <1>3, <1>4, <1>8, <2>1, <2>2 DEF Block
<1>9. CASE sys_wait \/ WaitAgain
  BY <1>3, <1>7, <1>8, <1>9 DEF sys_wait, WaitAgain, UserMode
<1>10. ASSUME UNCHANGED <<tables, waiting>> PROVE Tables' /\ \A p \in waiting' : Live(p)'
  <2>1. Tables'
    <3>1. ParentAlive' /\ NoLostWakeup' /\ FreeZeroed'
      BY <1>10 DEF IInv, Tables, tables, ParentAlive, NoLostWakeup, FreeZeroed, Live
    <3>2. QueueHoldsTheDead' /\ ChildrenCounted' /\ NoCycle'
      <4>1. \A p \in Pid : Kids(p)' = Kids(p) /\ (Live(p)' <=> Live(p))
        BY <1>10 DEF tables, Kids, Live
      <4>2. QueueHoldsTheDead'
        BY <1>10, <4>1 DEF IInv, Tables, tables, QueueHoldsTheDead
      <4>3. ChildrenCounted'
        BY <1>10, <4>1 DEF IInv, Tables, tables, ChildrenCounted
      <4>4. NoCycle'
        BY <1>10 DEF IInv, Tables, tables, NoCycle, Live, Kids
      <4>5. QED
        BY <4>2, <4>3, <4>4
    <3>3. QED
      BY <3>1, <3>2 DEF Tables
  <2>2. QED
    BY <1>10, <2>1 DEF IInv, CurrentReady, tables, Live
<1>11. CASE sys_sched_yield \/ (isr32 /\ ~sched_halted)
  <2>1. UNCHANGED <<tables, waiting>> /\ sched_switch(state) /\ mode = "run"
    BY <1>11 DEF sys_sched_yield, isr32, UserMode, Running
  <2>2. state' = state
    BY <2>1 DEF tables
  <2>3. QED
    BY <1>4, <1>10, <2>1, <2>2
<1>12. CASE \/ ForkFails \/ Shutdown \/ ReadStdin \/ StdinReady
            \/ (isr32 /\ sched_halted) \/ WaitNoChild \/ Stopped \/ UNCHANGED vars
  <2>1. /\ UNCHANGED <<tables, waiting, cur_task>>
        /\ mode' = mode \/ mode' \in {"fault", "off"}
    BY <1>12 DEF ForkFails, Shutdown, ReadStdin, StdinReady, isr32, WaitNoChild,
                 Stopped, vars, tables
  <2>2. CurrentReady' /\ SomeTaskReady'
    BY <1>10, <2>1 DEF IInv, CurrentReady, SomeTaskReady, tables
  <2>3. QED
    BY <1>1, <1>10, <2>1, <2>2 DEF IInv
<1>13. QED
  BY <1>5, <1>6, <1>9, <1>11, <1>12 DEF Next

\* The inductive invariant holds in every reachable state of every table.
THEOREM InvariantHolds == Spec => []IInv
  BY InvInit, InvStep, PTL DEF Spec

\* The panic of sched_next, "No tasks ready to schedule!", is unreachable.
THEOREM SchedulerNeverPanics == Spec => []SomeTaskReady
<1>1. IInv => SomeTaskReady
  BY DEF IInv
<1>2. QED
  BY <1>1, InvariantHolds, PTL

\* Wait queues hold exactly the dead children, once each, under a living
\* parent: no dangling link, no task on two lists.
THEOREM QueuesCorrect == Spec => [](ParentAlive /\ QueueHoldsTheDead)
<1>1. IInv => ParentAlive /\ QueueHoldsTheDead
  BY DEF IInv, Tables
<1>2. QED
  BY <1>1, InvariantHolds, PTL

\* The child counters: exact but for pid 1, where they are a lower bound.
THEOREM CountersCorrect == Spec => []ChildrenCounted
<1>1. IInv => ChildrenCounted
  BY DEF IInv, Tables
<1>2. QED
  BY <1>1, InvariantHolds, PTL

\* sys_wait loses no wakeup.
THEOREM WakeupsCorrect == Spec => []NoLostWakeup
<1>1. IInv => NoLostWakeup
  BY DEF IInv, Tables
<1>2. QED
  BY <1>1, InvariantHolds, PTL

\* The parent relation never closes a cycle.
THEOREM TreeCorrect == Spec => []NoCycle
<1>1. IInv => NoCycle
  BY DEF IInv, Tables
<1>2. QED
  BY <1>1, InvariantHolds, PTL

----------------------------------------------------------------------------
(* The refinement of Lifecycle *)

LEMMA LifeIs ==
  ASSUME TypeOK, NEW p \in Pid
  PROVE  /\ life[p] = "free" <=> state[p] = "FREE"
         /\ life[p] = "zombie" <=> state[p] = "EXITING"
         /\ life[p] = "alive" <=> Live(p)
         /\ life[p] \in {"free", "zombie", "alive"}
  BY DEF life, TypeOK, States, Live

LEMMA RefineInit == Init => L!Init
<1> SUFFICES ASSUME Init PROVE L!Init
  OBVIOUS
<1>1. life = [p \in Pid |-> IF p = 1 THEN "alive" ELSE "free"]
  BY DEF Init, life
<1>2. QED
  BY <1>1 DEF Init, L!Init, L!Pid, Pid

LEMMA RefineFork ==
  ASSUME IInv, sys_fork
  PROVE  \E p, c \in Pid : L!Birth(p, c)
<1>0. PICK n \in FreePids : n = alloc_empty_task
  BY FreshPid DEF sys_fork
<1>1. n \in Pid /\ state[n] = "FREE" /\ cur_task \in Pid /\ TypeOK
  BY <1>0 DEF IInv, TypeOK, FreePids
<1>2. state[cur_task] = "READY"
  BY DEF IInv, CurrentReady, sys_fork, UserMode, Running
<1>3. /\ state' = [state EXCEPT ![n] = "READY"]
      /\ ppid' = [ppid EXCEPT ![n] = cur_task]
  BY <1>0 DEF sys_fork, task_fork_inner
<1>4. life' = [life EXCEPT ![n] = "alive"]
  BY <1>1, <1>3 DEF life, TypeOK
<1>5. life[cur_task] = "alive" /\ life[n] = "free"
  BY <1>1, <1>2, LifeIs DEF Live
<1>6. L!Birth(cur_task, n)
  BY <1>3, <1>4, <1>5 DEF L!Birth
<1>7. QED
  BY <1>1, <1>6

LEMMA RefineExit ==
  ASSUME IInv, sys_exit
  PROVE  \E c \in Pid : L!Death(c)
<1> PICK t \in Pid : t = cur_task
  BY DEF IInv, TypeOK
<1>1. /\ t # 1 /\ state[t] = "READY" /\ task_kill(t) /\ TypeOK
      /\ life[t] = "alive"
  BY LifeIs DEF IInv, CurrentReady, sys_exit, UserMode, Running, Live
<1>2. TypeOK'
  BY TypeStep DEF IInv, Next
<1>3. ASSUME NEW p \in Pid
      PROVE  p \in Elems(wait_queue[t]) <=> state[p] = "EXITING" /\ ppid[p] = t
  <2>1. Elems(wait_queue[t]) = {z \in Kids(t) : state[z] = "EXITING"}
    BY DEF IInv, Tables, QueueHoldsTheDead
  <2>2. QED
    BY <2>1 DEF Kids
<1>4. life' = [p \in Pid |->
                 IF p = t THEN "zombie"
                 ELSE IF life[p] = "zombie" /\ ppid[p] = t THEN "free" ELSE life[p]]
  <2> SUFFICES ASSUME NEW p \in Pid
               PROVE  life'[p] =
                        IF p = t THEN "zombie"
                        ELSE IF life[p] = "zombie" /\ ppid[p] = t THEN "free"
                        ELSE life[p]
    BY DEF life
  <2>1. state'[p] = IF state[p] = "EXITING" /\ ppid[p] = t THEN "FREE"
                    ELSE IF p = t THEN "EXITING"
                    ELSE IF p = ppid[t] /\ state[p] = "BLOCK_WAIT" THEN "READY"
                    ELSE state[p]
    BY <1>1, <1>3 DEF task_kill, StateAfterKill
  <2>2. QED
    BY <1>1, <2>1 DEF life
<1>5. ppid' = [p \in Pid |->
                 IF ppid[p] # t THEN ppid[p]
                 ELSE IF life[p] = "zombie" THEN 0 ELSE 1]
  <2>1. ppid' = PpidAfterKill(t)
    BY <1>1 DEF task_kill
  <2>2. ASSUME NEW p \in Pid
        PROVE  PpidAfterKill(t)[p] = IF ppid[p] # t THEN ppid[p]
                                     ELSE IF life[p] = "zombie" THEN 0 ELSE 1
    <3>1. PpidAfterKill(t)[p] = IF state[p] = "EXITING" /\ ppid[p] = t THEN 0
                                ELSE IF p # 1 /\ ppid[p] = t THEN 1 ELSE ppid[p]
      BY <1>3 DEF PpidAfterKill
    <3>2. p = 1 => ppid[p] # t
      BY DEF IInv, Tables, ParentAlive, Pid
    <3>3. life[p] = "zombie" <=> state[p] = "EXITING"
      BY <1>1, LifeIs
    <3>4. QED
      BY <3>1, <3>2, <3>3
  <2>3. PpidAfterKill(t) = [p \in Pid |-> PpidAfterKill(t)[p]]
    BY DEF PpidAfterKill
  <2>4. QED
    BY <2>1, <2>2, <2>3
<1>6. L!Death(t)
  BY <1>1, <1>4, <1>5 DEF L!Death, L!Pid, Pid
<1>7. QED
  BY <1>6

LEMMA RefineReap ==
  ASSUME IInv, Reap, Running
  PROVE  \E p, c \in Pid : L!Collect(p, c)
<1>1. /\ TypeOK /\ cur_task \in Pid /\ state[cur_task] = "READY"
      /\ wait_queue[cur_task] \in Seq(Pid) /\ wait_queue[cur_task] # <<>>
  BY DEF IInv, TypeOK, CurrentReady, Running, Reap
<1> PICK k \in Pid : k = Head(wait_queue[cur_task])
  BY <1>1, ElemsOfQueue
<1>2. state[k] = "EXITING" /\ ppid[k] = cur_task
  <2>1. k \in Elems(wait_queue[cur_task])
    BY <1>1, ElemsOfQueue
  <2>2. QED
    BY <1>1, <2>1 DEF IInv, Tables, QueueHoldsTheDead, Kids
<1>3. /\ state' = [state EXCEPT ![k] = "FREE"]
      /\ ppid' = [ppid EXCEPT ![k] = 0]
  BY DEF Reap
<1>4. life' = [life EXCEPT ![k] = "free"]
  BY <1>1, <1>3 DEF life, TypeOK
<1>5. life[cur_task] = "alive" /\ life[k] = "zombie"
  BY <1>1, <1>2, LifeIs DEF Live
<1>6. L!Collect(cur_task, k)
  BY <1>2, <1>3, <1>4, <1>5 DEF L!Collect
<1>7. QED
  BY <1>1, <1>6

LEMMA RefineStep == IInv /\ [Next]_vars => [L!Next]_<<life, ppid>>
<1> SUFFICES ASSUME IInv, [Next]_vars PROVE L!Next \/ UNCHANGED <<life, ppid>>
  OBVIOUS
<1>1. L!Pid = Pid
  BY DEF L!Pid, Pid
<1>2. CASE sys_fork
  BY <1>1, <1>2, RefineFork DEF L!Next
<1>3. CASE sys_exit
  BY <1>1, <1>3, RefineExit DEF L!Next
<1>4. ASSUME Reap, Running PROVE L!Next
  BY <1>1, <1>4, RefineReap DEF L!Next
<1>5. ASSUME Block, Running PROVE UNCHANGED <<life, ppid>>
  <2>1. cur_task \in Pid /\ state[cur_task] = "READY"
    BY <1>5 DEF IInv, TypeOK, CurrentReady, Running
  <2>2. state' = [state EXCEPT ![cur_task] = "BLOCK_WAIT"] /\ ppid' = ppid
    BY <1>5 DEF Block
  <2>3. life' = life
    BY <2>1, <2>2 DEF life, IInv, TypeOK
  <2>4. QED
    BY <2>2, <2>3
<1>6. CASE sys_wait \/ WaitAgain
  BY <1>4, <1>5, <1>6 DEF sys_wait, WaitAgain, UserMode
<1>7. CASE \/ ForkFails \/ Shutdown \/ ReadStdin \/ StdinReady \/ isr32
           \/ sys_sched_yield \/ WaitNoChild \/ Stopped \/ UNCHANGED vars
  <2>1. state' = state /\ ppid' = ppid
    BY <1>7 DEF ForkFails, Shutdown, ReadStdin, StdinReady, isr32,
                sys_sched_yield, WaitNoChild, Stopped, vars, tables
  <2>2. QED
    BY <2>1 DEF life
<1>8. QED
  BY <1>2, <1>3, <1>6, <1>7 DEF Next

\* The task table implements the abstract life cycle of processes.
THEOREM Refinement == Spec => ImplementsLifecycle
<1>1. Init /\ []IInv /\ [][Next]_vars => L!Spec
  BY RefineInit, RefineStep, PTL DEF L!Spec
<1>2. QED
  BY <1>1, InvariantHolds, PTL DEF Spec, ImplementsLifecycle

=============================================================================
