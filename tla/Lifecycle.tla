------------------------------ MODULE Lifecycle ------------------------------
(***************************************************************************)
(* What fork, exit and wait promise together, without queues, counters or  *)
(* a scheduler: a process is born of a living process, dies once, stays as *)
(* a zombie until its parent collects it or dies, and never loses its      *)
(* parent: orphans belong to pid 1.                                        *)
(***************************************************************************)
EXTENDS Integers

CONSTANT MaxPid

VARIABLES life,     \* "free", "alive" or "zombie"
          parent    \* the process that may collect it; 0 for none

Pid == 1 .. MaxPid

Init ==
  /\ life = [p \in Pid |-> IF p = 1 THEN "alive" ELSE "free"]
  /\ parent = [p \in Pid |-> 0]

Birth(p, c) ==
  /\ life[p] = "alive"
  /\ life[c] = "free"
  /\ life' = [life EXCEPT ![c] = "alive"]
  /\ parent' = [parent EXCEPT ![c] = p]

\* The zombies of a dying process go with it, its living children to pid 1.
Death(c) ==
  /\ c # 1
  /\ life[c] = "alive"
  /\ life' = [p \in Pid |->
       IF p = c THEN "zombie"
       ELSE IF life[p] = "zombie" /\ parent[p] = c THEN "free" ELSE life[p]]
  /\ parent' = [p \in Pid |->
       IF parent[p] # c THEN parent[p]
       ELSE IF life[p] = "zombie" THEN 0 ELSE 1]

Collect(p, c) ==
  /\ life[p] = "alive"
  /\ life[c] = "zombie"
  /\ parent[c] = p
  /\ life' = [life EXCEPT ![c] = "free"]
  /\ parent' = [parent EXCEPT ![c] = 0]

Next ==
  \/ \E p, c \in Pid : Birth(p, c) \/ Collect(p, c)
  \/ \E c \in Pid : Death(c)

Spec == Init /\ [][Next]_<<life, parent>>

=============================================================================
