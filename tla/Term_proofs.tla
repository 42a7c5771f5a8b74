----------------------------- MODULE Term_proofs -----------------------------
(* What is true of the terminal's pipe for any number of commands and any  *)
(* width of size_t: writers is the number of its write ends that were made *)
(* for two processes and not closed yet, which is never 0, for only the    *)
(* shell's child ever closes one.                                          *)
EXTENDS Term, TLAPS

Pcs == {"none", "pipe", "fork", "close", "dup", "exec", "stray", "rash", "forking",
        "read", "write", "wait", "wild", "new", "run", "dead"}

TermTypeOK ==
  /\ at \in [Processes -> Pcs]
  /\ holds \in [Processes -> SUBSET {"in", "r", "w"}]
  /\ line \in {"none", "bad", "live", "gone"}
  /\ readers \in 0 .. Word - 1 /\ writers \in 0 .. Word - 1
  /\ typed \in 0 .. MaxTyped /\ moved \in BOOLEAN

\* The terminal has its pipe, and forks its child once.
Order ==
  /\ line = "none" <=> at["term"] = "pipe"
  /\ at["term"] \in {"pipe", "fork"} <=> at["shell"] = "none"
  /\ at["term"] \notin {"new", "run", "rash", "forking", "none", "dup", "exec", "stray"}
  /\ at["shell"] \notin {"new", "run", "pipe", "fork"}
  /\ \A j \in Jobs : at[j] \in {"none", "new", "run", "dead"}
  /\ line \in {"none", "bad"} => at["shell"] \in {"none", "close", "wild"}

\* Nothing is held of a pipe that was never made.
NotMade == line # "live" => line # "gone" /\ \A p \in Processes : holds[p] = {}

\* The write ends that have been counted, and who has one.
WriteEnds ==
  line = "live" =>
    /\ writers = IF at["shell"] \in {"none", "close"} THEN 2 ELSE 1
    /\ \A p \in Processes : "w" \in holds[p] => p = "term" \/ (p = "shell" /\ at[p] = "close")

\* The read ends, while nothing but the terminal has closed one.
ReadEnds ==
  line = "live" /\ ~moved /\ at["shell"] \in {"none", "close", "dup", "exec", "rash", "forking", "stray"}
  => readers = IF at["term"] \in {"fork", "close"} THEN 2 ELSE 1

TermInv == TermTypeOK /\ Order /\ NotMade /\ WriteEnds /\ ReadEnds

LEMMA TermStarts == TermInit => TermInv
<1> SUFFICES ASSUME TermInit PROVE TermInv
  OBVIOUS
<1> USE TermAssumption DEF TermInit, Processes
<1>1. TermTypeOK
  <2>1. at \in [Processes -> Pcs] /\ holds \in [Processes -> SUBSET {"in", "r", "w"}]
    BY DEF Pcs
  <2>2. 0 \in 0 .. Word - 1 /\ 0 \in 0 .. MaxTyped
    OBVIOUS
  <2>3. moved \in BOOLEAN
    OBVIOUS
  <2> QED BY <2>1, <2>2, <2>3 DEF TermTypeOK
<1>2. Order
  BY DEF Order
<1>3. NotMade /\ WriteEnds /\ ReadEnds
  BY DEF NotMade, WriteEnds, ReadEnds
<1> QED BY <1>1, <1>2, <1>3 DEF TermInv

\* A size_t that goes down.
LEMMA Downs ==
  ASSUME NEW n \in 0 .. Word - 1
  PROVE  /\ (n + Word - 1) % Word \in 0 .. Word - 1
         /\ n > 0 => (n + Word - 1) % Word = n - 1
<1>1. Word \in Nat /\ Word > 2
  BY TermAssumption
<1>2. CASE n = 0
  <2>1. (Word - 1) % Word = Word - 1
    BY <1>1
  <2> QED BY <1>1, <1>2, <2>1
<1>3. CASE n > 0
  <2>1. PICK m \in 0 .. Word - 1 : m = n - 1
    BY <1>1, <1>3
  <2>2. (m + Word) % Word = m
    BY <1>1
  <2>3. n + Word - 1 = m + Word
    BY <1>1, <2>1
  <2> QED BY <1>1, <2>1, <2>2, <2>3
<1> QED BY <1>2, <1>3

\* What a close does to an invariant state.
LEMMA CloseIs ==
  ASSUME TermInv, NEW p \in Processes, NEW d \in {"in", "r", "w"}, Closes(p, d)
  PROVE  /\ line = "live" /\ readers' \in 0 .. Word - 1 /\ writers' \in 0 .. Word - 1
         /\ holds' = [holds EXCEPT ![p] = @ \ {d}]
         /\ holds' \in [Processes -> SUBSET {"in", "r", "w"}]
         /\ \A q \in Processes : holds'[q] \subseteq holds[q]
         /\ d = "w" => readers' = readers /\ (writers > 0 => writers' = writers - 1)
         /\ d # "w" => writers' = writers /\ (readers > 0 => readers' = readers - 1)
         /\ line' = IF readers' = 0 /\ writers' = 0 THEN "gone" ELSE "live"
<1>1. /\ readers \in 0 .. Word - 1 /\ writers \in 0 .. Word - 1
      /\ holds \in [Processes -> SUBSET {"in", "r", "w"}]
  BY DEF TermInv, TermTypeOK
<1>2. /\ line = "live" /\ holds' = [holds EXCEPT ![p] = @ \ {d}]
      /\ readers' = IF d = "w" THEN readers ELSE (readers + Word - 1) % Word
      /\ writers' = IF d = "w" THEN (writers + Word - 1) % Word ELSE writers
      /\ line' = IF readers' = 0 /\ writers' = 0 THEN "gone" ELSE "live"
  BY DEF Closes
<1>3. /\ holds' \in [Processes -> SUBSET {"in", "r", "w"}]
      /\ \A q \in Processes : holds'[q] \subseteq holds[q]
  BY <1>1, <1>2
<1>4. CASE d = "w"
  BY <1>1, <1>2, <1>3, <1>4, Downs
<1>5. CASE d # "w"
  BY <1>1, <1>2, <1>3, <1>5, Downs
<1> QED BY <1>4, <1>5

\* Every step of the three keeps the invariant.
LEMMA TermStep == TermInv /\ [TermNext]_termVars => TermInv'
<1> SUFFICES ASSUME TermInv, [TermNext]_termVars PROVE TermInv'
  OBVIOUS
<1> USE TermAssumption DEF Processes, Goes, Counts
<1>0. TermTypeOK /\ Order /\ NotMade /\ WriteEnds /\ ReadEnds
  BY DEF TermInv
<1>1. CASE makes_pipe
  <2>1. TermTypeOK'
    <3>1. at' \in [Processes -> Pcs] /\ holds' \in [Processes -> SUBSET {"in", "r", "w"}]
      <4>1. at' \in [Processes -> Pcs]
        BY <1>0, <1>1 DEF makes_pipe, TermTypeOK, Pcs
      <4>2. holds' = holds \/ holds' = [holds EXCEPT !["term"] = {"r", "w"}]
        BY <1>1 DEF makes_pipe
      <4> QED BY <1>0, <4>1, <4>2 DEF TermTypeOK
    <3>2. line' \in {"live", "bad"} /\ typed' = typed /\ moved' = moved
      BY <1>1 DEF makes_pipe
    <3>3. readers' \in 0 .. Word - 1 /\ writers' \in 0 .. Word - 1
      <4>1. 2 \in 0 .. Word - 1
        OBVIOUS
      <4>2. readers' \in {readers, 2} /\ writers' \in {writers, 2}
        BY <1>1 DEF makes_pipe, NewEnds
      <4> QED BY <1>0, <4>1, <4>2 DEF TermTypeOK
    <3> QED BY <1>0, <3>1, <3>2, <3>3 DEF TermTypeOK
  <2>2. Order'
    BY <1>0, <1>1 DEF makes_pipe, TermTypeOK, Order
  <2>3. NotMade' /\ WriteEnds' /\ ReadEnds'
    BY <1>0, <1>1 DEF makes_pipe, NewEnds, TermTypeOK, Order, NotMade, WriteEnds, ReadEnds
  <2> QED BY <2>1, <2>2, <2>3 DEF TermInv
<1>2. CASE forks_shell
  <2>1. TermTypeOK'
    BY <1>0, <1>2 DEF forks_shell, Copies, TermTypeOK, Pcs
  <2>2. Order'
    BY <1>0, <1>2 DEF forks_shell, TermTypeOK, Order
  <2>3. NotMade' /\ WriteEnds' /\ ReadEnds'
    BY <1>0, <1>2 DEF forks_shell, Copies, TermTypeOK, Order, NotMade, WriteEnds, ReadEnds
  <2> QED BY <2>1, <2>2, <2>3 DEF TermInv
<1>3. CASE shell_closes
  <2>1. /\ at["shell"] = "close" /\ at' = [at EXCEPT !["shell"] = "dup"] /\ Closes("shell", "w")
        /\ UNCHANGED <<typed, moved>>
    BY <1>3 DEF shell_closes
  <2>2. line = "live" /\ writers = 2
    BY <1>0, <2>1 DEF WriteEnds, Closes
  <2>3. /\ holds' = [holds EXCEPT !["shell"] = @ \ {"w"}] /\ readers' = readers /\ writers' = 1
        /\ line' = "live" /\ holds' \in [Processes -> SUBSET {"in", "r", "w"}]
        /\ readers' \in 0 .. Word - 1 /\ writers' \in 0 .. Word - 1
    BY <2>1, <2>2, CloseIs
  <2>4. TermTypeOK'
    BY <1>0, <2>1, <2>3 DEF TermTypeOK, Pcs
  <2>5. Order'
    BY <1>0, <2>1, <2>2, <2>3 DEF TermTypeOK, Order
  <2>6. NotMade' /\ WriteEnds' /\ ReadEnds'
    BY <1>0, <2>1, <2>2, <2>3 DEF TermTypeOK, NotMade, WriteEnds, ReadEnds
  <2> QED BY <2>4, <2>5, <2>6 DEF TermInv
<1>4. CASE shell_dups
  <2>1. /\ at["shell"] = "dup" /\ at' = [at EXCEPT !["shell"] = "exec"]
        /\ holds' = [holds EXCEPT !["shell"] = @ \cup {"in"}]
        /\ UNCHANGED <<line, readers, writers, typed, moved>>
    BY <1>4 DEF shell_dups
  <2>2. line = "live"
    BY <1>0, <2>1 DEF Order, NotMade, TermTypeOK
  <2> QED BY <1>0, <2>1, <2>2 DEF TermInv, TermTypeOK, Pcs, Order, NotMade, WriteEnds, ReadEnds
<1>5. CASE shell_execs
  <2>1. /\ at["shell"] = "exec" /\ UNCHANGED <<holds, line, readers, writers, typed, moved>>
        /\ at' = [at EXCEPT !["shell"] = "rash"] \/ at' = [at EXCEPT !["shell"] = "stray"]
    BY <1>5 DEF shell_execs
  <2> QED BY <1>0, <2>1 DEF TermInv, TermTypeOK, Pcs, Order, NotMade, WriteEnds, ReadEnds
<1>6. ASSUME NEW p \in {"term", "shell"}, goes_wild(p) PROVE TermInv'
  <2>1. /\ line = "bad" /\ at[p] = "close" /\ at' = [at EXCEPT ![p] = "wild"]
        /\ UNCHANGED <<holds, line, readers, writers, typed, moved>>
    BY <1>6 DEF goes_wild
  <2>2. TermTypeOK'
    BY <1>0, <2>1 DEF TermTypeOK, Pcs
  <2>3. Order'
    BY <1>0, <2>1 DEF TermTypeOK, Order
  <2>4. NotMade' /\ WriteEnds' /\ ReadEnds'
    BY <1>0, <2>1 DEF NotMade, WriteEnds, ReadEnds
  <2> QED BY <2>2, <2>3, <2>4 DEF TermInv
<1>7. ASSUME NEW p \in {"term", "shell"}, closes_input(p) PROVE TermInv'
  <2>1. /\ (p = "term" /\ at[p] = "close") \/ (p = "shell" /\ at[p] = "stray")
        /\ at' = [at EXCEPT ![p] = "read"] /\ Closes(p, "r") /\ UNCHANGED <<typed, moved>>
    BY <1>7 DEF closes_input
  <2>2. line = "live" /\ writers \in 1 .. 2
    BY <1>0, <2>1 DEF WriteEnds, Closes
  <2>3. /\ holds' \in [Processes -> SUBSET {"in", "r", "w"}] /\ writers' = writers
        /\ \A q \in Processes : holds'[q] \subseteq holds[q]
        /\ readers > 0 => readers' = readers - 1
        /\ line' = "live" /\ readers' \in 0 .. Word - 1 /\ writers' \in 0 .. Word - 1
    <3>1. p \in Processes /\ "r" \in {"in", "r", "w"} /\ "r" # "w"
      OBVIOUS
    <3>2. /\ holds' \in [Processes -> SUBSET {"in", "r", "w"}] /\ writers' = writers
          /\ \A q \in Processes : holds'[q] \subseteq holds[q]
          /\ readers > 0 => readers' = readers - 1
          /\ readers' \in 0 .. Word - 1 /\ writers' \in 0 .. Word - 1
          /\ line' = IF readers' = 0 /\ writers' = 0 THEN "gone" ELSE "live"
      BY <2>1, <3>1, CloseIs
    <3>3. writers' # 0
      BY <2>2, <3>2
    <3>4. line' = "live"
      BY <3>2, <3>3
    <3> QED BY <3>2, <3>4
  <2>4. TermTypeOK'
    BY <1>0, <2>1, <2>3 DEF TermTypeOK, Pcs
  <2>5. Order'
    BY <1>0, <2>1, <2>2, <2>3 DEF TermTypeOK, Order
  <2>6. NotMade'
    BY <2>3 DEF NotMade
  <2>7. WriteEnds'
    BY <1>0, <2>1, <2>2, <2>3 DEF TermTypeOK, WriteEnds
  <2>8. ReadEnds'
    <3>1. CASE p = "shell"
      BY <1>0, <2>1, <3>1 DEF TermTypeOK, ReadEnds
    <3>2. CASE p = "term"
      <4>1. at'["term"] = "read" /\ at'["shell"] = at["shell"] /\ moved' = moved /\ at["term"] = "close"
        BY <1>0, <2>1, <3>2 DEF TermTypeOK
      <4> QED BY <1>0, <2>2, <2>3, <4>1 DEF ReadEnds
    <3> QED BY <3>1, <3>2
  <2> QED BY <2>4, <2>5, <2>6, <2>7, <2>8 DEF TermInv
<1>8. ASSUME NEW p \in {"term", "shell"}, NEW pc \in {"read", "write", "wait"},
             at[p] \in {"read", "write"}, at' = [at EXCEPT ![p] = pc],
             typed' \in 0 .. MaxTyped, UNCHANGED <<holds, line, readers, writers, moved>>
      PROVE  TermInv'
  <2>1. TermTypeOK'
    BY <1>0, <1>8 DEF TermTypeOK, Pcs
  <2>2. Order'
    BY <1>0, <1>8 DEF TermTypeOK, Order
  <2>3. NotMade' /\ WriteEnds' /\ ReadEnds'
    BY <1>0, <1>8 DEF TermTypeOK, NotMade, WriteEnds, ReadEnds
  <2> QED BY <2>1, <2>2, <2>3 DEF TermInv
<1>9. ASSUME NEW p \in {"term", "shell"}, reads(p) \/ writes(p) PROVE TermInv'
  <2>1. typed \in 0 .. MaxTyped
    BY <1>0 DEF TermTypeOK
  <2>2. typed' \in 0 .. MaxTyped
    BY <1>9, <2>1 DEF reads, writes, Takes
  <2>3. CASE reads(p)
    <3>1. /\ at[p] = "read" /\ at' = [at EXCEPT ![p] = "write"]
          /\ UNCHANGED <<holds, line, readers, writers, moved>>
      BY <2>3 DEF reads
    <3> QED BY <1>8, <2>2, <3>1
  <2>4. CASE writes(p)
    <3>1. PICK pc \in {"read", "wait"} : at' = [at EXCEPT ![p] = pc]
      BY <2>4 DEF writes
    <3>2. at[p] = "write" /\ UNCHANGED <<holds, line, readers, writers, moved>>
      BY <2>4 DEF writes
    <3> QED BY <1>8, <2>2, <3>1, <3>2
  <2> QED BY <1>9, <2>3, <2>4
\* A process ends, whose descriptors go with it.
<1>10. ASSUME NEW p \in Processes, Exits(p),
              \/ p = "term" /\ at[p] = "wait" /\ at["shell"] = "dead"
              \/ p = "shell" /\ at[p] \in {"wait", "rash"}
              \/ p \in Jobs
       PROVE  TermInv'
  <2>1. /\ at' = [at EXCEPT ![p] = "dead"] /\ holds' = [holds EXCEPT ![p] = {}]
        /\ UNCHANGED <<line, readers, writers, typed, moved>>
    BY <1>10 DEF Exits
  <2>2. TermTypeOK'
    BY <1>0, <2>1 DEF TermTypeOK, Pcs
  <2>3. Order'
    BY <1>0, <1>10, <2>1 DEF TermTypeOK, Order
  <2>4. \A q \in Processes : holds'[q] \subseteq holds[q]
    BY <1>0, <2>1 DEF TermTypeOK
  <2>5. NotMade'
    BY <1>0, <2>1, <2>4 DEF NotMade
  <2>6. WriteEnds'
    BY <1>0, <1>10, <2>1, <2>4 DEF TermTypeOK, WriteEnds
  <2>7. ReadEnds'
    BY <1>0, <1>10, <2>1 DEF TermTypeOK, ReadEnds
  <2> QED BY <2>2, <2>3, <2>5, <2>6, <2>7 DEF TermInv
<1>11. ASSUME NEW p \in {"term", "shell"}, waited(p) PROVE TermInv'
  BY <1>10, <1>11 DEF waited
<1>12. CASE rash_exits
  BY <1>10, <1>12 DEF rash_exits
<1>13. CASE rash_reads
  <2>1. typed' \in 0 .. MaxTyped /\ UNCHANGED <<at, holds, line, readers, writers, moved>>
    BY <1>0, <1>13 DEF rash_reads, Takes, TermTypeOK
  <2> QED BY <1>0, <2>1 DEF TermInv, TermTypeOK, Order, NotMade, WriteEnds, ReadEnds
<1>14. CASE rash_waits
  <2>1. /\ at["shell"] = "forking" /\ UNCHANGED <<holds, line, readers, writers, typed, moved>>
        /\ at' = [p \in Processes |-> IF p = "shell" THEN "rash"
                                       ELSE IF p = "term" THEN at[p] ELSE "none"]
    BY <1>14 DEF rash_waits
  <2>2. TermTypeOK'
    BY <1>0, <2>1 DEF TermTypeOK, Pcs
  <2>3. Order'
    BY <1>0, <2>1 DEF TermTypeOK, Order
  <2>4. NotMade' /\ WriteEnds' /\ ReadEnds'
    BY <1>0, <2>1 DEF TermTypeOK, NotMade, WriteEnds, ReadEnds
  <2> QED BY <2>2, <2>3, <2>4 DEF TermInv
<1>15. ASSUME NEW j \in Jobs, rash_forks(j) PROVE TermInv'
  <2>1. /\ at["shell"] \in {"rash", "forking"}
        /\ at' = [at EXCEPT !["shell"] = "forking", ![j] = "new"]
        /\ holds' = [holds EXCEPT ![j] = holds["shell"]]
        /\ UNCHANGED <<line, readers, writers, typed, moved>>
    BY <1>15 DEF rash_forks, Copies
  <2>2. TermTypeOK'
    BY <1>0, <2>1 DEF TermTypeOK, Pcs
  <2>3. Order'
    BY <1>0, <2>1 DEF TermTypeOK, Order
  <2>4. NotMade' /\ WriteEnds'
    BY <1>0, <2>1 DEF TermTypeOK, NotMade, WriteEnds
  <2>5. ReadEnds'
    BY <1>0, <2>1 DEF TermTypeOK, ReadEnds
  <2> QED BY <2>2, <2>3, <2>4, <2>5 DEF TermInv
<1>16. ASSUME NEW j \in Jobs, job_redirected(j) PROVE TermInv'
  <2>1. at[j] = "new" /\ at' = [at EXCEPT ![j] = "run"] /\ Closes(j, "in") /\ moved' = TRUE /\ typed' = typed
    BY <1>16 DEF job_redirected
  <2>2. line = "live" /\ writers \in 1 .. 2
    BY <1>0, <2>1 DEF WriteEnds, Closes
  <2>3. /\ holds' \in [Processes -> SUBSET {"in", "r", "w"}] /\ writers' = writers
        /\ \A q \in Processes : holds'[q] \subseteq holds[q]
        /\ line' = "live" /\ readers' \in 0 .. Word - 1 /\ writers' \in 0 .. Word - 1
    <3>1. j \in Processes /\ "in" \in {"in", "r", "w"} /\ "in" # "w"
      OBVIOUS
    <3>2. /\ holds' \in [Processes -> SUBSET {"in", "r", "w"}] /\ writers' = writers
          /\ \A q \in Processes : holds'[q] \subseteq holds[q]
          /\ readers' \in 0 .. Word - 1 /\ writers' \in 0 .. Word - 1
          /\ line' = IF readers' = 0 /\ writers' = 0 THEN "gone" ELSE "live"
      BY <2>1, <3>1, CloseIs
    <3>3. writers' # 0
      BY <2>2, <3>2
    <3>4. line' = "live"
      BY <3>2, <3>3
    <3> QED BY <3>2, <3>4
  <2>4. TermTypeOK'
    BY <1>0, <2>1, <2>3 DEF TermTypeOK, Pcs
  <2>5. Order'
    BY <1>0, <2>1, <2>2, <2>3 DEF TermTypeOK, Order
  <2>6. NotMade' /\ ReadEnds'
    BY <2>1, <2>3 DEF NotMade, ReadEnds
  <2>7. WriteEnds'
    BY <1>0, <2>1, <2>2, <2>3 DEF TermTypeOK, WriteEnds
  <2> QED BY <2>4, <2>5, <2>6, <2>7 DEF TermInv
<1>17. ASSUME NEW j \in Jobs, job_started(j) \/ job_reads(j) PROVE TermInv'
  <2>1. /\ at' = at \/ at' = [at EXCEPT ![j] = "run"]
        /\ UNCHANGED <<holds, line, readers, writers, moved>>
    BY <1>17 DEF job_started, job_reads
  <2>2. typed' \in 0 .. MaxTyped
    BY <1>0, <1>17 DEF job_started, job_reads, Takes, TermTypeOK
  <2>3. TermTypeOK'
    BY <1>0, <2>1, <2>2 DEF TermTypeOK, Pcs
  <2>4. Order'
    BY <1>0, <2>1 DEF TermTypeOK, Order
  <2>5. NotMade' /\ WriteEnds' /\ ReadEnds'
    BY <1>0, <2>1 DEF TermTypeOK, NotMade, WriteEnds, ReadEnds
  <2> QED BY <2>3, <2>4, <2>5 DEF TermInv
<1>18. ASSUME NEW j \in Jobs, job_ends(j) PROVE TermInv'
  BY <1>10, <1>18 DEF job_ends
<1>19. CASE UNCHANGED termVars
  BY <1>0, <1>19 DEF termVars, TermInv, TermTypeOK, Order, NotMade, WriteEnds, ReadEnds
<1> QED BY <1>1, <1>2, <1>3, <1>4, <1>5, <1>6, <1>7, <1>9, <1>11, <1>12, <1>13, <1>14, <1>15,
           <1>16, <1>17, <1>18, <1>19 DEF TermNext

\* For any number of commands and any width of size_t, the terminal's pipe is
\* never deleted and shows no end of file while anyone may write to it
\* (term.c, creat_pipe, close_pipe, do_fcntl).
THEOREM PipeOutlivesUsers == TermSpec => []LineKept
<1>1. TermInv => LineKept
  BY DEF TermInv, TermTypeOK, NotMade, WriteEnds, LineKept
<1> QED BY <1>1, TermStarts, TermStep, PTL DEF TermSpec

\* For any number of commands and any width of size_t, the terminal's writes
\* meet a reader as long as its shell is there and no command of the shell has
\* had its input redirected (write_pipe, term.c).
THEOREM ShellHears == TermSpec => []Heard
<1>1. TermInv => Heard
  BY DEF TermInv, ReadEnds, Heard
<1> QED BY <1>1, TermStarts, TermStep, PTL DEF TermSpec

=============================================================================
