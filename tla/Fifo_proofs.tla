---------------------------- MODULE Fifo_proofs ----------------------------
(***************************************************************************)
(* The counters of a named FIFO are its open ends and the processes that   *)
(* wait in open, for any set of processes and any descriptor table, as     *)
(* long as the counters began at zero and no end was copied or left over.  *)
(***************************************************************************)
EXTENDS Fifo, FiniteSetTheorems, NaturalsInduction, WellFoundedInduction, TLAPS

----------------------------------------------------------------------------
(* Operators of the model *)

\* get_free_fd finds a free descriptor when there is one.
LEMMA LowestIsFree ==
  ASSUME NEW p, FreeFds(p) # {}
  PROVE  Min(FreeFds(p)) \in FreeFds(p)
<1> DEFINE S == FreeFds(p)
           R == {r \in Nat \X Nat : r[1] < r[2]}
<1>1. S \in SUBSET Nat
  BY FifoAssumption DEF FreeFds
<1>2. IsWellFoundedOn(R, Nat)
  BY NatLessThanWellFounded DEF OpToRel
<1> HIDE DEF R, S
<1>3. PICK x \in S : \A y \in S : <<y, x>> \notin R
  BY <1>1, <1>2, WFMin DEF S
<1>4. ASSUME NEW y \in S, y < x PROVE FALSE
  BY <1>1, <1>3, <1>4 DEF R
<1>5. \E z \in S : \A y \in S : z <= y
  BY <1>1, <1>3, <1>4
<1> QED BY <1>5 DEF Min, S

----------------------------------------------------------------------------
(* The inductive invariant *)

Places == {"user", "open", "read"}

Typed ==
  /\ alive \subseteq Procs /\ IsFiniteSet(alive)
  /\ files \in [Procs -> [Fds -> {Free} \cup [acc : Modes, nb : BOOLEAN]]]
  /\ pc \in [Procs -> [at : Places, acc : Modes, fd : {0} \cup Fds, n : Nat]]
  /\ readers \in Int /\ writers \in Int

\* A process that is gone, or not there yet, waits for nothing.
GoneIsQuiet == \A p \in Procs \ alive : pc[p].at = "user"

\* Nobody has an end of a FIFO that does not work yet.
NotYet ==
  fifo # "live" =>
    \A p \in Procs : pc[p].at = "user" /\ \A fd \in Fds : files[p][fd] = Free

FifoInv == Typed /\ GoneIsQuiet /\ NotYet /\ CountersExact

\* The sets the counters count are finite.
LEMMA CountedFinite ==
  ASSUME Typed, NEW s
  PROVE  /\ IsFiniteSet(Reading) /\ IsFiniteSet(Writing) /\ IsFiniteSet(Waiting(s))
         /\ Cardinality(Reading) \in Nat /\ Cardinality(Writing) \in Nat
         /\ Cardinality(Waiting(s)) \in Nat
<1>1. IsFiniteSet(alive) /\ IsFiniteSet(alive \X Fds)
  BY FifoAssumption, FS_Product DEF Typed
<1>2. Reading \in SUBSET (alive \X Fds) /\ Writing \in SUBSET (alive \X Fds)
  BY DEF Reading, Writing
<1>3. Waiting(s) \in SUBSET alive
  BY DEF Waiting
<1>4. IsFiniteSet(Reading) /\ IsFiniteSet(Writing) /\ IsFiniteSet(Waiting(s))
  BY <1>1, <1>2, <1>3, FS_Subset
<1> QED BY <1>4, FS_CardinalityType

\* It holds before mkfifo.
LEMMA FifoInvInit == Init => FifoInv
<1> SUFFICES ASSUME Init PROVE FifoInv
  OBVIOUS
<1>1. Typed
  <2>1. alive \subseteq Procs /\ IsFiniteSet(alive)
    BY FifoAssumption, FS_Singleton DEF Init
  <2>2. User \in [at : Places, acc : Modes, fd : {0} \cup Fds, n : Nat]
    BY DEF User, Places, Modes
  <2>3. pc \in [Procs -> [at : Places, acc : Modes, fd : {0} \cup Fds, n : Nat]]
    BY <2>2 DEF Init
  <2>4. files \in [Procs -> [Fds -> {Free} \cup [acc : Modes, nb : BOOLEAN]]]
    BY DEF Init
  <2> QED BY <2>1, <2>3, <2>4 DEF Init, Typed
<1>2. GoneIsQuiet /\ NotYet
  BY DEF Init, GoneIsQuiet, NotYet, User
<1> QED BY <1>1, <1>2 DEF Init, FifoInv, CountersExact

----------------------------------------------------------------------------
(* How the counted sets change *)

\* One descriptor of one process changes from old to new.
LEMMA EndsChange ==
  ASSUME Typed, NEW p \in alive, NEW fd \in Fds, NEW e,
         files' = [files EXCEPT ![p][fd] = e], alive' = alive
  PROVE  /\ Reading' = (IF e.acc \in {"r", "rw"} THEN Reading \cup {<<p, fd>>}
                        ELSE Reading \ {<<p, fd>>})
         /\ Writing' = (IF e.acc = "w" THEN Writing \cup {<<p, fd>>}
                        ELSE Writing \ {<<p, fd>>})
<1>1. alive \subseteq Procs /\ p \in Procs
  BY DEF Typed
<1>2. files'[p][fd] = e
  BY <1>1 DEF Typed
<1>3. \A q \in Procs, g \in Fds : <<q, g>> # <<p, fd>> => files'[q][g] = files[q][g]
  BY <1>1 DEF Typed
<1>4. \A x \in alive \X Fds : x # <<p, fd>> => files'[x[1]][x[2]] = files[x[1]][x[2]]
  BY <1>1, <1>3
<1>5. <<p, fd>> \in alive \X Fds
  OBVIOUS
<1>6. Reading' = {x \in alive \X Fds : files'[x[1]][x[2]].acc \in {"r", "rw"}}
  BY DEF Reading
<1>7. Writing' = {x \in alive \X Fds : files'[x[1]][x[2]].acc = "w"}
  BY DEF Writing
<1>8. files'[<<p, fd>>[1]][<<p, fd>>[2]] = e
  BY <1>2
<1> QED BY <1>4, <1>5, <1>6, <1>7, <1>8 DEF Reading, Writing

\* One process changes its place.
LEMMA PlaceChanges ==
  ASSUME Typed, NEW p \in alive, NEW w, NEW s,
         pc' = [pc EXCEPT ![p] = w], alive' = alive
  PROVE  Waiting(s)' = IF w.at = "open" /\ w.acc \in s THEN Waiting(s) \cup {p}
                       ELSE Waiting(s) \ {p}
<1>1. alive \subseteq Procs /\ p \in Procs
  BY DEF Typed
<1>2. pc'[p] = w /\ \A q \in Procs \ {p} : pc'[q] = pc[q]
  BY <1>1 DEF Typed
<1> QED BY <1>1, <1>2 DEF Waiting

----------------------------------------------------------------------------
(* The steps *)

\* mkfifo: nobody has an end yet, so the counters are right if they are zero.
LEMMA MkfifoStep ==
  ASSUME FifoInv, NEW p \in Procs, mkfifo(p)
  PROVE  FifoInv'
<1>1. /\ fifo = "none" /\ UNCHANGED <<files, alive, pc>>
      /\ readers' \in Int /\ writers' \in Int
  BY FifoAssumption DEF mkfifo, FifoInv, Typed, Clamp, counts
<1>0. fifo' = "live" /\ clean' => readers' = 0 /\ writers' = 0
  <2>1. CASE fifo' \in {"broken", "dangling"}
    BY <2>1
  <2>2. CASE \E x, y \in Garbage : readers' = x /\ clean' = (x = 0 /\ writers' = 0)
    BY <2>2, Zenon
  <2> QED BY <2>1, <2>2, Zenon DEF mkfifo
<1>2. Typed' /\ GoneIsQuiet' /\ NotYet'
  BY <1>1 DEF FifoInv, Typed, GoneIsQuiet, NotYet
<1>3. Reading' = {} /\ Writing' = {} /\ \A s : Waiting(s)' = {}
  <2>1. \A q \in alive : pc[q].at = "user"
    BY <1>1 DEF FifoInv, NotYet, Typed
  <2>2. \A q \in alive, fd \in Fds : files[q][fd].acc = "free"
    BY <1>1 DEF FifoInv, NotYet, Free, Typed
  <2>3. Reading' = {} /\ Writing' = {}
    BY <1>1, <2>2 DEF Reading, Writing
  <2>4. ASSUME NEW s PROVE Waiting(s)' = {}
    BY <1>1, <2>1 DEF Waiting
  <2> QED BY <2>3, <2>4
<1>4. CountersExact'
  <2>1. Waiting({"r", "rw"})' = {} /\ Waiting({"w"})' = {}
    BY <1>3
  <2>2. /\ Cardinality(Reading') = 0 /\ Cardinality(Writing') = 0
        /\ Cardinality(Waiting({"r", "rw"})') = 0 /\ Cardinality(Waiting({"w"})') = 0
    BY <1>3, <2>1, FS_EmptySet
  <2> QED BY <1>0, <2>2 DEF CountersExact
<1> QED BY <1>2, <1>4 DEF FifoInv

\* An open that gets its descriptor, at once or after waiting: a waiting
\* process, or nobody, becomes an open end.
LEMMA OpenedCounts ==
  ASSUME Typed, NEW p \in alive, NEW acc \in Modes, NEW nb \in BOOLEAN,
         Opened(p, acc, nb), clean', alive' = alive
  PROVE  /\ Waiting({"r", "rw"})' = Waiting({"r", "rw"}) \ {p}
         /\ Waiting({"w"})' = Waiting({"w"}) \ {p}
         /\ Cardinality(Reading') = Cardinality(Reading) + (IF acc = "w" THEN 0 ELSE 1)
         /\ Cardinality(Writing') = Cardinality(Writing) + (IF acc = "w" THEN 1 ELSE 0)
<1> DEFINE fd == Min(FreeFds(p))
<1>1. FreeFds(p) # {} /\ clean
  BY DEF Opened
<1>2. fd \in Fds /\ files[p][fd] = Free
  BY <1>1, LowestIsFree DEF FreeFds
<1> HIDE DEF fd
<1>3. files' = [files EXCEPT ![p][fd] = End(acc, nb)] /\ pc' = [pc EXCEPT ![p] = User]
  BY <1>1 DEF Opened, fd
<1>4. /\ Reading' = (IF End(acc, nb).acc \in {"r", "rw"} THEN Reading \cup {<<p, fd>>}
                     ELSE Reading \ {<<p, fd>>})
      /\ Writing' = (IF End(acc, nb).acc = "w" THEN Writing \cup {<<p, fd>>}
                     ELSE Writing \ {<<p, fd>>})
  BY <1>2, <1>3, EndsChange
<1>5. <<p, fd>> \notin Reading /\ <<p, fd>> \notin Writing
  BY <1>2 DEF Reading, Writing, Free
<1>6. End(acc, nb).acc = acc
  BY DEF End
<1>7. IsFiniteSet(Reading) /\ IsFiniteSet(Writing)
      /\ Cardinality(Reading) \in Nat /\ Cardinality(Writing) \in Nat
  BY CountedFinite
<1>8. /\ Cardinality(Reading \cup {<<p, fd>>}) = Cardinality(Reading) + 1
      /\ Cardinality(Writing \cup {<<p, fd>>}) = Cardinality(Writing) + 1
  BY <1>5, <1>7, FS_AddElement
<1>9. Reading \ {<<p, fd>>} = Reading /\ Writing \ {<<p, fd>>} = Writing
  BY <1>5
<1>10. /\ Waiting({"r", "rw"})' = Waiting({"r", "rw"}) \ {p}
       /\ Waiting({"w"})' = Waiting({"w"}) \ {p}
  <2>1. User.at # "open"
    BY DEF User
  <2> QED BY <1>3, <2>1, PlaceChanges
<1>11. CASE acc = "w"
  <2>1. Reading' = Reading /\ Writing' = Writing \cup {<<p, fd>>}
    BY <1>4, <1>6, <1>9, <1>11
  <2> QED BY <1>7, <1>8, <1>10, <1>11, <2>1
<1>12. CASE acc # "w"
  <2>1. Reading' = Reading \cup {<<p, fd>>} /\ Writing' = Writing
    BY <1>4, <1>6, <1>9, <1>12 DEF Modes
  <2> QED BY <1>7, <1>8, <1>10, <1>12, <2>1
<1> QED BY <1>11, <1>12

\* The tables stay tables.
LEMMA OpenedTyped ==
  ASSUME Typed, NEW p \in alive, NEW acc \in Modes, NEW nb \in BOOLEAN,
         Opened(p, acc, nb)
  PROVE  /\ files' \in [Procs -> [Fds -> {Free} \cup [acc : Modes, nb : BOOLEAN]]]
         /\ pc' \in [Procs -> [at : Places, acc : Modes, fd : {0} \cup Fds, n : Nat]]
         /\ \A q \in Procs \ {p} : pc'[q] = pc[q]
<1>1. p \in Procs
  BY DEF Typed
<1>2. End(acc, nb) \in [acc : Modes, nb : BOOLEAN]
  BY DEF End
<1>3. User \in [at : Places, acc : Modes, fd : {0} \cup Fds, n : Nat]
  BY DEF User, Places, Modes
<1>4. files' = files \/ \E fd \in Fds : files' = [files EXCEPT ![p][fd] = End(acc, nb)]
  BY LowestIsFree DEF Opened, FreeFds
<1>5. files' \in [Procs -> [Fds -> {Free} \cup [acc : Modes, nb : BOOLEAN]]]
  <2>1. CASE files' = files
    BY <2>1 DEF Typed
  <2>2. ASSUME NEW fd \in Fds, files' = [files EXCEPT ![p][fd] = End(acc, nb)]
        PROVE  files' \in [Procs -> [Fds -> {Free} \cup [acc : Modes, nb : BOOLEAN]]]
    <3> DEFINE E == End(acc, nb)
               V == {Free} \cup [acc : Modes, nb : BOOLEAN]
    <3>1. E \in V /\ files \in [Procs -> [Fds -> V]]
      BY <1>2 DEF Typed
    <3> HIDE DEF E, V
    <3>2. [files EXCEPT ![p][fd] = E] \in [Procs -> [Fds -> V]]
      BY <1>1, <3>1
    <3> QED BY <2>2, <3>2 DEF E, V
  <2> QED BY <1>4, <2>1, <2>2
<1> QED BY <1>1, <1>3, <1>5 DEF Opened, Typed

\* open(): the end is counted before it is there, and waits or is opened.
LEMMA OpenStep ==
  ASSUME FifoInv, NEW p \in Procs, NEW acc \in Modes, NEW nb \in BOOLEAN,
         open_fifofs(p, acc, nb)
  PROVE  FifoInv'
<1> DEFINE w == [User EXCEPT !.at = "open", !.acc = acc]
<1>1. /\ p \in alive /\ pc[p].at = "user" /\ fifo = "live" /\ UNCHANGED <<alive, fifo>>
      /\ readers' = IF acc = "w" THEN readers ELSE readers + 1
      /\ writers' = IF acc = "w" THEN writers + 1 ELSE writers
  BY DEF open_fifofs, Calls
<1>2. Typed
  BY DEF FifoInv
<1>3. /\ IsFiniteSet(Waiting({"r", "rw"})) /\ IsFiniteSet(Waiting({"w"}))
      /\ Cardinality(Waiting({"r", "rw"})) \in Nat /\ Cardinality(Waiting({"w"})) \in Nat
      /\ Cardinality(Reading) \in Nat /\ Cardinality(Writing) \in Nat
  BY <1>2, CountedFinite
<1>4. p \notin Waiting({"r", "rw"}) /\ p \notin Waiting({"w"})
  BY <1>1 DEF Waiting
<1>5. CASE Opened(p, acc, nb)
  <2>1. Typed' /\ GoneIsQuiet' /\ NotYet'
    <3>1. /\ files' \in [Procs -> [Fds -> {Free} \cup [acc : Modes, nb : BOOLEAN]]]
          /\ pc' \in [Procs -> [at : Places, acc : Modes, fd : {0} \cup Fds, n : Nat]]
          /\ \A q \in Procs \ {p} : pc'[q] = pc[q]
      BY <1>1, <1>2, <1>5, OpenedTyped
    <3>2. readers' \in Int /\ writers' \in Int
      BY <1>1, <1>2 DEF Typed
    <3> QED BY <1>1, <1>2, <3>1, <3>2 DEF FifoInv, Typed, GoneIsQuiet, NotYet
  <2>2. CountersExact'
    <3> SUFFICES ASSUME clean' PROVE CountersExact'
      BY DEF CountersExact
    <3>1. clean
      BY <1>5 DEF Opened
    <3>2. /\ Waiting({"r", "rw"})' = Waiting({"r", "rw"}) /\ Waiting({"w"})' = Waiting({"w"})
          /\ Cardinality(Reading') = Cardinality(Reading) + (IF acc = "w" THEN 0 ELSE 1)
          /\ Cardinality(Writing') = Cardinality(Writing) + (IF acc = "w" THEN 1 ELSE 0)
      BY <1>1, <1>2, <1>4, <1>5, OpenedCounts
    <3>3. /\ readers = Cardinality(Reading) + Cardinality(Waiting({"r", "rw"}))
          /\ writers = Cardinality(Writing) + Cardinality(Waiting({"w"}))
      BY <1>1, <3>1 DEF FifoInv, CountersExact
    <3> QED BY <1>1, <1>3, <3>2, <3>3 DEF CountersExact
  <2> QED BY <2>1, <2>2 DEF FifoInv
<1>6. CASE clean' = FALSE /\ UNCHANGED <<files, pc>>          \* ENXIO
  BY <1>1, <1>6 DEF FifoInv, Typed, GoneIsQuiet, NotYet, CountersExact
<1>7. CASE pc' = [pc EXCEPT ![p] = w] /\ UNCHANGED <<files, clean>>
  <2>1. w \in [at : Places, acc : Modes, fd : {0} \cup Fds, n : Nat]
        /\ w.at = "open" /\ w.acc = acc
    BY DEF User, Places, Modes
  <2> HIDE DEF w
  <2>2. Typed' /\ GoneIsQuiet' /\ NotYet'
    BY <1>1, <1>2, <1>7, <2>1 DEF FifoInv, Typed, GoneIsQuiet, NotYet
  <2>3. CountersExact'
    <3> SUFFICES ASSUME clean' PROVE CountersExact'
      BY DEF CountersExact
    <3>1. /\ readers = Cardinality(Reading) + Cardinality(Waiting({"r", "rw"}))
          /\ writers = Cardinality(Writing) + Cardinality(Waiting({"w"}))
      BY <1>1, <1>7 DEF FifoInv, CountersExact
    <3>2. Reading' = Reading /\ Writing' = Writing
      BY <1>1, <1>7 DEF Reading, Writing
    <3>3. ASSUME NEW s
          PROVE  Waiting(s)' = IF acc \in s THEN Waiting(s) \cup {p} ELSE Waiting(s) \ {p}
      BY <1>1, <1>2, <1>7, <2>1, PlaceChanges
    <3>4. CASE acc = "w"
      <4>1. /\ Waiting({"r", "rw"})' = Waiting({"r", "rw"})
            /\ Waiting({"w"})' = Waiting({"w"}) \cup {p}
        BY <1>4, <3>3, <3>4
      <4>2. Cardinality(Waiting({"w"})') = Cardinality(Waiting({"w"})) + 1
        BY <1>3, <1>4, <4>1, FS_AddElement
      <4> QED BY <1>1, <1>3, <3>1, <3>2, <3>4, <4>1, <4>2 DEF CountersExact
    <3>5. CASE acc # "w"
      <4>1. /\ Waiting({"r", "rw"})' = Waiting({"r", "rw"}) \cup {p}
            /\ Waiting({"w"})' = Waiting({"w"})
        BY <1>4, <3>3, <3>5 DEF Modes
      <4>2. Cardinality(Waiting({"r", "rw"})') = Cardinality(Waiting({"r", "rw"})) + 1
        BY <1>3, <1>4, <4>1, FS_AddElement
      <4> QED BY <1>1, <1>3, <3>1, <3>2, <3>5, <4>1, <4>2 DEF CountersExact
    <3> QED BY <3>4, <3>5
  <2> QED BY <2>2, <2>3 DEF FifoInv
<1> QED BY <1>5, <1>6, <1>7 DEF open_fifofs

\* Back from sched_switch with the other end there: one that waited is one
\* that is open.
LEMMA ResumeStep ==
  ASSUME FifoInv, NEW p \in Procs, open_resumes(p)
  PROVE  FifoInv'
<1> DEFINE acc == pc[p].acc
<1>1. /\ p \in alive /\ pc[p].at = "open" /\ Opened(p, acc, FALSE)
      /\ UNCHANGED <<alive, fifo, readers, writers>>
  BY DEF open_resumes, counts
<1>2. Typed /\ acc \in Modes
  BY DEF FifoInv, Typed
<1>3. fifo = "live"
  BY <1>1 DEF FifoInv, NotYet
<1>4. Typed' /\ GoneIsQuiet' /\ NotYet'
  BY <1>1, <1>2, <1>3, OpenedTyped DEF FifoInv, Typed, GoneIsQuiet, NotYet
<1>5. CountersExact'
  <2> SUFFICES ASSUME clean' PROVE CountersExact'
    BY DEF CountersExact
  <2>1. clean
    BY <1>1 DEF Opened
  <2>2. /\ readers = Cardinality(Reading) + Cardinality(Waiting({"r", "rw"}))
        /\ writers = Cardinality(Writing) + Cardinality(Waiting({"w"}))
    BY <1>3, <2>1 DEF FifoInv, CountersExact
  <2>3. /\ Waiting({"r", "rw"})' = Waiting({"r", "rw"}) \ {p}
        /\ Waiting({"w"})' = Waiting({"w"}) \ {p}
        /\ Cardinality(Reading') = Cardinality(Reading) + (IF acc = "w" THEN 0 ELSE 1)
        /\ Cardinality(Writing') = Cardinality(Writing) + (IF acc = "w" THEN 1 ELSE 0)
    BY <1>1, <1>2, OpenedCounts
  <2>4. /\ IsFiniteSet(Waiting({"r", "rw"})) /\ IsFiniteSet(Waiting({"w"}))
        /\ Cardinality(Waiting({"r", "rw"})) \in Nat /\ Cardinality(Waiting({"w"})) \in Nat
        /\ Cardinality(Reading) \in Nat /\ Cardinality(Writing) \in Nat
    BY <1>2, CountedFinite
  <2>5. /\ p \in Waiting({"w"}) <=> acc = "w"
        /\ p \in Waiting({"r", "rw"}) <=> acc # "w"
    BY <1>1, <1>2 DEF Waiting, Modes
  <2>6. /\ Cardinality(Waiting({"r", "rw"})') =
             Cardinality(Waiting({"r", "rw"})) - (IF acc = "w" THEN 0 ELSE 1)
        /\ Cardinality(Waiting({"w"})') =
             Cardinality(Waiting({"w"})) - (IF acc = "w" THEN 1 ELSE 0)
    BY <2>3, <2>4, <2>5, FS_RemoveElement
  <2> HIDE DEF acc
  <2> QED BY <1>1, <2>2, <2>3, <2>4, <2>6 DEF CountersExact
<1> QED BY <1>4, <1>5 DEF FifoInv

\* close(): the end and its count go together.
LEMMA CloseStep ==
  ASSUME FifoInv, NEW p \in Procs, NEW fd \in Fds, close(p, fd)
  PROVE  FifoInv'
<1> DEFINE acc == files[p][fd].acc
<1>1. /\ p \in alive /\ files[p][fd] # Free
      /\ readers' = IF ClosesReader(acc) THEN Clamp(readers - 1) ELSE readers
      /\ writers' = IF ClosesReader(acc) THEN writers ELSE Clamp(writers - 1)
      /\ files' = [files EXCEPT ![p][fd] = Free]
      /\ UNCHANGED <<alive, fifo, pc, clean>>
  BY DEF close, Calls
<1>2. Typed /\ acc \in Modes /\ fifo = "live"
  BY <1>1 DEF FifoInv, Typed, NotYet
<1>3. readers' \in Int /\ writers' \in Int
  BY <1>1, <1>2 DEF Typed, Clamp
<1>4. Typed' /\ GoneIsQuiet' /\ NotYet'
  BY <1>1, <1>2, <1>3 DEF FifoInv, Typed, GoneIsQuiet, NotYet
<1>5. CountersExact'
  <2> SUFFICES ASSUME clean' PROVE CountersExact'
    BY DEF CountersExact
  <2>1. /\ readers = Cardinality(Reading) + Cardinality(Waiting({"r", "rw"}))
        /\ writers = Cardinality(Writing) + Cardinality(Waiting({"w"}))
    BY <1>1, <1>2 DEF FifoInv, CountersExact
  <2>2. Waiting({"r", "rw"})' = Waiting({"r", "rw"}) /\ Waiting({"w"})' = Waiting({"w"})
    BY <1>1 DEF Waiting
  <2>3. Reading' = Reading \ {<<p, fd>>} /\ Writing' = Writing \ {<<p, fd>>}
    <3>1. Free.acc = "free"
      BY DEF Free
    <3> QED BY <1>1, <1>2, <3>1, EndsChange
  <2>4. /\ <<p, fd>> \in Reading <=> acc # "w"
        /\ <<p, fd>> \in Writing <=> acc = "w"
    BY <1>1, <1>2 DEF Reading, Writing, Modes
  <2>5. /\ IsFiniteSet(Reading) /\ IsFiniteSet(Writing)
        /\ Cardinality(Waiting({"r", "rw"})) \in Nat /\ Cardinality(Waiting({"w"})) \in Nat
        /\ Cardinality(Reading) \in Nat /\ Cardinality(Writing) \in Nat
    BY <1>2, CountedFinite
  <2>6. /\ Cardinality(Reading') = Cardinality(Reading) - (IF acc = "w" THEN 0 ELSE 1)
        /\ Cardinality(Writing') = Cardinality(Writing) - (IF acc = "w" THEN 1 ELSE 0)
        /\ Cardinality(Reading') \in Nat /\ Cardinality(Writing') \in Nat
    <3>1. /\ IsFiniteSet(Reading \ {<<p, fd>>})
          /\ Cardinality(Reading \ {<<p, fd>>}) = IF <<p, fd>> \in Reading
               THEN Cardinality(Reading) - 1 ELSE Cardinality(Reading)
      BY <2>5, FS_RemoveElement
    <3>2. /\ IsFiniteSet(Writing \ {<<p, fd>>})
          /\ Cardinality(Writing \ {<<p, fd>>}) = IF <<p, fd>> \in Writing
               THEN Cardinality(Writing) - 1 ELSE Cardinality(Writing)
      BY <2>5, FS_RemoveElement
    <3>3. /\ Cardinality(Reading \ {<<p, fd>>}) \in Nat
          /\ Cardinality(Writing \ {<<p, fd>>}) \in Nat
      BY <3>1, <3>2, FS_CardinalityType
    <3> HIDE DEF acc
    <3> QED BY <2>3, <2>4, <2>5, <3>1, <3>2, <3>3
  <2>7. ClosesReader(acc) <=> acc # "w"
    BY <1>2 DEF ClosesReader, Modes
  <2> HIDE DEF acc
  <2>8. /\ readers' = Cardinality(Reading') + Cardinality(Waiting({"r", "rw"}))
        /\ writers' = Cardinality(Writing') + Cardinality(Waiting({"w"}))
    BY <1>1, <2>1, <2>5, <2>6, <2>7 DEF Clamp
  <2> QED BY <2>2, <2>8 DEF CountersExact
<1> QED BY <1>4, <1>5 DEF FifoInv

\* fork() and exit() of a process without ends; with one the counters are
\* off and the history says so.
LEMMA ForkExitStep ==
  ASSUME FifoInv, NEW p \in Procs, exit(p) \/ \E c \in Procs : fork(p, c)
  PROVE  FifoInv'
<1>1. CASE exit(p)
  <2>1. /\ p \in alive /\ pc[p].at = "user" /\ alive' = alive \ {p}
        /\ files' = [files EXCEPT ![p] = [fd \in Fds |-> Free]]
        /\ clean' = (clean /\ FreeFds(p) = Fds)
        /\ UNCHANGED <<fifo, readers, writers, pc>>
    BY <1>1 DEF exit, Calls, counts
  <2>2. IsFiniteSet(alive')
    BY <2>1, FS_RemoveElement DEF FifoInv, Typed
  <2>3. Typed' /\ GoneIsQuiet' /\ NotYet'
    BY <2>1, <2>2 DEF FifoInv, Typed, GoneIsQuiet, NotYet
  <2>4. CountersExact'
    <3> SUFFICES ASSUME clean' PROVE CountersExact'
      BY DEF CountersExact
    <3>0. clean /\ FreeFds(p) = Fds
      BY <2>1, Zenon
    <3>1. clean /\ \A fd \in Fds : files[p][fd].acc = "free"
      BY <3>0 DEF FreeFds, Free
    <3>2. \A q \in alive' : q # p /\ files'[q] = files[q]
      BY <2>1 DEF FifoInv, Typed
    <3>3. Reading' = Reading /\ Writing' = Writing
      BY <2>1, <3>1, <3>2 DEF Reading, Writing
    <3>4. \A s : Waiting(s)' = Waiting(s)
      BY <2>1 DEF Waiting
    <3> QED BY <2>1, <3>1, <3>3, <3>4 DEF FifoInv, CountersExact
  <2> QED BY <2>3, <2>4 DEF FifoInv
<1>2. ASSUME NEW c \in Procs, fork(p, c) PROVE FifoInv'
  <2>1. /\ p \in alive /\ c \notin alive /\ alive' = alive \cup {c}
        /\ files' = [files EXCEPT ![c] = files[p]]
        /\ clean' = (clean /\ FreeFds(p) = Fds)
        /\ UNCHANGED <<fifo, readers, writers, pc>>
    BY <1>2 DEF fork, Calls, counts
  <2>2. IsFiniteSet(alive')
    BY <2>1, FS_AddElement DEF FifoInv, Typed
  <2>3. Typed' /\ GoneIsQuiet' /\ NotYet'
    BY <2>1, <2>2 DEF FifoInv, Typed, GoneIsQuiet, NotYet
  <2>4. CountersExact'
    <3> SUFFICES ASSUME clean' PROVE CountersExact'
      BY DEF CountersExact
    <3>0. clean /\ FreeFds(p) = Fds /\ files'[c] = files[p]
      <4>1. files'[c] = files[p]
        BY <1>2, <2>1 DEF FifoInv, Typed
      <4> QED BY <2>1, <4>1, Zenon
    <3>1. clean /\ \A fd \in Fds : files'[c][fd].acc = "free"
      BY <3>0 DEF FreeFds, Free
    <3>2. \A q \in alive : q # c /\ files'[q] = files[q]
      BY <2>1 DEF FifoInv, Typed
    <3>3. Reading' = Reading /\ Writing' = Writing
      BY <2>1, <3>1, <3>2 DEF Reading, Writing
    <3>4. pc[c].at = "user"
      BY <2>1 DEF FifoInv, GoneIsQuiet
    <3>5. \A s : Waiting(s)' = Waiting(s)
      BY <2>1, <3>4 DEF Waiting
    <3> QED BY <2>1, <3>1, <3>3, <3>5 DEF FifoInv, CountersExact
  <2> QED BY <2>3, <2>4 DEF FifoInv
<1> QED BY <1>1, <1>2

\* read() moves a process between its program and the wait for data, which
\* is no wait for an end.
LEMMA ReadStep ==
  ASSUME FifoInv, NEW p \in alive, pc[p].at # "open", fifo = "live",
         NEW w \in [at : {"user", "read"}, acc : Modes, fd : {0} \cup Fds, n : Nat],
         pc' = [pc EXCEPT ![p] = w],
         UNCHANGED <<files, alive, fifo, counts, clean>>
  PROVE  FifoInv'
<1>1. Typed' /\ GoneIsQuiet' /\ NotYet'
  BY DEF FifoInv, Typed, GoneIsQuiet, NotYet, counts, Places
<1>2. ASSUME NEW s PROVE Waiting(s)' = Waiting(s)
  <2>1. p \notin Waiting(s) /\ w.at # "open"
    BY DEF Waiting
  <2>2. Waiting(s)' = Waiting(s) \ {p}
    BY <2>1, PlaceChanges DEF FifoInv
  <2> QED BY <2>1, <2>2
<1>3. CountersExact'
  BY <1>2 DEF FifoInv, CountersExact, Reading, Writing, counts
<1> QED BY <1>1, <1>3 DEF FifoInv

\* Every step keeps the invariant.
LEMMA FifoInvStep == FifoInv /\ [Next]_vars => FifoInv'
<1> SUFFICES ASSUME FifoInv, [Next]_vars PROVE FifoInv'
  OBVIOUS
<1>0. Typed /\ User \in [at : {"user", "read"}, acc : Modes, fd : {0} \cup Fds, n : Nat]
  BY DEF FifoInv, User, Modes
<1>1. ASSUME NEW p \in Procs, mkfifo(p) PROVE FifoInv'
  BY <1>1, MkfifoStep
<1>2. ASSUME NEW p \in Procs, open_faults(p) PROVE FifoInv'
  BY <1>2 DEF open_faults, FifoInv, Typed, GoneIsQuiet, NotYet, CountersExact,
              Reading, Writing, Waiting, counts
<1>3. ASSUME NEW p \in Procs, exit(p) \/ \E c \in Procs : fork(p, c) PROVE FifoInv'
  BY <1>3, ForkExitStep
<1>4. ASSUME NEW p \in Procs, open_resumes(p) PROVE FifoInv'
  BY <1>4, ResumeStep
<1>5. ASSUME NEW p \in Procs, NEW acc \in Modes, NEW nb \in BOOLEAN,
             open_fifofs(p, acc, nb)
      PROVE  FifoInv'
  BY <1>5, OpenStep
<1>6. ASSUME NEW p \in Procs, NEW fd \in Fds, close(p, fd) PROVE FifoInv'
  BY <1>6, CloseStep
<1>7. ASSUME NEW p \in Procs, NEW fd \in Fds, dup(p, fd) PROVE FifoInv'
  <2>1. /\ p \in alive /\ fifo = "live" /\ clean' = FALSE
        /\ UNCHANGED <<alive, fifo, readers, writers, pc>>
    BY <1>7 DEF dup, Calls, counts, FifoInv, NotYet
  <2>2. Min(FreeFds(p)) \in Fds
    BY <1>7, LowestIsFree DEF dup, FreeFds
  <2>3. files' \in [Procs -> [Fds -> {Free} \cup [acc : Modes, nb : BOOLEAN]]]
    BY <1>7, <2>2 DEF dup, FifoInv, Typed
  <2> QED BY <2>1, <2>3 DEF FifoInv, Typed, GoneIsQuiet, NotYet, CountersExact
<1>8. ASSUME NEW p \in Procs, NEW fd \in Fds, NEW n \in 1 .. MaxBytes,
             read_fifofs(p, fd, n)
      PROVE  FifoInv'
  <2> DEFINE w == [User EXCEPT !.at = "read", !.fd = fd, !.n = n]
  <2>1. /\ p \in alive /\ pc[p].at # "open" /\ fifo = "live"
        /\ UNCHANGED <<files, alive, fifo, counts, clean>>
    BY <1>8 DEF read_fifofs, Calls, FifoInv, NotYet, Free
  <2>2. w \in [at : {"user", "read"}, acc : Modes, fd : {0} \cup Fds, n : Nat]
    <3>1. n \in Nat /\ fd \in {0} \cup Fds
      BY FifoAssumption
    <3>2. [User EXCEPT !.at = "read"] \in
            [at : {"user", "read"}, acc : Modes, fd : {0} \cup Fds, n : Nat]
      BY <1>0
    <3>3. [[User EXCEPT !.at = "read"] EXCEPT !.fd = fd] \in
            [at : {"user", "read"}, acc : Modes, fd : {0} \cup Fds, n : Nat]
      BY <3>1, <3>2
    <3>4. [[[User EXCEPT !.at = "read"] EXCEPT !.fd = fd] EXCEPT !.n = n] \in
            [at : {"user", "read"}, acc : Modes, fd : {0} \cup Fds, n : Nat]
      BY <3>1, <3>3
    <3> QED BY <3>4
  <2> HIDE DEF w
  <2>3. \/ pc' = [pc EXCEPT ![p] = User] \/ pc' = pc \/ pc' = [pc EXCEPT ![p] = w]
    BY <1>8 DEF read_fifofs, Read, w
  <2>4. CASE pc' = pc
    BY <2>1, <2>4 DEF FifoInv, Typed, GoneIsQuiet, NotYet, CountersExact,
                      Reading, Writing, Waiting, counts
  <2> QED BY <1>0, <2>1, <2>2, <2>3, <2>4, ReadStep
<1>9. ASSUME NEW p \in Procs, read_resumes(p) PROVE FifoInv'
  <2>1. /\ p \in alive /\ pc[p].at = "read" /\ pc' = [pc EXCEPT ![p] = User]
        /\ UNCHANGED <<files, alive, fifo, counts, clean>>
    BY <1>9 DEF read_resumes, Read
  <2>2. fifo = "live"
    BY <2>1 DEF FifoInv, NotYet
  <2> QED BY <1>0, <2>1, <2>2, ReadStep
<1>10. ASSUME NEW p \in Procs, NEW fd \in Fds, NEW n \in 1 .. MaxBytes,
              write_fifofs(p, fd, n)
       PROVE  FifoInv'
  <2>1. UNCHANGED <<files, alive, fifo, counts, pc, clean>>
    BY <1>10 DEF write_fifofs
  <2> QED BY <2>1 DEF FifoInv, Typed, GoneIsQuiet, NotYet, CountersExact,
                      Reading, Writing, Waiting, counts
<1>11. CASE UNCHANGED vars
  BY <1>11 DEF vars, FifoInv, Typed, GoneIsQuiet, NotYet, CountersExact,
               Reading, Writing, Waiting
<1> QED BY <1>1, <1>2, <1>3, <1>4, <1>5, <1>6, <1>7, <1>8, <1>9, <1>10, <1>11
        DEF Next, Idle

\* hdr->readers and hdr->writers of fifofs.c count the open ends and the
\* processes waiting in open_fifofs, whatever the order of open, close, fork,
\* exit, read and write, for every number of processes and descriptors.
THEOREM CountersCorrect == Spec => []CountersExact
<1>1. FifoInv => CountersExact
  BY DEF FifoInv
<1> QED BY FifoInvInit, FifoInvStep, <1>1, PTL DEF Spec

=============================================================================
