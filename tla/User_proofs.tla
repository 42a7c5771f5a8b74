---------------------------- MODULE User_proofs ----------------------------
(***************************************************************************)
(* What a user program stands on: execve gives back what it takes and      *)
(* hands over its arguments, the environment keeps what setenv puts there, *)
(* malloc's nodes tile the heap and belong to whom they were given, and    *)
(* the string functions compute what callers rely on, for every set of     *)
(* vectors, names, blocks, sizes, texts and delimiters.                    *)
(***************************************************************************)
EXTENDS Exec, Umalloc, Strings, FiniteSetTheorems, FunctionTheorems, SequenceTheorems,
        NaturalsInduction, WellFoundedInduction, TLAPS

----------------------------------------------------------------------------
(* Numbers *)

\* A set of naturals that is not empty has a least element.
LEMMA LeastOf ==
  ASSUME NEW S \in SUBSET Nat, S # {}
  PROVE  /\ Min(S) \in S
         /\ \A y \in S : Min(S) <= y
         /\ \A x \in S : (\A y \in S : x <= y) => Min(S) = x
<1> DEFINE R == {r \in Nat \X Nat : r[1] < r[2]}
<1>1. IsWellFoundedOn(R, Nat)
  BY NatLessThanWellFounded DEF OpToRel
<1> HIDE DEF R
<1>2. PICK x \in S : \A y \in S : <<y, x>> \notin R
  BY <1>1, WFMin
<1>3. ASSUME NEW y \in S, y < x PROVE FALSE
  BY <1>2, <1>3 DEF R
<1>4. \A y \in S : x <= y
  BY <1>3
<1>5. Min(S) \in S /\ \A y \in S : Min(S) <= y
  BY <1>4 DEF Min
<1>6. ASSUME NEW z \in S, \A y \in S : z <= y PROVE Min(S) = z
  <2>1. Min(S) \in Nat /\ z \in Nat /\ Min(S) <= z /\ z <= Min(S)
    BY <1>5, <1>6
  <2> HIDE DEF Min
  <2> QED BY <2>1
<1> QED BY <1>5, <1>6

LEMMA MinIs ==
  ASSUME NEW S \in SUBSET Nat, NEW x \in S, \A y \in S : x <= y
  PROVE  Min(S) = x
<1>1. Min(S) \in S /\ \A y \in S : Min(S) <= y
  BY LeastOf
<1>2. Min(S) <= x /\ x <= Min(S) /\ Min(S) \in Nat /\ x \in Nat
  BY <1>1
<1> QED BY <1>2

LEMMA MaxIs ==
  ASSUME NEW S \in SUBSET Nat, NEW x \in S, \A y \in S : x >= y
  PROVE  Max(S) = x
<1>1. PICK z : z = Max(S)
  OBVIOUS
<1>2. z \in S /\ \A y \in S : z >= y
  BY <1>1 DEF Max
<1>3. z >= x /\ x >= z /\ z \in Nat /\ x \in Nat
  BY <1>2
<1> QED BY <1>1, <1>3

\* What holds before a loop and is kept by its turns holds after every turn.
LEMMA EveryTurn ==
  ASSUME NEW n \in Nat, NEW G, 0 \in G, \A i \in 1 .. n : i - 1 \in G => i \in G
  PROVE  \A i \in 0 .. n : i \in G
<1> DEFINE B == {i \in 0 .. n : i \notin G}
<1>1. SUFFICES ASSUME B # {} PROVE FALSE
  OBVIOUS
<1>2. B \in SUBSET Nat
  OBVIOUS
<1>3. PICK k : k = Min(B)
  OBVIOUS
<1>4. k \in B /\ \A y \in B : k <= y
  <2> HIDE DEF B
  <2> QED BY <1>1, <1>2, <1>3, LeastOf
<1>5. k \in 1 .. n /\ k - 1 \in 0 .. n /\ ~(k <= k - 1) /\ k \notin G
  BY <1>4
<1>6. k - 1 \in G
  BY <1>4, <1>5
<1> QED BY <1>5, <1>6

----------------------------------------------------------------------------
(* execve's blocks and descriptors *)

\* The kernel blocks of the call in progress, from its place alone.
Held ==
  CASE pc = "env" -> Copies("args", argv)
    [] pc \in {"open", "buf", "push"} -> Copies("args", argv) \cup Copies("env", envp)
    [] pc = "load" -> Copies("args", argv) \cup Copies("env", envp) \cup Buffer
    [] OTHER -> {}

\* They are in use, and what is in use besides is left over from a call that
\* ran out of memory.
BlocksSound ==
  pc \notin {"wild", "panic"} =>
    Held \subseteq blocks /\ \A b \in blocks \ Held : b[1] \in starved

States == {"none", "open", "cloexec"}

\* The descriptors, as execve found them and with the image's.
FilesSound ==
  /\ files \in [Fds -> States] /\ before \in [Fds -> States]
  /\ pc \in {"args", "env", "open", "lost"} => files = before
  /\ pc \in {"buf", "load"} =>
       fd \in Fds /\ before[fd] = "none" /\ files = [before EXCEPT ![fd] = "open"]
  /\ pc \in {"push", "start", "init", "main"} =>
       files = [f \in Fds |-> IF before[f] = "open" THEN "open" ELSE "none"]
  /\ pc = "caller" =>
       \/ files = before
       \/ fd # -1 /\ before[fd] = "none" /\ files = [before EXCEPT ![fd] = "open"]

WildOnlyEmpty == pc = "wild" => argv = <<>> \/ envp = <<>>

XInv == BlocksSound /\ FilesSound /\ WildOnlyEmpty

\* The invariant is at least what NothingHeld says.
LEMMA HeldIsNothing == XInv => NothingHeld
<1> SUFFICES ASSUME XInv PROVE NothingHeld
  OBVIOUS
<1>1. pc \in {"caller", "lost", "start", "main"} => {b[1] : b \in blocks} \subseteq starved
  BY DEF XInv, BlocksSound, Held
<1> QED BY <1>1 DEF XInv, FilesSound, WildOnlyEmpty, NothingHeld

LEMMA XInvInit == Init => XInv
<1> SUFFICES ASSUME Init PROVE XInv
  OBVIOUS
<1> QED BY DEF Init, XInv, BlocksSound, Held, FilesSound, WildOnlyEmpty, States

\* Freeing what is in use and nothing else leaves what was left over.
LEMMA FreesHeld ==
  ASSUME NEW s, NEW null \in BOOLEAN, NEW then, Frees(s, null, then), s \subseteq blocks
  PROVE  /\ blocks' = blocks \ s
         /\ pc' = then \/ (null /\ pc' = "wild")
  BY DEF Frees

\* The error paths of execve.
LEMMA ReleaseStep ==
  ASSUME XInv, NEW s, NEW then \in {"caller", "lost"}, release(s, then),
         pc \in {"open", "buf", "load"},
         Held = Copies("args", argv) \cup Copies("env", envp) \cup s,
         UNCHANGED <<argv, envp, starved>>
  PROVE  BlocksSound' /\ WildOnlyEmpty' /\ pc' \in {then, "wild"}
<1> DEFINE all == Copies("args", argv) \cup Copies("env", envp) \cup s
           null == argv = <<>> \/ envp = <<>>
<1>1. all = Held /\ all \subseteq blocks /\ \A b \in blocks \ all : b[1] \in starved
  BY DEF XInv, BlocksSound
<1>2. Frees(all, null, then)
  BY DEF release
<1>3. null \in BOOLEAN
  OBVIOUS
<1> HIDE DEF all, null
<1>4. blocks' = blocks \ all /\ (pc' = then \/ (null /\ pc' = "wild"))
  BY <1>1, <1>2, <1>3, FreesHeld
<1>5. BlocksSound'
  BY <1>1, <1>4 DEF BlocksSound, Held
<1>6. WildOnlyEmpty'
  BY <1>4 DEF WildOnlyEmpty, null
<1> QED BY <1>4, <1>5, <1>6

LEMMA XInvStep == XInv /\ [Next]_vars => XInv'
<1> SUFFICES ASSUME XInv, [Next]_vars PROVE XInv'
  OBVIOUS
<1> USE DEF XInv, kernel
<1>0. /\ pc \notin {"wild", "panic"} =>
           Held \subseteq blocks /\ \A b \in blocks \ Held : b[1] \in starved
      /\ files \in [Fds -> States] /\ before \in [Fds -> States]
  BY DEF BlocksSound, FilesSound
<1>1. ASSUME NEW a \in Argvs, NEW e \in Envps, execve(a, e) PROVE XInv'
  <2>1. pc = "caller" /\ pc' = "args" /\ before' = files
        /\ UNCHANGED <<blocks, starved, files, fd>>
    BY <1>1 DEF execve
  <2>2. BlocksSound'
    BY <2>1, <1>0 DEF BlocksSound, Held
  <2> QED BY <2>1, <2>2, <1>0 DEF FilesSound, WildOnlyEmpty
<1>2. ASSUME copy("args", argv, "args", "env") PROVE XInv'
  <2>1. pc = "args" /\ pc' = "env" /\ blocks' = blocks \cup Copies("args", argv)
        /\ UNCHANGED <<calls, argv, envp, starved, files, before, fd>>
    BY <1>2 DEF copy
  <2>2. Copies("args", argv)' = Copies("args", argv)
    BY <2>1 DEF Copies
  <2>3. BlocksSound'
    BY <2>1, <2>2, <1>0 DEF BlocksSound, Held
  <2> QED BY <2>1, <2>3, <1>0 DEF FilesSound, WildOnlyEmpty
<1>3. ASSUME copy("env", envp, "env", "open") PROVE XInv'
  <2>1. pc = "env" /\ pc' = "open" /\ blocks' = blocks \cup Copies("env", envp)
        /\ UNCHANGED <<calls, argv, envp, starved, files, before, fd>>
    BY <1>3 DEF copy
  <2>2. Copies("args", argv)' = Copies("args", argv)
        /\ Copies("env", envp)' = Copies("env", envp)
    BY <2>1 DEF Copies
  <2>3. BlocksSound'
    BY <2>1, <2>2, <1>0 DEF BlocksSound, Held
  <2> QED BY <2>1, <2>3, <1>0 DEF FilesSound, WildOnlyEmpty
<1>4. ASSUME NEW which, NEW v, NEW from \in {"args", "env"},
             from = "args" \/ from = "env", copy_fails(which, v, from)
      PROVE  XInv'
  <2>1. PICK k \in 0 .. Len(v) :
          blocks' = blocks \cup {<<calls, which, i>> : i \in 0 .. k - 1}
    BY <1>4 DEF copy_fails
  <2>2. pc = from /\ pc' = "caller" /\ starved' = starved \cup {calls}
        /\ UNCHANGED <<calls, argv, envp, files, before, fd>>
    BY <1>4 DEF copy_fails
  <2>3. \A b \in Held : b[1] = calls
    BY <2>2 DEF Held, Copies
  <2>4. \A b \in blocks' : b[1] \in starved'
    BY <2>1, <2>2, <2>3, <1>0
  <2>5. BlocksSound'
    BY <2>2, <2>4 DEF BlocksSound, Held
  <2> QED BY <2>2, <2>5, <1>0 DEF FilesSound, WildOnlyEmpty
<1>5. ASSUME open PROVE XInv'
  <2>1. pc = "open" /\ pc' = "buf" /\ Free # {} /\ fd' = Min(Free)
        /\ files' = [files EXCEPT ![Min(Free)] = "open"]
        /\ UNCHANGED <<calls, argv, envp, starved, before, blocks>>
    BY <1>5 DEF open
  <2>2. Free \in SUBSET Nat
    <3>1. Fds \subseteq Nat
      BY ExecAssumption
    <3> QED BY <3>1 DEF Free
  <2>3. Min(Free) \in Free
    BY <2>1, <2>2, LeastOf
  <2>4. Min(Free) \in Fds /\ files[Min(Free)] = "none"
    BY <2>3 DEF Free
  <2>5. Held' = Held
    BY <2>1 DEF Held, Copies
  <2>6. BlocksSound'
    BY <2>1, <2>5, <1>0 DEF BlocksSound
  <2>7. files = before
    BY <2>1 DEF FilesSound
  <2>8. FilesSound'
    BY <2>1, <2>4, <2>7, <1>0 DEF FilesSound, States
  <2> QED BY <2>1, <2>6, <2>8 DEF WildOnlyEmpty
<1>6. ASSUME open_fails PROVE XInv'
  <2>1. pc = "open" /\ release({}, "caller")
        /\ UNCHANGED <<calls, argv, envp, starved, before, files, fd>>
    BY <1>6 DEF open_fails
  <2>2. Held = Copies("args", argv) \cup Copies("env", envp) \cup {}
    BY <2>1 DEF Held
  <2>3. BlocksSound' /\ WildOnlyEmpty' /\ pc' \in {"caller", "wild"}
    BY <2>1, <2>2, ReleaseStep
  <2> QED BY <2>1, <2>3, <1>0 DEF FilesSound
<1>7. ASSUME buffer PROVE XInv'
  <2>1. pc = "buf" /\ pc' = "load" /\ blocks' = blocks \cup Buffer
        /\ UNCHANGED <<calls, argv, envp, starved, before, files, fd>>
    BY <1>7 DEF buffer
  <2>2. Held' = Held \cup Buffer
    BY <2>1 DEF Held, Copies, Buffer
  <2>3. BlocksSound'
    BY <2>1, <2>2, <1>0 DEF BlocksSound
  <2> QED BY <2>1, <2>3, <1>0 DEF FilesSound, WildOnlyEmpty
<1>8. ASSUME buffer_fails PROVE XInv'
  <2>1. pc = "buf" /\ release({}, "caller")
        /\ UNCHANGED <<calls, argv, envp, starved, before, files, fd>>
    BY <1>8 DEF buffer_fails
  <2>2. Held = Copies("args", argv) \cup Copies("env", envp) \cup {}
    BY <2>1 DEF Held
  <2>3. BlocksSound' /\ WildOnlyEmpty' /\ pc' \in {"caller", "wild"}
    BY <2>1, <2>2, ReleaseStep
  <2>4. fd # -1
    BY <2>1, ExecAssumption DEF FilesSound
  <2> QED BY <2>1, <2>3, <2>4, <1>0 DEF FilesSound
<1>9. ASSUME load_fails PROVE XInv'
  <2>1. pc = "load" /\ release(Buffer, "lost") /\ files' = [files EXCEPT ![fd] = "none"]
        /\ UNCHANGED <<calls, argv, envp, starved, before, fd>>
    BY <1>9 DEF load_fails
  <2>2. Held = Copies("args", argv) \cup Copies("env", envp) \cup Buffer
    BY <2>1 DEF Held
  <2>3. BlocksSound' /\ WildOnlyEmpty' /\ pc' \in {"lost", "wild"}
    BY <2>1, <2>2, ReleaseStep
  <2>4. files' = before
    BY <2>1, <1>0 DEF FilesSound
  <2> QED BY <2>1, <2>3, <2>4, <1>0 DEF FilesSound
<1>10. ASSUME load PROVE XInv'
  <2>1. pc = "load" /\ Frees(Buffer, FALSE, "push") /\ files' = close_on_exec
        /\ UNCHANGED <<calls, argv, envp, starved, before, fd>>
    BY <1>10 DEF load
  <2>2. Held = Copies("args", argv) \cup Copies("env", envp) \cup Buffer
    BY <2>1 DEF Held
  <2>3. blocks' = blocks \ Buffer /\ pc' = "push"
    BY <2>1, <2>2, <1>0, FreesHeld
  <2>4. Held' = Held \ Buffer
    BY <2>1, <2>2, <2>3 DEF Held, Copies, Buffer
  <2>5. BlocksSound'
    BY <2>1, <2>3, <2>4, <1>0 DEF BlocksSound
  <2>6. files' = [f \in Fds |-> IF before[f] = "open" THEN "open" ELSE "none"]
    BY <2>1, <1>0 DEF FilesSound, close_on_exec, States
  <2> QED BY <2>1, <2>3, <2>5, <2>6, <1>0 DEF FilesSound, WildOnlyEmpty, States
<1>11. ASSUME setup_stack PROVE XInv'
  <2>1. pc = "push" /\ UNCHANGED <<calls, argv, envp, starved, before, files, fd>>
    BY <1>11 DEF setup_stack
  <2>2. \/ Frees(Copies("env", envp) \cup Copies("args", argv), FALSE, "start")
        \/ pc' = "panic"
    BY <1>11 DEF setup_stack
  <2>3. Held = Copies("env", envp) \cup Copies("args", argv)
    BY <2>1 DEF Held
  <2>4. CASE pc' = "panic"
    BY <2>1, <2>4, <1>0 DEF BlocksSound, FilesSound, WildOnlyEmpty
  <2>5. CASE Frees(Copies("env", envp) \cup Copies("args", argv), FALSE, "start")
    <3>1. blocks' = blocks \ Held /\ pc' = "start"
      BY <2>1, <2>3, <2>5, <1>0, FreesHeld
    <3>2. BlocksSound'
      BY <3>1, <2>1, <1>0 DEF BlocksSound, Held
    <3> QED BY <3>1, <3>2, <2>1, <1>0 DEF FilesSound, WildOnlyEmpty
  <2> QED BY <2>2, <2>4, <2>5
<1>12. ASSUME _start \/ init_rlibc \/ main \/ runs PROVE XInv'
  <2>1. /\ \/ pc = "start" /\ pc' = "init"
           \/ pc = "init" /\ pc' \in {"init", "main"}
           \/ pc \in {"main", "running"} /\ pc' = "running"
        /\ UNCHANGED <<blocks, starved, before, files, fd>>
    BY <1>12 DEF _start, init_rlibc, main, runs
  <2>2. BlocksSound'
    BY <2>1, <1>0 DEF BlocksSound, Held
  <2> QED BY <2>1, <2>2, <1>0 DEF FilesSound, WildOnlyEmpty
<1>13. CASE UNCHANGED vars
  BY <1>13 DEF vars, BlocksSound, Held, Copies, Buffer, FilesSound, WildOnlyEmpty
<1> QED
  BY <1>1, <1>2, <1>3, <1>4, <1>5, <1>6, <1>7, <1>8, <1>9, <1>10, <1>11, <1>12, <1>13
  DEF Next

\* Whichever way execve ends, it holds no block and no descriptor but those
\* NothingHeld excepts: for every pair of vectors, set of descriptors, number
\* of calls, and failure of an allocation.
THEOREM ExecGivesBack == Spec => []NothingHeld
<1>1. Spec => []XInv
  BY XInvInit, XInvStep, PTL DEF Spec
<1> QED BY <1>1, HeldIsNothing, PTL

----------------------------------------------------------------------------
(* The environment *)

\* NoValue stands for a NULL pointer: it is no part of any string.
NoValueIsNull == \A s, a, b : NoValue # SubSeq(s, a, b)

\* The first entry of a variable, the one setenv rewrites and getenv finds,
\* has one of the values it may have.
FirstKept(n) ==
  IF Rewrites(n) = {} THEN NoValue \in envSet[n]
  ELSE \E x \in envSet[n] \ {NoValue} : environ[Min(Rewrites(n))][2] \in Stored(x)

VInv ==
  /\ \E S : environ \in Seq(S)
  /\ DOMAIN envSet = EnvNames /\ envSet = [n \in EnvNames |-> envSet[n]]
  /\ \A n \in EnvNames : FirstKept(n)

\* A name that begins no other is found where it is rewritten.
LEMMA KeptIsFound == VInv => EnvKept
<1> SUFFICES ASSUME VInv, NEW n \in EnvNames,
                    \A i \in DOMAIN environ : Begins(n, environ[i][1]) => environ[i][1] = n
             PROVE  \/ getenv(n) = NoValue /\ NoValue \in envSet[n]
                    \/ \E x \in envSet[n] \ {NoValue} : getenv(n) \in Stored(x)
  BY DEF EnvKept
<1>1. Begins(n, n)
  <2>1. n \in Seq(Nat)
    BY EnvAssumption
  <2>2. Len(n) \in Nat
    BY <2>1
  <2> QED BY <2>2 DEF Begins, IsPrefix
<1>2. Found(n) = Rewrites(n)
  BY <1>1 DEF Found, Rewrites
<1>3. FirstKept(n)
  BY DEF VInv
<1> QED BY <1>2, <1>3 DEF getenv, FirstKept

LEMMA VInvEmpty ==
  ASSUME environ = <<>>, envSet = [n \in EnvNames |-> {NoValue}]
  PROVE  VInv
<1>1. environ \in Seq({})
  OBVIOUS
<1>2. DOMAIN environ = {}
  BY <1>1
<1>3. ASSUME NEW n \in EnvNames PROVE FirstKept(n)
  BY <1>2 DEF FirstKept, Rewrites
<1> QED BY <1>1, <1>3 DEF VInv

\* The entry at place k, a new one or one of n's, becomes n's and has the
\* value s.
PutAt(k, n, s) ==
  /\ k \in Nat /\ DOMAIN environ' = DOMAIN environ \cup {k} /\ environ'[k] = <<n, s>>
  /\ \A j \in DOMAIN environ : j # k => environ'[j] = environ[j]
  /\ \E S : environ' \in Seq(S)

\* environ ends before place k.
CutAt(k) ==
  /\ k \in DOMAIN environ /\ DOMAIN environ' = 1 .. k - 1
  /\ \A j \in 1 .. k - 1 : j \in DOMAIN environ /\ environ'[j] = environ[j]
  /\ \E S : environ' \in Seq(S)

\* The ways setenv can go.
SetResult(n, v, o) ==
  \/ /\ Rewriting(n, o) /\ envSet' = [envSet EXCEPT ![n] = Given(n, v, o)]
     /\ \E s \in Stored(v) : PutAt(Min(Rewrites(n)), n, s)
     /\ UNCHANGED <<envCap, envFailed>>
  \/ /\ ~Rewriting(n, o) /\ envSet' = [envSet EXCEPT ![n] = Given(n, v, o)]
     /\ \E s \in Stored(v) : PutAt(Len(environ) + 1, n, s)
     /\ envCap' = Capacity /\ UNCHANGED envFailed
  \/ /\ envCap = 0 \/ (~Rewriting(n, o) /\ envCap' = Capacity)
     /\ envSet' = [m \in EnvNames |-> Kept(m, n, o)]
     /\ UNCHANGED environ /\ envFailed' = TRUE
  \/ /\ Rewriting(n, o) /\ envSet' = [m \in EnvNames |-> Kept(m, n, o)]
     /\ CutAt(Min(Rewrites(n))) /\ envFailed' = TRUE /\ UNCHANGED envCap
  \/ UNCHANGED <<environ, envSet>> /\ envMode' = "fault"

LEMMA FirstEntry ==
  ASSUME \E S : environ \in Seq(S)
  PROVE  /\ \A m : Rewrites(m) \in SUBSET Nat
         /\ \A m : Rewrites(m) # {} =>
              /\ Min(Rewrites(m)) \in Rewrites(m) /\ Min(Rewrites(m)) \in DOMAIN environ
              /\ Min(Rewrites(m)) \in Nat /\ environ[Min(Rewrites(m))][1] = m
              /\ \A y \in Rewrites(m) : Min(Rewrites(m)) <= y
<1>1. DOMAIN environ = 1 .. Len(environ) /\ Len(environ) \in Nat
  OBVIOUS
<1>2. \A m : Rewrites(m) \in SUBSET Nat
  BY <1>1 DEF Rewrites
<1>3. ASSUME NEW m, Rewrites(m) # {}
      PROVE  /\ Min(Rewrites(m)) \in Rewrites(m) /\ Min(Rewrites(m)) \in DOMAIN environ
             /\ Min(Rewrites(m)) \in Nat /\ environ[Min(Rewrites(m))][1] = m
             /\ \A y \in Rewrites(m) : Min(Rewrites(m)) <= y
  <2>1. PICK R : R = Rewrites(m) /\ R # {} /\ R \in SUBSET Nat
    BY <1>2, <1>3
  <2>2. Min(R) \in R /\ \A y \in R : Min(R) <= y
    BY <2>1, LeastOf
  <2>3. PICK k : k = Min(R)
    OBVIOUS
  <2>4. k \in DOMAIN environ /\ environ[k][1] = m
    BY <2>1, <2>2, <2>3 DEF Rewrites
  <2> QED BY <2>1, <2>2, <2>3, <2>4
<1> QED BY <1>2, <1>3

LEMMA SetCases ==
  ASSUME \E S : environ \in Seq(S), NEW n, NEW v, NEW o \in BOOLEAN, setenv(n, v, o)
  PROVE  SetResult(n, v, o)
<1>1. PICK S : environ \in Seq(S)
  OBVIOUS
<1>2. DOMAIN environ = 1 .. Len(environ) /\ Len(environ) \in Nat
  BY <1>1
<1>3. ASSUME NEW k, Stores(n, v, k), k \in DOMAIN environ \/ k = Len(environ) + 1
      PROVE  \E s \in Stored(v) : PutAt(k, n, s)
  <2>1. PICK s \in Stored(v) : environ' = Put(k, <<n, s>>)
    <3>1. PICK a \in Stale, b \in Stale : environ' = Put(k, <<n, a \o v \o b>>)
      BY <1>3 DEF Stores
    <3>2. a \o v \o b \in Stored(v)
      BY DEF Stored
    <3> QED BY <3>1, <3>2
  <2>2. PICK e : e = <<n, s>>
    OBVIOUS
  <2>3. environ \in Seq(S \cup {e})
    BY <1>1, SeqMonotonic
  <2>4. CASE k \in DOMAIN environ
    <3>1. environ' = [environ EXCEPT ![k] = e]
      BY <2>1, <2>2, <2>4 DEF Put
    <3>2. DOMAIN environ' = DOMAIN environ /\ environ'[k] = e /\ k \in Nat
          /\ \A j \in DOMAIN environ : j # k => environ'[j] = environ[j]
      BY <3>1, <2>4, <1>2
    <3>3. environ' \in Seq(S \cup {e})
      BY <2>3, <2>4, <3>1, <1>2, ExceptSeq
    <3>4. PutAt(k, n, s)
      BY <2>2, <2>4, <3>2, <3>3 DEF PutAt
    <3> QED BY <3>4
  <2>5. CASE k = Len(environ) + 1
    <3>1. k \notin DOMAIN environ /\ k \in Nat
      BY <2>5, <1>2
    <3>2. environ' = Append(environ, e)
      BY <2>1, <2>2, <3>1 DEF Put
    <3>3. /\ environ' \in Seq(S \cup {e})
          /\ DOMAIN environ' = DOMAIN environ \cup {k}
          /\ environ'[k] = e
          /\ \A j \in DOMAIN environ : environ'[j] = environ[j]
      BY <3>2, <2>3, <2>5, <1>2, AppendProperties
    <3>4. PutAt(k, n, s)
      BY <2>2, <3>1, <3>3 DEF PutAt
    <3> QED BY <3>4
  <2> QED BY <2>4, <2>5, <1>3
<1>4. Rewriting(n, o) => Min(Rewrites(n)) \in DOMAIN environ
  BY FirstEntry DEF Rewriting
<1>5. CASE /\ rewrites(n, v, o)
           /\ envSet' = [envSet EXCEPT ![n] = Given(n, v, o)] /\ UNCHANGED envFailed
  <2>1. Rewriting(n, o) /\ UNCHANGED envCap /\ Stores(n, v, Min(Rewrites(n)))
    BY <1>5 DEF rewrites
  <2>2. \E s \in Stored(v) : PutAt(Min(Rewrites(n)), n, s)
    BY <2>1, <1>3, <1>4
  <2> QED BY <2>1, <2>2, <1>5 DEF SetResult
<1>6. CASE /\ adds(n, v, o)
           /\ envSet' = [envSet EXCEPT ![n] = Given(n, v, o)] /\ UNCHANGED envFailed
  <2>1. ~Rewriting(n, o) /\ envCap' = Capacity /\ Stores(n, v, Len(environ) + 1)
    BY <1>6 DEF adds
  <2>2. \E s \in Stored(v) : PutAt(Len(environ) + 1, n, s)
    BY <2>1, <1>3
  <2> QED BY <2>1, <2>2, <1>6 DEF SetResult
<1>7. CASE /\ no_array \/ no_string(n, o)
           /\ envSet' = [m \in EnvNames |-> Kept(m, n, o)] /\ envFailed' = TRUE
  <2>1. (envCap = 0 \/ (~Rewriting(n, o) /\ envCap' = Capacity)) /\ UNCHANGED environ
    <3>1. CASE no_array
      BY <3>1 DEF no_array
    <3>2. CASE no_string(n, o)
      BY <3>2 DEF no_string
    <3> QED BY <3>1, <3>2, <1>7
  <2> QED BY <2>1, <1>7 DEF SetResult
<1>8. CASE /\ no_rewrite(n, o)
           /\ envSet' = [m \in EnvNames |-> Kept(m, n, o)] /\ envFailed' = TRUE
  <2> DEFINE k == Min(Rewrites(n))
  <2>1. Rewriting(n, o) /\ environ' = SubSeq(environ, 1, k - 1) /\ UNCHANGED envCap
    BY <1>8 DEF no_rewrite
  <2>2. k \in DOMAIN environ
    BY <2>1, <1>4
  <2> HIDE DEF k
  <2>3. k \in Nat /\ k - 1 \in Nat /\ 1 <= k /\ k <= Len(environ)
    BY <2>2, <1>2
  <2>4. environ' \in Seq(S) /\ Len(environ') = k - 1
        /\ \A j \in 1 .. k - 1 : environ'[j] = environ[j]
    BY <2>1, <2>3, <1>1, <1>2
  <2>5. CutAt(k)
    <3>1. DOMAIN environ' = 1 .. k - 1
      BY <2>4
    <3>2. \A j \in 1 .. k - 1 : j \in DOMAIN environ
      BY <2>3, <1>2
    <3> QED BY <2>2, <2>4, <3>1, <3>2 DEF CutAt
  <2> QED BY <2>1, <2>5, <1>8 DEF SetResult, k
<1>9. CASE realloc_fails(n, o)
  BY <1>9 DEF realloc_fails, SetResult
<1> QED BY <1>5, <1>6, <1>7, <1>8, <1>9 DEF setenv

\* setenv, with or without overwrite, of a name that is known or not.
LEMMA SetKeeps ==
  ASSUME VInv, NEW n, NEW v, v # NoValue, NEW o \in BOOLEAN, setenv(n, v, o)
  PROVE  VInv'
<1>1. PICK S : environ \in Seq(S)
  BY DEF VInv
<1>2. DOMAIN environ = 1 .. Len(environ) /\ Len(environ) \in Nat
  BY <1>1
<1>3. SetResult(n, v, o)
  BY <1>1, SetCases
<1>4. \A m : Rewrites(m) \in SUBSET Nat
  BY <1>1, FirstEntry
<1>5. \A m : Rewrites(m) # {} =>
        /\ Min(Rewrites(m)) \in Rewrites(m) /\ Min(Rewrites(m)) \in DOMAIN environ
        /\ Min(Rewrites(m)) \in Nat /\ environ[Min(Rewrites(m))][1] = m
        /\ \A y \in Rewrites(m) : Min(Rewrites(m)) <= y
  BY <1>1, FirstEntry
<1>6. ASSUME UNCHANGED environ, DOMAIN envSet' = EnvNames, envSet' = [m \in EnvNames |-> envSet'[m]],
             \A m \in EnvNames : envSet[m] \subseteq envSet'[m]
      PROVE  VInv'
  <2>1. \A m : Rewrites(m)' = Rewrites(m)
    BY <1>6 DEF Rewrites
  <2>2. ASSUME NEW m \in EnvNames PROVE FirstKept(m)'
    <3>1. FirstKept(m) /\ envSet[m] \subseteq envSet'[m]
      BY <1>6 DEF VInv
    <3> QED BY <3>1, <2>1, <1>6 DEF FirstKept
  <2> QED BY <2>2, <1>1, <1>6 DEF VInv
<1>7. ASSUME envSet' = [envSet EXCEPT ![n] = Given(n, v, o)]
      PROVE  /\ DOMAIN envSet' = EnvNames /\ envSet' = [m \in EnvNames |-> envSet'[m]]
             /\ \A m \in EnvNames : m # n => envSet'[m] = envSet[m]
             /\ n \in EnvNames => envSet'[n] = Given(n, v, o)
  BY <1>7 DEF VInv
<1>8. ASSUME envSet' = [m \in EnvNames |-> Kept(m, n, o)]
      PROVE  /\ DOMAIN envSet' = EnvNames /\ envSet' = [m \in EnvNames |-> envSet'[m]]
             /\ \A m \in EnvNames : envSet'[m] = Kept(m, n, o) /\ envSet[m] \subseteq envSet'[m]
  BY <1>8 DEF Kept
<1>10. CASE /\ Rewriting(n, o) /\ envSet' = [envSet EXCEPT ![n] = Given(n, v, o)]
            /\ \E s \in Stored(v) : PutAt(Min(Rewrites(n)), n, s)
  <2> DEFINE k == Min(Rewrites(n))
  <2>1. PICK s \in Stored(v) : PutAt(k, n, s)
    BY <1>10
  <2>2. o /\ Rewrites(n) # {} /\ k \in DOMAIN environ /\ environ[k][1] = n
    BY <1>5, <1>10 DEF Rewriting
  <2>3. DOMAIN environ' = DOMAIN environ /\ environ'[k] = <<n, s>>
        /\ (\A j \in DOMAIN environ : j # k => environ'[j] = environ[j])
        /\ \E T : environ' \in Seq(T)
    <3> HIDE DEF k
    <3> QED BY <2>1, <2>2 DEF PutAt
  <2> HIDE DEF k
  <2>4. environ'[k][1] = n /\ environ'[k][2] = s
    BY <2>3
  <2>5. \A m : Rewrites(m)' = Rewrites(m)
    BY <2>2, <2>3, <2>4 DEF Rewrites
  <2>6. ASSUME NEW m \in EnvNames, m # n PROVE FirstKept(m)'
    <3>1. FirstKept(m)
      BY DEF VInv
    <3>2. Rewrites(m) # {} => Min(Rewrites(m)) # k /\ Min(Rewrites(m)) \in DOMAIN environ
      BY <1>5, <2>2, <2>6
    <3>3. envSet'[m] = envSet[m]
      BY <1>7, <1>10, <2>6
    <3>4. Rewrites(m) # {} => environ'[Min(Rewrites(m))] = environ[Min(Rewrites(m))]
      BY <3>2, <2>3
    <3> QED BY <3>1, <3>3, <3>4, <2>5 DEF FirstKept
  <2>7. ASSUME n \in EnvNames PROVE FirstKept(n)'
    <3>1. envSet'[n] = {v}
      BY <2>2, <2>7, <1>7, <1>10 DEF Given
    <3>2. environ'[Min(Rewrites(n)')][2] = s
      BY <2>4, <2>5 DEF k
    <3> QED BY <3>1, <3>2, <2>2, <2>5 DEF FirstKept
  <2> QED BY <2>3, <2>6, <2>7, <1>7, <1>10 DEF VInv
<1>11. CASE /\ ~Rewriting(n, o) /\ envSet' = [envSet EXCEPT ![n] = Given(n, v, o)]
            /\ \E s \in Stored(v) : PutAt(Len(environ) + 1, n, s)
  <2> DEFINE k == Len(environ) + 1
  <2>1. PICK s \in Stored(v) : PutAt(k, n, s)
    BY <1>11
  <2>2. k \in Nat /\ k \notin DOMAIN environ /\ \A j \in DOMAIN environ : j < k
    BY <1>2
  <2> HIDE DEF k
  <2>3. /\ DOMAIN environ' = DOMAIN environ \cup {k} /\ environ'[k] = <<n, s>>
        /\ (\A j \in DOMAIN environ : environ'[j] = environ[j])
        /\ \E T : environ' \in Seq(T)
    BY <2>1, <2>2 DEF PutAt
  <2>4. environ'[k][1] = n /\ environ'[k][2] = s
    BY <2>3
  <2>5. \A m : m # n => Rewrites(m)' = Rewrites(m)
    BY <2>2, <2>3, <2>4 DEF Rewrites
  <2>51. Rewrites(n)' = Rewrites(n) \cup {k}
    BY <2>2, <2>3, <2>4 DEF Rewrites
  <2>6. ASSUME NEW m \in EnvNames, m # n PROVE FirstKept(m)'
    <3>1. FirstKept(m)
      BY DEF VInv
    <3>2. Rewrites(m) # {} => Min(Rewrites(m)) \in DOMAIN environ
      BY <1>5
    <3>3. envSet'[m] = envSet[m]
      BY <1>7, <1>11, <2>6
    <3>4. Rewrites(m) # {} => environ'[Min(Rewrites(m))] = environ[Min(Rewrites(m))]
      BY <3>2, <2>3
    <3>5. Rewrites(m)' = Rewrites(m)
      BY <2>5, <2>6
    <3> QED BY <3>1, <3>3, <3>4, <3>5 DEF FirstKept
  <2>7. ASSUME n \in EnvNames PROVE FirstKept(n)'
    <3>1. FirstKept(n) /\ envSet'[n] = Given(n, v, o)
      BY <2>7, <1>7, <1>11 DEF VInv
    <3>3. CASE Rewrites(n) = {}
      <4>1. Rewrites(n)' = {k}
        BY <2>51, <3>3
      <4>2. Min({k}) = k
        <5>1. {k} \in SUBSET Nat /\ k \in {k} /\ \A y \in {k} : k <= y
          BY <2>2
        <5> QED BY <5>1, MinIs
      <4>3. v \in envSet'[n]
        BY <3>1, <3>3 DEF FirstKept, Given
      <4>4. environ'[Min(Rewrites(n)')][2] = s
        BY <4>1, <4>2, <2>4
      <4> QED BY <4>1, <4>3, <4>4 DEF FirstKept
    <3>4. CASE Rewrites(n) # {}
      <4>1. ~o
        BY <3>4, <1>11 DEF Rewriting
      <4> DEFINE R == Rewrites(n) \cup {k}
                 x == Min(Rewrites(n))
      <4>3. x \in Rewrites(n) /\ x \in DOMAIN environ /\ \A y \in Rewrites(n) : x <= y
        BY <1>5, <3>4
      <4>4. R \in SUBSET Nat /\ x \in R /\ \A y \in R : x <= y
        BY <4>3, <2>2, <1>4
      <4>5. Min(R) = x
        BY <4>4, MinIs
      <4>6. Min(Rewrites(n)') = x
        BY <4>5, <2>51
      <4>7. PICK y \in envSet[n] \ {NoValue} : environ[x][2] \in Stored(y)
        BY <3>1, <3>4 DEF FirstKept
      <4>8. y \in envSet'[n]
        BY <3>1, <4>1, <4>7 DEF Given
      <4> HIDE DEF x
      <4>9. environ'[x] = environ[x] /\ Rewrites(n)' # {}
        BY <4>3, <2>3, <2>51
      <4> QED BY <4>6, <4>7, <4>8, <4>9 DEF FirstKept
    <3> QED BY <3>3, <3>4
  <2> QED BY <2>3, <2>6, <2>7, <1>7, <1>11 DEF VInv
<1>12. CASE UNCHANGED environ /\ envSet' = [m \in EnvNames |-> Kept(m, n, o)]
  BY <1>6, <1>8, <1>12
<1>13. CASE /\ Rewriting(n, o) /\ envSet' = [m \in EnvNames |-> Kept(m, n, o)]
            /\ CutAt(Min(Rewrites(n)))
  <2> DEFINE k == Min(Rewrites(n))
  <2>1. o /\ Rewrites(n) # {} /\ CutAt(k)
    BY <1>13 DEF Rewriting
  <2>2. k \in Nat /\ environ[k][1] = n /\ (\A y \in Rewrites(n) : k <= y)
    BY <1>5, <2>1
  <2> HIDE DEF k
  <2>3. /\ DOMAIN environ' = 1 .. k - 1 /\ k \in DOMAIN environ
        /\ (\A j \in 1 .. k - 1 : j \in DOMAIN environ /\ environ'[j] = environ[j])
        /\ \E T : environ' \in Seq(T)
    BY <2>1 DEF CutAt
  <2>4. \A m : Rewrites(m)' = {i \in Rewrites(m) : i < k}
    <3> SUFFICES ASSUME NEW m PROVE Rewrites(m)' = {i \in Rewrites(m) : i < k}
      OBVIOUS
    <3>1. Rewrites(m) \subseteq Nat
      BY <1>4
    <3>2. \A i \in DOMAIN environ : i < k => i \in 1 .. k - 1
      BY <2>2, <1>2
    <3>3. \A i \in 1 .. k - 1 : i < k
      BY <2>2
    <3> QED BY <3>1, <3>2, <3>3, <2>3 DEF Rewrites
  <2>5. \A m \in EnvNames : envSet'[m] = envSet[m] \cup {NoValue}
    <3>1. n \in EnvNames => envSet[n] # {NoValue}
      <4>1. n \in EnvNames => FirstKept(n)
        BY DEF VInv
      <4> QED BY <4>1, <2>1 DEF FirstKept
    <3> QED BY <3>1, <2>1, <1>8, <1>13 DEF Kept
  <2>6. ASSUME NEW m \in EnvNames PROVE FirstKept(m)'
    <3>1. FirstKept(m) /\ envSet'[m] = envSet[m] \cup {NoValue}
      BY <2>5 DEF VInv
    <3>2. CASE Rewrites(m)' = {}
      BY <3>1, <3>2 DEF FirstKept
    <3>3. CASE Rewrites(m)' # {}
      <4> DEFINE x == Min(Rewrites(m))
      <4>1. PICK i \in Rewrites(m) : i < k
        BY <3>3, <2>4
      <4>2. x \in Rewrites(m) /\ x \in Nat /\ \A y \in Rewrites(m) : x <= y
        BY <4>1, <1>5
      <4>3. i \in Nat /\ x <= i
        BY <4>1, <4>2, <1>4
      <4>4. PICK y \in envSet[m] \ {NoValue} : environ[x][2] \in Stored(y)
        BY <3>1, <4>1 DEF FirstKept
      <4> HIDE DEF x
      <4>5. x < k
        BY <4>1, <4>2, <4>3, <2>2
      <4>6. x \in Rewrites(m)' /\ Rewrites(m)' \in SUBSET Nat /\ \A z \in Rewrites(m)' : x <= z
        BY <4>2, <4>5, <2>4, <1>4
      <4>7. Min(Rewrites(m)') = x
        <5>1. PICK R : R = Rewrites(m)'
          OBVIOUS
        <5>2. Min(R) = x
          BY <4>6, <5>1, MinIs
        <5> QED BY <5>1, <5>2
      <4>8. environ'[x] = environ[x]
        <5>1. x \in DOMAIN environ
          BY <4>2 DEF Rewrites
        <5>2. x \in 1 .. k - 1
          BY <5>1, <4>5, <2>2, <1>2
        <5> QED BY <5>2, <2>3
      <4> QED BY <3>1, <3>3, <4>4, <4>7, <4>8 DEF FirstKept
    <3> QED BY <3>2, <3>3
  <2> QED BY <2>3, <2>6, <1>8, <1>13 DEF VInv
<1>14. CASE UNCHANGED <<environ, envSet>>
  BY <1>6, <1>14 DEF VInv
<1> QED BY <1>3, <1>10, <1>11, <1>12, <1>13, <1>14 DEF SetResult

\* What init_rlibc passes to setenv is a string.
LEMMA ValueIsString ==
  ASSUME NoValueIsNull, NEW s
  PROVE  ValueOf(s) # NoValue
  BY DEF ValueOf, NoValueIsNull

LEMMA VInvStep == NoValueIsNull /\ VInv /\ [Next]_vars => VInv'
<1> SUFFICES ASSUME NoValueIsNull, VInv, [Next]_vars PROVE VInv'
  OBVIOUS
<1>1. CASE UNCHANGED <<environ, envSet>>
  BY <1>1 DEF VInv, FirstKept, Rewrites
<1>2. CASE _start
  <2>1. environ' = <<>> /\ envSet' = [n \in EnvNames |-> {NoValue}]
    BY <1>2 DEF _start
  <2>2. (environ = <<>> /\ envSet = [n \in EnvNames |-> {NoValue}])' => VInv'
    BY VInvEmpty, PTL
  <2> QED BY <2>1, <2>2
<1>3. CASE init_rlibc
  <2>1. PICK s : setenv(NameOf(s), ValueOf(s), TRUE) \/ UNCHANGED envVars
    BY <1>3 DEF init_rlibc
  <2>2. CASE UNCHANGED envVars
    BY <2>2, <1>1 DEF envVars
  <2> QED BY <2>1, <2>2, ValueIsString, SetKeeps
<1>4. CASE EnvNext
  <2>1. ASSUME NEW n \in EnvNames, NEW v \in EnvVals, NEW o \in BOOLEAN, setenv(n, v, o)
        PROVE  VInv'
    BY <2>1, EnvAssumption, SetKeeps
  <2>2. ASSUME (\E n \in EnvNames : unsetenv(n)) \/ heap_used PROVE VInv'
    BY <2>2, <1>1 DEF unsetenv, heap_used
  <2> QED BY <1>4, <2>1, <2>2 DEF EnvNext
<1>5. _start \/ init_rlibc \/ EnvNext \/ UNCHANGED <<environ, envSet>>
  BY DEF Next, vars, kernel, envVars, execve, copy, copy_fails, open, open_fails, buffer,
         buffer_fails, load, load_fails, setup_stack, main, runs
<1> QED BY <1>1, <1>2, <1>3, <1>4, <1>5

\* getenv finds what setenv set last, for every set of names and values, any
\* number of calls of which any may fail, before and after an execve, until
\* setenv writes past a block.
THEOREM EnvironmentKept ==
  ASSUME NoValueIsNull
  PROVE  Spec => []EnvKept
<1>1. Init => VInv
  BY VInvEmpty DEF Init, EnvInit
<1>2. Spec => []VInv
  BY <1>1, VInvStep, PTL DEF Spec
<1> QED BY <1>2, KeptIsFound, PTL

----------------------------------------------------------------------------
(* What execve pushes *)

Octet == 0 .. 255
Text == Seq(1 .. 255)

\* The bytes that were there stay.
Grows(st, r) ==
  /\ st \in Seq(Octet) /\ r \in Seq(Octet) /\ Len(st) <= Len(r)
  /\ \A k \in 1 .. Len(st) : r[k] = st[k]

\* A word at address Top - l, read as a processor does.
HasWord(st, l, w) ==
  /\ l \in 4 .. Len(st)
  /\ st[l] + 256 * st[l - 1] + 65536 * st[l - 2] + 16777216 * st[l - 3] = w

\* A string at address Top - l, with its terminator.
HasString(st, l, s) ==
  /\ l \in Len(s) + 1 .. Len(st)
  /\ \A k \in 1 .. Len(s) : st[l + 1 - k] = s[k]
  /\ st[l - Len(s)] = 0

LEMMA GrowsOn ==
  ASSUME NEW a, NEW b, NEW c, Grows(a, b), Grows(b, c)
  PROVE  Grows(a, c)
<1>1. Len(a) \in Nat /\ Len(b) \in Nat /\ Len(c) \in Nat
  BY DEF Grows
<1>2. Len(a) <= Len(c)
  BY <1>1 DEF Grows
<1>3. \A k \in 1 .. Len(a) : k \in 1 .. Len(b)
  BY <1>1 DEF Grows
<1> QED BY <1>2, <1>3 DEF Grows

LEMMA Appended ==
  ASSUME NEW st \in Seq(Octet), NEW t \in Seq(Octet)
  PROVE  /\ Grows(st, st \o t) /\ Len(st \o t) = Len(st) + Len(t)
         /\ \A k \in 1 .. Len(t) : (st \o t)[Len(st) + k] = t[k]
<1>1. st \o t \in Seq(Octet)
  OBVIOUS
<1>2. Len(st \o t) = Len(st) + Len(t) /\ Len(st) \in Nat /\ Len(t) \in Nat
  OBVIOUS
<1>3. \A k \in 1 .. Len(st) : (st \o t)[k] = st[k]
  OBVIOUS
<1>4. ASSUME NEW k \in 1 .. Len(t) PROVE (st \o t)[Len(st) + k] = t[k]
  <2>1. Len(st) + k \in 1 .. Len(st) + Len(t) /\ Len(st) + k > Len(st) /\ Len(st) + k - Len(st) = k
    BY <1>2
  <2> QED BY <2>1
<1> QED BY <1>1, <1>2, <1>3, <1>4 DEF Grows

LEMMA PushStringIs ==
  ASSUME NEW st \in Seq(Octet), NEW s \in Text
  PROVE  LET r == PushString(st, s)
         IN /\ Grows(st, r) /\ Len(r) = Len(st) + Len(s) + 1
            /\ HasString(r, Len(r), s)
<1> DEFINE t == <<0>> \o Reverse(s)
           r == st \o t
<1>1. Reverse(s) \in Seq(Octet) /\ Len(Reverse(s)) = Len(s) /\ Len(s) \in Nat
      /\ \A k \in 1 .. Len(s) : Reverse(s)[k] = s[Len(s) - k + 1]
  <2>1. Len(s) \in Nat /\ DOMAIN s = 1 .. Len(s) /\ \A k \in 1 .. Len(s) : s[k] \in Octet
    <3>1. 1 .. 255 \subseteq Octet
      BY DEF Octet
    <3>2. PICK C : C = 1 .. 255
      OBVIOUS
    <3>3. s \in Seq(C)
      BY <3>2 DEF Text
    <3>4. Len(s) \in Nat /\ DOMAIN s = 1 .. Len(s)
      BY <3>3
    <3>5. \A k \in 1 .. Len(s) : s[k] \in C
      BY <3>3
    <3> QED BY <3>1, <3>2, <3>4, <3>5
  <2>2. \A k \in 1 .. Len(s) : Len(s) - k + 1 \in 1 .. Len(s)
    BY <2>1
  <2>3. PICK q : q = [i \in 1 .. Len(s) |-> s[Len(s) - i + 1]]
    OBVIOUS
  <2>4. q \in [1 .. Len(s) -> Octet] /\ \A k \in 1 .. Len(s) : q[k] = s[Len(s) - k + 1]
    BY <2>1, <2>2, <2>3
  <2>5. q \in Seq(Octet) /\ Len(q) = Len(s)
    BY <2>1, <2>4
  <2>6. Reverse(s) = q
    BY <2>3 DEF Reverse
  <2> QED BY <2>1, <2>4, <2>5, <2>6
<1>2. t \in Seq(Octet) /\ Len(t) = Len(s) + 1 /\ t[1] = 0
      /\ \A k \in 1 .. Len(s) : t[1 + k] = s[Len(s) - k + 1]
  <2>1. <<0>> \in Seq(Octet) /\ Len(<<0>>) = 1 /\ <<0>>[1] = 0
    BY DEF Octet
  <2>2. PICK o : o = <<0>>
    OBVIOUS
  <2>3. PICK q : q = Reverse(s)
    OBVIOUS
  <2>4. Grows(o, o \o q) /\ Len(o \o q) = 1 + Len(q)
        /\ \A k \in 1 .. Len(q) : (o \o q)[1 + k] = q[k]
    BY <1>1, <2>1, <2>2, <2>3, Appended
  <2>5. (o \o q)[1] = 0 /\ o \o q \in Seq(Octet)
    BY <2>1, <2>2, <2>4 DEF Grows
  <2> QED BY <1>1, <2>2, <2>3, <2>4, <2>5
<1>3. r = PushString(st, s)
  BY <1>1 DEF PushString, Octet
<1> HIDE DEF t
<1>4. Grows(st, r) /\ Len(r) = Len(st) + (Len(s) + 1)
      /\ \A k \in 1 .. Len(s) + 1 : r[Len(st) + k] = t[k]
  BY <1>2, Appended
<1> HIDE DEF r
<1>5. Len(st) \in Nat /\ Len(r) = Len(st) + Len(s) + 1 /\ Len(r) \in Nat
  BY <1>1, <1>4
<1>6. ASSUME NEW k \in 1 .. Len(s) PROVE r[Len(r) + 1 - k] = s[k]
  <2>1. PICK j \in 1 .. Len(s) : j = Len(s) - k + 1 /\ Len(s) - j + 1 = k
    BY <1>1
  <2>2. 1 + j \in 1 .. Len(s) + 1 /\ Len(st) + (1 + j) = Len(r) + 1 - k
    BY <2>1, <1>5, <1>1
  <2> QED BY <2>1, <2>2, <1>2, <1>4
<1>7. r[Len(r) - Len(s)] = 0
  <2>1. Len(r) - Len(s) = Len(st) + 1 /\ 1 \in 1 .. Len(s) + 1
    BY <1>1, <1>5
  <2> QED BY <2>1, <1>2, <1>4
<1>8. Len(r) \in Len(s) + 1 .. Len(r)
  BY <1>1, <1>5
<1> QED BY <1>3, <1>4, <1>5, <1>6, <1>7, <1>8 DEF HasString

\* A word is the sum of its bytes.
LEMMA BytesOfWord ==
  ASSUME NEW w \in Int
  PROVE  /\ (w \div 16777216) % 256 \in Octet /\ (w \div 65536) % 256 \in Octet
         /\ (w \div 256) % 256 \in Octet /\ w % 256 \in Octet
         /\ (w >= 0 /\ w \div 65536 < 65536) =>
              (w % 256) + 256 * ((w \div 256) % 256) + 65536 * ((w \div 65536) % 256)
                + 16777216 * ((w \div 16777216) % 256) = w
<1>1. /\ (w \div 16777216) % 256 \in Octet /\ (w \div 65536) % 256 \in Octet
      /\ (w \div 256) % 256 \in Octet /\ w % 256 \in Octet
  BY DEF Octet
<1>2. ASSUME w >= 0, w \div 65536 < 65536
      PROVE  (w % 256) + 256 * ((w \div 256) % 256) + 65536 * ((w \div 65536) % 256)
                + 16777216 * ((w \div 16777216) % 256) = w
  BY <1>2
<1> QED BY <1>1, <1>2

LEMMA PushIs ==
  ASSUME NEW st \in Seq(Octet), NEW w \in Int
  PROVE  LET r == push(st, w)
         IN /\ Grows(st, r) /\ Len(r) = Len(st) + 4
            /\ (w >= 0 /\ w \div 65536 < 65536) => HasWord(r, Len(r), w)
<1> DEFINE a == (w \div 16777216) % 256
           b == (w \div 65536) % 256
           c == (w \div 256) % 256
           d == w % 256
           t == <<a, b, c, d>>
           r == st \o t
<1>1. /\ a \in Octet /\ b \in Octet /\ c \in Octet /\ d \in Octet
      /\ (w >= 0 /\ w \div 65536 < 65536) => d + 256 * c + 65536 * b + 16777216 * a = w
  BY BytesOfWord
<1>2. r = push(st, w)
  BY DEF push
<1> HIDE DEF a, b, c, d
<1>3. t \in Seq(Octet) /\ Len(t) = 4 /\ t[1] = a /\ t[2] = b /\ t[3] = c /\ t[4] = d
  BY <1>1
<1> HIDE DEF t
<1>4. Grows(st, r) /\ Len(r) = Len(st) + 4
      /\ \A k \in 1 .. 4 : r[Len(st) + k] = t[k]
  BY <1>3, Appended
<1> HIDE DEF r
<1>5. Len(st) \in Nat /\ Len(r) \in Nat /\ Len(r) - 1 = Len(st) + 3 /\ Len(r) - 2 = Len(st) + 2
      /\ Len(r) - 3 = Len(st) + 1
  BY <1>4
<1>6. r[Len(r)] = d /\ r[Len(r) - 1] = c /\ r[Len(r) - 2] = b /\ r[Len(r) - 3] = a
  BY <1>3, <1>4, <1>5
<1> QED BY <1>1, <1>2, <1>4, <1>5, <1>6 DEF HasWord

LEMMA RoundDownIs ==
  ASSUME NEW st \in Seq(Octet)
  PROVE  Grows(st, round_down(st))
<1> DEFINE n == (4 - (Len(st) % 4)) % 4
           t == [k \in 1 .. n |-> Junk]
<1>1. n \in Nat
  OBVIOUS
<1> HIDE DEF n
<1>2. t \in Seq(Octet)
  BY <1>1, ExecAssumption DEF Octet
<1> QED BY <1>2, Appended DEF round_down, n

----------------------------------------------------------------------------
(* The loops of execve *)

\* The turns of the loop over the strings.
LEMMA StringTurns ==
  ASSUME NEW st, NEW v, Len(v) \in Nat
  PROVE  LET f == PushStrings(st, v)
         IN /\ f[0] = st
            /\ \A n \in 1 .. Len(v) : f[n] = PushString(f[n - 1], v[Len(v) + 1 - n])
<1> DEFINE N == Len(v)
           x(n) == v[N + 1 - n]
           Is(f, m) == f = [n \in 0 .. m |-> IF n = 0 THEN st ELSE PushString(f[n - 1], x(n))]
           G == {m \in 0 .. N : \E f : Is(f, m)}
<1> HIDE DEF N, x
<1>0. N \in Nat
  BY DEF N
<1>1. 0 \in G
  <2>1. PICK f : f = [n \in 0 .. 0 |-> st]
    OBVIOUS
  <2>2. \A n \in 0 .. 0 : n = 0
    OBVIOUS
  <2>3. [n \in 0 .. 0 |-> st] = [n \in 0 .. 0 |-> IF n = 0 THEN st ELSE PushString(f[n - 1], x(n))]
    BY <2>2
  <2>4. Is(f, 0)
    BY <2>1, <2>3
  <2> QED BY <1>0, <2>4
<1>2. ASSUME NEW m \in 1 .. N, m - 1 \in G PROVE m \in G
  <2>1. PICK f : Is(f, m - 1)
    BY <1>2
  <2>2. PICK g : g = [n \in 0 .. m |-> IF n \in 0 .. m - 1 THEN f[n] ELSE PushString(f[m - 1], x(m))]
    OBVIOUS
  <2>3. \A n \in 0 .. m : n = 0 \/ (n \in 1 .. m - 1 /\ n - 1 \in 0 .. m - 1) \/ n = m
    BY <1>0
  <2>4. m \notin 0 .. m - 1 /\ 0 \in 0 .. m - 1 /\ m - 1 \in 0 .. m - 1 /\ m # 0
        /\ \A n \in 1 .. m - 1 : n \in 0 .. m - 1 /\ n # 0
    BY <1>0
  <2>5. \A n \in 0 .. m - 1 : n \in 0 .. m /\ g[n] = f[n]
    BY <2>2
  <2>6. f[0] = st /\ \A n \in 1 .. m - 1 : f[n] = PushString(f[n - 1], x(n))
    BY <2>1, <2>4
  <2>7. ASSUME NEW n \in 0 .. m
        PROVE  g[n] = IF n = 0 THEN st ELSE PushString(g[n - 1], x(n))
    <3>1. CASE n = 0
      BY <3>1, <2>4, <2>5, <2>6
    <3>2. CASE n \in 1 .. m - 1 /\ n - 1 \in 0 .. m - 1
      BY <3>2, <2>4, <2>5, <2>6
    <3>3. CASE n = m
      <4>1. g[m] = PushString(f[m - 1], x(m))
        BY <2>2, <2>4, <3>3
      <4> QED BY <4>1, <3>3, <2>4, <2>5
    <3> QED BY <2>3, <3>1, <3>2, <3>3
  <2>8. g = [n \in 0 .. m |-> IF n = 0 THEN st ELSE PushString(g[n - 1], x(n))]
    <3>1. g = [n \in 0 .. m |-> g[n]]
      BY <2>2
    <3> QED BY <3>1, <2>7
  <2>9. m \in 0 .. N
    BY <1>0
  <2> QED BY <2>8, <2>9
<1>3. N \in G
  <2> HIDE DEF G
  <2> QED BY <1>0, <1>1, <1>2, EveryTurn
<1>4. \E f : Is(f, N)
  BY <1>3
<1>5. PushStrings(st, v) = CHOOSE f : Is(f, N)
  BY DEF PushStrings, N, x
<1>6. PICK f : f = PushStrings(st, v) /\ Is(f, N)
  <2> HIDE DEF Is
  <2> QED BY <1>4, <1>5
<1>7. 0 \in 0 .. N /\ \A n \in 1 .. N : n \in 0 .. N /\ n # 0
  BY <1>0
<1>8. f[0] = st /\ \A n \in 1 .. N : f[n] = PushString(f[n - 1], x(n))
  BY <1>6, <1>7
<1> QED BY <1>6, <1>8 DEF N, x

\* The turns of the loop over the pointers.
LEMMA WordTurns ==
  ASSUME NEW st, NEW v, Len(v) \in Nat
  PROVE  LET f == PushWords(st, v)
         IN /\ f[0] = st
            /\ \A n \in 1 .. Len(v) : f[n] = push(f[n - 1], v[Len(v) + 1 - n])
<1> DEFINE N == Len(v)
           x(n) == v[N + 1 - n]
           Is(f, m) == f = [n \in 0 .. m |-> IF n = 0 THEN st ELSE push(f[n - 1], x(n))]
           G == {m \in 0 .. N : \E f : Is(f, m)}
<1> HIDE DEF N, x
<1>0. N \in Nat
  BY DEF N
<1>1. 0 \in G
  <2>1. PICK f : f = [n \in 0 .. 0 |-> st]
    OBVIOUS
  <2>2. \A n \in 0 .. 0 : n = 0
    OBVIOUS
  <2>3. [n \in 0 .. 0 |-> st] = [n \in 0 .. 0 |-> IF n = 0 THEN st ELSE push(f[n - 1], x(n))]
    BY <2>2
  <2>4. Is(f, 0)
    BY <2>1, <2>3
  <2> QED BY <1>0, <2>4
<1>2. ASSUME NEW m \in 1 .. N, m - 1 \in G PROVE m \in G
  <2>1. PICK f : Is(f, m - 1)
    BY <1>2
  <2>2. PICK g : g = [n \in 0 .. m |-> IF n \in 0 .. m - 1 THEN f[n] ELSE push(f[m - 1], x(m))]
    OBVIOUS
  <2>3. \A n \in 0 .. m : n = 0 \/ (n \in 1 .. m - 1 /\ n - 1 \in 0 .. m - 1) \/ n = m
    BY <1>0
  <2>4. m \notin 0 .. m - 1 /\ 0 \in 0 .. m - 1 /\ m - 1 \in 0 .. m - 1 /\ m # 0
        /\ \A n \in 1 .. m - 1 : n \in 0 .. m - 1 /\ n # 0
    BY <1>0
  <2>5. \A n \in 0 .. m - 1 : n \in 0 .. m /\ g[n] = f[n]
    BY <2>2
  <2>6. f[0] = st /\ \A n \in 1 .. m - 1 : f[n] = push(f[n - 1], x(n))
    BY <2>1, <2>4
  <2>7. ASSUME NEW n \in 0 .. m
        PROVE  g[n] = IF n = 0 THEN st ELSE push(g[n - 1], x(n))
    <3>1. CASE n = 0
      BY <3>1, <2>4, <2>5, <2>6
    <3>2. CASE n \in 1 .. m - 1 /\ n - 1 \in 0 .. m - 1
      BY <3>2, <2>4, <2>5, <2>6
    <3>3. CASE n = m
      <4>1. g[m] = push(f[m - 1], x(m))
        BY <2>2, <2>4, <3>3
      <4> QED BY <4>1, <3>3, <2>4, <2>5
    <3> QED BY <2>3, <3>1, <3>2, <3>3
  <2>8. g = [n \in 0 .. m |-> IF n = 0 THEN st ELSE push(g[n - 1], x(n))]
    <3>1. g = [n \in 0 .. m |-> g[n]]
      BY <2>2
    <3> QED BY <3>1, <2>7
  <2>9. m \in 0 .. N
    BY <1>0
  <2> QED BY <2>8, <2>9
<1>3. N \in G
  <2> HIDE DEF G
  <2> QED BY <1>0, <1>1, <1>2, EveryTurn
<1>4. \E f : Is(f, N)
  BY <1>3
<1>5. PushWords(st, v) = CHOOSE f : Is(f, N)
  BY DEF PushWords, N, x
<1>6. PICK f : f = PushWords(st, v) /\ Is(f, N)
  <2> HIDE DEF Is
  <2> QED BY <1>4, <1>5
<1>7. 0 \in 0 .. N /\ \A n \in 1 .. N : n \in 0 .. N /\ n # 0
  BY <1>0
<1>8. f[0] = st /\ \A n \in 1 .. N : f[n] = push(f[n - 1], x(n))
  BY <1>6, <1>7
<1> QED BY <1>6, <1>8 DEF N, x

----------------------------------------------------------------------------
(* What is on the stack stays readable as it grows *)

LEMMA WordStays ==
  ASSUME NEW a, NEW b, Grows(a, b), NEW l, NEW w, HasWord(a, l, w)
  PROVE  HasWord(b, l, w)
<1>1. Len(a) \in Nat /\ Len(b) \in Nat /\ Len(a) <= Len(b) /\ l \in 4 .. Len(a)
  BY DEF Grows, HasWord
<1>2. l \in 1 .. Len(a) /\ l - 1 \in 1 .. Len(a) /\ l - 2 \in 1 .. Len(a) /\ l - 3 \in 1 .. Len(a)
      /\ l \in 4 .. Len(b)
  BY <1>1
<1>3. b[l] = a[l] /\ b[l - 1] = a[l - 1] /\ b[l - 2] = a[l - 2] /\ b[l - 3] = a[l - 3]
  BY <1>2 DEF Grows
<1> QED BY <1>2, <1>3 DEF HasWord

LEMMA StringStays ==
  ASSUME NEW a, NEW b, Grows(a, b), NEW l, NEW s \in Text, HasString(a, l, s)
  PROVE  HasString(b, l, s)
<1>1. Len(a) \in Nat /\ Len(b) \in Nat /\ Len(a) <= Len(b) /\ Len(s) \in Nat
      /\ l \in Len(s) + 1 .. Len(a)
  BY DEF Grows, HasString, Text
<1>2. l \in Len(s) + 1 .. Len(b) /\ l - Len(s) \in 1 .. Len(a)
      /\ \A k \in 1 .. Len(s) : l + 1 - k \in 1 .. Len(a)
  BY <1>1
<1> QED BY <1>2 DEF HasString, Grows

\* The strings are on the stack once they are pushed, the last one deepest.
LEMMA StringsPushed ==
  ASSUME NEW st \in Seq(Octet), NEW v \in Seq(Text)
  PROVE  LET f == PushStrings(st, v)
         IN /\ f[0] = st
            /\ \A n \in 1 .. Len(v) : Len(f[n]) = Len(f[n - 1]) + Len(v[Len(v) + 1 - n]) + 1
            /\ \A n \in 0 .. Len(v) :
                 /\ \A m \in 0 .. n : Grows(f[m], f[n])
                 /\ \A m \in 1 .. n : HasString(f[n], Len(f[m]), v[Len(v) + 1 - m])
<1> DEFINE N == Len(v)
           x(n) == v[N + 1 - n]
<1>1. N \in Nat /\ \A n \in 1 .. N : x(n) \in Text
  <2>1. N \in Nat /\ \A n \in 1 .. N : N + 1 - n \in 1 .. N
    OBVIOUS
  <2>2. \A n \in 1 .. N : v[n] \in Text
    OBVIOUS
  <2> QED BY <2>1, <2>2
<1>2. PICK f : f = PushStrings(st, v)
  OBVIOUS
<1>3. f[0] = st /\ \A n \in 1 .. N : f[n] = PushString(f[n - 1], x(n))
  BY <1>1, <1>2, StringTurns
<1> HIDE DEF N, x
<1> DEFINE Good(n) == /\ \A m \in 0 .. n : Grows(f[m], f[n])
                      /\ \A m \in 1 .. n : HasString(f[n], Len(f[m]), x(m))
           G == {n \in 0 .. N : Good(n)}
<1>4. 0 \in G
  <2>1. Grows(st, st)
    BY DEF Grows
  <2>2. (\A m \in 0 .. 0 : m = 0) /\ 1 .. 0 = {} /\ 0 \in 0 .. N
    BY <1>1
  <2> QED BY <2>1, <2>2, <1>3
<1>5. ASSUME NEW n \in 1 .. N, n - 1 \in G
      PROVE  n \in G /\ Len(f[n]) = Len(f[n - 1]) + Len(x(n)) + 1
  <2>1. n - 1 \in 0 .. n - 1 /\ n \in 0 .. N
        /\ (\A m \in 0 .. n : m \in 0 .. n - 1 \/ m = n)
        /\ (\A m \in 1 .. n : m \in 1 .. n - 1 \/ m = n)
        /\ (\A m \in 1 .. n : m \in 1 .. N)
    BY <1>1
  <2>2. Good(n - 1)
    BY <1>5
  <2>3. Grows(f[n - 1], f[n - 1])
    BY <2>1, <2>2
  <2>4. f[n - 1] \in Seq(Octet)
    BY <2>3 DEF Grows
  <2>5. x(n) \in Text
    BY <1>1
  <2>6. Grows(f[n - 1], f[n]) /\ Len(f[n]) = Len(f[n - 1]) + Len(x(n)) + 1
        /\ HasString(f[n], Len(f[n]), x(n))
    BY <1>3, <2>4, <2>5, PushStringIs
  <2>7. Grows(f[n], f[n])
    BY <2>6 DEF Grows
  <2>8. ASSUME NEW m \in 0 .. n PROVE Grows(f[m], f[n])
    BY <2>1, <2>2, <2>6, <2>7, GrowsOn
  <2>9. ASSUME NEW m \in 1 .. n PROVE HasString(f[n], Len(f[m]), x(m))
    <3>1. m \in 1 .. n - 1 => HasString(f[n - 1], Len(f[m]), x(m)) /\ x(m) \in Text
      BY <2>1, <2>2, <1>1
    <3> QED BY <3>1, <2>1, <2>6, StringStays
  <2> QED BY <2>1, <2>6, <2>8, <2>9
<1>6. \A n \in 0 .. N : n \in G
  <2> HIDE DEF G
  <2> QED BY <1>1, <1>4, <1>5, EveryTurn
<1>7. \A n \in 1 .. N : n - 1 \in 0 .. N
  BY <1>1
<1>8. \A n \in 1 .. N : Len(f[n]) = Len(f[n - 1]) + Len(x(n)) + 1
  <2> HIDE DEF G
  <2> QED BY <1>5, <1>6, <1>7
<1> QED BY <1>2, <1>3, <1>6, <1>8 DEF N, x

AreWords(p) == \A i \in 1 .. Len(p) : p[i] >= 0 /\ p[i] \div 65536 < 65536
HasWords(r, l, p) == \A i \in 1 .. Len(p) : HasWord(r, l - 4 * (i - 1), p[i])

\* The words are on the stack once they are pushed, the first one on top.
LEMMA WordsPushed ==
  ASSUME NEW st \in Seq(Octet), NEW p \in Seq(Int)
  PROVE  LET r == PushWords(st, p)[Len(p)]
         IN /\ Grows(st, r) /\ Len(r) = Len(st) + 4 * Len(p)
            /\ AreWords(p) => HasWords(r, Len(r), p)
<1> DEFINE N == Len(p)
           x(n) == p[N + 1 - n]
<1>1. N \in Nat /\ \A n \in 1 .. N : x(n) \in Int
  <2>1. N \in Nat /\ \A n \in 1 .. N : N + 1 - n \in 1 .. N
    OBVIOUS
  <2>2. \A n \in 1 .. N : p[n] \in Int
    OBVIOUS
  <2> QED BY <2>1, <2>2
<1>2. PICK f : f = PushWords(st, p)
  OBVIOUS
<1>3. f[0] = st /\ \A n \in 1 .. N : f[n] = push(f[n - 1], x(n))
  BY <1>1, <1>2, WordTurns
<1> HIDE DEF N, x
<1> DEFINE Short(n) == x(n) >= 0 /\ x(n) \div 65536 < 65536
           Good(n) == /\ Grows(st, f[n]) /\ Len(f[n]) = Len(st) + 4 * n
                      /\ \A m \in 1 .. n : Short(m) => HasWord(f[n], Len(st) + 4 * m, x(m))
           G == {n \in 0 .. N : Good(n)}
<1>4. 0 \in G
  <2>1. Grows(st, st)
    BY DEF Grows
  <2>2. 1 .. 0 = {} /\ 0 \in 0 .. N /\ Len(st) = Len(st) + 4 * 0
    BY <1>1
  <2> QED BY <2>1, <2>2, <1>3
<1>5. ASSUME NEW n \in 1 .. N, n - 1 \in G PROVE n \in G
  <2>1. n \in 0 .. N /\ (\A m \in 1 .. n : m \in 1 .. n - 1 \/ m = n)
    BY <1>1
  <2>2. Grows(st, f[n - 1]) /\ Len(f[n - 1]) = Len(st) + 4 * (n - 1)
        /\ \A m \in 1 .. n - 1 : Short(m) => HasWord(f[n - 1], Len(st) + 4 * m, x(m))
    BY <1>5
  <2>4. f[n - 1] \in Seq(Octet) /\ x(n) \in Int
    BY <2>2, <1>1 DEF Grows
  <2> HIDE DEF Short
  <2>6. Grows(f[n - 1], f[n]) /\ Len(f[n]) = Len(f[n - 1]) + 4
        /\ (Short(n) => HasWord(f[n], Len(f[n]), x(n)))
    BY <1>3, <2>4, PushIs DEF Short
  <2>7. Len(f[n]) = Len(st) + 4 * n
    BY <2>2, <2>6
  <2>8. Grows(st, f[n])
    BY <2>2, <2>6, GrowsOn
  <2>9. ASSUME NEW m \in 1 .. n, Short(m) PROVE HasWord(f[n], Len(st) + 4 * m, x(m))
    <3>1. CASE m \in 1 .. n - 1
      BY <3>1, <2>2, <2>6, <2>9, WordStays
    <3>2. CASE m = n
      BY <3>2, <2>6, <2>7, <2>9
    <3> QED BY <3>1, <3>2, <2>1
  <2> QED BY <2>1, <2>7, <2>8, <2>9
<1>6. N \in G
  <2> HIDE DEF G
  <2>1. \A n \in 0 .. N : n \in G
    BY <1>1, <1>4, <1>5, EveryTurn
  <2> QED BY <1>1, <2>1
<1>7. Good(N)
  BY <1>6
<1>8. ASSUME AreWords(p), NEW i \in 1 .. N
      PROVE  HasWord(f[N], Len(f[N]) - 4 * (i - 1), p[i])
  <2>1. PICK m \in 1 .. N : m = N + 1 - i
    BY <1>1
  <2>2. N + 1 - m = i /\ Len(st) + 4 * m = (Len(st) + 4 * N) - 4 * (i - 1)
    BY <2>1, <1>1
  <2>3. x(m) = p[i]
    BY <2>2 DEF x
  <2>4. Short(m)
    BY <1>8, <2>3 DEF AreWords, N
  <2> HIDE DEF Short
  <2> QED BY <1>7, <2>2, <2>3, <2>4
<1>9. AreWords(p) => HasWords(f[N], Len(f[N]), p)
  <2>1. SUFFICES ASSUME AreWords(p)
                 PROVE  \A i \in 1 .. N : HasWord(f[N], Len(f[N]) - 4 * (i - 1), p[i])
    BY DEF HasWords, N
  <2> QED BY <1>8, <2>1
<1> QED BY <1>2, <1>7, <1>9 DEF N

----------------------------------------------------------------------------
(* A vector on the stack *)

\* Between depths b and l lies a vector: l is its first pointer's, d[i] that
\* of its i-th string; the strings lie below the pointers, the first on top.
Pointing(st, b, l, d, v) ==
  /\ b \in Nat /\ l \in Nat /\ b + 4 * Len(v) + 4 <= l
  /\ HasWord(st, l - 4 * Len(v), 0)
  /\ \A i \in 1 .. Len(v) :
       /\ HasWord(st, l - 4 * (i - 1), Top - d[i])
       /\ d[i] \in Nat /\ d[i] + 4 * Len(v) + 4 <= l /\ b < d[i] - Len(v[i])
  /\ \A i, j \in 1 .. Len(v) : i < j => d[j] < d[i] - Len(v[i])

\* Its strings but the first k are whole.
Holding(st, d, v, k) ==
  \A i \in k + 1 .. Len(v) : HasString(st, d[i], v[i])

\* Where the strings lie once they are pushed.
Depths(st, v) == [i \in 1 .. Len(v) |-> Len(PushStrings(st, v)[Len(v) + 1 - i])]

LEMMA StringsLie ==
  ASSUME NEW st \in Seq(Octet), NEW v \in Seq(Text)
  PROVE  LET r == PushStrings(st, v)[Len(v)]
             d == Depths(st, v)
         IN /\ Grows(st, r) /\ Holding(r, d, v, 0)
            /\ \A i \in 1 .. Len(v) :
                 d[i] \in Nat /\ d[i] <= Len(r) /\ Len(st) < d[i] - Len(v[i])
            /\ \A i, j \in 1 .. Len(v) : i < j => d[j] < d[i] - Len(v[i])
<1> DEFINE N == Len(v)
<1>1. N \in Nat /\ \A i \in 1 .. N : v[i] \in Text
  OBVIOUS
<1>2. \A i \in 1 .. N : Len(v[i]) \in Nat
  BY <1>1 DEF Text
<1>3. PICK f : f = PushStrings(st, v)
  OBVIOUS
<1>4. PICK d : d = Depths(st, v)
  OBVIOUS
<1>5. \A i \in 1 .. N : d[i] = Len(f[N + 1 - i])
  BY <1>3, <1>4 DEF Depths
<1>6. /\ f[0] = st
      /\ \A n \in 1 .. N : Len(f[n]) = Len(f[n - 1]) + Len(v[N + 1 - n]) + 1
      /\ \A n \in 0 .. N : /\ \A m \in 0 .. n : Grows(f[m], f[n])
                           /\ \A m \in 1 .. n : HasString(f[n], Len(f[m]), v[N + 1 - m])
  BY <1>3, StringsPushed
<1> HIDE DEF N
<1>7. \A n \in 0 .. N : \A m \in 0 .. n : Len(f[m]) \in Nat /\ Len(f[n]) \in Nat /\ Len(f[m]) <= Len(f[n])
  BY <1>6 DEF Grows
<1>8. Grows(st, f[N])
  <2>1. N \in 0 .. N /\ 0 \in 0 .. N
    BY <1>1
  <2> QED BY <2>1, <1>6
<1>9. ASSUME NEW i \in 1 .. N
      PROVE  /\ d[i] \in Nat /\ d[i] <= Len(f[N])
             /\ d[i] = Len(f[N - i]) + Len(v[i]) + 1
             /\ HasString(f[N], d[i], v[i])
  <2>1. PICK m \in 1 .. N : m = N + 1 - i /\ m - 1 = N - i /\ N + 1 - m = i
    BY <1>1
  <2>2. N \in 0 .. N /\ m \in 0 .. N
    BY <1>1
  <2>3. d[i] = Len(f[m])
    BY <1>5, <2>1
  <2>4. Len(f[m]) = Len(f[m - 1]) + Len(v[N + 1 - m]) + 1
    BY <1>6
  <2>5. HasString(f[N], Len(f[m]), v[N + 1 - m])
    BY <1>6, <2>2
  <2>6. Len(f[m]) \in Nat /\ Len(f[m]) <= Len(f[N])
    BY <1>7, <2>2
  <2> QED BY <2>1, <2>3, <2>4, <2>5, <2>6
<1>10. ASSUME NEW i \in 1 .. N PROVE Len(st) < d[i] - Len(v[i])
  <2>1. N - i \in 0 .. N /\ 0 \in 0 .. N - i
    BY <1>1
  <2>2. Len(f[0]) \in Nat /\ Len(f[N - i]) \in Nat /\ Len(f[0]) <= Len(f[N - i])
    BY <1>7, <2>1
  <2>3. d[i] \in Nat /\ d[i] = Len(f[N - i]) + Len(v[i]) + 1 /\ Len(v[i]) \in Nat
        /\ Len(st) <= Len(f[N - i]) /\ Len(st) \in Nat
    BY <2>2, <1>2, <1>6, <1>9
  <2>4. PICK a \in Nat : a = Len(f[N - i])
    BY <2>2
  <2>5. PICK c \in Nat : c = Len(v[i])
    BY <2>3
  <2>6. PICK b \in Nat : b = Len(st) /\ b <= a
    BY <2>3, <2>4
  <2>7. d[i] = a + c + 1
    BY <2>3, <2>4, <2>5
  <2>8. b < d[i] - c
    BY <2>6, <2>7
  <2> QED BY <2>5, <2>6, <2>8
<1>11. ASSUME NEW i \in 1 .. N, NEW j \in 1 .. N, i < j PROVE d[j] < d[i] - Len(v[i])
  <2>1. N - i \in 0 .. N /\ N + 1 - j \in 0 .. N - i
    BY <1>1, <1>11
  <2>2. Len(f[N + 1 - j]) \in Nat /\ Len(f[N - i]) \in Nat /\ Len(f[N + 1 - j]) <= Len(f[N - i])
    BY <1>7, <2>1
  <2>3. d[j] = Len(f[N + 1 - j])
    BY <1>5
  <2>4. d[i] \in Nat /\ d[i] = Len(f[N - i]) + Len(v[i]) + 1 /\ Len(v[i]) \in Nat
    BY <1>2, <1>9
  <2>5. PICK a \in Nat : a = Len(f[N - i]) /\ d[j] \in Nat /\ d[j] <= a
    BY <2>2, <2>3
  <2>6. PICK c \in Nat : c = Len(v[i])
    BY <2>4
  <2>7. d[i] = a + c + 1
    BY <2>4, <2>5, <2>6
  <2>8. d[j] < d[i] - c
    BY <2>5, <2>7
  <2> QED BY <2>6, <2>8
<1>12. Holding(f[N], d, v, 0)
  <2>1. 0 + 1 .. N = 1 .. N
    BY <1>1
  <2>2. \A i \in 0 + 1 .. N : HasString(f[N], d[i], v[i])
    BY <1>9, <2>1
  <2> QED BY <2>2 DEF Holding, N
<1> QED BY <1>3, <1>4, <1>8, <1>9, <1>10, <1>11, <1>12 DEF N

LEMMA HoldingStays ==
  ASSUME NEW a, NEW b, Grows(a, b), NEW d, NEW v \in Seq(Text), NEW k \in Nat, Holding(a, d, v, k)
  PROVE  Holding(b, d, v, k)
<1>1. ASSUME NEW i \in k + 1 .. Len(v) PROVE HasString(b, d[i], v[i])
  <2>1. v[i] \in Text
    <3>1. i \in 1 .. Len(v)
      OBVIOUS
    <3> QED BY <3>1
  <2>2. HasString(a, d[i], v[i])
    BY DEF Holding
  <2> QED BY <2>1, <2>2, StringStays
<1> QED BY <1>1 DEF Holding

\* What a vector is once it is pushed.
VectorResult(st, v, r) ==
  /\ Grows(st, r) /\ Len(st) + 4 <= Len(r)
  /\ Len(r) <= Top =>
       \E d : Pointing(r, Len(st), Len(r), d, v) /\ Holding(r, d, v, 0)

LEMMA VectorPushed ==
  ASSUME NEW st \in Seq(Octet), NEW v \in Seq(Text)
  PROVE  VectorResult(st, v, PushVector(st, v))
<1>1. ASSUME v = <<>> PROVE VectorResult(st, v, PushVector(st, v))
  <2>1. PICK r : r = push(st, 0)
    OBVIOUS
  <2>2. Grows(st, r) /\ Len(r) = Len(st) + 4 /\ HasWord(r, Len(r), 0)
    BY <2>1, PushIs
  <2>3. PushVector(st, v) = r /\ Len(v) = 0 /\ 1 .. Len(v) = {}
    BY <1>1, <2>1 DEF PushVector
  <2>4. Len(st) \in Nat /\ Len(r) \in Nat /\ Len(r) - 4 * Len(v) = Len(r)
        /\ Len(st) + 4 * Len(v) + 4 <= Len(r)
    BY <2>2, <2>3
  <2>5. Pointing(r, Len(st), Len(r), <<>>, v)
    BY <2>2, <2>3, <2>4 DEF Pointing
  <2>6. Holding(r, <<>>, v, 0)
    BY <2>3 DEF Holding
  <2> QED BY <2>2, <2>3, <2>4, <2>5, <2>6 DEF VectorResult
<1>2. ASSUME v # <<>> PROVE VectorResult(st, v, PushVector(st, v))
  <2> DEFINE N == Len(v)
             d == Depths(st, v)
             p == Pointers(st, v)
             s == PushStrings(st, v)[N]
             q == round_down(s)
             z == push(q, 0)
             r == PushWords(z, p)[N]
  <2>1. PushVector(st, v) = r
    BY <1>2 DEF PushVector
  <2>2. N \in Nat
    OBVIOUS
  <2>3. /\ Grows(st, s) /\ Holding(s, d, v, 0)
        /\ \A i \in 1 .. N :
             d[i] \in Nat /\ d[i] <= Len(s) /\ Len(st) < d[i] - Len(v[i])
        /\ \A i, j \in 1 .. N : i < j => d[j] < d[i] - Len(v[i])
    BY StringsLie
  <2>4. p = [i \in 1 .. N |-> Top - d[i]]
    BY DEF Pointers, Depths
  <2> HIDE DEF N, d, p, s
  <2>5. Grows(s, q)
    BY <2>3, RoundDownIs DEF Grows
  <2> HIDE DEF q
  <2>6. Grows(q, z) /\ Len(z) = Len(q) + 4 /\ HasWord(z, Len(z), 0)
    <3>1. q \in Seq(Octet)
      BY <2>5 DEF Grows
    <3> QED BY <3>1, PushIs
  <2> HIDE DEF z
  <2>7. p \in Seq(Int) /\ Len(p) = N
    <3>1. p \in [1 .. N -> Int]
      BY <2>3, <2>4, ExecAssumption
    <3> QED BY <2>2, <3>1
  <2>8. Grows(z, r) /\ Len(r) = Len(z) + 4 * N /\ (AreWords(p) => HasWords(r, Len(r), p))
    <3>1. z \in Seq(Octet)
      BY <2>6 DEF Grows
    <3>2. PICK y : y = PushWords(z, p)[Len(p)]
      OBVIOUS
    <3>3. Grows(z, y) /\ Len(y) = Len(z) + 4 * Len(p) /\ (AreWords(p) => HasWords(y, Len(y), p))
      BY <3>1, <3>2, <2>7, WordsPushed
    <3>4. y = r
      BY <3>2, <2>7
    <3> HIDE DEF r
    <3> QED BY <3>3, <3>4, <2>7
  <2> HIDE DEF r
  <2>9. Grows(s, z) /\ Grows(s, r) /\ Grows(st, r)
    BY <2>3, <2>5, <2>6, <2>8, GrowsOn
  <2>10. /\ Len(st) \in Nat /\ Len(s) \in Nat /\ Len(q) \in Nat /\ Len(z) \in Nat /\ Len(r) \in Nat
         /\ Len(st) <= Len(s) /\ Len(s) <= Len(q)
    BY <2>3, <2>5, <2>6, <2>9 DEF Grows
  <2>11. Len(st) + 4 * N + 4 <= Len(r) /\ Len(s) + 4 * N + 4 <= Len(r) /\ Len(r) - 4 * N = Len(z)
         /\ Len(st) + 4 <= Len(r)
    BY <2>2, <2>6, <2>8, <2>10
  <2>12. ASSUME Len(r) <= Top PROVE Pointing(r, Len(st), Len(r), d, v) /\ Holding(r, d, v, 0)
    <3>1. ASSUME NEW i \in 1 .. N PROVE p[i] = Top - d[i] /\ p[i] >= 0 /\ p[i] \div 65536 < 65536
      <4>1. p[i] = Top - d[i] /\ d[i] \in Nat /\ d[i] <= Len(s)
        BY <2>3, <2>4
      <4>2. Top \in Nat /\ Top \div 65536 < 65536
        BY ExecAssumption
      <4>3. Top - d[i] >= 0 /\ Top - d[i] <= Top /\ Top - d[i] \in Nat
        BY <4>1, <4>2, <2>12, <2>11, <2>10, <2>2
      <4> QED BY <4>1, <4>2, <4>3
    <3>2. \A i \in 1 .. N : HasWord(r, Len(r) - 4 * (i - 1), Top - d[i])
      <4>1. AreWords(p)
        BY <3>1, <2>7 DEF AreWords
      <4> QED BY <4>1, <3>1, <2>7, <2>8 DEF HasWords
    <3>3. HasWord(r, Len(r) - 4 * N, 0)
      BY <2>6, <2>8, <2>11, WordStays
    <3>4. \A i \in 1 .. N : d[i] \in Nat /\ d[i] + 4 * N + 4 <= Len(r)
      BY <2>2, <2>3, <2>10, <2>11
    <3>5. Holding(r, d, v, 0)
      BY <2>3, <2>9, HoldingStays
    <3>6. Pointing(r, Len(st), Len(r), d, v)
      BY <3>2, <3>3, <3>4, <2>3, <2>10, <2>11 DEF Pointing, N
    <3> QED BY <3>5, <3>6
  <2> QED BY <2>1, <2>9, <2>11, <2>12 DEF VectorResult
<1> QED BY <1>1, <1>2

----------------------------------------------------------------------------
(* What the new program reads *)

LEMMA WordRead ==
  ASSUME NEW l, NEW w, Len(stack) \in Nat, HasWord(stack, l, w)
  PROVE  WordAt(Top - l) = w
<1>1. Top \in Nat /\ l \in Nat
  BY ExecAssumption DEF HasWord
<1>2. /\ Top - (Top - l) = l /\ Top - (Top - l + 1) = l - 1
      /\ Top - (Top - l + 2) = l - 2 /\ Top - (Top - l + 3) = l - 3
  BY <1>1
<1>3. /\ At(Top - l) = stack[l] /\ At(Top - l + 1) = stack[l - 1]
      /\ At(Top - l + 2) = stack[l - 2] /\ At(Top - l + 3) = stack[l - 3]
  BY <1>2 DEF At
<1> QED BY <1>3 DEF WordAt, HasWord

LEMMA StringRead ==
  ASSUME NEW l, NEW s \in Text, Len(stack) \in Nat, Len(stack) <= Top, HasString(stack, l, s)
  PROVE  StringAt(Top - l) = s
<1> DEFINE a == Top - l
           Z == {k \in 0 .. (Top - 1 - a) : At(a + k) = 0}
<1>1. Top \in Nat /\ Len(s) \in Nat /\ l \in Len(s) + 1 .. Len(stack)
  BY ExecAssumption DEF HasString, Text
<1>2. l \in Nat /\ Top - 1 - a = l - 1 /\ \A k \in Nat : Top - (a + k) = l - k
  BY <1>1
<1>3. \A k \in Nat : At(a + k) = stack[l - k]
  BY <1>2 DEF At
<1> HIDE DEF a
<1>4. Z \in SUBSET Nat
  BY <1>2
<1>5. Len(s) \in Z
  <2>1. Len(s) \in 0 .. (Top - 1 - a)
    BY <1>1, <1>2
  <2> QED BY <2>1, <1>1, <1>3 DEF HasString
<1>6. ASSUME NEW k \in 1 .. Len(s) PROVE At(a + k - 1) = s[k] /\ s[k] # 0 /\ At(a + (k - 1)) = s[k]
  <2>1. k - 1 \in Nat /\ l - (k - 1) = l + 1 - k
    BY <1>1, <1>2
  <2>2. At(a + (k - 1)) = s[k]
    BY <2>1, <1>3 DEF HasString
  <2>3. a + (k - 1) = a + k - 1
    BY <1>1, <1>2 DEF a
  <2>4. s[k] # 0
    <3>1. PICK C : C = 1 .. 255
      OBVIOUS
    <3>2. s \in Seq(C)
      BY <3>1 DEF Text
    <3>3. s[k] \in C
      BY <3>2
    <3>4. s[k] \in 1 .. 255
      BY <3>1, <3>3
    <3>5. \A c \in 1 .. 255 : c # 0
      OBVIOUS
    <3> QED BY <3>4, <3>5
  <2> QED BY <2>2, <2>3, <2>4
<1>7. ASSUME NEW y \in Z PROVE Len(s) <= y
  <2>1. y \in Nat /\ At(a + y) = 0
    BY <1>4
  <2>2. SUFFICES ASSUME y < Len(s) PROVE FALSE
    BY <1>1, <2>1
  <2>3. y + 1 \in 1 .. Len(s) /\ y + 1 - 1 = y
    BY <1>1, <2>1, <2>2
  <2> QED BY <2>1, <2>3, <1>6
<1>8. Min(Z) = Len(s)
  <2> HIDE DEF Z
  <2> QED BY <1>4, <1>5, <1>7, MinIs
<1>9. StringAt(a) = [k \in 1 .. Len(s) |-> At(a + k - 1)]
  BY <1>8 DEF StringAt
<1>10. s = [k \in 1 .. Len(s) |-> s[k]]
  BY DEF Text
<1>11. [k \in 1 .. Len(s) |-> At(a + k - 1)] = [k \in 1 .. Len(s) |-> s[k]]
  BY <1>6
<1> QED BY <1>9, <1>10, <1>11 DEF a

LEMMA VectorRead ==
  ASSUME NEW b, NEW l, NEW d, NEW v \in Seq(Text), Len(stack) \in Nat, Len(stack) <= Top,
         Pointing(stack, b, l, d, v)
  PROVE  VectorAt(Top - l) = [i \in 1 .. Len(v) |-> Top - d[i]]
<1> DEFINE a == Top - l
           N == Len(v)
           Z == {k \in 0 .. ((Top - a) \div 4 - 1) : WordAt(a + 4 * k) = 0}
<1>1. Top \in Nat /\ N \in Nat /\ l \in Nat /\ 4 * N + 4 <= l
  BY ExecAssumption DEF Pointing
<1>2. ASSUME NEW i \in 1 .. N
      PROVE  /\ WordAt(a + 4 * (i - 1)) = Top - d[i]
             /\ Top - d[i] # 0
  <2>1. HasWord(stack, l - 4 * (i - 1), Top - d[i]) /\ d[i] \in Nat /\ d[i] + 4 * N + 4 <= l
    BY DEF Pointing
  <2>2. Top - (l - 4 * (i - 1)) = a + 4 * (i - 1)
    BY <1>1
  <2>3. l <= Top
    <3>1. 1 \in 1 .. N /\ l - 4 * (1 - 1) = l
      BY <1>1
    <3>2. HasWord(stack, l, Top - d[1])
      BY <3>1 DEF Pointing
    <3> QED BY <3>2, <1>1 DEF HasWord
  <2>4. WordAt(Top - (l - 4 * (i - 1))) = Top - d[i]
    BY <2>1, WordRead
  <2> QED BY <2>1, <2>2, <2>3, <2>4, <1>1
<1>3. WordAt(a + 4 * N) = 0
  <2>1. HasWord(stack, l - 4 * N, 0)
    BY DEF Pointing
  <2>2. Top - (l - 4 * N) = a + 4 * N
    BY <1>1
  <2>3. WordAt(Top - (l - 4 * N)) = 0
    BY <2>1, WordRead
  <2> QED BY <2>2, <2>3
<1>4. (Top - a) \div 4 - 1 >= N /\ (Top - a) \div 4 - 1 \in Int
  <2>1. Top - a = l
    BY <1>1
  <2>2. l \div 4 - 1 >= N /\ l \div 4 \in Int
    BY <1>1
  <2> QED BY <2>1, <2>2
<1> HIDE DEF a, N
<1>5. Z \in SUBSET Nat
  BY <1>4
<1>6. N \in Z
  BY <1>1, <1>3, <1>4
<1>7. ASSUME NEW y \in Z PROVE N <= y
  <2>1. y \in Nat /\ WordAt(a + 4 * y) = 0
    BY <1>5
  <2>2. SUFFICES ASSUME y < N PROVE FALSE
    BY <1>1, <2>1
  <2>3. PICK i \in 1 .. N : i - 1 = y
    <3>1. y + 1 \in 1 .. N /\ y + 1 - 1 = y
      BY <1>1, <2>1, <2>2
    <3> QED BY <3>1
  <2> QED BY <2>1, <2>3, <1>2
<1>8. Min(Z) = N
  <2> HIDE DEF Z
  <2> QED BY <1>5, <1>6, <1>7, MinIs
<1>9. VectorAt(a) = [k \in 1 .. N |-> WordAt(a + 4 * (k - 1))]
  BY <1>8 DEF VectorAt
<1>10. [k \in 1 .. N |-> WordAt(a + 4 * (k - 1))] = [k \in 1 .. N |-> Top - d[k]]
  BY <1>2
<1> QED BY <1>9, <1>10 DEF a, N

\* The strings a vector points to.
LEMMA StringsRead ==
  ASSUME NEW b, NEW l, NEW d, NEW v \in Seq(Text), Len(stack) \in Nat, Len(stack) <= Top,
         Pointing(stack, b, l, d, v), Holding(stack, d, v, 0)
  PROVE  StringsAt(Top - l) = v
<1>1. PICK p : p = VectorAt(Top - l)
  OBVIOUS
<1>2. p = [i \in 1 .. Len(v) |-> Top - d[i]]
  BY <1>1, VectorRead
<1>3. ASSUME NEW i \in 1 .. Len(v) PROVE StringAt(p[i]) = v[i]
  <2>1. i \in 0 + 1 .. Len(v) /\ v[i] \in Text
    OBVIOUS
  <2>2. HasString(stack, d[i], v[i])
    BY <2>1 DEF Holding
  <2>3. StringAt(Top - d[i]) = v[i]
    BY <2>1, <2>2, StringRead
  <2> QED BY <1>2, <2>3
<1>4. DOMAIN p = 1 .. Len(v) /\ v = [i \in 1 .. Len(v) |-> v[i]]
  BY <1>2
<1>5. StringsAt(Top - l) = [k \in DOMAIN p |-> StringAt(p[k])]
  BY <1>1 DEF StringsAt
<1> QED BY <1>3, <1>4, <1>5

----------------------------------------------------------------------------
(* The terminators init_rlibc writes *)

Written(st, r, x) ==
  /\ st \in Seq(Octet) /\ r \in Seq(Octet) /\ Len(r) = Len(st) /\ x \in Int
  /\ \A k \in 1 .. Len(st) : k # x => r[k] = st[k]

LEMMA WordKept ==
  ASSUME NEW st, NEW r, NEW x, Written(st, r, x), NEW l, NEW w, HasWord(st, l, w),
         x < l - 3 \/ x > l
  PROVE  HasWord(r, l, w)
<1>1. Len(st) \in Nat /\ Len(r) = Len(st) /\ l \in 4 .. Len(st) /\ x \in Int
  BY DEF Written, HasWord
<1>2. /\ l \in 1 .. Len(st) /\ l - 1 \in 1 .. Len(st) /\ l - 2 \in 1 .. Len(st)
      /\ l - 3 \in 1 .. Len(st) /\ l # x /\ l - 1 # x /\ l - 2 # x /\ l - 3 # x
  BY <1>1
<1>3. r[l] = st[l] /\ r[l - 1] = st[l - 1] /\ r[l - 2] = st[l - 2] /\ r[l - 3] = st[l - 3]
  BY <1>2 DEF Written
<1> QED BY <1>1, <1>3 DEF HasWord

LEMMA StringKept ==
  ASSUME NEW st, NEW r, NEW x, Written(st, r, x), NEW l, NEW s \in Text, HasString(st, l, s),
         x < l - Len(s) \/ x > l
  PROVE  HasString(r, l, s)
<1>1. Len(st) \in Nat /\ Len(r) = Len(st) /\ Len(s) \in Nat /\ l \in Len(s) + 1 .. Len(st)
      /\ x \in Int
  BY DEF Written, HasString, Text
<1>2. /\ l - Len(s) \in 1 .. Len(st) /\ l - Len(s) # x
      /\ \A k \in 1 .. Len(s) : l + 1 - k \in 1 .. Len(st) /\ l + 1 - k # x
  BY <1>1
<1> QED BY <1>1, <1>2 DEF HasString, Written

\* A write below a vector, or into one of its strings, leaves its pointers.
LEMMA PointingKept ==
  ASSUME NEW st, NEW r, NEW x, Written(st, r, x), NEW b, NEW l, NEW d, NEW v \in Seq(Text),
         Pointing(st, b, l, d, v),
         x <= b \/ \E i \in 1 .. Len(v) : x <= d[i]
  PROVE  Pointing(r, b, l, d, v)
<1>1. Len(v) \in Nat /\ x \in Int
  BY DEF Written
<1>2. b \in Nat /\ l \in Nat /\ b + 4 * Len(v) + 4 <= l
      /\ \A i \in 1 .. Len(v) : d[i] \in Nat /\ d[i] + 4 * Len(v) + 4 <= l
  BY DEF Pointing
<1>3. x + 4 * Len(v) + 4 <= l
  BY <1>1, <1>2
<1>4. HasWord(r, l - 4 * Len(v), 0)
  <2>1. x < (l - 4 * Len(v)) - 3
    BY <1>1, <1>2, <1>3
  <2>2. HasWord(st, l - 4 * Len(v), 0)
    BY DEF Pointing
  <2> QED BY <2>1, <2>2, WordKept
<1>5. ASSUME NEW i \in 1 .. Len(v) PROVE HasWord(r, l - 4 * (i - 1), Top - d[i])
  <2>1. x < (l - 4 * (i - 1)) - 3
    BY <1>1, <1>2, <1>3
  <2>2. HasWord(st, l - 4 * (i - 1), Top - d[i])
    BY DEF Pointing
  <2> QED BY <2>1, <2>2, WordKept
<1> QED BY <1>4, <1>5 DEF Pointing

\* A write below the vector leaves its strings.
LEMMA HoldingKept ==
  ASSUME NEW st, NEW r, NEW x, Written(st, r, x), NEW b, NEW l, NEW d, NEW v \in Seq(Text),
         Pointing(st, b, l, d, v), Holding(st, d, v, 0), x <= b
  PROVE  Holding(r, d, v, 0)
<1>1. x \in Int /\ b \in Nat
  BY DEF Written, Pointing
<1>2. ASSUME NEW i \in 0 + 1 .. Len(v) PROVE HasString(r, d[i], v[i])
  <2>1. i \in 1 .. Len(v) /\ v[i] \in Text
    OBVIOUS
  <2>2. PICK c : c = d[i] - Len(v[i])
    OBVIOUS
  <2>3. c \in Int /\ b < c
    <3>1. d[i] \in Nat /\ b < d[i] - Len(v[i])
      BY <2>1 DEF Pointing
    <3>2. Len(v[i]) \in Nat
      BY <2>1 DEF Text
    <3> QED BY <2>2, <3>1, <3>2
  <2>4. x < c
    BY <1>1, <2>3
  <2>5. HasString(st, d[i], v[i])
    BY DEF Holding
  <2> QED BY <2>1, <2>2, <2>4, <2>5, StringKept
<1> QED BY <1>2 DEF Holding

\* A write into the string that is read leaves those to come.
LEMMA RestKept ==
  ASSUME NEW st, NEW r, NEW x, Written(st, r, x), NEW b, NEW l, NEW d, NEW v \in Seq(Text),
         Pointing(st, b, l, d, v), NEW k \in Nat, k + 1 \in 1 .. Len(v), Holding(st, d, v, k),
         d[k + 1] - Len(v[k + 1]) < x
  PROVE  Holding(r, d, v, k + 1)
<1>1. x \in Int
  BY DEF Written
<1>2. ASSUME NEW i \in (k + 1) + 1 .. Len(v) PROVE HasString(r, d[i], v[i])
  <2>1. i \in 1 .. Len(v) /\ v[i] \in Text /\ k + 1 < i /\ i \in k + 1 .. Len(v)
    OBVIOUS
  <2>2. PICK c : c = d[k + 1] - Len(v[k + 1])
    OBVIOUS
  <2>3. c \in Int /\ d[i] \in Nat /\ d[i] < c
    <3>1. d[k + 1] \in Nat /\ d[i] \in Nat /\ d[i] < d[k + 1] - Len(v[k + 1])
      BY <2>1 DEF Pointing
    <3>2. Len(v[k + 1]) \in Nat
      BY DEF Text
    <3> QED BY <2>2, <3>1, <3>2
  <2>4. x > d[i]
    BY <1>1, <2>2, <2>3
  <2>5. HasString(st, d[i], v[i])
    BY <2>1 DEF Holding
  <2> QED BY <2>1, <2>4, <2>5, StringKept
<1> QED BY <1>2 DEF Holding

----------------------------------------------------------------------------
(* environ while init_rlibc fills it *)

\* The last of the first m strings of envp that sets a variable.
LastFor(n, i, m) ==
  NameOf(envp[i]) = n /\ \A j \in i + 1 .. m : NameOf(envp[j]) # n

\* While setenv has written past no block, environ has one entry for every
\* variable the first m strings set, or fewer if a call failed.
EnvIs(m) ==
  /\ \E S : environ \in Seq(S)
  /\ envCap = 0 => environ = <<>>
  /\ ~envFailed => \A i \in 1 .. m : \E k \in DOMAIN environ : environ[k][1] = NameOf(envp[i])
  /\ \A j, k \in DOMAIN environ : environ[j][1] = environ[k][1] => j = k
  /\ \A k \in DOMAIN environ :
       \E i \in 1 .. m : LastFor(environ[k][1], i, m) /\ environ[k][2] \in Stored(ValueOf(envp[i]))

LEMMA EnvIsEmpty ==
  ASSUME environ' = <<>> PROVE EnvIs(0)'
<1>1. environ' \in Seq({}) /\ DOMAIN environ' = {} /\ 1 .. 0 = {}
  OBVIOUS
<1> QED BY <1>1 DEF EnvIs

\* The array is there once something was added.
LEMMA CapacityIsMore ==
  ASSUME \E S : environ \in Seq(S) PROVE Capacity # 0
<1> DEFINE d == EnvSlots
           m == Len(environ) + d
           q == m \div d
           r == m % d
<1>1. d \in Nat /\ d > 0 /\ m \in Nat /\ m >= d
  BY EnvAssumption
<1>2. Capacity = (IF envCap = 0 THEN d ELSE d * q)
  BY DEF Capacity
<1> HIDE DEF d, m
<1>3. r \in 0 .. d - 1
  BY <1>1, SMT
<1>4. m = d * q + r /\ d * q \in Int
  BY <1>1, SMT
<1> HIDE DEF q, r
<1>5. d * q # 0
  <2>1. PICK z \in Int : z = d * q
    BY <1>4
  <2>2. z # 0
    BY <2>1, <1>1, <1>3, <1>4
  <2> QED BY <2>1, <2>2
<1> QED BY <1>1, <1>2, <1>5

\* What the next string does to environ: entry k is its own, or nothing is;
\* some entries, with no other of its name, are as they were.
EnvTurn(V, E, D, k, n, v) ==
  /\ D \subseteq DOMAIN E /\ DOMAIN V \subseteq D \cup {k}
  /\ \A j \in D : j \in DOMAIN V => V[j] = E[j] /\ E[j][1] # n
  /\ k \in DOMAIN V => k \notin D /\ V[k][1] = n /\ V[k][2] \in Stored(v)

\* setenv of the next string rewrites the entry or adds it, or fails.
LEMMA EnvGrows ==
  ASSUME NEW m \in Nat, EnvIs(m), envp' = envp, envMode' = "run",
         setenv(NameOf(envp[m + 1]), ValueOf(envp[m + 1]), TRUE)
  PROVE  EnvIs(m + 1)'
<1> DEFINE n == NameOf(envp[m + 1])
           v == ValueOf(envp[m + 1])
<1>1. PICK S : environ \in Seq(S)
  BY DEF EnvIs
<1>2. DOMAIN environ = 1 .. Len(environ) /\ Len(environ) \in Nat
  BY <1>1
<1>3. SetResult(n, v, TRUE)
  BY <1>1, SetCases
<1>4. /\ Rewriting(n, TRUE) <=> Rewrites(n) # {}
      /\ Capacity # 0
  BY <1>1, CapacityIsMore DEF Rewriting
<1>5. PICK V, E, T : V = environ' /\ E = environ /\ T = envp
  OBVIOUS
<1>6. n = NameOf(T[m + 1]) /\ v = ValueOf(T[m + 1])
  BY <1>5
<1>7. Rewrites(n) # {} => /\ Min(Rewrites(n)) \in DOMAIN E /\ Min(Rewrites(n)) \in Nat
                          /\ E[Min(Rewrites(n))][1] = n
  BY <1>1, <1>5, FirstEntry
<1>8. \A j \in DOMAIN E : E[j][1] = n => j \in Rewrites(n)
  BY <1>5 DEF Rewrites
<1>9. \A i, j \in DOMAIN E : E[i][1] = E[j][1] => i = j
  BY <1>5 DEF EnvIs
<1> HIDE DEF n, v
<1>10. \A j \in DOMAIN E : E[j][1] = n => j = Min(Rewrites(n))
  BY <1>7, <1>8, <1>9
<1>11. \E D, k :
         /\ EnvTurn(V, E, D, k, n, v) /\ (envCap' = 0 => V = <<>>) /\ (\E U : V \in Seq(U))
         /\ ~envFailed' => /\ ~envFailed /\ k \in DOMAIN V
                           /\ \A j \in DOMAIN E : E[j][1] = n \/ (j \in D /\ j \in DOMAIN V)
  <2>1. CASE /\ Rewriting(n, TRUE) /\ \E s \in Stored(v) : PutAt(Min(Rewrites(n)), n, s)
             /\ UNCHANGED <<envCap, envFailed>>
    <3> DEFINE k == Min(Rewrites(n))
               D == DOMAIN E \ {k}
    <3>1. PICK s \in Stored(v) : PutAt(k, n, s)
      BY <2>1
    <3>2. k \in DOMAIN E
      BY <2>1, <1>4, <1>7
    <3> HIDE DEF k
    <3>3. DOMAIN V = DOMAIN E \cup {k} /\ V[k] = <<n, s>> /\ (\E U : V \in Seq(U))
          /\ (\A j \in DOMAIN E : j # k => V[j] = E[j])
      BY <3>1, <1>5 DEF PutAt
    <3>4. V[k][1] = n /\ V[k][2] = s
      BY <3>3
    <3>5. \A j \in DOMAIN E : E[j][1] = n => j = k
      BY <1>10 DEF k
    <3>6. EnvTurn(V, E, D, k, n, v)
      BY <3>3, <3>4, <3>5 DEF EnvTurn
    <3>7. E # <<>>
      BY <3>2, <1>2, <1>5
    <3>8. envCap' # 0
      BY <3>7, <2>1, <1>5 DEF EnvIs
    <3>9. \A j \in DOMAIN E : E[j][1] = n \/ (j \in D /\ j \in DOMAIN V)
      <4>1. E[k][1] = n
        BY <2>1, <1>4, <1>7 DEF k
      <4> QED BY <4>1, <3>3
    <3>10. envFailed' = envFailed /\ k \in DOMAIN V
      BY <2>1, <3>3
    <3> HIDE DEF D
    <3> QED BY <3>3, <3>6, <3>8, <3>9, <3>10
  <2>2. CASE /\ ~Rewriting(n, TRUE) /\ \E s \in Stored(v) : PutAt(Len(environ) + 1, n, s)
             /\ envCap' = Capacity /\ UNCHANGED envFailed
    <3> DEFINE k == Len(environ) + 1
               D == DOMAIN E
    <3>1. PICK s \in Stored(v) : PutAt(k, n, s)
      BY <2>2
    <3>2. k \notin DOMAIN E
      BY <1>2, <1>5
    <3> HIDE DEF k
    <3>3. DOMAIN V = DOMAIN E \cup {k} /\ V[k] = <<n, s>> /\ (\E U : V \in Seq(U))
          /\ (\A j \in DOMAIN E : j # k => V[j] = E[j])
      BY <3>1, <1>5 DEF PutAt
    <3>4. V[k][1] = n /\ V[k][2] = s
      BY <3>3
    <3>5. \A j \in DOMAIN E : E[j][1] # n
      BY <2>2, <1>4, <1>8
    <3>6. EnvTurn(V, E, D, k, n, v)
      BY <3>2, <3>3, <3>4, <3>5 DEF EnvTurn
    <3>7. envFailed' = envFailed /\ k \in DOMAIN V /\ envCap' # 0
      BY <2>2, <3>3, <1>4
    <3>8. \A j \in DOMAIN E : E[j][1] = n \/ (j \in D /\ j \in DOMAIN V)
      BY <3>3
    <3> QED BY <3>3, <3>6, <3>7, <3>8
  <2>3. CASE /\ envCap = 0 \/ (~Rewriting(n, TRUE) /\ envCap' = Capacity)
             /\ UNCHANGED environ /\ envFailed' = TRUE
    <3> DEFINE D == DOMAIN E
               k == Len(environ) + 1
    <3>1. V = E /\ k \notin DOMAIN V /\ E \in Seq(S)
      BY <2>3, <1>1, <1>2, <1>5
    <3>2. envCap = 0 => E = <<>>
      BY <1>5 DEF EnvIs
    <3>3. \A j \in DOMAIN E : E[j][1] # n
      <4>1. CASE envCap = 0
        BY <4>1, <3>2
      <4>2. CASE ~Rewriting(n, TRUE)
        BY <4>2, <1>4, <1>8
      <4> QED BY <4>1, <4>2, <2>3
    <3>4. EnvTurn(V, E, D, k, n, v)
      BY <3>1, <3>3 DEF EnvTurn
    <3>5. envCap' = 0 => V = <<>>
      BY <2>3, <3>1, <3>2, <1>4
    <3> QED BY <2>3, <3>1, <3>4, <3>5
  <2>4. CASE /\ Rewriting(n, TRUE) /\ CutAt(Min(Rewrites(n)))
             /\ envFailed' = TRUE /\ UNCHANGED envCap
    <3> DEFINE k == Min(Rewrites(n))
               D == 1 .. k - 1
    <3>1. CutAt(k) /\ k \in Nat /\ k \in DOMAIN E
      BY <2>4, <1>4, <1>7
    <3>2. \A j \in DOMAIN E : E[j][1] = n => j = k
      BY <1>10
    <3> HIDE DEF k
    <3>3. DOMAIN V = D /\ (\A j \in D : j \in DOMAIN E /\ V[j] = E[j]) /\ (\E U : V \in Seq(U))
      BY <3>1, <1>5 DEF CutAt
    <3>4. k \notin D
      BY <3>1
    <3> HIDE DEF D
    <3>5. EnvTurn(V, E, D, k, n, v)
      BY <3>2, <3>3, <3>4 DEF EnvTurn
    <3>6. E # <<>>
      BY <3>1, <1>2, <1>5
    <3>7. envCap' # 0
      BY <2>4, <3>6, <1>5 DEF EnvIs
    <3> QED BY <2>4, <3>3, <3>5, <3>7
  <2> QED BY <2>1, <2>2, <2>3, <2>4, <1>3 DEF SetResult
<1>12. PICK D, k :
         /\ EnvTurn(V, E, D, k, n, v) /\ (envCap' = 0 => V = <<>>) /\ (\E U : V \in Seq(U))
         /\ ~envFailed' => /\ ~envFailed /\ k \in DOMAIN V
                           /\ \A j \in DOMAIN E : E[j][1] = n \/ (j \in D /\ j \in DOMAIN V)
  BY <1>11
<1>13. (\A i \in 1 .. m + 1 : i \in 1 .. m \/ i = m + 1) /\ m + 1 \in 1 .. m + 1
      /\ (\A i \in 1 .. m : i \in 1 .. m + 1) /\ (m + 1) + 1 .. m + 1 = {}
      /\ (\A i \in 1 .. m : \A j \in i + 1 .. m + 1 : j \in i + 1 .. m \/ j = m + 1)
  OBVIOUS
<1>14. ASSUME ~envFailed', NEW i \in 1 .. m + 1
       PROVE  \E j \in DOMAIN V : V[j][1] = NameOf(T[i])
  <2>0. ~envFailed /\ k \in DOMAIN V /\ V[k][1] = n
    BY <1>12, <1>14 DEF EnvTurn
  <2>1. CASE i = m + 1
    BY <2>0, <2>1, <1>6
  <2>2. CASE i \in 1 .. m
    <3>1. PICK j \in DOMAIN E : E[j][1] = NameOf(T[i])
      BY <2>0, <2>2, <1>5 DEF EnvIs
    <3>2. CASE E[j][1] = n
      BY <2>0, <3>1, <3>2
    <3>3. CASE j \in D /\ j \in DOMAIN V
      BY <3>1, <3>3, <1>12 DEF EnvTurn
    <3> QED BY <3>2, <3>3, <1>12, <1>14
  <2> QED BY <2>1, <2>2, <1>13
<1>15. ASSUME NEW i \in DOMAIN V, NEW j \in DOMAIN V, V[i][1] = V[j][1] PROVE i = j
  BY <1>9, <1>12, <1>15 DEF EnvTurn
<1>16. ASSUME NEW j \in DOMAIN V
       PROVE  \E i \in 1 .. m + 1 :
                /\ NameOf(T[i]) = V[j][1]
                /\ \A h \in i + 1 .. m + 1 : NameOf(T[h]) # V[j][1]
                /\ V[j][2] \in Stored(ValueOf(T[i]))
  <2>1. CASE j = k
    <3>1. V[j][1] = n /\ V[j][2] \in Stored(v)
      BY <2>1, <1>12 DEF EnvTurn
    <3> QED BY <3>1, <1>6, <1>13
  <2>2. CASE j # k
    <3>1. j \in DOMAIN E /\ V[j] = E[j] /\ E[j][1] # n
      BY <2>2, <1>12 DEF EnvTurn
    <3>2. PICK i \in 1 .. m : NameOf(T[i]) = E[j][1] /\ (\A h \in i + 1 .. m : NameOf(T[h]) # E[j][1])
                              /\ E[j][2] \in Stored(ValueOf(T[i]))
      BY <3>1, <1>5 DEF EnvIs, LastFor
    <3>3. \A h \in i + 1 .. m + 1 : NameOf(T[h]) # E[j][1]
      BY <3>1, <3>2, <1>6, <1>13
    <3> QED BY <3>1, <3>2, <3>3, <1>13
  <2> QED BY <2>1, <2>2
<1>17. environ' = V /\ envp' = T
  BY <1>5
<1> QED BY <1>12, <1>14, <1>15, <1>16, <1>17 DEF EnvIs, LastFor

----------------------------------------------------------------------------
(* From execve's arguments to main's *)

\* The caller's vectors hold strings, the environment's with a =.
Passed ==
  /\ argv \in Seq(Text) /\ envp \in Seq(Text)
  /\ \A i \in 1 .. Len(envp) : \E k \in 1 .. Len(envp[i]) : envp[i][k] = Equals

\* The new stack, when the first k strings of envp have lost their =.
Loaded(st, rt, e, d, a, c, k) ==
  /\ rt.envp = Top - e /\ rt.argv = Top - a /\ rt.sp = Top - (a + 4)
  /\ Pointing(st, 0, e, d, envp) /\ Holding(st, d, envp, k)
  /\ Pointing(st, e, a, c, argv) /\ Holding(st, c, argv, 0)
  /\ HasWord(st, a + 4, Len(argv))

StackSet(k) ==
  /\ stack \in Seq(Octet) /\ Len(stack) <= Top
  /\ \E e, d, a, c : Loaded(stack, ret, e, d, a, c, k)

AInv ==
  /\ Passed
  /\ pc = "start" => StackSet(0)
  /\ pc \in {"init", "main"} =>
       /\ done \in 0 .. Len(envp) /\ StackSet(done)
       /\ envMode = "run" => EnvIs(done)
  /\ pc = "main" => done = Len(envp)

LEMMA VectorsPassed ==
  ASSUME NEW a \in Argvs, NEW e \in Envps, argv' = a, envp' = e
  PROVE  Passed'
<1>0. \A v \in Envps : \A i \in DOMAIN v : \E k \in 2 .. Len(v[i]) : v[i][k] = Equals
  BY VectorAssumption
<1>1. a \in Seq(Text) /\ e \in Seq(Text)
  BY VectorAssumption DEF Text
<1>2. ASSUME NEW i \in 1 .. Len(e) PROVE \E k \in 1 .. Len(e[i]) : e[i][k] = Equals
  <2>1. i \in DOMAIN e /\ e[i] \in Text
    BY <1>1
  <2>2. PICK k \in 2 .. Len(e[i]) : e[i][k] = Equals
    BY <2>1, <1>0, Zenon
  <2>3. k \in 1 .. Len(e[i])
    BY <2>1 DEF Text
  <2> QED BY <2>2, <2>3
<1> QED BY <1>1, <1>2 DEF Passed

\* execve lays out the stack.
LEMMA StackLaid ==
  ASSUME Passed, setup_stack, pc' = "start"
  PROVE  StackSet(0)'
<1>1. PICK e : e = PushVector(<<>>, envp)
  OBVIOUS
<1>2. PICK a : a = PushVector(e, argv)
  OBVIOUS
<1>3. PICK r : r = push(a, Len(argv))
  OBVIOUS
<1>4. /\ Len(r) <= StackSize /\ stack' = r
      /\ ret' = [envp |-> Top - Len(e), argv |-> Top - Len(a), sp |-> Top - Len(r)]
      /\ argv' = argv /\ envp' = envp
  BY <1>1, <1>2, <1>3 DEF setup_stack, kernel
<1>5. <<>> \in Seq(Octet) /\ Len(<<>>) = 0 /\ argv \in Seq(Text) /\ envp \in Seq(Text)
      /\ Len(argv) \in Nat
  BY DEF Passed
<1>6. VectorResult(<<>>, envp, e)
  BY <1>1, <1>5, VectorPushed
<1>7. e \in Seq(Octet)
  BY <1>6 DEF VectorResult, Grows
<1>8. VectorResult(e, argv, a)
  BY <1>2, <1>5, <1>7, VectorPushed
<1>9. a \in Seq(Octet) /\ Grows(e, a)
  BY <1>8 DEF VectorResult, Grows
<1>10. Grows(a, r) /\ Len(r) = Len(a) + 4
       /\ ((Len(argv) >= 0 /\ Len(argv) \div 65536 < 65536) => HasWord(r, Len(r), Len(argv)))
  BY <1>3, <1>5, <1>9, PushIs
<1>11. /\ Len(e) \in Nat /\ Len(a) \in Nat /\ Len(r) \in Nat /\ Len(e) <= Len(a) /\ Len(a) <= Len(r)
       /\ Len(r) <= Top /\ Top \in Nat /\ Top \div 65536 < 65536 /\ r \in Seq(Octet)
  BY <1>4, <1>7, <1>9, <1>10, ExecAssumption DEF Grows
<1>12. Len(e) <= Top /\ Len(a) <= Top
  BY <1>11
<1>13. PICK d : Pointing(e, 0, Len(e), d, envp) /\ Holding(e, d, envp, 0)
  BY <1>5, <1>6, <1>12 DEF VectorResult
<1>14. PICK c : Pointing(a, Len(e), Len(a), c, argv) /\ Holding(a, c, argv, 0)
  BY <1>8, <1>12 DEF VectorResult
<1>15. Grows(e, r)
  BY <1>9, <1>10, GrowsOn
<1>16. Pointing(r, 0, Len(e), d, envp) /\ Holding(r, d, envp, 0)
  <2>1. Holding(r, d, envp, 0)
    BY <1>5, <1>13, <1>15, HoldingStays
  <2> QED BY <2>1, <1>13, <1>15, WordStays DEF Pointing
<1>17. Pointing(r, Len(e), Len(a), c, argv) /\ Holding(r, c, argv, 0)
  <2>1. Holding(r, c, argv, 0)
    BY <1>5, <1>10, <1>14, HoldingStays
  <2> QED BY <2>1, <1>10, <1>14, WordStays DEF Pointing
<1>18. HasWord(r, Len(a) + 4, Len(argv))
  <2>1. Len(e) + 4 * Len(argv) + 4 <= Len(a)
    BY <1>14 DEF Pointing
  <2>2. Len(argv) <= Top
    BY <2>1, <1>5, <1>11
  <2>3. Len(argv) \div 65536 < 65536
    BY <2>2, <1>5, <1>11
  <2> QED BY <2>3, <1>5, <1>10
<1>19. ret'.envp = Top - Len(e) /\ ret'.argv = Top - Len(a) /\ ret'.sp = Top - (Len(a) + 4)
  BY <1>4, <1>10
<1>20. Loaded(stack, ret, Len(e), d, Len(a), c, 0)'
  BY <1>4, <1>16, <1>17, <1>18, <1>19 DEF Loaded
<1> QED BY <1>4, <1>11, <1>20 DEF StackSet

\* init_rlibc reads the next string, sets its variable and ends its name.
LEMMA NextString ==
  ASSUME Passed, done \in 0 .. Len(envp), StackSet(done), init_rlibc
  PROVE  /\ done \in 0 .. Len(envp) - 1 /\ done' = done + 1
         /\ \/ setenv(NameOf(envp[done + 1]), ValueOf(envp[done + 1]), TRUE)
            \/ envMode' = "wild"
         /\ StackSet(done)' /\ UNCHANGED <<pc, argv, envp>>
<1>1. PICK e, d, a, c : Loaded(stack, ret, e, d, a, c, done)
  BY DEF StackSet
<1>2. stack \in Seq(Octet) /\ Len(stack) <= Top /\ Len(stack) \in Nat
      /\ argv \in Seq(Text) /\ envp \in Seq(Text) /\ Len(envp) \in Nat
      /\ done \in Nat /\ Top \in Nat
  BY ExecAssumption DEF StackSet, Passed
<1>3. /\ ret.envp = Top - e /\ Pointing(stack, 0, e, d, envp) /\ Holding(stack, d, envp, done)
      /\ Pointing(stack, e, a, c, argv) /\ Holding(stack, c, argv, 0)
      /\ HasWord(stack, a + 4, Len(argv))
  BY <1>1 DEF Loaded
<1>4. VectorAt(ret.envp) = [i \in 1 .. Len(envp) |-> Top - d[i]]
  BY <1>2, <1>3, VectorRead
<1>5. Len(VectorAt(ret.envp)) = Len(envp)
  BY <1>2, <1>4
<1>6. done < Len(envp) /\ done + 1 \in 1 .. Len(envp) /\ done + 1 \in done + 1 .. Len(envp)
  BY <1>2, <1>5 DEF init_rlibc
<1>7. PICK s : s = envp[done + 1] /\ s \in Text
  BY <1>2, <1>6
<1>8. PICK l : l = d[done + 1] /\ l \in Nat /\ l + 4 * Len(envp) + 4 <= e /\ e \in Nat
  BY <1>3, <1>6 DEF Pointing
<1>9. StringAt(Top - l) = s
  <2>1. HasString(stack, l, s)
    BY <1>3, <1>6, <1>7, <1>8 DEF Holding
  <2> QED BY <2>1, <1>2, <1>7, StringRead
<1>10. VectorAt(ret.envp)[done + 1] = Top - l
  BY <1>4, <1>6, <1>8
<1>11. /\ setenv(NameOf(s), ValueOf(s), TRUE) \/ envMode' = "wild"
       /\ stack' = [stack EXCEPT ![Top - ((Top - l) + Split(s) - 1)] = 0]
       /\ done' = done + 1 /\ UNCHANGED <<pc, argv, envp, ret>>
  BY <1>9, <1>10 DEF init_rlibc, envVars
<1>12. Len(s) \in Nat /\ Split(s) \in 1 .. Len(s)
  <2>1. Len(s) \in Nat /\ DOMAIN s = 1 .. Len(s)
    BY <1>7 DEF Text
  <2> DEFINE Z == {k \in DOMAIN s : s[k] = Equals}
  <2>2. Z \in SUBSET Nat /\ Z # {} /\ Z \subseteq 1 .. Len(s)
    BY <2>1, <1>6, <1>7 DEF Passed
  <2>3. Min(Z) \in Z
    <3> HIDE DEF Z
    <3> QED BY <2>2, LeastOf
  <2> QED BY <2>1, <2>2, <2>3 DEF Split
<1>13. PICK x : x = Top - ((Top - l) + Split(s) - 1)
  OBVIOUS
<1>14. x \in Int /\ x <= l /\ l - Len(s) < x
  <2>1. PICK t \in Nat, m \in Nat : t = Split(s) /\ m = Len(s) /\ 1 <= t /\ t <= m
    BY <1>12
  <2>2. x = Top - ((Top - l) + t - 1)
    BY <2>1, <1>13
  <2>0. Top \in Nat /\ l \in Nat
    BY <1>2, <1>8
  <2>3. x = l - t + 1
    BY <2>0, <2>1, <2>2
  <2>4. x \in Int /\ x <= l /\ l - m < x
    BY <2>0, <2>1, <2>3
  <2> QED BY <2>1, <2>4
<1>15. Written(stack, stack', x)
  <2>1. stack' = [stack EXCEPT ![x] = 0]
    BY <1>11, <1>13
  <2>2. DOMAIN stack = 1 .. Len(stack) /\ 0 \in Octet
    BY <1>2 DEF Octet
  <2>3. HasString(stack, l, s)
    BY <1>3, <1>6, <1>7, <1>8 DEF Holding
  <2>4. x \in 1 .. Len(stack)
    <3>1. PICK m \in Nat : m = Len(s)
      BY <1>12
    <3>2. m + 1 <= l /\ l <= Len(stack) /\ l - m < x
      BY <2>3, <3>1, <1>2, <1>8, <1>14 DEF HasString
    <3>3. PICK n \in Nat : n = Len(stack)
      BY <1>2
    <3>4. l \in Nat /\ x \in Int /\ x <= l
      BY <1>8, <1>14
    <3>5. x \in 1 .. n
      BY <3>1, <3>2, <3>3, <3>4
    <3> QED BY <3>3, <3>5
  <2>5. stack' \in Seq(Octet) /\ Len(stack') = Len(stack)
    BY <2>1, <2>2, <2>4, <1>2, ExceptSeq
  <2>6. \A k \in 1 .. Len(stack) : k # x => stack'[k] = stack[k]
    BY <2>1, <2>2
  <2> QED BY <2>5, <2>6, <1>2, <1>14 DEF Written
<1>16. PICK r, q : r = stack' /\ q = stack
  OBVIOUS
<1>17. Written(q, r, x) /\ x <= e /\ x <= d[done + 1] /\ d[done + 1] - Len(envp[done + 1]) < x
  <2>1. x <= e
    BY <1>2, <1>8, <1>14
  <2>2. d[done + 1] = l /\ envp[done + 1] = s
    BY <1>7, <1>8
  <2> QED BY <2>1, <2>2, <1>14, <1>15, <1>16
<1>18. PICK v, w, n : v = envp /\ w = argv /\ n = done
  OBVIOUS
<1>19. /\ Pointing(q, 0, e, d, v) /\ Holding(q, d, v, n)
       /\ Pointing(q, e, a, c, w) /\ Holding(q, c, w, 0) /\ HasWord(q, a + 4, Len(w))
       /\ v \in Seq(Text) /\ w \in Seq(Text) /\ n \in Nat /\ n + 1 \in 1 .. Len(v)
       /\ x <= d[n + 1] /\ d[n + 1] - Len(v[n + 1]) < x
  BY <1>2, <1>3, <1>6, <1>16, <1>17, <1>18
<1>20. Pointing(r, 0, e, d, v)
  BY <1>17, <1>19, PointingKept
<1>21. Holding(r, d, v, n + 1)
  BY <1>17, <1>19, RestKept
<1>22. Pointing(r, e, a, c, w)
  BY <1>17, <1>19, PointingKept
<1>23. Holding(r, c, w, 0)
  BY <1>17, <1>19, HoldingKept
<1>24. HasWord(r, a + 4, Len(w))
  <2>1. a \in Nat /\ e <= a
    BY <1>8, <1>19 DEF Pointing
  <2>2. x < (a + 4) - 3
    BY <2>1, <1>8, <1>14, <1>17
  <2> QED BY <2>2, <1>17, <1>19, WordKept
<1>25. Loaded(stack, ret, e, d, a, c, done)'
  BY <1>1, <1>11, <1>16, <1>18, <1>20, <1>21, <1>22, <1>23, <1>24 DEF Loaded
<1>26. done \in 0 .. Len(envp) - 1
  BY <1>2, <1>6
<1>27. r \in Seq(Octet) /\ Len(r) <= Top
  BY <1>2, <1>16, <1>17 DEF Written
<1> QED BY <1>7, <1>11, <1>16, <1>25, <1>26, <1>27 DEF StackSet

\* init_rlibc finds the end of envp.
LEMMA VectorCounted ==
  ASSUME Passed, StackSet(done)
  PROVE  Len(VectorAt(ret.envp)) = Len(envp)
<1>1. PICK e, d, a, c : Loaded(stack, ret, e, d, a, c, done)
  BY DEF StackSet
<1>2. stack \in Seq(Octet) /\ Len(stack) <= Top /\ Len(stack) \in Nat
      /\ envp \in Seq(Text) /\ Len(envp) \in Nat
  BY DEF StackSet, Passed
<1>3. ret.envp = Top - e /\ Pointing(stack, 0, e, d, envp)
  BY <1>1 DEF Loaded
<1>4. VectorAt(ret.envp) = [i \in 1 .. Len(envp) |-> Top - d[i]]
  BY <1>2, <1>3, VectorRead
<1> QED BY <1>2, <1>4

LEMMA AInvInit == Init => AInv
<1> SUFFICES ASSUME Init PROVE AInv
  OBVIOUS
<1>1. argv = <<>> /\ envp = <<>> /\ pc = "caller"
  BY DEF Init
<1>2. Passed
  <2>1. argv \in Seq(Text) /\ envp \in Seq(Text) /\ Len(envp) = 0 /\ 1 .. 0 = {}
    BY <1>1
  <2> QED BY <2>1 DEF Passed
<1> QED BY <1>1, <1>2 DEF AInv

LEMMA AInvStep == AInv /\ [Next]_vars => AInv'
<1> SUFFICES ASSUME AInv, [Next]_vars PROVE AInv'
  OBVIOUS
<1>0. Passed
  BY DEF AInv
<1>1. ASSUME NEW a \in Argvs, NEW e \in Envps, execve(a, e) PROVE AInv'
  <2>1. pc' = "args" /\ argv' = a /\ envp' = e
    BY <1>1 DEF execve
  <2>2. Passed'
    BY <2>1, VectorsPassed
  <2> QED BY <2>1, <2>2 DEF AInv
<1>2. ASSUME UNCHANGED <<argv, envp>>, pc' \notin {"start", "init", "main"} PROVE AInv'
  <2>1. Passed'
    BY <1>0, <1>2 DEF Passed
  <2> QED BY <2>1, <1>2 DEF AInv
<1>3. ASSUME copy("args", argv, "args", "env") \/ copy("env", envp, "env", "open")
             \/ copy_fails("args", argv, "args") \/ copy_fails("env", envp, "env")
             \/ open \/ buffer
      PROVE  AInv'
  <2>1. UNCHANGED <<argv, envp>> /\ pc' \in {"env", "open", "caller", "buf", "load"}
    BY <1>3 DEF copy, copy_fails, open, buffer, kernel
  <2> QED BY <2>1, <1>2
<1>4. ASSUME open_fails \/ buffer_fails \/ load_fails \/ load PROVE AInv'
  <2>1. UNCHANGED <<argv, envp>> /\ pc' \in {"caller", "lost", "push", "wild"}
    BY <1>4 DEF open_fails, buffer_fails, load_fails, load, release, Frees, kernel
  <2> QED BY <2>1, <1>2
<1>5. ASSUME setup_stack PROVE AInv'
  <2>1. UNCHANGED <<argv, envp>> /\ pc' \in {"start", "wild", "panic"}
    BY <1>5 DEF setup_stack, Frees, kernel
  <2>2. CASE pc' = "start"
    <3>1. StackSet(0)'
      BY <1>0, <1>5, <2>2, StackLaid
    <3>2. Passed'
      BY <1>0, <2>1 DEF Passed
    <3> QED BY <3>1, <3>2, <2>2 DEF AInv
  <2> QED BY <2>1, <2>2, <1>2
<1>6. ASSUME _start PROVE AInv'
  <2>1. pc = "start" /\ pc' = "init" /\ environ' = <<>> /\ done' = 0
        /\ UNCHANGED <<argv, envp, stack, ret>>
    BY <1>6 DEF _start
  <2>2. StackSet(0)
    BY <2>1 DEF AInv
  <2>3. StackSet(done)'
    BY <2>1, <2>2 DEF StackSet, Loaded
  <2>4. EnvIs(done)'
    <3>1. EnvIs(0)'
      BY <2>1, EnvIsEmpty
    <3> QED BY <2>1, <3>1 DEF EnvIs, LastFor
  <2>5. Passed'
    BY <1>0, <2>1 DEF Passed
  <2>6. done' \in 0 .. Len(envp')
    BY <2>1, <2>5 DEF Passed
  <2> QED BY <2>1, <2>3, <2>4, <2>5, <2>6 DEF AInv
<1>7. ASSUME init_rlibc PROVE AInv'
  <2>1. pc = "init"
    BY <1>7 DEF init_rlibc
  <2>2. done \in 0 .. Len(envp) /\ StackSet(done) /\ (envMode = "run" => EnvIs(done))
    BY <2>1 DEF AInv
  <2>3. /\ done \in 0 .. Len(envp) - 1 /\ done' = done + 1
        /\ \/ setenv(NameOf(envp[done + 1]), ValueOf(envp[done + 1]), TRUE)
           \/ envMode' = "wild"
        /\ StackSet(done)' /\ UNCHANGED <<pc, argv, envp>>
    BY <1>0, <1>7, <2>2, NextString
  <2>4. PICK m \in Nat : m = done /\ done' = m + 1
    BY <2>2, <2>3
  <2>7. ASSUME envMode' = "run" PROVE EnvIs(done)'
    <3>1. setenv(NameOf(envp[m + 1]), ValueOf(envp[m + 1]), TRUE) /\ envp' = envp
      BY <2>3, <2>4, <2>7
    <3>2. envMode = "run"
      BY <3>1 DEF setenv
    <3>3. EnvIs(m)
      BY <2>2, <2>4, <3>2
    <3>4. EnvIs(m + 1)'
      BY <2>7, <3>1, <3>3, EnvGrows
    <3> QED BY <2>4, <3>4 DEF EnvIs, LastFor
  <2>8. Passed'
    BY <1>0, <2>3 DEF Passed
  <2>9. done' \in 0 .. Len(envp')
    BY <1>0, <2>3 DEF Passed
  <2> QED BY <2>1, <2>3, <2>7, <2>8, <2>9 DEF AInv
<1>8. ASSUME main PROVE AInv'
  <2>1. pc = "init" /\ pc' = "main" /\ done = Len(VectorAt(ret.envp))
        /\ UNCHANGED <<argv, envp, done, stack, ret, environ, envCap, envFailed, envMode>>
    BY <1>8 DEF main, kernel, envVars
  <2>2. done \in 0 .. Len(envp) /\ StackSet(done) /\ (envMode = "run" => EnvIs(done))
    BY <2>1 DEF AInv
  <2>3. done = Len(envp)
    BY <1>0, <2>1, <2>2, VectorCounted
  <2>4. Passed' /\ StackSet(done)' /\ (envMode' = "run" => EnvIs(done)')
    BY <1>0, <2>1, <2>2 DEF Passed, StackSet, Loaded, EnvIs, LastFor
  <2> QED BY <2>1, <2>2, <2>3, <2>4 DEF AInv
<1>9. ASSUME runs PROVE AInv'
  <2>1. UNCHANGED <<argv, envp>> /\ pc' = "running"
    BY <1>9 DEF runs
  <2> QED BY <2>1, <1>2
<1>10. ASSUME UNCHANGED vars PROVE AInv'
  <2>1. UNCHANGED <<argv, envp, done, stack, ret, environ, envCap, envFailed, envMode, pc>>
    BY <1>10 DEF vars, envVars
  <2> QED BY <2>1 DEF AInv, Passed, StackSet, Loaded, EnvIs, LastFor
<1> QED
  BY <1>1, <1>3, <1>4, <1>5, <1>6, <1>7, <1>8, <1>9, <1>10 DEF Next

\* What main is given is what the caller passed.
LEMMA ArgumentsThere == AInv => ArgumentsArrive
<1> SUFFICES ASSUME AInv, pc = "main" PROVE ArgumentsArrive
  BY DEF ArgumentsArrive
<1>1. Passed /\ StackSet(done) /\ done = Len(envp)
  BY DEF AInv
<1>2. PICK e, d, a, c : Loaded(stack, ret, e, d, a, c, done)
  BY <1>1 DEF StackSet
<1>3. stack \in Seq(Octet) /\ Len(stack) <= Top /\ Len(stack) \in Nat
      /\ argv \in Seq(Text) /\ envp \in Seq(Text) /\ Len(envp) \in Nat /\ Top \in Nat
  BY <1>1, ExecAssumption DEF StackSet, Passed
<1>4. /\ ret.argv = Top - a /\ ret.sp = Top - (a + 4)
      /\ Pointing(stack, e, a, c, argv) /\ Holding(stack, c, argv, 0)
      /\ HasWord(stack, a + 4, Len(argv)) /\ a \in Nat
  BY <1>2 DEF Loaded, Pointing
<1>5. WordAt(ret.sp) = Len(argv) /\ ret.sp + 4 = ret.argv
  BY <1>3, <1>4, WordRead
<1>6. StringsAt(ret.argv) = argv
  BY <1>3, <1>4, StringsRead
<1>7. Len(VectorAt(ret.envp)) = Len(envp)
  BY <1>1, VectorCounted
<1>8. ASSUME envMode = "run"
      PROVE  LET Of(n) == {i \in DOMAIN envp : NameOf(envp[i]) = n}
                 there == {environ[k][1] : k \in DOMAIN environ}
                 names == {NameOf(s) : s \in Range(envp)}
             IN  /\ there \subseteq names /\ (there # names => envFailed)
                 /\ IsInjective([k \in DOMAIN environ |-> environ[k][1]])
                 /\ \A k \in DOMAIN environ :
                      environ[k][2] \in Stored(ValueOf(envp[Max(Of(environ[k][1]))]))
  <2> DEFINE Of(n) == {i \in DOMAIN envp : NameOf(envp[i]) = n}
             there == {environ[k][1] : k \in DOMAIN environ}
             names == {NameOf(s) : s \in Range(envp)}
  <2>0. EnvIs(done)
    BY <1>8 DEF AInv
  <2>1. DOMAIN envp = 1 .. done
    BY <1>1, <1>3
  <2>2. there \subseteq names /\ (there # names => envFailed)
    <3>1. Range(envp) = {envp[i] : i \in 1 .. done}
      BY <2>1 DEF Range
    <3>2. ~envFailed => \A i \in 1 .. done : \E k \in DOMAIN environ : environ[k][1] = NameOf(envp[i])
      BY <2>0 DEF EnvIs
    <3>3. \A k \in DOMAIN environ : \E i \in 1 .. done : environ[k][1] = NameOf(envp[i])
      BY <2>0 DEF EnvIs, LastFor
    <3> QED BY <3>1, <3>2, <3>3
  <2>3. IsInjective([k \in DOMAIN environ |-> environ[k][1]])
    BY <2>0 DEF EnvIs, IsInjective
  <2>4. ASSUME NEW k \in DOMAIN environ
        PROVE  environ[k][2] \in Stored(ValueOf(envp[Max(Of(environ[k][1]))]))
    <3>1. PICK i \in 1 .. done :
            LastFor(environ[k][1], i, done) /\ environ[k][2] \in Stored(ValueOf(envp[i]))
      BY <2>0 DEF EnvIs
    <3>2. PICK n : n = environ[k][1]
      OBVIOUS
    <3>3. i \in Of(n) /\ Of(n) \in SUBSET Nat
      BY <3>1, <3>2, <2>1 DEF LastFor
    <3>4. ASSUME NEW j \in Of(n) PROVE i >= j
      <4>1. j \in 1 .. done /\ NameOf(envp[j]) = n
        BY <2>1
      <4>2. j \notin i + 1 .. done
        BY <3>1, <3>2, <4>1 DEF LastFor
      <4>3. done \in Nat
        BY <1>1, <1>3
      <4> QED BY <4>1, <4>2, <4>3
    <3>5. Max(Of(n)) = i
      <4> HIDE DEF Of
      <4> QED BY <3>3, <3>4, MaxIs
    <3> QED BY <3>1, <3>2, <3>5
  <2> QED BY <2>2, <2>3, <2>4
<1> QED BY <1>5, <1>6, <1>7, <1>8 DEF ArgumentsArrive

\* main gets the caller's arguments, for every pair of vectors, stack page
\* and number of calls; and environ the caller's variables, but for those
\* lost where malloc failed, until setenv writes past a block.
THEOREM ArgumentsAlwaysArrive == Spec => []ArgumentsArrive
<1>1. Spec => []AInv
  BY AInvInit, AInvStep, PTL DEF Spec
<1> QED BY <1>1, ArgumentsThere, PTL

----------------------------------------------------------------------------
(* The user heap: where the nodes are *)

NodeSet == [size : Nat, of : Blocks \cup {"free", "new"}]

\* What is known of an entry of the list.
LEMMA NodeFields ==
  ASSUME NEW h \in Seq(NodeSet), NEW i \in 1 .. Len(h)
  PROVE  /\ h[i] \in NodeSet /\ h[i].size \in Nat
         /\ h[i].of \in Blocks \cup {"free", "new"}
         /\ h[i] = Node(h[i].size, h[i].of)
<1>1. h[i] \in NodeSet
  BY ElementOfSeq
<1> QED BY <1>1 DEF NodeSet, Node

\* The recursive function Ends exists and is the running sum of the sizes.
LEMMA EndsAre ==
  ASSUME NEW h \in Seq(NodeSet)
  PROVE  /\ DOMAIN Ends(h) = 0 .. Len(h)
         /\ Ends(h)[0] = 0
         /\ \A i \in 1 .. Len(h) : Ends(h)[i] = Ends(h)[i - 1] + h[i].size + 1
<1> DEFINE n == Len(h)
           Is(f, k) == f = [i \in 0 .. k |-> IF i = 0 THEN 0 ELSE f[i - 1] + h[i].size + 1]
           B == {k \in Nat : ~ \E f : Is(f, k)}
<1>1. n \in Nat
  OBVIOUS
<1> HIDE DEF n
<1>2. B = {}
  <2>1. SUFFICES ASSUME B # {} PROVE FALSE
    OBVIOUS
  <2>2. PICK k \in B : \A j \in B : k <= j
    <3>1. B \in SUBSET Nat
      OBVIOUS
    <3> HIDE DEF B
    <3> QED BY <2>1, <3>1, LeastOf
  <2>3. k # 0
    <3> DEFINE f == [i \in 0 .. 0 |-> 0]
    <3>1. Is(f, 0)
      OBVIOUS
    <3> QED BY <3>1, <2>2
  <2>4. k \in Nat /\ k - 1 \in Nat /\ k - 1 \notin B
    <3>1. k \in Nat
      BY DEF B
    <3> HIDE DEF B
    <3> QED BY <3>1, <2>2, <2>3
  <2>5. PICK f : Is(f, k - 1)
    BY <2>4
  <2> DEFINE g == [i \in 0 .. k |->
                     IF i < k THEN f[i] ELSE f[i - 1] + h[i].size + 1]
  <2>6. ASSUME NEW i \in 0 .. k
        PROVE  g[i] = IF i = 0 THEN 0 ELSE g[i - 1] + h[i].size + 1
    <3>1. CASE i = 0
      BY <3>1, <2>3, <2>4, <2>5
    <3>2. CASE i # 0 /\ i < k
      <4>1. f[i] = f[i - 1] + h[i].size + 1
        BY <3>2, <2>4, <2>5
      <4> QED BY <4>1, <3>2, <2>4
    <3>3. CASE i # 0 /\ i = k
      BY <3>3, <2>4
    <3> QED BY <3>1, <3>2, <3>3
  <2>7. Is(g, k)
    <3>1. g = [i \in 0 .. k |-> g[i]]
      OBVIOUS
    <3> HIDE DEF g
    <3> QED BY <3>1, <2>6
  <2> QED BY <2>7, <2>2
<1>3. PICK f : Is(f, n)
  BY <1>1, <1>2
<1>4. Ends(h) = CHOOSE f1 : Is(f1, n)
  BY DEF Ends, n
<1>5. Is(Ends(h), n)
  BY <1>3, <1>4
<1> DEFINE e == Ends(h)
<1> HIDE DEF e
<1>6. e = [i \in 0 .. n |-> IF i = 0 THEN 0 ELSE e[i - 1] + h[i].size + 1]
  BY <1>5 DEF e
<1>7. DOMAIN e = 0 .. n /\ e[0] = 0 /\ \A i \in 1 .. n : e[i] = e[i - 1] + h[i].size + 1
  BY <1>1, <1>6
<1> QED BY <1>7 DEF e, n

\* Ends are naturals that grow.
LEMMA EndsGrow ==
  ASSUME NEW h \in Seq(NodeSet)
  PROVE  /\ \A j \in 0 .. Len(h) : Ends(h)[j] \in Nat
         /\ \A j \in 0 .. Len(h), i \in 0 .. Len(h) : i < j => Ends(h)[i] < Ends(h)[j]
<1> DEFINE e == Ends(h)
           Fine(j) == e[j] \in Nat /\ \A i \in 0 .. j - 1 : e[i] < e[j]
           B == {j \in 0 .. Len(h) : ~Fine(j)}
<1>1. e[0] = 0 /\ \A i \in 1 .. Len(h) : e[i] = e[i - 1] + h[i].size + 1
  BY EndsAre
<1>2. \A i \in 1 .. Len(h) : h[i].size \in Nat
  BY NodeFields
<1> HIDE DEF e
<1>3. B = {}
  <2>1. SUFFICES ASSUME B # {} PROVE FALSE
    OBVIOUS
  <2>2. PICK k \in B : \A j \in B : k <= j
    <3>1. B \in SUBSET Nat
      OBVIOUS
    <3> HIDE DEF B
    <3> QED BY <2>1, <3>1, LeastOf
  <2>3. k \in 0 .. Len(h) /\ ~Fine(k) /\ \A j \in 0 .. k - 1 : Fine(j)
    BY <2>2
  <2>4. k # 0
    BY <2>3, <1>1
  <2>5. k - 1 \in 0 .. k - 1 /\ k \in 1 .. Len(h)
    BY <2>3, <2>4
  <2>6. e[k] = e[k - 1] + h[k].size + 1 /\ h[k].size \in Nat
    BY <2>5, <1>1, <1>2
  <2>7. Fine(k - 1)
    BY <2>3, <2>5
  <2>8. e[k] \in Nat /\ e[k - 1] < e[k]
    BY <2>6, <2>7
  <2>9. ASSUME NEW i \in 0 .. k - 1 PROVE e[i] < e[k]
    <3>1. CASE i = k - 1
      BY <3>1, <2>8
    <3>2. CASE i # k - 1
      <4>1. i \in 0 .. (k - 1) - 1
        BY <3>2, <2>5
      <4>2. e[i] < e[k - 1] /\ Fine(i)
        BY <4>1, <2>7, <2>3
      <4> QED BY <4>2, <2>7, <2>8
    <3> QED BY <3>1, <3>2
  <2> QED BY <2>3, <2>8, <2>9
<1>4. \A j \in 0 .. Len(h) : Fine(j)
  BY <1>3
<1>5. \A j \in 0 .. Len(h), i \in 0 .. Len(h) : i < j => e[i] < e[j]
  BY <1>4
<1> QED BY <1>4, <1>5 DEF e

\* Runs of nodes of the same sizes end at the same places if they begin there.
LEMMA SameRun ==
  ASSUME NEW h \in Seq(NodeSet), NEW g \in Seq(NodeSet),
         NEW a \in 0 .. Len(h), NEW b \in 0 .. Len(g), NEW m \in Nat,
         a + m <= Len(h), b + m <= Len(g), Ends(h)[a] = Ends(g)[b],
         \A j \in 1 .. m : h[a + j].size = g[b + j].size
  PROVE  \A j \in 0 .. m : Ends(h)[a + j] = Ends(g)[b + j]
<1> DEFINE B == {j \in 0 .. m : Ends(h)[a + j] # Ends(g)[b + j]}
<1>1. B = {}
  <2>1. SUFFICES ASSUME B # {} PROVE FALSE
    OBVIOUS
  <2>2. PICK k \in B : \A j \in B : k <= j
    <3>1. B \in SUBSET Nat
      OBVIOUS
    <3> HIDE DEF B
    <3> QED BY <2>1, <3>1, LeastOf
  <2>3. k \in 0 .. m /\ Ends(h)[a + k] # Ends(g)[b + k]
    OBVIOUS
  <2>4. k # 0
    BY <2>3
  <2>5. k - 1 \in 0 .. m /\ Ends(h)[a + (k - 1)] = Ends(g)[b + (k - 1)]
    <3>1. k - 1 \in 0 .. m /\ k \in Nat
      BY <2>3, <2>4
    <3>2. k - 1 \notin B
      <4> HIDE DEF B
      <4> QED BY <3>1, <2>2
    <3> QED BY <3>1, <3>2
  <2>6. /\ a + k \in 1 .. Len(h) /\ b + k \in 1 .. Len(g)
        /\ a + (k - 1) = (a + k) - 1 /\ b + (k - 1) = (b + k) - 1
    BY <2>3, <2>4
  <2>7. Ends(h)[a + k] = Ends(h)[(a + k) - 1] + h[a + k].size + 1
        /\ Ends(g)[b + k] = Ends(g)[(b + k) - 1] + g[b + k].size + 1
    BY <2>6, EndsAre
  <2>8. h[a + k].size = g[b + k].size
    BY <2>3, <2>4
  <2> QED BY <2>3, <2>5, <2>6, <2>7, <2>8
<1> QED BY <1>1

----------------------------------------------------------------------------
(* The three things that happen to the list: an entry is rewritten, split  *)
(* in two, joined with the next.                                           *)

Rewritten(h, g, i, size, of) ==
  /\ Len(g) = Len(h) /\ g[i] = Node(size, of)
  /\ \A j \in 1 .. Len(h) : j # i => g[j] = h[j]

SplitUp(h, g, i, size, of, rest) ==
  /\ Len(g) = Len(h) + 1
  /\ \A j \in 1 .. i - 1 : g[j] = h[j]
  /\ g[i] = Node(size, of) /\ g[i + 1] = Node(rest, "free")
  /\ \A j \in i + 1 .. Len(h) : g[j + 1] = h[j]

Joined(h, g, i) ==
  /\ Len(g) = Len(h) - 1
  /\ \A j \in 1 .. i - 1 : g[j] = h[j]
  /\ g[i] = Node((h[i].size + h[i + 1].size + 1) % Word, h[i].of)
  /\ \A j \in i + 1 .. Len(h) - 1 : g[j] = h[j + 1]

Ofs == Blocks \cup {"free", "new"}

LEMMA NodeTyped ==
  ASSUME NEW size \in Nat, NEW of \in Ofs
  PROVE  /\ Node(size, of) \in NodeSet
         /\ Node(size, of).size = size /\ Node(size, of).of = of
  BY DEF Node, NodeSet, Ofs

LEMMA SetOf ==
  ASSUME NEW h \in Seq(NodeSet), NEW i \in 1 .. Len(h), NEW of \in Ofs
  PROVE  /\ [h EXCEPT ![i].of = of] \in Seq(NodeSet)
         /\ Rewritten(h, [h EXCEPT ![i].of = of], i, h[i].size, of)
<1> DEFINE e == Node(h[i].size, of)
           g == [h EXCEPT ![i] = e]
<1>1. h[i].size \in Nat /\ h[i] = Node(h[i].size, h[i].of)
  BY NodeFields
<1>2. e \in NodeSet
  BY <1>1, NodeTyped
<1>3. [h[i] EXCEPT !.of = of] = e
  BY <1>1 DEF Node
<1>4. [h EXCEPT ![i].of = of] = g
  BY <1>3
<1> HIDE DEF e
<1>5. g \in Seq(NodeSet) /\ Len(g) = Len(h)
      /\ \A j \in 1 .. Len(h) : g[j] = IF j = i THEN e ELSE h[j]
  BY <1>2, ExceptSeq
<1> HIDE DEF g
<1>6. g[i] = e /\ \A j \in 1 .. Len(h) : j # i => g[j] = h[j]
  BY <1>5
<1>7. Rewritten(h, g, i, h[i].size, of)
  BY <1>5, <1>6 DEF Rewritten, e
<1> QED BY <1>4, <1>5, <1>7

LEMMA SetSize ==
  ASSUME NEW h \in Seq(NodeSet), NEW i \in 1 .. Len(h), NEW size \in Nat
  PROVE  /\ [h EXCEPT ![i].size = size] \in Seq(NodeSet)
         /\ Rewritten(h, [h EXCEPT ![i].size = size], i, size, h[i].of)
<1> DEFINE e == Node(size, h[i].of)
           g == [h EXCEPT ![i] = e]
<1>1. h[i].of \in Ofs /\ h[i] = Node(h[i].size, h[i].of)
  BY NodeFields DEF Ofs
<1>2. e \in NodeSet
  BY <1>1, NodeTyped
<1>3. [h[i] EXCEPT !.size = size] = e
  BY <1>1 DEF Node
<1>4. [h EXCEPT ![i].size = size] = g
  BY <1>3
<1> HIDE DEF e
<1>5. g \in Seq(NodeSet) /\ Len(g) = Len(h)
      /\ \A j \in 1 .. Len(h) : g[j] = IF j = i THEN e ELSE h[j]
  BY <1>2, ExceptSeq
<1> HIDE DEF g
<1>6. g[i] = e /\ \A j \in 1 .. Len(h) : j # i => g[j] = h[j]
  BY <1>5
<1>7. Rewritten(h, g, i, size, h[i].of)
  BY <1>5, <1>6 DEF Rewritten, e
<1> QED BY <1>4, <1>5, <1>7

\* A list around a part that is replaced.
Replaced(h, g, i, k, mid) ==
  /\ Len(g) = (i - 1) + Len(mid) + (Len(h) - k)
  /\ \A j \in 1 .. i - 1 : g[j] = h[j]
  /\ \A j \in 1 .. Len(mid) : g[i - 1 + j] = mid[j]
  /\ \A j \in 1 .. Len(h) - k : g[i - 1 + Len(mid) + j] = h[k + j]

LEMMA Around ==
  ASSUME NEW h \in Seq(NodeSet), NEW i \in 1 .. Len(h), NEW mid \in Seq(NodeSet),
         NEW k \in i .. Len(h), NEW g,
         g = SubSeq(h, 1, i - 1) \o mid \o SubSeq(h, k + 1, Len(h))
  PROVE  g \in Seq(NodeSet) /\ Replaced(h, g, i, k, mid)
<1> DEFINE a == SubSeq(h, 1, i - 1)
           c == SubSeq(h, k + 1, Len(h))
           b == a \o mid
<1>0. g = b \o c
  OBVIOUS
<1>1. a \in Seq(NodeSet) /\ Len(a) = i - 1 /\ \A j \in 1 .. i - 1 : a[j] = h[j]
  BY SubSeqProperties
<1>2. c \in Seq(NodeSet) /\ Len(c) = Len(h) - k /\ \A j \in 1 .. Len(h) - k : c[j] = h[k + j]
  BY SubSeqProperties
<1> HIDE DEF a, c
<1>3. /\ b \in Seq(NodeSet) /\ Len(b) = (i - 1) + Len(mid)
      /\ \A j \in 1 .. (i - 1) + Len(mid) : b[j] = IF j <= i - 1 THEN a[j] ELSE mid[j - (i - 1)]
  <2>1. /\ b \in Seq(NodeSet) /\ Len(b) = Len(a) + Len(mid)
        /\ \A j \in 1 .. Len(a) + Len(mid) : b[j] = IF j <= Len(a) THEN a[j] ELSE mid[j - Len(a)]
    BY <1>1, ConcatProperties
  <2> HIDE DEF b
  <2> QED BY <2>1, <1>1
<1>4. /\ \A j \in 1 .. i - 1 : b[j] = h[j]
      /\ \A j \in 1 .. Len(mid) : b[i - 1 + j] = mid[j]
  <2>0. Len(mid) \in Nat
    OBVIOUS
  <2>1. ASSUME NEW j \in 1 .. i - 1 PROVE b[j] = h[j]
    BY <1>1, <1>3, <2>0
  <2>2. ASSUME NEW j \in 1 .. Len(mid) PROVE b[i - 1 + j] = mid[j]
    <3>1. i - 1 + j \in 1 .. (i - 1) + Len(mid) /\ ~(i - 1 + j <= i - 1)
          /\ (i - 1 + j) - (i - 1) = j
      BY <2>0
    <3> QED BY <1>3, <3>1
  <2> QED BY <2>1, <2>2
<1> HIDE DEF b
<1>5. /\ g \in Seq(NodeSet) /\ Len(g) = Len(b) + Len(c)
      /\ \A j \in 1 .. Len(b) + Len(c) : g[j] = IF j <= Len(b) THEN b[j] ELSE c[j - Len(b)]
  <2> DEFINE u == b \o c
  <2>1. /\ u \in Seq(NodeSet) /\ Len(u) = Len(b) + Len(c)
        /\ \A j \in 1 .. Len(b) + Len(c) : u[j] = IF j <= Len(b) THEN b[j] ELSE c[j - Len(b)]
    BY <1>2, <1>3, ConcatProperties
  <2>2. g = u
    BY <1>0
  <2> HIDE DEF u
  <2> QED BY <2>1, <2>2
<1>6. Len(mid) \in Nat
  OBVIOUS
<1>7. Len(g) = (i - 1) + Len(mid) + (Len(h) - k)
  BY <1>2, <1>3, <1>5
<1>8. ASSUME NEW j \in 1 .. i - 1 PROVE g[j] = h[j]
  <2>1. j \in 1 .. Len(b) + Len(c) /\ j <= Len(b)
    BY <1>2, <1>3, <1>6
  <2> QED BY <2>1, <1>4, <1>5
<1>9. ASSUME NEW j \in 1 .. Len(mid) PROVE g[i - 1 + j] = mid[j]
  <2>1. i - 1 + j \in 1 .. Len(b) + Len(c) /\ i - 1 + j <= Len(b)
    BY <1>2, <1>3, <1>6
  <2> QED BY <2>1, <1>4, <1>5
<1>10. ASSUME NEW j \in 1 .. Len(h) - k PROVE g[i - 1 + Len(mid) + j] = h[k + j]
  <2> DEFINE x == i - 1 + Len(mid) + j
  <2>1. x \in 1 .. Len(b) + Len(c) /\ ~(x <= Len(b)) /\ x - Len(b) = j
    BY <1>2, <1>3, <1>6
  <2> HIDE DEF x
  <2>2. g[x] = c[j]
    BY <2>1, <1>5
  <2> QED BY <2>2, <1>2 DEF x
<1> QED BY <1>5, <1>7, <1>8, <1>9, <1>10 DEF Replaced

LEMMA Modulo ==
  ASSUME NEW x \in Int
  PROVE  /\ x % Word \in Nat
         /\ x >= 0 /\ x < Word => x % Word = x
<1> DEFINE w == Word
<1>1. w \in Nat /\ w > 0
  BY UmallocAssumption
<1> HIDE DEF w
<1>2. x % w \in Nat /\ (x >= 0 /\ x < w => x % w = x)
  BY <1>1, SMTT(30)
<1> QED BY <1>2 DEF w

\* The size of the padding.
Rest(h, i, n, end) ==
  IF i = Len(h) THEN (end - (Start(h, i) + n + 2)) % Word ELSE h[i].size - n - 1

\* create_padding_node splits.
LEMMA PaddingSplits ==
  ASSUME NEW h \in Seq(NodeSet), NEW i \in 1 .. Len(h), NEW n \in Nat, n < h[i].size,
         NEW end \in Nat
  PROVE  /\ create_padding_node(h, i, n, end) \in Seq(NodeSet)
         /\ Rest(h, i, n, end) \in Nat
         /\ i = Len(h) \/ h[i].size = n + Rest(h, i, n, end) + 1
         /\ SplitUp(h, create_padding_node(h, i, n, end), i, n, h[i].of, Rest(h, i, n, end))
<1> DEFINE r == Rest(h, i, n, end)
           x == Node(n, h[i].of)
           y == Node(r, "free")
           mid == <<x, y>>
           g == create_padding_node(h, i, n, end)
<1>1. h[i].of \in Ofs /\ h[i].size \in Nat /\ h[i] = Node(h[i].size, h[i].of)
  BY NodeFields DEF Ofs
<1>2. "free" \in Ofs /\ r \in Nat /\ (i = Len(h) \/ h[i].size = n + r + 1)
  <2>1. Start(h, i) \in Nat
    <3>1. i - 1 \in 0 .. Len(h)
      OBVIOUS
    <3> QED BY <3>1, EndsGrow DEF Start
  <2>2. end - (Start(h, i) + n + 2) \in Int
    BY <2>1
  <2>3. (end - (Start(h, i) + n + 2)) % Word \in Nat
    BY <2>2, Modulo
  <2>4. i # Len(h) => r = h[i].size - n - 1
    BY DEF Rest
  <2>5. i = Len(h) => r \in Nat
    BY <2>3 DEF Rest
  <2> HIDE DEF r
  <2> QED BY <2>4, <2>5, <1>1 DEF Ofs
<1> HIDE DEF r
<1>3. x \in NodeSet /\ y \in NodeSet
  BY <1>1, <1>2, NodeTyped
<1>4. [h[i] EXCEPT !.size = n] = x
  BY <1>1 DEF Node
<1>5. g = SubSeq(h, 1, i - 1) \o mid \o SubSeq(h, i + 1, Len(h))
  BY <1>4 DEF create_padding_node, r, Rest
<1> HIDE DEF x, y, g
<1>6. mid \in Seq(NodeSet) /\ Len(mid) = 2 /\ mid[1] = x /\ mid[2] = y
  BY <1>3
<1> HIDE DEF mid
<1>7. i \in i .. Len(h)
  OBVIOUS
<1>8. /\ g \in Seq(NodeSet)
      /\ Len(g) = (i - 1) + 2 + (Len(h) - i)
      /\ \A j \in 1 .. i - 1 : g[j] = h[j]
      /\ \A j \in 1 .. 2 : g[i - 1 + j] = mid[j]
      /\ \A j \in 1 .. Len(h) - i : g[i - 1 + 2 + j] = h[i + j]
  <2>1. g \in Seq(NodeSet) /\ Replaced(h, g, i, i, mid)
    BY <1>5, <1>6, <1>7, Around
  <2> QED BY <2>1, <1>6 DEF Replaced
<1>9. g[i] = x /\ g[i + 1] = y /\ Len(g) = Len(h) + 1
  <2>1. g[i - 1 + 1] = mid[1] /\ g[i - 1 + 2] = mid[2]
    BY <1>6, <1>8
  <2>2. i - 1 + 1 = i /\ i - 1 + 2 = i + 1
    OBVIOUS
  <2> QED BY <2>1, <2>2, <1>6, <1>8
<1>10. ASSUME NEW j \in i + 1 .. Len(h) PROVE g[j + 1] = h[j]
  <2>1. j - i \in 1 .. Len(h) - i /\ i - 1 + 2 + (j - i) = j + 1 /\ i + (j - i) = j
    OBVIOUS
  <2> QED BY <2>1, <1>6, <1>8
<1>11. SplitUp(h, g, i, n, h[i].of, r)
  BY <1>8, <1>9, <1>10 DEF SplitUp, x, y
<1> QED BY <1>2, <1>8, <1>11 DEF g, r

\* unify_fwd joins.
LEMMA UnifyJoins ==
  ASSUME NEW h \in Seq(NodeSet), NEW i \in 1 .. Len(h) - 1
  PROVE  unify_fwd(h, i) \in Seq(NodeSet) /\ Joined(h, unify_fwd(h, i), i)
<1> DEFINE s == (h[i].size + h[i + 1].size + 1) % Word
           x == Node(s, h[i].of)
           mid == <<x>>
           g == unify_fwd(h, i)
<1>0. i \in 1 .. Len(h) /\ i + 1 \in 1 .. Len(h) /\ i + 1 \in i .. Len(h) /\ (i + 1) + 1 = i + 2
  OBVIOUS
<1>1. /\ h[i].of \in Ofs /\ h[i].size \in Nat /\ h[i] = Node(h[i].size, h[i].of)
      /\ h[i + 1].size \in Nat
  BY <1>0, NodeFields DEF Ofs
<1>2. s \in Nat /\ x \in NodeSet
  <2>1. h[i].size + h[i + 1].size + 1 \in Int
    BY <1>1
  <2>2. s \in Nat
    BY <2>1, Modulo
  <2> HIDE DEF s
  <2> QED BY <2>2, <1>1, NodeTyped
<1>3. [h[i] EXCEPT !.size = (@ + h[i + 1].size + 1) % Word] = x
  BY <1>1 DEF Node
<1>4. g = SubSeq(h, 1, i - 1) \o mid \o SubSeq(h, (i + 1) + 1, Len(h))
  BY <1>0, <1>3 DEF unify_fwd
<1> HIDE DEF x, g
<1>5. mid \in Seq(NodeSet) /\ Len(mid) = 1 /\ mid[1] = x
  BY <1>2
<1> HIDE DEF mid
<1>6. /\ g \in Seq(NodeSet)
      /\ Len(g) = (i - 1) + 1 + (Len(h) - (i + 1))
      /\ \A j \in 1 .. i - 1 : g[j] = h[j]
      /\ \A j \in 1 .. 1 : g[i - 1 + j] = mid[j]
      /\ \A j \in 1 .. Len(h) - (i + 1) : g[i - 1 + 1 + j] = h[(i + 1) + j]
  <2>1. g \in Seq(NodeSet) /\ Replaced(h, g, i, i + 1, mid)
    BY <1>0, <1>4, <1>5, Around
  <2> QED BY <2>1, <1>5 DEF Replaced
<1>7. g[i] = x /\ Len(g) = Len(h) - 1
  <2>1. g[i - 1 + 1] = mid[1] /\ i - 1 + 1 = i
    BY <1>5, <1>6
  <2> QED BY <2>1, <1>5, <1>6
<1>8. ASSUME NEW j \in i + 1 .. Len(h) - 1 PROVE g[j] = h[j + 1]
  <2>1. j - i \in 1 .. Len(h) - (i + 1) /\ i - 1 + 1 + (j - i) = j /\ (i + 1) + (j - i) = j + 1
    OBVIOUS
  <2> QED BY <2>1, <1>5, <1>6
<1>9. Joined(h, g, i)
  BY <1>6, <1>7, <1>8 DEF Joined, x, s
<1> QED BY <1>6, <1>9 DEF g

----------------------------------------------------------------------------
(* What is reserved: place, size and owner *)

Entry(h, i) == <<Start(h, i), h[i].size, h[i].of>>
Used(h)     == {i \in 1 .. Len(h) : h[i].of # "free"}
Res(h)      == {Entry(h, i) : i \in Used(h)}

\* No two nodes begin at the same place.
LEMMA StartsDiffer ==
  ASSUME NEW h \in Seq(NodeSet), NEW i \in 1 .. Len(h), NEW j \in 1 .. Len(h),
         Start(h, i) = Start(h, j)
  PROVE  i = j
<1>1. Len(h) \in Nat /\ i - 1 \in 0 .. Len(h) /\ j - 1 \in 0 .. Len(h)
  OBVIOUS
<1>2. Ends(h)[i - 1] = Ends(h)[j - 1] /\ Ends(h)[i - 1] \in Nat
  BY <1>1, EndsGrow DEF Start
<1>3. ~(i - 1 < j - 1) /\ ~(j - 1 < i - 1)
  BY <1>1, <1>2, EndsGrow
<1> QED BY <1>1, <1>3

LEMMA EntryFields ==
  ASSUME NEW h \in Seq(NodeSet), NEW i \in 1 .. Len(h)
  PROVE  /\ Entry(h, i)[1] = Start(h, i) /\ Entry(h, i)[2] = h[i].size
         /\ Entry(h, i)[3] = h[i].of
         /\ Start(h, i) \in Nat /\ h[i].size \in Nat /\ h[i].of \in Ofs
<1>1. i - 1 \in 0 .. Len(h)
  OBVIOUS
<1> QED BY <1>1, NodeFields, EndsGrow DEF Entry, Start, Ofs

LEMMA EntriesDiffer ==
  ASSUME NEW h \in Seq(NodeSet)
  PROVE  \A i, j \in 1 .. Len(h) : Entry(h, i) = Entry(h, j) => i = j
<1> SUFFICES ASSUME NEW i \in 1 .. Len(h), NEW j \in 1 .. Len(h), Entry(h, i) = Entry(h, j)
             PROVE  i = j
  OBVIOUS
<1>1. Start(h, i) = Start(h, j)
  BY EntryFields
<1> QED BY <1>1, StartsDiffer

LastEntry(h) == Entry(h, Len(h))

\* A rewritten entry, of the same size or the last: only its own triple goes.
RewriteResult(h, g, i, size, of) ==
  /\ Start(g, i) = Start(h, i) /\ Start(g, Len(g)) = Start(h, Len(h))
  /\ i < Len(h) => LastEntry(g) = LastEntry(h)
  /\ Res(g) = (Res(h) \ {Entry(h, i)}) \cup
              (IF of = "free" THEN {} ELSE {<<Start(h, i), size, of>>})
  /\ size = h[i].size => EndOf(g) = EndOf(h)
  /\ i = Len(h) => EndOf(g) = Start(h, i) + size + 1

LEMMA RewriteRes ==
  ASSUME NEW h \in Seq(NodeSet), NEW g \in Seq(NodeSet), NEW i \in 1 .. Len(h),
         NEW size \in Nat, NEW of \in Ofs,
         Rewritten(h, g, i, size, of), size = h[i].size \/ i = Len(h)
  PROVE  RewriteResult(h, g, i, size, of)
<1> DEFINE n == Len(h)
<1>0. n \in Nat /\ Len(g) = n /\ i \in 1 .. n
  BY DEF Rewritten
<1>1. g[i].size = size /\ g[i].of = of
  BY NodeTyped DEF Rewritten
<1>2. \A j \in 1 .. n : j # i => g[j] = h[j]
  BY DEF Rewritten
<1>3. Ends(h)[0] = Ends(g)[0]
  BY EndsAre
<1>4. \A j \in 0 .. i - 1 : Ends(h)[j] = Ends(g)[j]
  <2>1. \A j \in 1 .. i - 1 : h[0 + j].size = g[0 + j].size
    BY <1>0, <1>2
  <2>2. 0 \in 0 .. Len(h) /\ 0 \in 0 .. Len(g) /\ i - 1 \in Nat
        /\ 0 + (i - 1) <= Len(h) /\ 0 + (i - 1) <= Len(g)
    BY <1>0
  <2>3. \A j \in 0 .. i - 1 : Ends(h)[0 + j] = Ends(g)[0 + j]
    BY <2>1, <2>2, <1>3, SameRun
  <2> QED BY <2>3
<1>5. size = h[i].size => \A j \in 0 .. n : Ends(h)[j] = Ends(g)[j]
  <2> SUFFICES ASSUME size = h[i].size PROVE \A j \in 0 .. n : Ends(h)[j] = Ends(g)[j]
    OBVIOUS
  <2>1. \A j \in 1 .. n : h[0 + j].size = g[0 + j].size
    BY <1>0, <1>1, <1>2
  <2>2. 0 \in 0 .. Len(h) /\ 0 \in 0 .. Len(g)
        /\ 0 + n <= Len(h) /\ 0 + n <= Len(g)
    BY <1>0
  <2>3. \A j \in 0 .. n : Ends(h)[0 + j] = Ends(g)[0 + j]
    BY <2>1, <2>2, <1>0, <1>3, SameRun
  <2> QED BY <2>3
<1>6. \A j \in 1 .. n : Start(g, j) = Start(h, j)
  <2>1. CASE size = h[i].size
    BY <2>1, <1>0, <1>5 DEF Start
  <2>2. CASE i = n
    BY <2>2, <1>0, <1>4 DEF Start
  <2> QED BY <2>1, <2>2
<1>7. \A j \in 1 .. n : j # i => Entry(g, j) = Entry(h, j)
  BY <1>2, <1>6 DEF Entry
<1>8. Entry(g, i) = <<Start(h, i), size, of>>
  BY <1>1, <1>6 DEF Entry
<1>9. \A j \in 1 .. n : j # i => Entry(h, j) # Entry(h, i)
  BY EntriesDiffer
<1>10. \A j \in 1 .. n : j # i => (j \in Used(g) <=> j \in Used(h))
  BY <1>0, <1>2 DEF Used
<1>11. i \in Used(g) <=> of # "free"
  BY <1>0, <1>1 DEF Used
<1>12. Used(g) \subseteq 1 .. n /\ Used(h) \subseteq 1 .. n
  BY <1>0 DEF Used
<1> HIDE DEF n
<1>13. ASSUME NEW t \in Res(g)
       PROVE  \/ t \in Res(h) /\ t # Entry(h, i)
              \/ of # "free" /\ t = <<Start(h, i), size, of>>
  <2>1. PICK j \in Used(g) : t = Entry(g, j)
    BY <1>13 DEF Res
  <2>2. CASE j = i
    BY <2>1, <2>2, <1>8, <1>11
  <2>3. CASE j # i
    <3>1. j \in 1 .. n /\ j \in Used(h) /\ t = Entry(h, j) /\ t # Entry(h, i)
      BY <2>1, <2>3, <1>7, <1>9, <1>10, <1>12
    <3> QED BY <3>1 DEF Res
  <2> QED BY <2>2, <2>3
<1>14. ASSUME NEW t \in Res(h), t # Entry(h, i) PROVE t \in Res(g)
  <2>1. PICK j \in Used(h) : t = Entry(h, j)
    BY <1>14 DEF Res
  <2>2. j # i /\ j \in 1 .. n
    BY <2>1, <1>14, <1>12
  <2>3. j \in Used(g) /\ t = Entry(g, j)
    BY <2>1, <2>2, <1>7, <1>10
  <2> QED BY <2>3 DEF Res
<1>15. of # "free" => <<Start(h, i), size, of>> \in Res(g)
  BY <1>8, <1>11 DEF Res
<1>16. Res(g) = (Res(h) \ {Entry(h, i)}) \cup
                (IF of = "free" THEN {} ELSE {<<Start(h, i), size, of>>})
  BY <1>13, <1>14, <1>15
<1>17. size = h[i].size => EndOf(g) = EndOf(h)
  BY <1>0, <1>5 DEF EndOf, n
<1>18. i = n => EndOf(g) = Start(h, i) + size + 1
  <2>1. i = n => Ends(g)[i] = Ends(g)[i - 1] + g[i].size + 1
    BY <1>0, EndsAre
  <2>2. i = n => EndOf(g) = Ends(g)[i]
    BY <1>0 DEF EndOf
  <2>3. Ends(g)[i - 1] = Start(h, i)
    BY <1>0, <1>6 DEF Start
  <2> QED BY <2>1, <2>2, <2>3, <1>1
<1>19. Start(g, Len(g)) = Start(h, Len(h)) /\ (i < Len(h) => LastEntry(g) = LastEntry(h))
  BY <1>0, <1>6, <1>7 DEF LastEntry, n
<1> QED BY <1>0, <1>6, <1>16, <1>17, <1>18, <1>19 DEF RewriteResult, n

SplitResult(h, g, i, size, of, rest) ==
  /\ Start(g, i) = Start(h, i)
  /\ h[i].size = size + rest + 1 => EndOf(g) = EndOf(h)
  /\ i < Len(h) => LastEntry(g) = LastEntry(h)
  /\ i = Len(h) => Start(g, Len(g)) = Start(h, i) + size + 1
  /\ Res(g) = (Res(h) \ {Entry(h, i)}) \cup
              (IF of = "free" THEN {} ELSE {<<Start(h, i), size, of>>})

LEMMA SplitRes ==
  ASSUME NEW h \in Seq(NodeSet), NEW g \in Seq(NodeSet), NEW i \in 1 .. Len(h),
         NEW size \in Nat, NEW of \in Ofs, NEW rest \in Nat,
         i = Len(h) \/ h[i].size = size + rest + 1, SplitUp(h, g, i, size, of, rest)
  PROVE  SplitResult(h, g, i, size, of, rest)
<1> DEFINE n == Len(h)
<1>0. n \in Nat /\ Len(g) = n + 1 /\ i \in 1 .. n /\ i + 1 \in 1 .. n + 1 /\ h[i].size \in Nat
  BY NodeFields DEF SplitUp
<1>1. /\ g[i].size = size /\ g[i].of = of
      /\ g[i + 1].size = rest /\ g[i + 1].of = "free"
  BY <1>0 DEF SplitUp, Node
<1>2. /\ \A j \in 1 .. i - 1 : g[j] = h[j]
      /\ \A j \in i + 1 .. n : g[j + 1] = h[j]
  BY DEF SplitUp
<1> HIDE DEF n
<1>3. \A j \in 0 .. i - 1 : Ends(h)[j] = Ends(g)[j]
  <2>1. \A j \in 1 .. i - 1 : h[0 + j].size = g[0 + j].size
    BY <1>0, <1>2
  <2>2. 0 \in 0 .. Len(h) /\ 0 \in 0 .. Len(g) /\ i - 1 \in Nat
        /\ 0 + (i - 1) <= Len(h) /\ 0 + (i - 1) <= Len(g)
    BY <1>0 DEF n
  <2>3. Ends(h)[0] = Ends(g)[0]
    BY EndsAre
  <2>4. \A j \in 0 .. i - 1 : Ends(h)[0 + j] = Ends(g)[0 + j]
    BY <2>1, <2>2, <2>3, SameRun
  <2> QED BY <2>4
<1>31. Ends(g)[i] = Start(h, i) + size + 1
  <2>1. Ends(g)[i] = Ends(g)[i - 1] + g[i].size + 1
    BY <1>0, EndsAre
  <2>2. i - 1 \in 0 .. i - 1
    BY <1>0
  <2> QED BY <2>1, <2>2, <1>1, <1>3 DEF Start
<1>4. ASSUME h[i].size = size + rest + 1 PROVE Ends(h)[i] = Ends(g)[i + 1]
  <2>1. Ends(h)[i] = Ends(h)[i - 1] + h[i].size + 1
    BY EndsAre
  <2>2. Ends(g)[i] = Ends(g)[i - 1] + g[i].size + 1
    BY <1>0, EndsAre
  <2>3. Ends(g)[i + 1] = Ends(g)[i] + g[i + 1].size + 1
    <3>1. Ends(g)[i + 1] = Ends(g)[(i + 1) - 1] + g[i + 1].size + 1
      BY <1>0, EndsAre
    <3> QED BY <3>1
  <2>4. Ends(h)[i - 1] = Ends(g)[i - 1] /\ Ends(h)[i - 1] \in Nat
    <3>1. i - 1 \in 0 .. i - 1 /\ i - 1 \in 0 .. Len(h)
      BY <1>0 DEF n
    <3> QED BY <3>1, <1>3, EndsGrow
  <2> QED BY <2>1, <2>2, <2>3, <2>4, <1>0, <1>1, <1>4
<1>5. ASSUME h[i].size = size + rest + 1
      PROVE  \A j \in i .. n : Ends(h)[j] = Ends(g)[j + 1]
  <2>1. \A j \in 1 .. n - i : h[i + j].size = g[(i + 1) + j].size
    <3> SUFFICES ASSUME NEW j \in 1 .. n - i PROVE h[i + j] = g[(i + 1) + j]
      OBVIOUS
    <3>1. i + j \in i + 1 .. n /\ (i + j) + 1 = (i + 1) + j
      BY <1>0
    <3> QED BY <3>1, <1>2
  <2>2. i \in 0 .. Len(h) /\ i + 1 \in 0 .. Len(g) /\ n - i \in Nat
        /\ i + (n - i) <= Len(h) /\ (i + 1) + (n - i) <= Len(g)
    BY <1>0 DEF n
  <2>3. \A j \in 0 .. n - i : Ends(h)[i + j] = Ends(g)[(i + 1) + j]
    BY <2>1, <2>2, <1>4, <1>5, SameRun
  <2> SUFFICES ASSUME NEW j \in i .. n PROVE Ends(h)[j] = Ends(g)[j + 1]
    OBVIOUS
  <2>4. j - i \in 0 .. n - i /\ i + (j - i) = j /\ (i + 1) + (j - i) = j + 1
    BY <1>0
  <2> QED BY <2>3, <2>4
<1>6. /\ \A j \in 1 .. i : Start(g, j) = Start(h, j)
      /\ \A j \in i + 1 .. n : Start(g, j + 1) = Start(h, j)
  <2>1. ASSUME NEW j \in 1 .. i PROVE Start(g, j) = Start(h, j)
    BY <1>0, <1>3 DEF Start
  <2>2. ASSUME NEW j \in i + 1 .. n PROVE Start(g, j + 1) = Start(h, j)
    <3>1. j - 1 \in i .. n /\ (j - 1) + 1 = j /\ (j + 1) - 1 = j /\ i # n
      BY <1>0
    <3>2. h[i].size = size + rest + 1
      BY <3>1 DEF n
    <3> QED BY <3>1, <3>2, <1>5 DEF Start
  <2> QED BY <2>1, <2>2
<1>7. /\ \A j \in 1 .. i - 1 : Entry(g, j) = Entry(h, j)
      /\ \A j \in i + 1 .. n : Entry(g, j + 1) = Entry(h, j)
      /\ Entry(g, i) = <<Start(h, i), size, of>>
  <2>1. ASSUME NEW j \in 1 .. i - 1 PROVE Entry(g, j) = Entry(h, j)
    <3>1. g[j] = h[j] /\ Start(g, j) = Start(h, j)
      BY <1>0, <1>2, <1>6
    <3> QED BY <3>1 DEF Entry
  <2>2. ASSUME NEW j \in i + 1 .. n PROVE Entry(g, j + 1) = Entry(h, j)
    <3>1. g[j + 1] = h[j] /\ Start(g, j + 1) = Start(h, j)
      BY <1>0, <1>2, <1>6
    <3> QED BY <3>1 DEF Entry
  <2>3. Entry(g, i) = <<Start(h, i), size, of>>
    <3>1. Start(g, i) = Start(h, i)
      BY <1>0, <1>6
    <3> QED BY <3>1, <1>1 DEF Entry
  <2> QED BY <2>1, <2>2, <2>3
<1>8. \A j \in 1 .. n : j # i => Entry(h, j) # Entry(h, i)
  BY EntriesDiffer DEF n
<1>9. /\ \A j \in 1 .. i - 1 : j \in Used(g) <=> j \in Used(h)
      /\ \A j \in i + 1 .. n : j + 1 \in Used(g) <=> j \in Used(h)
      /\ i \in Used(g) <=> of # "free"
      /\ i + 1 \notin Used(g)
  <2>1. ASSUME NEW j \in 1 .. i - 1 PROVE j \in Used(g) <=> j \in Used(h)
    BY <1>0, <1>2, SMTT(30) DEF Used, n
  <2>2. ASSUME NEW j \in i + 1 .. n PROVE j + 1 \in Used(g) <=> j \in Used(h)
    <3>1. j + 1 \in 1 .. Len(g) /\ j \in 1 .. Len(h) /\ g[j + 1] = h[j]
      BY <1>0, <1>2 DEF n
    <3> QED BY <3>1 DEF Used
  <2> QED BY <2>1, <2>2, <1>0, <1>1 DEF Used
<1>10. Used(g) \subseteq 1 .. n + 1 /\ Used(h) \subseteq 1 .. n
  BY <1>0 DEF Used, n
<1>11. ASSUME NEW t \in Res(g)
       PROVE  \/ t \in Res(h) /\ t # Entry(h, i)
              \/ of # "free" /\ t = <<Start(h, i), size, of>>
  <2>1. PICK j \in Used(g) : t = Entry(g, j)
    BY <1>11 DEF Res
  <2>2. j \in 1 .. n + 1 /\ j # i + 1
    BY <1>9, <1>10
  <2>3. CASE j = i
    BY <2>1, <2>3, <1>7, <1>9
  <2>4. CASE j \in 1 .. i - 1
    <3>1. j \in 1 .. n /\ j # i /\ j \in Used(h) /\ t = Entry(h, j)
      BY <2>1, <2>4, <1>0, <1>7, <1>9
    <3>2. t # Entry(h, i)
      BY <3>1, <1>8
    <3> QED BY <3>1, <3>2 DEF Res
  <2>5. CASE j \in i + 2 .. n + 1
    <3> DEFINE k == j - 1
    <3>1. k \in i + 1 .. n /\ k + 1 = j
      BY <2>5, <1>0
    <3> HIDE DEF k
    <3>2. k \in 1 .. n /\ k # i /\ k \in Used(h) /\ t = Entry(h, k)
      BY <2>1, <3>1, <1>0, <1>7, <1>9
    <3>3. t # Entry(h, i)
      BY <3>2, <1>8
    <3> QED BY <3>2, <3>3 DEF Res
  <2>6. j = i \/ j \in 1 .. i - 1 \/ j \in i + 2 .. n + 1
    BY <2>2, <1>0
  <2> QED BY <2>3, <2>4, <2>5, <2>6
<1>12. ASSUME NEW t \in Res(h), t # Entry(h, i) PROVE t \in Res(g)
  <2>1. PICK j \in Used(h) : t = Entry(h, j)
    BY <1>12 DEF Res
  <2>2. j # i /\ j \in 1 .. n
    BY <2>1, <1>10, <1>12
  <2>3. CASE j \in 1 .. i - 1
    <3>1. j \in Used(g) /\ t = Entry(g, j)
      BY <2>1, <2>3, <1>7, <1>9
    <3> QED BY <3>1 DEF Res
  <2>4. CASE j \in i + 1 .. n
    <3>1. j + 1 \in Used(g) /\ t = Entry(g, j + 1)
      BY <2>1, <2>4, <1>7, <1>9
    <3> QED BY <3>1 DEF Res
  <2>5. j \in 1 .. i - 1 \/ j \in i + 1 .. n
    BY <2>2, <1>0
  <2> QED BY <2>3, <2>4, <2>5
<1>13. of # "free" => <<Start(h, i), size, of>> \in Res(g)
  BY <1>7, <1>9 DEF Res
<1>14. Res(g) = (Res(h) \ {Entry(h, i)}) \cup
                (IF of = "free" THEN {} ELSE {<<Start(h, i), size, of>>})
  BY <1>11, <1>12, <1>13
<1>15. Start(g, i) = Start(h, i)
  BY <1>0, <1>6
<1>16. h[i].size = size + rest + 1 => EndOf(g) = EndOf(h)
  BY <1>0, <1>5 DEF EndOf, n
<1>17. i < n => LastEntry(g) = LastEntry(h)
  <2>1. i < n => n \in i + 1 .. n
    BY <1>0
  <2> QED BY <2>1, <1>0, <1>7 DEF LastEntry, n
<1>18. i = n => Start(g, Len(g)) = Start(h, i) + size + 1
  <2>1. i = n => Len(g) - 1 = i
    BY <1>0
  <2> QED BY <2>1, <1>31 DEF Start
<1> QED BY <1>14, <1>15, <1>16, <1>17, <1>18 DEF SplitResult, n

LEMMA FreeIsNotRes ==
  ASSUME NEW h \in Seq(NodeSet), NEW i \in 1 .. Len(h), h[i].of = "free"
  PROVE  Entry(h, i) \notin Res(h)
<1>1. ASSUME NEW j \in Used(h) PROVE Entry(h, j) # Entry(h, i)
  <2>1. j \in 1 .. Len(h) /\ h[j].of # "free"
    BY DEF Used
  <2>2. Entry(h, j)[3] = h[j].of /\ Entry(h, i)[3] = "free"
    BY <2>1, EntryFields
  <2> QED BY <2>1, <2>2
<1> QED BY <1>1 DEF Res

\* To join two free nodes is to undo a split.  A sum that does not fit the
\* word can only be that of the last two.
JoinResult(h, g, i) ==
  /\ g \in Seq(NodeSet) /\ Len(g) = Len(h) - 1
  /\ Res(g) = Res(h) /\ Start(g, i) = Start(h, i)
  /\ EndOf(h) <= Word => EndOf(g) = EndOf(h)
  /\ i + 1 < Len(h) => LastEntry(g) = LastEntry(h)
  /\ Start(g, Len(g)) <= Start(h, Len(h))
  /\ g[i].of = "free"
  /\ \A j \in 1 .. i - 1 : g[j] = h[j]

LEMMA JoinRes ==
  ASSUME NEW h \in Seq(NodeSet), NEW i \in 1 .. Len(h) - 1,
         h[i].of = "free", h[i + 1].of = "free", Start(h, Len(h)) < Word
  PROVE  JoinResult(h, unify_fwd(h, i), i)
<1> DEFINE g == unify_fwd(h, i)
           a == h[i].size
           r == h[i + 1].size
<1>1. g \in Seq(NodeSet) /\ Joined(h, g, i)
  BY UnifyJoins
<1>2. /\ i \in 1 .. Len(h) /\ i + 1 \in 1 .. Len(h) /\ Len(g) = Len(h) - 1
      /\ i \in 1 .. Len(g) /\ Len(h) \in Nat
  BY <1>1 DEF Joined
<1>3. /\ h[i] = Node(a, "free") /\ a \in Nat
      /\ h[i + 1] = Node(r, "free") /\ r \in Nat
  BY <1>2, NodeFields
<1> HIDE DEF g
<1>4. g[i].size = (a + r + 1) % Word /\ g[i].of = "free"
  BY <1>1, <1>3 DEF Joined, Node
<1>5. \A j \in i + 1 .. Len(g) : h[j + 1] = g[j]
  BY <1>1, <1>2 DEF Joined
<1> HIDE DEF a, r
<1>6. a + r + 1 < Word => g[i].size = a + r + 1
  BY <1>3, <1>4, Modulo
<1>7. Ends(h)[i + 1] = Start(h, i) + a + r + 2 /\ Start(h, i) \in Nat
  <2>1. Ends(h)[i] = Ends(h)[i - 1] + h[i].size + 1
    BY <1>2, EndsAre
  <2>2. Ends(h)[i + 1] = Ends(h)[(i + 1) - 1] + h[i + 1].size + 1
    BY <1>2, EndsAre
  <2>3. (i + 1) - 1 = i /\ i - 1 \in 0 .. Len(h)
    BY <1>2
  <2>4. Ends(h)[i - 1] \in Nat
    BY <2>3, EndsGrow
  <2> QED BY <2>1, <2>2, <2>3, <2>4, <1>3 DEF Start, a, r
<1>8. i + 1 < Len(h) => a + r + 1 < Word
  <2> SUFFICES ASSUME i + 1 < Len(h) PROVE a + r + 1 < Word
    OBVIOUS
  <2>1. i + 1 \in 0 .. Len(h) /\ Len(h) - 1 \in 0 .. Len(h)
        /\ (i + 1 < Len(h) - 1 \/ i + 1 = Len(h) - 1)
    BY <1>2
  <2>2. Ends(h)[i + 1] <= Ends(h)[Len(h) - 1] /\ Ends(h)[Len(h) - 1] \in Nat
    BY <2>1, EndsGrow
  <2>3. Word \in Nat
    BY UmallocAssumption
  <2> QED BY <2>2, <2>3, <1>3, <1>7 DEF Start
<1>9. EndOf(h) <= Word => a + r + 1 < Word
  <2>1. i + 1 \in 0 .. Len(h) /\ (i + 1 < Len(h) \/ i + 1 = Len(h)) /\ Len(h) \in 0 .. Len(h)
    BY <1>2
  <2>2. Ends(h)[i + 1] <= Ends(h)[Len(h)] /\ Ends(h)[Len(h)] \in Nat
    BY <2>1, EndsGrow
  <2>3. Word \in Nat
    BY UmallocAssumption
  <2> QED BY <2>2, <2>3, <1>3, <1>7 DEF EndOf
<1>10. SplitUp(g, h, i, a, "free", r)
  <2>1. Len(h) = Len(g) + 1
    BY <1>2
  <2>2. \A j \in 1 .. i - 1 : h[j] = g[j]
    BY <1>1 DEF Joined
  <2> QED BY <2>1, <2>2, <1>3, <1>5 DEF SplitUp
<1>11. "free" \in Ofs /\ (i = Len(g) \/ g[i].size = a + r + 1)
  BY <1>2, <1>6, <1>8 DEF Ofs
<1>12. SplitResult(g, h, i, a, "free", r)
  BY <1>1, <1>2, <1>3, <1>10, <1>11, SplitRes
<1>13. Entry(g, i) \notin Res(g)
  BY <1>1, <1>2, <1>4, FreeIsNotRes
<1>14. Res(h) = Res(g) /\ Start(g, i) = Start(h, i)
  BY <1>12, <1>13 DEF SplitResult
<1>15. EndOf(h) <= Word => EndOf(g) = EndOf(h)
  BY <1>6, <1>9, <1>12 DEF SplitResult
<1>16. i + 1 < Len(h) => LastEntry(g) = LastEntry(h)
  BY <1>2, <1>12 DEF SplitResult
<1>17. Start(g, Len(g)) <= Start(h, Len(h))
  <2>1. CASE i < Len(g)
    <3>1. LastEntry(g) = LastEntry(h)
      BY <2>1, <1>12 DEF SplitResult
    <3>2. Len(g) \in 1 .. Len(g) /\ Len(h) \in 1 .. Len(h)
      BY <1>2
    <3>3. LastEntry(g)[1] = Start(g, Len(g)) /\ LastEntry(h)[1] = Start(h, Len(h))
          /\ Start(g, Len(g)) \in Nat
      BY <1>1, <3>2, EntryFields DEF LastEntry
    <3> QED BY <3>1, <3>3
  <2>2. CASE i = Len(g)
    <3>1. Start(h, Len(h)) = Start(g, i) + a + 1
      BY <2>2, <1>12 DEF SplitResult
    <3> QED BY <2>2, <3>1, <1>3, <1>7, <1>14
  <2> QED BY <2>1, <2>2, <1>2
<1> QED BY <1>1, <1>2, <1>4, <1>14, <1>15, <1>16, <1>17 DEF JoinResult, Joined, g

----------------------------------------------------------------------------
(* malloc *)

\* Every node of the block b, as NodeOf finds it, is the one that was added.
LEMMA NodeOfIs ==
  ASSUME NEW h \in Seq(NodeSet), NEW b, b # "free", NEW i \in 1 .. Len(h), h[i].of = b,
         \A t \in Res(h) : t[3] = b => t = Entry(h, i)
  PROVE  NodeOf(h, b) = i
<1>1. ASSUME NEW j \in DOMAIN h, h[j].of = b PROVE j = i
  <2>1. j \in 1 .. Len(h)
    OBVIOUS
  <2>2. Entry(h, j) \in Res(h) /\ Entry(h, j)[3] = b
    BY <1>1, <2>1, EntryFields DEF Res, Used
  <2>3. Entry(h, j) = Entry(h, i)
    BY <2>2
  <2> QED BY <2>1, <2>3, EntriesDiffer
<1>2. i \in DOMAIN h
  OBVIOUS
<1> QED BY <1>1, <1>2 DEF NodeOf

\* A block of at least n units at x belongs to b, beside what was reserved.
Gained(R, h, n, b) ==
  \E i \in 1 .. Len(h), m \in Nat :
    /\ m >= n /\ h[i] = Node(m, b)
    /\ Res(h) = R \cup {<<Start(h, i), m, b>>}
    /\ <<Start(h, i), m, b>> \notin R

\* The heap sits in memory: its last header does, below the limit.
Sits(h, end, top) ==
  /\ h \in Seq(NodeSet) /\ end \in Nat /\ top \in Nat /\ top <= Limit
  /\ h # <<>> => Start(h, Len(h)) + 1 <= top

\* It fills it: the sizes are true.
Tight(h, end, top) == h # <<>> => EndOf(h) = end /\ end <= top

\* A last node that somebody has is the last afterwards.
KeepsLast(h, g) == h # <<>> /\ h[Len(h)].of # "free" => LastEntry(g) = LastEntry(h)

LEMMA EndOfLast ==
  ASSUME NEW h \in Seq(NodeSet), h # <<>>
  PROVE  /\ Len(h) \in 1 .. Len(h) /\ Len(h) \in Nat
         /\ EndOf(h) = Start(h, Len(h)) + h[Len(h)].size + 1
         /\ Start(h, Len(h)) \in Nat /\ h[Len(h)].size \in Nat /\ EndOf(h) \in Nat
<1> DEFINE k == Len(h)
<1>1. k \in 1 .. Len(h) /\ k \in Nat
  OBVIOUS
<1>2. Start(h, k) \in Nat /\ h[k].size \in Nat
  BY <1>1, EntryFields
<1>3. Ends(h)[k] = Ends(h)[k - 1] + h[k].size + 1
  BY <1>1, EndsAre
<1>4. EndOf(h) = Start(h, k) + h[k].size + 1
  BY <1>3 DEF EndOf, Start
<1> QED BY <1>1, <1>2, <1>4

\* Padding of a true size where sizes are true.
LEMMA RestIsTrue ==
  ASSUME NEW h, NEW end, NEW top, Sits(h, end, top), Tight(h, end, top),
         NEW i \in 1 .. Len(h), NEW n \in Nat, n < h[i].size
  PROVE  h[i].size = n + Rest(h, i, n, end) + 1
<1>1. h \in Seq(NodeSet) /\ end \in Nat /\ top \in Nat /\ top <= Limit
      /\ Limit \in Nat /\ Word \in Nat /\ Limit < Word
  BY UmallocAssumption DEF Sits
<1>2. h # <<>> /\ h[i].size \in Nat
  BY <1>1, NodeFields
<1>3. CASE i = Len(h)
  <2> DEFINE st == Start(h, i)
             d == end - (st + n + 2)
  <2>1. EndOf(h) = st + h[i].size + 1 /\ st \in Nat
    BY <1>1, <1>2, <1>3, EndOfLast
  <2>2. end = st + h[i].size + 1 /\ end < Word
    BY <2>1, <1>1, <1>2 DEF Tight
  <2>3. Rest(h, i, n, end) = d % Word
    BY <1>3 DEF Rest
  <2> HIDE DEF st
  <2>4. d = h[i].size - n - 1 /\ d \in Int /\ d >= 0 /\ d < Word
    <3>1. PICK z \in Nat : z = h[i].size
      BY <1>2
    <3>2. st \in Nat /\ end = st + z + 1 /\ n < z /\ end < Word
      BY <2>1, <2>2, <3>1
    <3>3. end \in Nat /\ Word \in Nat
      BY <1>1
    <3>4. d = z - n - 1 /\ d \in Int /\ d >= 0 /\ d < Word
      BY <3>2, <3>3
    <3> QED BY <3>1, <3>4
  <2> HIDE DEF d
  <2>5. d % Word = d
    BY <2>4, Modulo
  <2> QED BY <2>3, <2>4, <2>5, <1>2
<1>4. CASE i # Len(h)
  <2>1. Rest(h, i, n, end) = h[i].size - n - 1
    BY <1>4 DEF Rest
  <2> QED BY <2>1, <1>2
<1> QED BY <1>3, <1>4

\* What create_padding_node makes of a heap that sits in memory.
PadResult(h, g, i, n, of, end, top) ==
  /\ Sits(g, end, top) /\ g # <<>> /\ Len(g) = Len(h) + 1 /\ g[i] = Node(n, of)
  /\ Tight(h, end, top) => Tight(g, end, top)
  /\ Start(g, i) = Start(h, i)
  /\ i < Len(h) => LastEntry(g) = LastEntry(h)
  /\ Res(g) = (Res(h) \ {Entry(h, i)}) \cup
              (IF of = "free" THEN {} ELSE {<<Start(h, i), n, of>>})

\* With the node marked or left as it was.
LEMMA PadRes ==
  ASSUME NEW h, NEW end, NEW top, Sits(h, end, top), NEW i \in 1 .. Len(h), NEW n \in Nat,
         n < h[i].size, PaddingThere(h, i, n, top), NEW of \in Ofs, NEW g \in Seq(NodeSet),
         SplitUp(h, g, i, n, of, Rest(h, i, n, end))
  PROVE  PadResult(h, g, i, n, of, end, top)
<1> DEFINE r == Rest(h, i, n, end)
<1>1. h \in Seq(NodeSet) /\ end \in Nat /\ top \in Nat /\ top <= Limit
      /\ h[i].size \in Nat /\ Start(h, i) \in Nat
  BY EntryFields DEF Sits
<1>2. r \in Nat /\ (i = Len(h) \/ h[i].size = n + r + 1)
  BY <1>1, PaddingSplits
<1>3. Tight(h, end, top) => h[i].size = n + r + 1
  BY RestIsTrue
<1> HIDE DEF r
<1>4. SplitResult(h, g, i, n, of, r)
  BY <1>1, <1>2, SplitRes DEF r
<1>5. Len(g) = Len(h) + 1 /\ g[i] = Node(n, of)
  BY DEF SplitUp
<1>6. g # <<>> /\ h # <<>>
  BY <1>5, <1>1
<1>7. Start(g, Len(g)) + 1 <= top
  <2>1. CASE i < Len(h)
    <3>1. LastEntry(g) = LastEntry(h)
      BY <2>1, <1>4 DEF SplitResult
    <3>2. Len(g) \in 1 .. Len(g) /\ Len(h) \in 1 .. Len(h)
      BY <1>1, <1>5
    <3>3. LastEntry(g)[1] = Start(g, Len(g)) /\ LastEntry(h)[1] = Start(h, Len(h))
      BY <1>1, <3>2, EntryFields DEF LastEntry
    <3> QED BY <3>1, <3>3, <1>6 DEF Sits
  <2>2. CASE i = Len(h)
    <3>1. Start(g, Len(g)) = Start(h, i) + n + 1
      BY <2>2, <1>4 DEF SplitResult
    <3>2. Start(h, i) + n + 2 <= top
      BY <2>2, <1>1 DEF PaddingThere
    <3> QED BY <3>1, <3>2, <1>1
  <2> QED BY <2>1, <2>2, <1>1
<1>8. Sits(g, end, top)
  BY <1>1, <1>7 DEF Sits
<1>9. Tight(h, end, top) => Tight(g, end, top)
  BY <1>3, <1>4, <1>6 DEF Tight, SplitResult
<1> QED BY <1>4, <1>5, <1>6, <1>8, <1>9 DEF PadResult, SplitResult

ReserveResult(h, r, n, b, end, top) ==
  /\ Sits(r, end, top) /\ r # <<>>
  /\ Tight(h, end, top) => Tight(r, end, top)
  /\ KeepsLast(h, r)
  /\ (\A t \in Res(h) : t[3] # b) => Gained(Res(h), r, n, b)

LEMMA ReserveRes ==
  ASSUME NEW h, NEW end, NEW top, Sits(h, end, top), NEW n \in Nat, Fits(h, n) # {},
         NEW b \in Ofs, b # "free", PaddingThere(h, Min(Fits(h, n)), n, top)
  PROVE  ReserveResult(h, Reserve(h, n, b, end), n, b, end, top)
<1> DEFINE i == Min(Fits(h, n))
           r == Reserve(h, n, b, end)
<1>0. h \in Seq(NodeSet) /\ end \in Nat /\ top \in Nat
  BY DEF Sits
<1>1. Fits(h, n) \in SUBSET Nat
  BY <1>0 DEF Fits
<1>2. i \in Fits(h, n)
  BY <1>1, LeastOf
<1>3. i \in 1 .. Len(h) /\ h[i].of = "free" /\ h[i].size >= n /\ h[i].size \in Nat
  <2>1. i \in 1 .. Len(h) /\ h[i].of = "free" /\ h[i].size >= n
    BY <1>0, <1>2 DEF Fits
  <2> HIDE DEF i
  <2> QED BY <2>1, <1>0, NodeFields
<1>4. r = [(IF h[i].size > n THEN create_padding_node(h, i, n, end) ELSE h) EXCEPT ![i].of = b]
  BY DEF Reserve
<1>41. PaddingThere(h, i, n, top)
  OBVIOUS
<1> HIDE DEF i, r
<1>5. Entry(h, i) \notin Res(h)
  BY <1>0, <1>3, FreeIsNotRes
<1>51. h[Len(h)].of # "free" => i < Len(h)
  BY <1>0, <1>3
<1>6. CASE h[i].size > n
  <2> DEFINE g == create_padding_node(h, i, n, end)
             z == Rest(h, i, n, end)
  <2>1. g \in Seq(NodeSet) /\ SplitUp(h, g, i, n, h[i].of, z)
    BY <1>0, <1>3, <1>6, PaddingSplits
  <2>2. r = [g EXCEPT ![i].of = b]
    BY <1>4, <1>6
  <2> HIDE DEF g, z
  <2>3. /\ Len(g) = Len(h) + 1 /\ i \in 1 .. Len(g) /\ i + 1 \in 1 .. Len(g)
        /\ g[i] = Node(n, "free")
    BY <2>1, <1>0, <1>3 DEF SplitUp
  <2>4. g[i].size = n
    BY <2>3 DEF Node
  <2>5. r \in Seq(NodeSet) /\ Rewritten(g, r, i, n, b)
    BY <2>1, <2>2, <2>3, <2>4, SetOf
  <2>6. SplitUp(h, r, i, n, b, z)
    <3>1. Len(r) = Len(h) + 1 /\ r[i] = Node(n, b)
      BY <2>3, <2>5 DEF Rewritten
    <3>2. \A j \in 1 .. i - 1 : r[j] = h[j]
      BY <2>1, <2>3, <2>5, <1>3 DEF Rewritten, SplitUp
    <3>3. r[i + 1] = Node(z, "free")
      BY <2>1, <2>3, <2>5, <1>3 DEF Rewritten, SplitUp
    <3>4. ASSUME NEW j \in i + 1 .. Len(h) PROVE r[j + 1] = h[j]
      <4>1. j + 1 \in 1 .. Len(g) /\ j + 1 # i
        BY <2>3, <1>0, <1>3
      <4> QED BY <4>1, <2>1, <2>5 DEF Rewritten, SplitUp
    <3> QED BY <3>1, <3>2, <3>3, <3>4 DEF SplitUp
  <2>7. PadResult(h, r, i, n, b, end, top)
    <3>1. n < h[i].size
      BY <1>3, <1>6
    <3> QED BY <3>1, <2>5, <2>6, <1>3, <1>41, PadRes DEF z
  <2>8. Len(r) = Len(h) + 1 /\ r[i] = Node(n, b) /\ i \in 1 .. Len(r) /\ r # <<>>
    <3>1. Len(r) = Len(h) + 1 /\ r[i] = Node(n, b)
      BY <2>6 DEF SplitUp
    <3> QED BY <3>1, <1>0, <1>3, <2>5
  <2>9. Res(r) = Res(h) \cup {<<Start(r, i), n, b>>}
    BY <2>7, <1>5 DEF PadResult
  <2>10. ASSUME \A t \in Res(h) : t[3] # b PROVE Gained(Res(h), r, n, b)
    <3>1. <<Start(r, i), n, b>> \notin Res(h)
      BY <2>10
    <3>2. n >= n
      OBVIOUS
    <3> QED BY <3>1, <3>2, <2>8, <2>9 DEF Gained
  <2>11. KeepsLast(h, r)
    BY <2>7, <1>51 DEF PadResult, KeepsLast
  <2>12. ReserveResult(h, r, n, b, end, top)
    BY <2>7, <2>8, <2>10, <2>11 DEF PadResult, ReserveResult
  <2> QED BY <2>12 DEF r
<1>7. CASE ~(h[i].size > n)
  <2> DEFINE m == h[i].size
  <2>1. r = [h EXCEPT ![i].of = b]
    BY <1>4, <1>7
  <2>2. r \in Seq(NodeSet) /\ Rewritten(h, r, i, m, b)
    BY <2>1, <1>0, <1>3, SetOf
  <2>3. RewriteResult(h, r, i, m, b)
    BY <2>2, <1>0, <1>3, RewriteRes
  <2>4. Len(r) = Len(h) /\ r[i] = Node(m, b) /\ i \in 1 .. Len(r) /\ r # <<>> /\ h # <<>>
    <3>1. Len(r) = Len(h) /\ r[i] = Node(m, b)
      BY <2>2 DEF Rewritten
    <3> QED BY <3>1, <1>0, <1>3, <2>2
  <2>5. Res(r) = Res(h) \cup {<<Start(r, i), m, b>>}
    BY <2>3, <1>5 DEF RewriteResult
  <2>6. m \in Nat /\ m >= n
    BY <1>3
  <2> HIDE DEF m
  <2>7. ASSUME \A t \in Res(h) : t[3] # b PROVE Gained(Res(h), r, n, b)
    <3>1. <<Start(r, i), m, b>> \notin Res(h)
      BY <2>7
    <3> QED BY <3>1, <2>4, <2>5, <2>6 DEF Gained
  <2>8. EndOf(r) = EndOf(h)
    BY <2>3 DEF RewriteResult, m
  <2>9. Sits(r, end, top)
    BY <2>2, <2>3, <2>4 DEF Sits, RewriteResult
  <2>10. Tight(h, end, top) => Tight(r, end, top)
    BY <2>4, <2>8 DEF Tight
  <2>11. KeepsLast(h, r)
    BY <2>3, <1>51 DEF RewriteResult, KeepsLast
  <2>12. ReserveResult(h, r, n, b, end, top)
    BY <2>4, <2>7, <2>9, <2>10, <2>11 DEF ReserveResult
  <2> QED BY <2>12 DEF r
<1> QED BY <1>3, <1>6, <1>7

\* sbrk and brk give at least what they are asked for.
LEMMA PagesSuffice ==
  ASSUME NEW n \in Nat
  PROVE  PageUp(n) \in Nat /\ PageUp(n) >= n
<1> DEFINE d == PageSize
           m == n + d - 1
           q == m \div d
           r == m % d
<1>1. d \in Nat /\ d > 0 /\ m \in Nat
  BY UmallocAssumption
<1> HIDE DEF d, m
<1>2. q \in Nat /\ r \in 0 .. d - 1 /\ m = d * q + r
  <2>1. r \in 0 .. d - 1
    BY <1>1, SMT
  <2>2. q \in Int /\ m = d * q + r
    BY <1>1, SMT
  <2>3. q >= 0
    BY <1>1, SMT
  <2> QED BY <2>1, <2>2, <2>3
<1>3. PageUp(n) = q * d
  BY DEF PageUp, m, d
<1> HIDE DEF q, r
<1>4. q * d \in Nat /\ q * d = d * q
  BY <1>1, <1>2, SMT
<1>5. q * d >= n
  BY <1>1, <1>2, <1>4 DEF m
<1> QED BY <1>3, <1>4, <1>5

LEMMA EmptyHeap == Res(<<>>) = {}
<1>1. Len(<<>>) = 0
  OBVIOUS
<1>2. Used(<<>>) = {}
  BY <1>1 DEF Used
<1> QED BY <1>2 DEF Res

\* The heap as malloc finds it.
HeapSits == Sits(heap, heap_end, brk_end)
HeapTight == Tight(heap, heap_end, brk_end)

\* The last node has another size: nobody's, or larger if sizes were true.
Resized(h, g, tight) ==
  \/ Res(g) = Res(h) /\ LastEntry(h) \notin Res(h)
  \/ /\ LastEntry(h) \in Res(h)
     /\ Res(g) = (Res(h) \ {LastEntry(h)}) \cup {LastEntry(g)}
     /\ LastEntry(g)[1] = LastEntry(h)[1] /\ LastEntry(g)[3] = LastEntry(h)[3]
     /\ LastEntry(g)[2] \in Nat
     /\ tight => LastEntry(g)[2] >= LastEntry(h)[2]

AllocResult(o, n, b) ==
  /\ Sits(o.nodes, o.end, o.brk) /\ o.ret \in {"block", "null", "pad"}
  /\ HeapTight => Tight(o.nodes, o.end, o.brk)
  /\ o.ret = "block" =>
       /\ o.nodes # <<>> /\ Gained(Res(heap), o.nodes, n, b)
       /\ KeepsLast(heap, o.nodes)
  /\ o.ret # "block" => o.nodes = heap \/ Resized(heap, o.nodes, HeapTight)

LEMMA ResultOf ==
  ASSUME NEW h, NEW end, NEW top, NEW rv \in {"block", "null", "pad"}, NEW n, NEW b,
         Sits(h, end, top), HeapTight => Tight(h, end, top),
         rv = "block" => h # <<>> /\ Gained(Res(heap), h, n, b) /\ KeepsLast(heap, h),
         rv # "block" => h = heap \/ Resized(heap, h, HeapTight)
  PROVE  AllocResult(Outcome(h, end, top, rv), n, b)
<1> DEFINE o == Outcome(h, end, top, rv)
<1>1. o.nodes = h /\ o.end = end /\ o.brk = top /\ o.ret = rv
  BY DEF Outcome
<1> HIDE DEF o
<1>2. AllocResult(o, n, b)
  BY <1>1, Zenon DEF AllocResult
<1> QED BY <1>2 DEF o

\* Nothing but the break has moved.
LEMMA NothingGiven ==
  ASSUME HeapSits, NEW n, NEW b, NEW rv \in {"null", "pad"}, NEW top \in brk_end .. Limit
  PROVE  AllocResult(Outcome(heap, heap_end, top, rv), n, b)
<1>1. heap \in Seq(NodeSet) /\ heap_end \in Nat /\ brk_end \in Nat /\ Limit \in Nat
  BY UmallocAssumption DEF HeapSits, Sits
<1>2. top \in Nat /\ top <= Limit /\ brk_end <= top
  BY <1>1
<1>3. Sits(heap, heap_end, top)
  <2>1. heap # <<>> => Start(heap, Len(heap)) + 1 <= top
    <3>1. heap # <<>> => Start(heap, Len(heap)) \in Nat
      BY <1>1, EndOfLast
    <3> QED BY <3>1, <1>1, <1>2 DEF HeapSits, Sits
  <2> QED BY <2>1, <1>1, <1>2 DEF Sits
<1>4. HeapTight => Tight(heap, heap_end, top)
  BY <1>1, <1>2 DEF HeapTight, Tight
<1>5. rv # "block" /\ rv \in {"block", "null", "pad"}
  OBVIOUS
<1> QED BY <1>3, <1>4, <1>5, ResultOf

LEMMA FirstAlloc ==
  ASSUME NEW n \in Nat, NEW b \in Ofs, b # "free", heap = <<>>,
         PageUp(PageSize + n) <= Limit
  PROVE  LET f == PageUp(PageSize + n)
         IN  AllocResult(Outcome(Reserve(<<Node(f - 1, "free")>>, n, b, f), f, f, "block"), n, b)
<1> DEFINE f == PageUp(PageSize + n)
           x == Node(f - 1, "free")
           h == <<x>>
           g == Reserve(h, n, b, f)
<1>1. PageSize + n \in Nat /\ PageSize >= 1 /\ PageSize \in Nat
  BY UmallocAssumption
<1>2. f \in Nat /\ f >= PageSize + n /\ f <= Limit
  BY <1>1, PagesSuffice
<1> HIDE DEF f
<1>3. f - 1 \in Nat /\ f - 1 >= n /\ "free" \in Ofs
  BY <1>1, <1>2 DEF Ofs
<1>4. x \in NodeSet /\ x.size = f - 1 /\ x.of = "free"
  BY <1>3, NodeTyped
<1> HIDE DEF x
<1>5. h \in Seq(NodeSet) /\ Len(h) = 1 /\ h[1] = x /\ DOMAIN h = 1 .. 1 /\ h # <<>>
  BY <1>4
<1> HIDE DEF h
<1>6. Fits(h, n) = {1}
  BY <1>3, <1>4, <1>5 DEF Fits
<1>7. EndOf(h) = f /\ Start(h, 1) = 0
  <2>1. Ends(h)[0] = 0 /\ \A i \in 1 .. 1 : Ends(h)[i] = Ends(h)[i - 1] + h[i].size + 1
    BY <1>5, EndsAre
  <2>2. Ends(h)[1] = Ends(h)[1 - 1] + h[1].size + 1 /\ 1 - 1 = 0
    BY <2>1
  <2> QED BY <2>1, <2>2, <1>2, <1>4, <1>5 DEF EndOf, Start
<1>8. Res(h) = {}
  BY <1>4, <1>5 DEF Res, Used
<1>9. Sits(h, f, f) /\ Tight(h, f, f)
  BY <1>2, <1>3, <1>5, <1>7 DEF Sits, Tight
<1>10. PaddingThere(h, Min(Fits(h, n)), n, f)
  <2>1. Min({1}) = 1
    BY LeastOf
  <2>2. h[1].size = n \/ Start(h, 1) + n + 2 <= f
    BY <1>2, <1>3, <1>4, <1>5, <1>7
  <2> QED BY <2>1, <2>2, <1>6 DEF PaddingThere
<1>11. ReserveResult(h, g, n, b, f, f)
  BY <1>6, <1>9, <1>10, ReserveRes
<1>12. Res(heap) = {}
  BY EmptyHeap
<1> HIDE DEF g
<1>13. AllocResult(Outcome(g, f, f, "block"), n, b)
  <2>1. Res(h) = Res(heap)
    BY <1>8, <1>12
  <2>2. Gained(Res(heap), g, n, b)
    BY <1>8, <1>11, <2>1 DEF ReserveResult
  <2>3. KeepsLast(heap, g)
    BY DEF KeepsLast
  <2>4. Sits(g, f, f) /\ Tight(g, f, f) /\ g # <<>>
    BY <1>9, <1>11 DEF ReserveResult
  <2> QED BY <2>2, <2>3, <2>4, ResultOf
<1> QED BY <1>13 DEF f, x, h, g

\* The last node enlarged to the kernel's break.
GrownResult(h, g, top, n) ==
  /\ Sits(g, top, top) /\ g # <<>> /\ Tight(g, top, top)
  /\ Resized(h, g, HeapTight)
  /\ Fits(h, n) = {} /\ Fits(g, n) # {} =>
       /\ h[Len(h)].of = "free" /\ Res(g) = Res(h)
       /\ PaddingThere(g, Min(Fits(g, n)), n, top)

LEMMA GrownRes ==
  ASSUME HeapSits, heap # <<>>, NEW n \in Nat, NEW top \in Nat, brk_end <= top, top <= Limit,
         HeapTight => heap[Len(heap)].size <= top - Start(heap, Len(heap)) - 1
  PROVE  GrownResult(heap, Grown(heap, top), top, n)
<1> DEFINE k == Len(heap)
           z == heap[k].size
           st == Start(heap, k)
           size == top - st - 1
           g == Grown(heap, top)
<1>1. heap \in Seq(NodeSet) /\ k \in 1 .. Len(heap) /\ k \in Nat /\ brk_end \in Nat
      /\ st + 1 <= brk_end
  BY DEF HeapSits, Sits
<1>2. z \in Nat /\ heap[k].of \in Ofs /\ st \in Nat
  BY <1>1, EntryFields
<1>3. size \in Nat /\ size + st + 1 = top /\ (HeapTight => z <= size)
  <2>1. HeapTight => z <= size
    OBVIOUS
  <2> HIDE DEF k, st, z
  <2> QED BY <2>1, <1>1, <1>2
<1>4. g = [heap EXCEPT ![k].size = size]
  BY DEF Grown
<1> HIDE DEF k, z, st, g, size
<1>5. g \in Seq(NodeSet) /\ Rewritten(heap, g, k, size, heap[k].of)
  BY <1>1, <1>3, <1>4, SetSize
<1>6. RewriteResult(heap, g, k, size, heap[k].of)
  BY <1>1, <1>2, <1>3, <1>5, RewriteRes DEF k
<1>7. EndOf(g) = top
  <2>1. EndOf(g) = Start(heap, k) + size + 1
    BY <1>6 DEF RewriteResult, k
  <2> QED BY <2>1, <1>2, <1>3 DEF st
<1>8. Len(g) = k /\ g[k] = Node(size, heap[k].of) /\ g # <<>>
      /\ \A j \in 1 .. k : j # k => g[j] = heap[j]
  <2>1. Len(g) = k /\ g[k] = Node(size, heap[k].of)
        /\ \A j \in 1 .. k : j # k => g[j] = heap[j]
    BY <1>5 DEF Rewritten, k
  <2> QED BY <2>1, <1>1, <1>5
<1>9. Start(g, k) = st
  BY <1>6 DEF RewriteResult, st
<1>10. Sits(g, top, top) /\ Tight(g, top, top)
  BY <1>1, <1>2, <1>3, <1>5, <1>7, <1>8, <1>9 DEF Sits, Tight
<1>11. g[k].size = size /\ g[k].of = heap[k].of
  BY <1>8 DEF Node
<1>12. LastEntry(g)[1] = st /\ LastEntry(g)[2] = size /\ LastEntry(g)[3] = heap[k].of
       /\ LastEntry(g) = <<st, size, heap[k].of>>
  BY <1>8, <1>9, <1>11 DEF LastEntry, Entry
<1>13. LastEntry(heap)[1] = st /\ LastEntry(heap)[2] = z /\ LastEntry(heap)[3] = heap[k].of
  BY <1>1, EntryFields DEF LastEntry, k, st, z
<1>14. heap[k].of = "free" => Res(g) = Res(heap) /\ LastEntry(heap) \notin Res(heap)
  <2> SUFFICES ASSUME heap[k].of = "free"
               PROVE  Res(g) = Res(heap) /\ LastEntry(heap) \notin Res(heap)
    OBVIOUS
  <2>1. Entry(heap, k) \notin Res(heap)
    BY <1>1, FreeIsNotRes
  <2>2. Res(g) = Res(heap)
    BY <2>1, <1>6 DEF RewriteResult
  <2> QED BY <2>1, <2>2 DEF LastEntry, k
<1>15. Resized(heap, g, HeapTight)
  <2>1. CASE heap[k].of = "free"
    BY <2>1, <1>14 DEF Resized
  <2>2. CASE heap[k].of # "free"
    <3>1. LastEntry(heap) \in Res(heap)
      BY <2>2, <1>1 DEF Res, Used, LastEntry, k
    <3>2. Res(g) = (Res(heap) \ {LastEntry(heap)}) \cup {LastEntry(g)}
      BY <2>2, <1>6, <1>12 DEF RewriteResult, LastEntry, k, st
    <3>3. HeapTight => LastEntry(g)[2] >= LastEntry(heap)[2]
      BY <1>2, <1>3, <1>12, <1>13
    <3> QED BY <3>1, <3>2, <3>3, <1>3, <1>12, <1>13 DEF Resized
  <2> QED BY <2>1, <2>2
<1>16. ASSUME Fits(heap, n) = {}, Fits(g, n) # {}
       PROVE  /\ heap[k].of = "free" /\ Res(g) = Res(heap)
              /\ PaddingThere(g, Min(Fits(g, n)), n, top)
  <2>1. ASSUME NEW j \in Fits(g, n) PROVE j = k
    <3>1. j \in 1 .. k /\ g[j].of = "free" /\ g[j].size >= n
      BY <1>5, <1>8 DEF Fits
    <3>2. j # k => j \in Fits(heap, n)
      BY <3>1, <1>1, <1>8 DEF Fits, k
    <3> QED BY <3>2, <1>16
  <2>2. Fits(g, n) = {k}
    BY <2>1, <1>16
  <2>3. k \in Fits(g, n)
    BY <2>2
  <2>4. heap[k].of = "free" /\ size >= n
    BY <2>3, <1>11 DEF Fits
  <2>5. Min({k}) = k
    <3>1. {k} \in SUBSET Nat /\ k \in {k} /\ \A y \in {k} : k <= y
      BY <1>1
    <3> QED BY <3>1, MinIs
  <2>6. PaddingThere(g, k, n, top)
    <3>1. size = n \/ st + n + 2 <= top
      BY <2>4, <1>2, <1>3
    <3> QED BY <3>1, <1>9, <1>11 DEF PaddingThere
  <2> QED BY <2>2, <2>4, <2>5, <2>6, <1>14
<1> QED BY <1>8, <1>10, <1>15, <1>16 DEF GrownResult, g, k

LEMMA AllocsAre ==
  ASSUME HeapSits, NEW n \in Nat, NEW b \in Ofs, b # "free",
         \A t \in Res(heap) : t[3] # b, NEW o \in Allocs(n, b)
  PROVE  AllocResult(o, n, b)
<1> DEFINE last == Len(heap)
           first == Min(Fits(heap, n))
           fresh == PageUp(PageSize + n)
           top == brk_end + PageUp(n - heap[last].size)
<1>0. heap \in Seq(NodeSet) /\ heap_end \in Nat /\ brk_end \in Nat /\ brk_end <= Limit
      /\ Limit \in Nat
  BY UmallocAssumption DEF HeapSits, Sits
<1>1. /\ AllocResult(Outcome(heap, heap_end, brk_end, "null"), n, b)
      /\ AllocResult(Outcome(heap, heap_end, brk_end, "pad"), n, b)
  <2>1. brk_end \in brk_end .. Limit
    BY <1>0
  <2> QED BY <2>1, NothingGiven
<1>2. CASE heap = <<>>
  <2>1. \/ o = Outcome(heap, heap_end, brk_end, "null")
        \/ /\ ~(fresh > Limit)
           /\ o = Outcome(Reserve(<<Node(fresh - 1, "free")>>, n, b, fresh), fresh, fresh, "block")
    BY <1>2 DEF Allocs
  <2>2. ASSUME ~(fresh > Limit)
        PROVE  AllocResult(Outcome(Reserve(<<Node(fresh - 1, "free")>>, n, b, fresh),
                                   fresh, fresh, "block"), n, b)
    <3>1. PageSize + n \in Nat
      BY UmallocAssumption
    <3>2. fresh \in Nat
      BY <3>1, PagesSuffice
    <3>3. fresh <= Limit
      BY <2>2, <3>2, <1>0
    <3> QED BY <3>3, <1>2, FirstAlloc
  <2> QED BY <2>1, <2>2, <1>1
<1>3. CASE heap # <<>> /\ Fits(heap, n) # {}
  <2> DEFINE g == Reserve(heap, n, b, heap_end)
  <2>1. \/ o = Outcome(heap, heap_end, brk_end, "pad")
        \/ PaddingThere(heap, first, n, brk_end) /\ o = Outcome(g, heap_end, brk_end, "block")
    BY <1>3 DEF Allocs
  <2>2. ASSUME PaddingThere(heap, first, n, brk_end)
        PROVE  AllocResult(Outcome(g, heap_end, brk_end, "block"), n, b)
    <3>1. ReserveResult(heap, g, n, b, heap_end, brk_end)
      BY <2>2, <1>3, ReserveRes DEF HeapSits
    <3> HIDE DEF g
    <3>2. Sits(g, heap_end, brk_end) /\ g # <<>> /\ KeepsLast(heap, g)
          /\ Gained(Res(heap), g, n, b) /\ (HeapTight => Tight(g, heap_end, brk_end))
      BY <3>1 DEF ReserveResult, HeapTight
    <3> QED BY <3>2, ResultOf
  <2> QED BY <2>1, <2>2, <1>1
<1>4. CASE heap # <<>> /\ Fits(heap, n) = {} /\ heap[last].size >= n
  <2>1. o = Outcome(heap, heap_end, brk_end, "null")
    BY <1>4 DEF Allocs
  <2> QED BY <2>1, <1>1
<1>5. CASE heap # <<>> /\ Fits(heap, n) = {} /\ ~(heap[last].size >= n)
  <2> DEFINE g == Grown(heap, top)
  <2>1. \/ \E t \in Partial(brk_end, top) : o = Outcome(heap, heap_end, t, "null")
        \/ ~(top > Limit) /\ Fits(g, n) = {} /\ o = Outcome(g, top, top, "null")
        \/ /\ ~(top > Limit) /\ Fits(g, n) # {}
           /\ o = Outcome(Reserve(g, n, b, top), top, top, "block")
    BY <1>5 DEF Allocs
  <2>2. CASE \E t \in Partial(brk_end, top) : o = Outcome(heap, heap_end, t, "null")
    <3>1. PICK t \in Partial(brk_end, top) : o = Outcome(heap, heap_end, t, "null")
      BY <2>2
    <3>2. t \in brk_end .. Limit
      BY DEF Partial
    <3> QED BY <3>1, <3>2, NothingGiven
  <2>3. CASE ~(top > Limit)
    <3>1. /\ last \in 1 .. Len(heap) /\ heap[last].size \in Nat /\ Start(heap, last) \in Nat
          /\ EndOf(heap) = Start(heap, last) + heap[last].size + 1
      BY <1>0, <1>5, EndOfLast
    <3>2. n - heap[last].size \in Nat /\ n - heap[last].size >= 0
      BY <3>1, <1>5
    <3>3. PageUp(n - heap[last].size) \in Nat
      BY <3>2, PagesSuffice
    <3>4. top \in Nat /\ brk_end <= top /\ top <= Limit
      <4> DEFINE p == PageUp(n - heap[last].size)
      <4> HIDE DEF p
      <4>1. p \in Nat /\ top = brk_end + p
        BY <3>3 DEF p
      <4> QED BY <4>1, <2>3, <1>0
    <3>5. HeapTight => heap[last].size <= top - Start(heap, last) - 1
      <4>1. HeapTight => EndOf(heap) <= brk_end
        BY <1>5 DEF HeapTight, Tight
      <4> HIDE DEF top
      <4> QED BY <4>1, <3>1, <3>4, <1>0
    <3> HIDE DEF top
    <3>6. GrownResult(heap, g, top, n)
      BY <3>4, <3>5, <1>5, GrownRes
    <3> HIDE DEF g
    <3>7. "null" # "block" /\ "block" = "block"
      OBVIOUS
    <3>8. CASE o = Outcome(g, top, top, "null")
      <4>1. Sits(g, top, top) /\ Tight(g, top, top) /\ Resized(heap, g, HeapTight)
        BY <3>6 DEF GrownResult
      <4>2. AllocResult(Outcome(g, top, top, "null"), n, b)
        BY <4>1, <3>7, ResultOf
      <4> QED BY <4>2, <3>8
    <3>9. CASE Fits(g, n) # {} /\ o = Outcome(Reserve(g, n, b, top), top, top, "block")
      <4> DEFINE r == Reserve(g, n, b, top)
      <4>1. /\ Sits(g, top, top) /\ Tight(g, top, top) /\ heap[last].of = "free"
            /\ Res(g) = Res(heap) /\ PaddingThere(g, Min(Fits(g, n)), n, top)
        BY <3>6, <3>9, <1>5 DEF GrownResult
      <4>2. ReserveResult(g, r, n, b, top, top)
        BY <3>9, <4>1, ReserveRes
      <4> HIDE DEF r
      <4>3. Sits(r, top, top) /\ Tight(r, top, top) /\ r # <<>> /\ Gained(Res(heap), r, n, b)
        BY <4>1, <4>2 DEF ReserveResult
      <4>4. KeepsLast(heap, r)
        BY <4>1 DEF KeepsLast
      <4>5. AllocResult(Outcome(r, top, top, "block"), n, b)
        BY <4>3, <4>4, <3>7, ResultOf
      <4> QED BY <4>5, <3>9 DEF r
    <3> QED BY <3>8, <3>9, <2>1, <2>2 DEF g, top
  <2> QED BY <2>1, <2>2, <2>3
<1> QED BY <1>2, <1>3, <1>4, <1>5

----------------------------------------------------------------------------
(* free *)

FreedResult(h, i, f) ==
  /\ f.nodes \in Seq(NodeSet) /\ f.nodes # <<>> /\ f.end = Start(h, i) + 1 + PageSize
  /\ Res(f.nodes) = Res(h) \ {Entry(h, i)}
  /\ EndOf(h) <= Word /\ ~f.last => EndOf(f.nodes) = EndOf(h)
  /\ f.last /\ ~f.stale => EndOf(f.nodes) = f.end
  /\ i < Len(h) /\ h[Len(h)].of # "free" => LastEntry(f.nodes) = LastEntry(h)
  /\ Start(f.nodes, Len(f.nodes)) <= Start(h, Len(h))
  /\ f.last => Start(f.nodes, Len(f.nodes)) <= Start(h, i)

\* The parts of it that a join with a neighbour has to keep: g is what the
\* heap h has become, with the freed node at place i, or joined to the one
\* before it.
Kin(h, i, g) ==
  /\ g \in Seq(NodeSet) /\ g # <<>> /\ Len(g) \in Nat
  /\ Res(g) = Res(h) \ {Entry(h, i)}
  /\ EndOf(h) <= Word => EndOf(g) = EndOf(h)
  /\ i < Len(h) /\ h[Len(h)].of # "free" => LastEntry(g) = LastEntry(h)
  /\ Start(g, Len(g)) <= Start(h, Len(h)) /\ Start(g, Len(g)) \in Nat

LEMMA MarkedKin ==
  ASSUME NEW h \in Seq(NodeSet), NEW i \in 1 .. Len(h)
  PROVE  LET m == [h EXCEPT ![i].of = "free"]
         IN  /\ Kin(h, i, m) /\ Len(m) = Len(h) /\ m[i].of = "free" /\ Start(m, i) = Start(h, i)
             /\ \A j \in 1 .. Len(h) : j # i => m[j] = h[j]
<1> DEFINE m == [h EXCEPT ![i].of = "free"]
<1>1. "free" \in Ofs /\ h[i].size \in Nat
  BY EntryFields DEF Ofs
<1>2. m \in Seq(NodeSet) /\ Rewritten(h, m, i, h[i].size, "free")
  BY <1>1, SetOf
<1> HIDE DEF m
<1>3. RewriteResult(h, m, i, h[i].size, "free")
  BY <1>1, <1>2, RewriteRes
<1>4. /\ Len(m) = Len(h) /\ m[i].of = "free" /\ m # <<>>
      /\ \A j \in 1 .. Len(h) : j # i => m[j] = h[j]
  <2>1. /\ Len(m) = Len(h) /\ m[i] = Node(h[i].size, "free")
        /\ \A j \in 1 .. Len(h) : j # i => m[j] = h[j]
    BY <1>2 DEF Rewritten
  <2>2. m[i].of = "free"
    BY <2>1 DEF Node
  <2> QED BY <2>1, <2>2, <1>2
<1>5. Start(m, Len(m)) = Start(h, Len(h)) /\ Start(m, Len(m)) \in Nat /\ Len(m) \in Nat
  <2>1. Start(m, Len(m)) \in Nat /\ Len(m) \in Nat
    BY <1>2, <1>4, EndOfLast
  <2> QED BY <2>1, <1>3 DEF RewriteResult
<1>6. Kin(h, i, m)
  BY <1>2, <1>3, <1>4, <1>5 DEF Kin, RewriteResult
<1> QED BY <1>3, <1>4, <1>6 DEF RewriteResult, m

\* Joining two free nodes of it.
LEMMA JoinedKin ==
  ASSUME NEW h \in Seq(NodeSet), NEW i \in 1 .. Len(h), NEW g, Kin(h, i, g),
         NEW k \in 1 .. Len(g) - 1, g[k].of = "free", g[k + 1].of = "free",
         Start(h, Len(h)) < Word,
         i < Len(h) /\ h[Len(h)].of # "free" => k + 1 < Len(g)
  PROVE  /\ Kin(h, i, unify_fwd(g, k)) /\ JoinResult(g, unify_fwd(g, k), k)
         /\ k \in 1 .. Len(unify_fwd(g, k))
<1> DEFINE j == unify_fwd(g, k)
<1>1. g \in Seq(NodeSet) /\ Len(g) \in Nat /\ Start(g, Len(g)) < Word
  <2>1. Word \in Nat /\ h # <<>>
    BY UmallocAssumption
  <2>2. Start(h, Len(h)) \in Nat
    BY <2>1, EndOfLast
  <2>3. Start(g, Len(g)) \in Nat /\ Start(g, Len(g)) <= Start(h, Len(h))
    BY DEF Kin
  <2>4. Start(g, Len(g)) < Word
    BY <2>1, <2>2, <2>3
  <2> QED BY <2>4 DEF Kin
<1>2. JoinResult(g, j, k)
  BY <1>1, JoinRes
<1> HIDE DEF j
<1>3. j \in Seq(NodeSet) /\ Len(j) = Len(g) - 1 /\ Len(j) \in Nat /\ k \in 1 .. Len(j)
  BY <1>1, <1>2 DEF JoinResult
<1>4. j # <<>>
  BY <1>3
<1>5. Start(j, Len(j)) \in Nat
  BY <1>3, <1>4, EndOfLast
<1>6. Start(j, Len(j)) <= Start(h, Len(h))
  <2>1. h # <<>>
    OBVIOUS
  <2>2. Start(h, Len(h)) \in Nat /\ Start(g, Len(g)) \in Nat
    BY <2>1, EndOfLast DEF Kin
  <2>3. Start(j, Len(j)) <= Start(g, Len(g)) /\ Start(g, Len(g)) <= Start(h, Len(h))
    BY <1>2 DEF Kin, JoinResult
  <2> QED BY <2>2, <2>3, <1>5
<1>7. EndOf(h) <= Word => EndOf(j) = EndOf(h)
  BY <1>2 DEF Kin, JoinResult
<1>8. i < Len(h) /\ h[Len(h)].of # "free" => LastEntry(j) = LastEntry(h)
  BY <1>2 DEF Kin, JoinResult
<1>9. Res(j) = Res(h) \ {Entry(h, i)}
  BY <1>2 DEF Kin, JoinResult
<1>10. Kin(h, i, j)
  BY <1>3, <1>4, <1>5, <1>6, <1>7, <1>8, <1>9 DEF Kin
<1> QED BY <1>2, <1>3, <1>10 DEF j

\* Marked, joined with the next if that is free, joined with the one before
\* if that is free: each leaves the rest as it was.
LEMMA FreedRes ==
  ASSUME NEW h \in Seq(NodeSet), NEW i \in 1 .. Len(h), Start(h, Len(h)) < Word
  PROVE  FreedResult(h, i, Freed(h, i))
<1> DEFINE marked  == [h EXCEPT ![i].of = "free"]
           forward == IF NextFree(h, i) THEN unify_fwd(marked, i) ELSE marked
           back    == i > 1 /\ h[i - 1].of = "free"
           joined  == IF back THEN unify_fwd(forward, i - 1) ELSE forward
           isLast  == i = Len(forward)
           end     == Start(h, i) + 1 + PageSize
           f       == Freed(h, i)
           taken   == i < Len(h) /\ h[Len(h)].of # "free"
<1>1. /\ f.nodes = (IF isLast /\ ~back THEN [joined EXCEPT ![i].size = PageSize] ELSE joined)
      /\ f.end = end
  BY DEF Freed
<1>2. f.last = isLast
  BY Zenon DEF Freed
<1>3. f.stale = (isLast /\ back /\ EndOf(joined) # end)
  BY Zenon DEF Freed
<1>4. Start(h, i) \in Nat /\ PageSize \in Nat /\ "free" \in Ofs
  BY EntryFields, UmallocAssumption DEF Ofs
<1> HIDE DEF end, f
<1>6. /\ Kin(h, i, marked) /\ Len(marked) = Len(h) /\ marked[i].of = "free"
      /\ Start(marked, i) = Start(h, i)
      /\ \A j \in 1 .. Len(h) : j # i => marked[j] = h[j]
  BY MarkedKin
<1> HIDE DEF marked
<1>7. /\ Kin(h, i, forward) /\ i \in 1 .. Len(forward) /\ forward[i].of = "free"
      /\ Start(forward, i) = Start(h, i) /\ (taken => i < Len(forward))
      /\ \A j \in 1 .. i - 1 : forward[j] = h[j]
  <2>1. CASE NextFree(h, i)
    <3>1. i \in 1 .. Len(marked) - 1 /\ i + 1 \in 1 .. Len(h) /\ h[i + 1].of = "free"
      BY <2>1, <1>6 DEF NextFree
    <3>2. marked[i + 1].of = "free"
      BY <3>1, <1>6
    <3>3. taken => i + 1 < Len(marked)
      BY <3>1, <1>6
    <3>4. forward = unify_fwd(marked, i)
      BY <2>1
    <3> HIDE DEF forward
    <3>5. Kin(h, i, forward) /\ JoinResult(marked, forward, i) /\ i \in 1 .. Len(forward)
      BY <3>1, <3>2, <3>3, <3>4, <1>6, JoinedKin
    <3>6. \A j \in 1 .. i - 1 : forward[j] = h[j]
      BY <3>5, <1>6 DEF JoinResult
    <3>7. taken => i < Len(forward)
      BY <3>3, <3>5, <1>6 DEF JoinResult
    <3> QED BY <3>5, <3>6, <3>7, <1>6 DEF JoinResult
  <2>2. CASE ~NextFree(h, i)
    <3>1. forward = marked
      BY <2>2
    <3>2. \A j \in 1 .. i - 1 : marked[j] = h[j]
      BY <1>6
    <3> QED BY <3>1, <3>2, <1>6
  <2> QED BY <2>1, <2>2
<1> HIDE DEF forward
<1>71. forward \in Seq(NodeSet) /\ Len(forward) \in Nat /\ forward # <<>>
  BY <1>7 DEF Kin
<1>8. /\ Kin(h, i, joined)
      /\ isLast => Start(joined, Len(joined)) <= Start(h, i)
  <2>1. CASE back
    <3> DEFINE k == i - 1
    <3>1. k \in 1 .. Len(forward) - 1 /\ k + 1 = i /\ k \in 1 .. i - 1
      BY <2>1, <1>7, <1>71
    <3>2. forward[k].of = "free" /\ forward[k + 1].of = "free"
      BY <2>1, <3>1, <1>7
    <3>3. joined = unify_fwd(forward, k)
      BY <2>1
    <3>4. taken => k + 1 < Len(forward)
      BY <3>1, <1>7
    <3> HIDE DEF k, joined
    <3>5. Kin(h, i, joined) /\ JoinResult(forward, joined, k)
      BY <3>1, <3>2, <3>3, <3>4, <1>7, JoinedKin
    <3>6. isLast => Start(joined, Len(joined)) <= Start(h, i)
      BY <3>5, <1>7 DEF JoinResult
    <3> QED BY <3>5, <3>6
  <2>2. CASE ~back
    <3>1. joined = forward
      BY <2>2
    <3>2. isLast => Start(forward, Len(forward)) = Start(h, i)
      BY <1>7
    <3> QED BY <3>1, <3>2, <1>4, <1>7
  <2> QED BY <2>1, <2>2
<1>9. CASE isLast /\ ~back
  <2> DEFINE g == [forward EXCEPT ![i].size = PageSize]
  <2>1. f.nodes = g
    BY <1>1, <1>9
  <2>2. g \in Seq(NodeSet) /\ Rewritten(forward, g, i, PageSize, "free")
    BY <1>4, <1>7, <1>71, SetSize
  <2> HIDE DEF g
  <2>3. RewriteResult(forward, g, i, PageSize, "free")
    BY <2>2, <1>4, <1>7, <1>71, <1>9, RewriteRes
  <2>4. Entry(forward, i) \notin Res(forward)
    BY <1>7, <1>71, FreeIsNotRes
  <2>5. Res(g) = Res(h) \ {Entry(h, i)}
    BY <2>3, <2>4, <1>7 DEF RewriteResult, Kin
  <2>6. EndOf(g) = end
    <3>1. EndOf(g) = Start(h, i) + PageSize + 1
      BY <2>3, <1>7, <1>9 DEF RewriteResult
    <3> QED BY <3>1, <1>4 DEF end
  <2>7. g # <<>>
    <3>1. Len(g) = Len(forward) /\ Len(forward) # 0
      BY <2>2, <1>7 DEF Rewritten
    <3> QED BY <3>1, <2>2
  <2>8. f.last
    BY <1>2, <1>9, Zenon
  <2>9. Start(g, Len(g)) = Start(forward, Len(forward)) /\ ~taken
    BY <2>3, <1>7, <1>9 DEF RewriteResult
  <2>10. /\ Start(g, Len(g)) <= Start(h, i) /\ Start(g, Len(g)) <= Start(h, Len(h))
    BY <2>9, <1>4, <1>7, <1>9 DEF Kin
  <2>11. f.nodes \in Seq(NodeSet) /\ f.nodes # <<>> /\ f.end = Start(h, i) + 1 + PageSize
        /\ Res(f.nodes) = Res(h) \ {Entry(h, i)} /\ EndOf(f.nodes) = f.end
        /\ Start(f.nodes, Len(f.nodes)) <= Start(h, i)
        /\ Start(f.nodes, Len(f.nodes)) <= Start(h, Len(h))
    BY <2>1, <2>2, <2>5, <2>6, <2>7, <2>10, <1>1 DEF end
  <2>12. FreedResult(h, i, f)
    BY <2>8, <2>9, <2>11, Zenon DEF FreedResult
  <2> QED BY <2>12 DEF f
<1>10. CASE ~(isLast /\ ~back)
  <2>1. f.nodes = joined
    BY <1>1, <1>10
  <2>2. f.last /\ ~f.stale => EndOf(joined) = end
    BY <1>2, <1>3, <1>10, Zenon
  <2>3. f.last => Start(joined, Len(joined)) <= Start(h, i)
    BY <1>2, <1>8, Zenon
  <2> HIDE DEF joined
  <2>4. f.end = Start(h, i) + 1 + PageSize
    BY <1>1 DEF end
  <2>5. Kin(h, i, f.nodes)
    BY <2>1, <1>8
  <2>6. f.last /\ ~f.stale => EndOf(f.nodes) = f.end
    BY <2>1, <2>2, <1>1, Zenon
  <2>7. f.last => Start(f.nodes, Len(f.nodes)) <= Start(h, i)
    BY <2>1, <2>3, Zenon
  <2>8. FreedResult(h, i, f)
    BY <2>4, <2>5, <2>6, <2>7, Zenon DEF FreedResult, Kin
  <2> QED BY <2>8 DEF f
<1> QED BY <1>9, <1>10 DEF f

ReleaseResult(h, i, end, top) ==
  /\ Sits(heap', heap_end', brk_end')
  /\ Res(heap') = Res(h) \ {Entry(h, i)}
  /\ heapMode' = "run" => heapMode = "run" /\ (Tight(h, end, top) => Tight(heap', heap_end', brk_end'))
  /\ i < Len(h) /\ h[Len(h)].of # "free" => LastEntry(heap') = LastEntry(h)

\* brk behind it.
LEMMA ReleaseRes ==
  ASSUME NEW h, NEW end, NEW top, Sits(h, end, top), NEW i \in 1 .. Len(h),
         Release(h, i, end, top)
  PROVE  ReleaseResult(h, i, end, top)
<1> DEFINE f == Freed(h, i)
           want == PageUp(f.end)
           st == Start(h, i)
<1>0. h \in Seq(NodeSet) /\ end \in Nat /\ top \in Nat /\ top <= Limit /\ h # <<>>
      /\ Start(h, Len(h)) + 1 <= top /\ Limit \in Nat /\ Word \in Nat /\ Limit < Word
  BY UmallocAssumption DEF Sits
<1>01. Start(h, Len(h)) \in Nat /\ st \in Nat /\ PageSize \in Nat
  BY <1>0, EndOfLast, EntryFields, UmallocAssumption
<1>02. Start(h, Len(h)) < Word
  BY <1>0, <1>01
<1>1. FreedResult(h, i, f)
  BY <1>0, <1>02, FreedRes
<1>2. PICK given \in BOOLEAN :
        /\ given /\ f.last => want <= Limit
        /\ ~given => f.last /\ want > top
        /\ heap' = f.nodes
        /\ heap_end' = IF f.last THEN f.end ELSE end
        /\ IF f.last /\ ~given THEN brk_end' \in Partial(top, want)
           ELSE brk_end' = IF f.last THEN want ELSE top
        /\ heapMode' = IF f.stale \/ ~given THEN "stale" ELSE heapMode
  BY DEF Release
<1> HIDE DEF f
<1>3. f.end = st + 1 + PageSize /\ f.nodes \in Seq(NodeSet) /\ f.nodes # <<>>
  BY <1>1 DEF FreedResult
<1>4. f.end \in Nat /\ f.end >= st + 1
  BY <1>3, <1>01
<1>5. want \in Nat /\ want >= f.end
  BY <1>4, PagesSuffice
<1> HIDE DEF want, st
<1> DEFINE z == Start(f.nodes, Len(f.nodes))
<1>6. z \in Nat
  BY <1>3, EndOfLast
<1>7. z <= Start(h, Len(h)) /\ (f.last => z <= st)
  BY <1>1 DEF FreedResult, st
<1> HIDE DEF z
<1>8. heap_end' \in Nat /\ brk_end' \in Nat /\ brk_end' <= Limit /\ z + 1 <= brk_end'
  <2>1. heap_end' \in Nat
    BY <1>0, <1>2, <1>4
  <2>2. CASE ~f.last
    BY <2>1, <2>2, <1>0, <1>01, <1>2, <1>6, <1>7
  <2>3. CASE f.last /\ given
    <3>1. brk_end' = want /\ want <= Limit
      BY <2>3, <1>2
    <3> QED BY <2>1, <2>3, <3>1, <1>01, <1>4, <1>5, <1>6, <1>7
  <2>4. CASE f.last /\ ~given
    <3>1. brk_end' \in top .. Limit
      BY <2>4, <1>2 DEF Partial
    <3> QED BY <2>1, <3>1, <1>0, <1>01, <1>6, <1>7
  <2> QED BY <2>2, <2>3, <2>4
<1>9. Sits(heap', heap_end', brk_end')
  BY <1>2, <1>3, <1>8 DEF Sits, z
<1>10. Res(heap') = Res(h) \ {Entry(h, i)}
       /\ (i < Len(h) /\ h[Len(h)].of # "free" => LastEntry(heap') = LastEntry(h))
  BY <1>1, <1>2 DEF FreedResult
<1>11. ASSUME heapMode' = "run"
       PROVE  heapMode = "run" /\ (Tight(h, end, top) => Tight(heap', heap_end', brk_end'))
  <2>1. ~f.stale /\ given /\ heapMode = "run"
    BY <1>2, <1>11
  <2>2. CASE f.last
    <3>1. EndOf(f.nodes) = f.end
      BY <2>1, <2>2, <1>1 DEF FreedResult
    <3>2. heap_end' = f.end /\ brk_end' = want
      BY <2>1, <2>2, <1>2
    <3> QED BY <2>1, <3>1, <3>2, <1>2, <1>5 DEF Tight
  <2>3. CASE ~f.last
    <3>1. Tight(h, end, top) => EndOf(h) = end /\ end <= top /\ end <= Word
      BY <1>0 DEF Tight
    <3>2. Tight(h, end, top) => EndOf(f.nodes) = end /\ end <= top
      BY <3>1, <2>3, <1>1 DEF FreedResult
    <3>3. heap_end' = end /\ brk_end' = top
      BY <2>3, <1>2
    <3> QED BY <2>1, <3>2, <3>3, <1>2 DEF Tight
  <2> QED BY <2>2, <2>3
<1> QED BY <1>9, <1>10, <1>11 DEF ReleaseResult

----------------------------------------------------------------------------
(* Who owns what *)

\* R are the entries of the list, Z those whose size need not be true.
Owned(R, ask, ad, Z) ==
  /\ \A b \in Blocks : ask[b] # 0 =>
       \E t \in R : /\ t[3] = b /\ t[1] + 1 = ad[b] /\ (t[2] >= ask[b] \/ t \in Z)
                    /\ \A u \in R : u[3] = b => u = t
  /\ \A t \in R : t[3] \in Blocks /\ ask[t[3]] # 0

\* The last node, once its size or heap_end has gone wrong.
Excused == IF heapMode = "run" THEN {} ELSE {LastEntry(heap)}

\* The inductive invariant: the list sits in the memory that is there, fills
\* it as long as nothing went wrong, and belongs to the program's blocks.
UInv ==
  /\ HeapSits /\ (heapMode = "run" => HeapTight)
  /\ asked \in [Blocks -> Nat] /\ addr \in [Blocks -> Nat]
  /\ Owned(Res(heap), asked, addr, Excused)

LEMMA Names == "free" \in Ofs /\ "new" \in Ofs /\ "free" \notin Blocks /\ "new" \notin Blocks
               /\ Blocks \subseteq Ofs /\ "new" # "free"
  BY UmallocAssumption DEF Ofs

\* The invariant is at least what the properties say.
LEMMA TiledAndOwned == UInv => HeapTiled /\ BlocksOwned
<1> SUFFICES ASSUME UInv PROVE HeapTiled /\ BlocksOwned
  OBVIOUS
<1>1. heap \in Seq(NodeSet) /\ DOMAIN heap = 1 .. Len(heap)
      /\ Owned(Res(heap), asked, addr, Excused)
  BY DEF UInv, HeapSits, Sits
<1>2. HeapTiled
  <2>1. \A i \in DOMAIN heap : heap[i].size >= 0
    BY <1>1, NodeFields
  <2>2. heapMode = "run" /\ heap # <<>> => EndOf(heap) = heap_end /\ heap_end <= brk_end
    BY DEF UInv, HeapTight, Tight
  <2> QED BY <2>1, <2>2 DEF HeapTiled
<1>3. ASSUME NEW b \in Blocks, asked[b] # 0
      PROVE  \E i \in DOMAIN heap :
               /\ heap[i].of = b /\ Start(heap, i) + 1 = addr[b]
               /\ heap[i].size >= asked[b] \/ (heapMode # "run" /\ i = Len(heap))
               /\ \A j \in DOMAIN heap : heap[j].of = b => i = j
  <2>1. PICK t \in Res(heap) : /\ t[3] = b /\ t[1] + 1 = addr[b]
                               /\ (t[2] >= asked[b] \/ t \in Excused)
                               /\ \A u \in Res(heap) : u[3] = b => u = t
    BY <1>1, <1>3 DEF Owned
  <2>2. PICK i \in Used(heap) : t = Entry(heap, i)
    BY DEF Res
  <2>3. i \in 1 .. Len(heap) /\ Len(heap) \in 1 .. Len(heap)
    BY <1>1 DEF Used
  <2>4. t[1] = Start(heap, i) /\ t[2] = heap[i].size /\ t[3] = heap[i].of
    BY <1>1, <2>2, <2>3, EntryFields
  <2>5. ASSUME NEW j \in 1 .. Len(heap), heap[j].of = b PROVE i = j
    <3>1. Entry(heap, j) \in Res(heap)
      BY <2>5, Names DEF Res, Used
    <3>2. Entry(heap, j)[3] = b
      BY <2>5, <1>1, EntryFields
    <3>3. Entry(heap, j) = Entry(heap, i)
      BY <3>1, <3>2, <2>1, <2>2
    <3> QED BY <3>3, <2>3, <1>1, EntriesDiffer
  <2>6. t \in Excused => heapMode # "run" /\ i = Len(heap)
    <3> SUFFICES ASSUME t \in Excused PROVE heapMode # "run" /\ i = Len(heap)
      OBVIOUS
    <3>1. heapMode # "run" /\ Entry(heap, i) = Entry(heap, Len(heap))
      BY <2>2 DEF Excused, LastEntry
    <3> QED BY <3>1, <2>3, <1>1, EntriesDiffer
  <2> QED BY <2>1, <2>3, <2>4, <2>5, <2>6, <1>1
<1>4. ASSUME NEW i \in DOMAIN heap, heap[i].of # "free" PROVE asked[heap[i].of] # 0
  <2>1. i \in 1 .. Len(heap) /\ Entry(heap, i) \in Res(heap)
    BY <1>1, <1>4 DEF Res, Used
  <2>2. Entry(heap, i)[3] = heap[i].of
    BY <2>1, <1>1, EntryFields
  <2> QED BY <2>1, <2>2, <1>1 DEF Owned
<1> QED BY <1>2, <1>3, <1>4 DEF BlocksOwned

LEMMA UInvInit == HeapInit => UInv
<1> SUFFICES ASSUME HeapInit PROVE UInv
  OBVIOUS
<1>1. Owned({}, asked, addr, Excused)
  BY DEF HeapInit, Owned
<1>2. Res(heap) = {}
  BY EmptyHeap DEF HeapInit
<1>3. Owned(Res(heap), asked, addr, Excused)
  BY <1>1, <1>2
<1>4. heap \in Seq(NodeSet) /\ heap = <<>>
  BY DEF HeapInit
<1>5. HeapSits /\ HeapTight
  BY <1>4, UmallocAssumption DEF HeapSits, HeapTight, Sits, Tight, HeapInit
<1> QED BY <1>3, <1>5 DEF UInv, HeapInit

\* More may be excused.
LEMMA ExcusedMore ==
  ASSUME NEW R, NEW ask, NEW ad, NEW Z, NEW Y, Owned(R, ask, ad, Z),
         \A u \in R : u \in Z => u \in Y
  PROVE  Owned(R, ask, ad, Y)
<1>1. ASSUME NEW b \in Blocks, ask[b] # 0
      PROVE  \E t \in R : /\ t[3] = b /\ t[1] + 1 = ad[b] /\ (t[2] >= ask[b] \/ t \in Y)
                          /\ \A u \in R : u[3] = b => u = t
  <2>1. PICK t \in R : /\ t[3] = b /\ t[1] + 1 = ad[b] /\ (t[2] >= ask[b] \/ t \in Z)
                       /\ \A u \in R : u[3] = b => u = t
    BY <1>1 DEF Owned
  <2> QED BY <2>1
<1>2. \A t \in R : t[3] \in Blocks /\ ask[t[3]] # 0
  BY DEF Owned
<1> QED BY <1>1, <1>2 DEF Owned

\* A block of another size is still its owner's, if it is larger or excused.
LEMMA ResizedOwned ==
  ASSUME NEW R, NEW S, NEW ask \in [Blocks -> Nat], NEW ad, NEW Z, NEW Y, Owned(R, ask, ad, Z),
         NEW t \in R, NEW v, S = (R \ {t}) \cup {v}, v[1] = t[1], v[3] = t[3],
         t[2] \in Nat, v[2] \in Nat, v \in Y \/ (v[2] >= t[2] /\ t \notin Z),
         \A u \in R : u # t /\ u \in Z => u \in Y
  PROVE  Owned(S, ask, ad, Y)
<1>4. ASSUME NEW b \in Blocks, ask[b] # 0
      PROVE  \E w \in S : /\ w[3] = b /\ w[1] + 1 = ad[b] /\ (w[2] >= ask[b] \/ w \in Y)
                          /\ \A u \in S : u[3] = b => u = w
  <2>1. PICK w \in R : /\ w[3] = b /\ w[1] + 1 = ad[b] /\ (w[2] >= ask[b] \/ w \in Z)
                       /\ \A u \in R : u[3] = b => u = w
    BY <1>4 DEF Owned
  <2>2. CASE w = t
    <3>1. v[3] = b /\ v[1] + 1 = ad[b] /\ v \in S
      BY <2>1, <2>2
    <3>2. v[2] >= ask[b] \/ v \in Y
      <4>1. ask[b] \in Nat
        OBVIOUS
      <4> QED BY <4>1, <2>1, <2>2
    <3>3. \A u \in S : u[3] = b => u = v
      BY <2>1, <2>2
    <3> QED BY <3>1, <3>2, <3>3
  <2>3. CASE w # t
    <3>1. w \in S /\ (w \in Z => w \in Y)
      BY <2>3
    <3>2. t[3] # b
      BY <2>1, <2>3
    <3>3. \A u \in S : u[3] = b => u = w
      BY <3>2, <2>1
    <3> QED BY <3>1, <3>3, <2>1
  <2> QED BY <2>2, <2>3
<1>5. ASSUME NEW w \in S PROVE w[3] \in Blocks /\ ask[w[3]] # 0
  <2>1. CASE w = v
    <3>1. t[3] \in Blocks /\ ask[t[3]] # 0
      BY DEF Owned
    <3> QED BY <2>1, <3>1
  <2>2. CASE w # v
    BY <2>2 DEF Owned
  <2> QED BY <2>1, <2>2
<1> QED BY <1>4, <1>5 DEF Owned

\* The entries of a list have natural sizes and places.
LEMMA ResTyped ==
  ASSUME NEW h \in Seq(NodeSet)
  PROVE  \A t \in Res(h) : t[1] \in Nat /\ t[2] \in Nat /\ t[3] \in Ofs /\ t[3] # "free"
<1> SUFFICES ASSUME NEW t \in Res(h)
             PROVE  t[1] \in Nat /\ t[2] \in Nat /\ t[3] \in Ofs /\ t[3] # "free"
  OBVIOUS
<1>1. PICK i \in Used(h) : t = Entry(h, i)
  BY DEF Res
<1>2. i \in 1 .. Len(h) /\ h[i].of # "free"
  BY DEF Used
<1> QED BY <1>1, <1>2, EntryFields

\* v is in S, and the others are the entries of R that are not b's.
Supplants(R, S, b, v) ==
  /\ v \in S /\ \A u \in S : u = v \/ (u \in R /\ u[3] # b)
  /\ \A u \in R : u[3] # b => u \in S

\* What is excused and not b's stays excused.
StaysExcused(R, b, Z, Y) == \A u \in R : u[3] # b /\ u \in Z => u \in Y

\* Ownership when the one entry t of block b, if any, gives way to v.
LEMMA ReplacedOwned ==
  ASSUME NEW R, NEW S, NEW ask \in [Blocks -> Nat], NEW ad \in [Blocks -> Nat], NEW Z, NEW Y,
         Owned(R, ask, ad, Z), NEW b \in Blocks, NEW n \in Nat \ {0}, NEW x \in Nat, NEW v,
         v[1] + 1 = x, v[2] >= n, v[3] = b, Supplants(R, S, b, v), StaysExcused(R, b, Z, Y)
  PROVE  Owned(S, [ask EXCEPT ![b] = n], [ad EXCEPT ![b] = x], Y)
<1> USE DEF Supplants
<1> DEFINE ask1 == [ask EXCEPT ![b] = n]
           ad1 == [ad EXCEPT ![b] = x]
<1>1. /\ ask1[b] = n /\ ad1[b] = x
      /\ \A c \in Blocks : c # b => ask1[c] = ask[c] /\ ad1[c] = ad[c]
  OBVIOUS
<1> HIDE DEF ask1, ad1
<1>2. ASSUME NEW c \in Blocks, ask1[c] # 0
      PROVE  \E w \in S : /\ w[3] = c /\ w[1] + 1 = ad1[c] /\ (w[2] >= ask1[c] \/ w \in Y)
                          /\ \A u \in S : u[3] = c => u = w
  <2>1. CASE c = b
    BY <2>1, <1>1
  <2>2. CASE c # b
    <3>1. PICK w \in R : /\ w[3] = c /\ w[1] + 1 = ad[c] /\ (w[2] >= ask[c] \/ w \in Z)
                         /\ \A u \in R : u[3] = c => u = w
      BY <2>2, <1>1, <1>2 DEF Owned
    <3>2. w \in S /\ \A u \in S : u[3] = c => u = w
      BY <3>1, <2>2
    <3>3. w \in Z => w \in Y
      BY <3>1, <2>2 DEF StaysExcused
    <3> QED BY <3>1, <3>2, <3>3, <2>2, <1>1
  <2> QED BY <2>1, <2>2
<1>3. ASSUME NEW w \in S PROVE w[3] \in Blocks /\ ask1[w[3]] # 0
  <2>1. CASE w = v
    BY <2>1, <1>1
  <2>2. CASE w # v
    <3>1. w \in R /\ w[3] # b
      BY <2>2
    <3>2. w[3] \in Blocks /\ ask[w[3]] # 0
      BY <3>1 DEF Owned
    <3> QED BY <3>1, <3>2, <1>1
  <2> QED BY <2>1, <2>2
<1>4. Owned(S, ask1, ad1, Y)
  BY <1>2, <1>3 DEF Owned
<1> QED BY <1>4 DEF ask1, ad1

\* Ownership when the one entry of block b goes.
LEMMA RemovedOwned ==
  ASSUME NEW R, NEW S, NEW ask \in [Blocks -> Nat], NEW ad \in [Blocks -> Nat], NEW Z, NEW Y,
         Owned(R, ask, ad, Z), NEW b \in Blocks,
         \A u \in S : u \in R /\ u[3] # b,
         \A u \in R : u[3] # b => u \in S, StaysExcused(R, b, Z, Y)
  PROVE  Owned(S, [ask EXCEPT ![b] = 0], [ad EXCEPT ![b] = 0], Y)
<1> DEFINE ask1 == [ask EXCEPT ![b] = 0]
           ad1 == [ad EXCEPT ![b] = 0]
<1>1. /\ ask1[b] = 0
      /\ \A c \in Blocks : c # b => ask1[c] = ask[c] /\ ad1[c] = ad[c]
  OBVIOUS
<1> HIDE DEF ask1, ad1
<1>2. ASSUME NEW c \in Blocks, ask1[c] # 0
      PROVE  \E w \in S : /\ w[3] = c /\ w[1] + 1 = ad1[c] /\ (w[2] >= ask1[c] \/ w \in Y)
                          /\ \A u \in S : u[3] = c => u = w
  <2>1. c # b
    BY <1>1, <1>2
  <2>2. PICK w \in R : /\ w[3] = c /\ w[1] + 1 = ad[c] /\ (w[2] >= ask[c] \/ w \in Z)
                       /\ \A u \in R : u[3] = c => u = w
    BY <2>1, <1>1, <1>2 DEF Owned
  <2>3. w \in S /\ \A u \in S : u[3] = c => u = w
    BY <2>1, <2>2
  <2>4. w \in Z => w \in Y
    BY <2>1, <2>2 DEF StaysExcused
  <2> QED BY <2>1, <2>2, <2>3, <2>4, <1>1
<1>3. ASSUME NEW w \in S PROVE w[3] \in Blocks /\ ask1[w[3]] # 0
  <2>1. w \in R /\ w[3] # b
    OBVIOUS
  <2>2. w[3] \in Blocks /\ ask[w[3]] # 0
    BY <2>1 DEF Owned
  <2> QED BY <2>1, <2>2, <1>1
<1>4. Owned(S, ask1, ad1, Y)
  BY <1>2, <1>3 DEF Owned
<1> QED BY <1>4 DEF ask1, ad1

\* What NodeOf finds in a list where b has one entry.
LEMMA TheNodeOf ==
  ASSUME NEW h \in Seq(NodeSet), NEW b \in Ofs, b # "free", NEW t \in Res(h), t[3] = b,
         \A u \in Res(h) : u[3] = b => u = t
  PROVE  /\ NodeOf(h, b) \in 1 .. Len(h) /\ h[NodeOf(h, b)].of = b
         /\ Entry(h, NodeOf(h, b)) = t
<1>1. PICK i \in Used(h) : t = Entry(h, i)
  BY DEF Res
<1>2. i \in 1 .. Len(h)
  BY DEF Used
<1>3. h[i].of = b
  BY <1>1, <1>2, EntryFields
<1>4. NodeOf(h, b) = i
  BY <1>1, <1>2, <1>3, NodeOfIs
<1> QED BY <1>1, <1>2, <1>3, <1>4

\* What a block that is in use has in the list.
LEMMA OwnersNode ==
  ASSUME UInv, NEW b \in Blocks, asked[b] # 0
  PROVE  /\ NodeOf(heap, b) \in 1 .. Len(heap) /\ heap[NodeOf(heap, b)].of = b
         /\ Entry(heap, NodeOf(heap, b)) \in Res(heap)
         /\ Start(heap, NodeOf(heap, b)) + 1 = addr[b]
         /\ \A u \in Res(heap) : u[3] = b => u = Entry(heap, NodeOf(heap, b))
<1>1. heap \in Seq(NodeSet) /\ Owned(Res(heap), asked, addr, Excused) /\ b \in Ofs /\ b # "free"
  BY Names DEF UInv, HeapSits, Sits
<1>2. PICK t \in Res(heap) : /\ t[3] = b /\ t[1] + 1 = addr[b]
                             /\ \A u \in Res(heap) : u[3] = b => u = t
  BY <1>1 DEF Owned
<1> DEFINE i == NodeOf(heap, b)
<1>3. i \in 1 .. Len(heap) /\ heap[i].of = b /\ Entry(heap, i) = t
  BY <1>1, <1>2, TheNodeOf
<1> HIDE DEF i
<1>4. t[1] = Start(heap, i)
  BY <1>1, <1>3, EntryFields
<1> QED BY <1>2, <1>3, <1>4 DEF i

\* The last node is excused only while somebody has it.
LEMMA LastIsUsed ==
  ASSUME NEW h \in Seq(NodeSet), LastEntry(h) \in Res(h)
  PROVE  h # <<>> /\ h[Len(h)].of # "free" /\ Len(h) \in 1 .. Len(h)
         /\ LastEntry(h)[3] = h[Len(h)].of
<1>1. PICK j \in 1 .. Len(h) : TRUE
  BY DEF Res, Used
<1>2. h # <<>> /\ Len(h) \in 1 .. Len(h)
  BY <1>1
<1>3. h[Len(h)].of # "free"
  BY <1>2, FreeIsNotRes DEF LastEntry
<1> QED BY <1>2, <1>3, EntryFields DEF LastEntry

----------------------------------------------------------------------------
(* Every call *)

LEMMA NotYetReserved ==
  ASSUME UInv, NEW b \in Blocks, asked[b] = 0
  PROVE  \A t \in Res(heap) : t[3] # b
  BY DEF UInv, Owned

\* The pieces of the invariant that the calls use.
LEMMA UInvHas ==
  ASSUME UInv
  PROVE  /\ asked \in [Blocks -> Nat] /\ addr \in [Blocks -> Nat]
         /\ Owned(Res(heap), asked, addr, Excused) /\ heap \in Seq(NodeSet) /\ HeapSits
         /\ (heapMode = "run" => HeapTight)
  BY DEF UInv, HeapSits, Sits

\* A list of its own and a mode that is not "run" again.
LEMMA StillExcused ==
  ASSUME NEW b, heapMode' = "run" => heapMode = "run",
         \A u \in Res(heap) : u[3] # b /\ u = LastEntry(heap) => u = LastEntry(heap')
  PROVE  StaysExcused(Res(heap), b, Excused, Excused')
<1> DEFINE Z == Excused
           Y == Excused'
<1>1. Z = (IF heapMode = "run" THEN {} ELSE {LastEntry(heap)})
  BY DEF Excused
<1>2. Y = (IF heapMode' = "run" THEN {} ELSE {LastEntry(heap')})
  BY DEF Excused
<1> HIDE DEF Z, Y
<1>3. StaysExcused(Res(heap), b, Z, Y)
  BY <1>1, <1>2 DEF StaysExcused
<1> QED BY <1>3 DEF Z, Y

\* malloc and calloc.
LEMMA AllocStep ==
  ASSUME UInv, NEW b \in Blocks, NEW n \in Nat \ {0}, NEW touched \in BOOLEAN,
         Alloc(n, b, touched)
  PROVE  UInv'
<1>1. PICK o \in Allocs(n, b) :
        /\ heapMode \in {"run", "stale"} /\ asked[b] = 0
        /\ heap' = o.nodes /\ heap_end' = o.end /\ brk_end' = o.brk
        /\ asked' = IF o.ret = "block" THEN [asked EXCEPT ![b] = n] ELSE asked
        /\ addr' = IF o.ret = "block" THEN [addr EXCEPT ![b] = Start(o.nodes, NodeOf(o.nodes, b)) + 1]
                   ELSE addr
        /\ heapMode' \in {"pad", "fault", heapMode}
  BY DEF Alloc, Running
<1>2. /\ asked \in [Blocks -> Nat] /\ addr \in [Blocks -> Nat]
      /\ Owned(Res(heap), asked, addr, Excused) /\ heap \in Seq(NodeSet) /\ HeapSits
      /\ (heapMode = "run" => HeapTight)
  BY UInvHas
<1>3. \A t \in Res(heap) : t[3] # b
  BY <1>1, NotYetReserved
<1>4. b \in Ofs /\ b # "free" /\ n \in Nat
  BY Names
<1>5. AllocResult(o, n, b)
  BY <1>2, <1>3, <1>4, AllocsAre
<1> DEFINE h == o.nodes
<1>6. h \in Seq(NodeSet) /\ HeapSits' /\ (HeapTight => HeapTight')
  BY <1>1, <1>5 DEF AllocResult, HeapSits, HeapTight, Sits
<1>60. heapMode' = "run" => heapMode = "run"
  BY <1>1
<1>61. heapMode' = "run" => HeapTight'
  BY <1>2, <1>6, <1>60
<1>7. CASE o.ret = "block"
  <2>1. Gained(Res(heap), h, n, b) /\ KeepsLast(heap, h)
    BY <1>5, <1>7 DEF AllocResult
  <2> HIDE DEF h
  <2>2. PICK i \in 1 .. Len(h), m \in Nat :
          /\ m >= n /\ h[i] = Node(m, b)
          /\ Res(h) = Res(heap) \cup {<<Start(h, i), m, b>>}
          /\ <<Start(h, i), m, b>> \notin Res(heap)
    BY <2>1 DEF Gained
  <2> DEFINE v == <<Start(h, i), m, b>>
             x == Start(h, i) + 1
  <2>3. h[i].of = b /\ h[i].size = m /\ Start(h, i) \in Nat
    BY <2>2, <1>6, EntryFields DEF Node
  <2>4. Entry(h, i) = v /\ v[1] = Start(h, i) /\ v[2] = m /\ v[3] = b
    BY <2>3 DEF Entry
  <2>5. v[1] + 1 = x /\ x \in Nat /\ v[2] >= n
    BY <2>2, <2>3
  <2> HIDE DEF v
  <2>6. Res(h) = Res(heap) \cup {v}
    BY <2>2 DEF v
  <2>7. NodeOf(h, b) = i
    BY <2>3, <2>4, <2>6, <1>3, <1>4, <1>6, NodeOfIs
  <2>8. asked' = [asked EXCEPT ![b] = n] /\ addr' = [addr EXCEPT ![b] = x]
    BY <2>7, <1>1, <1>7 DEF h
  <2> HIDE DEF x
  <2>81. StaysExcused(Res(heap), b, Excused, Excused')
    <3>1. heap' = h
      BY <1>1 DEF h
    <3>2. \A u \in Res(heap) : u[3] # b /\ u = LastEntry(heap) => u = LastEntry(heap')
      BY <3>1, <2>1, <1>2, LastIsUsed DEF KeepsLast
    <3> QED BY <3>2, <1>60, StillExcused
  <2>9. Owned(Res(h), [asked EXCEPT ![b] = n], [addr EXCEPT ![b] = x], Excused')
    <3>1. Supplants(Res(heap), Res(h), b, v)
      BY <2>6, <1>3 DEF Supplants
    <3> QED BY <3>1, <2>4, <2>5, <2>81, <1>2, ReplacedOwned
  <2>10. Owned(Res(heap'), asked', addr', Excused')
    BY <2>8, <2>9, <1>1 DEF h
  <2>11. asked' \in [Blocks -> Nat] /\ addr' \in [Blocks -> Nat]
    BY <2>5, <2>8, <1>2
  <2> QED BY <2>10, <2>11, <1>6, <1>61 DEF UInv
<1>8. CASE o.ret # "block"
  <2>1. asked' = asked /\ addr' = addr
    BY <1>1, <1>8
  <2>2. h = heap \/ Resized(heap, h, HeapTight)
    BY <1>5, <1>8 DEF AllocResult
  <2>3. \A t \in Res(heap) : t[2] \in Nat
    BY <1>2, ResTyped
  <2>4. heap' = h
    BY <1>1
  <2>5. PICK Z : Z = Excused
    OBVIOUS
  <2>6. PICK Y : Y = Excused'
    OBVIOUS
  <2>7. Z = (IF heapMode = "run" THEN {} ELSE {LastEntry(heap)})
    BY <2>5 DEF Excused
  <2>8. Y = (IF heapMode' = "run" THEN {} ELSE {LastEntry(h)})
    BY <2>4, <2>6 DEF Excused
  <2> HIDE DEF h
  <2>9. Owned(Res(h), asked, addr, Y)
    <3>1. CASE h = heap
      <4>1. \A u \in Res(heap) : u \in Z => u \in Y
        BY <3>1, <2>7, <2>8, <1>60
      <4> QED BY <3>1, <4>1, <2>5, <1>2, ExcusedMore
    <3>2. CASE Res(h) = Res(heap) /\ LastEntry(heap) \notin Res(heap)
      <4>1. \A u \in Res(heap) : u \in Z => u \in Y
        BY <3>2, <2>7
      <4> QED BY <3>2, <4>1, <2>5, <1>2, ExcusedMore
    <3>3. CASE ~(h = heap) /\ ~(Res(h) = Res(heap) /\ LastEntry(heap) \notin Res(heap))
      <4> DEFINE t == LastEntry(heap)
                 v == LastEntry(h)
      <4>1. /\ t \in Res(heap) /\ Res(h) = (Res(heap) \ {t}) \cup {v}
            /\ v[1] = t[1] /\ v[3] = t[3] /\ v[2] \in Nat
            /\ (HeapTight => v[2] >= t[2])
        BY <3>3, <2>2 DEF Resized
      <4>2. t[2] \in Nat
        BY <4>1, <2>3
      <4> HIDE DEF t, v
      <4>3. v \in Y \/ (v[2] >= t[2] /\ t \notin Z)
        <5>1. CASE heapMode' = "run"
          BY <5>1, <4>1, <2>7, <1>2, <1>60
        <5>2. CASE heapMode' # "run"
          BY <5>2, <2>8 DEF v
        <5> QED BY <5>1, <5>2
      <4>4. \A u \in Res(heap) : u # t /\ u \in Z => u \in Y
        BY <2>7 DEF t
      <4>5. Owned(Res(heap), asked, addr, Z)
        BY <2>5, <1>2
      <4>6. asked \in [Blocks -> Nat]
        BY <1>2
      <4>7. PICK R, S : R = Res(heap) /\ S = Res(h)
        OBVIOUS
      <4>8. Owned(S, asked, addr, Y)
        BY <4>1, <4>2, <4>3, <4>4, <4>5, <4>6, <4>7, ResizedOwned
      <4> QED BY <4>7, <4>8
    <3> QED BY <3>1, <3>2, <3>3
  <2>10. Owned(Res(heap'), asked', addr', Excused')
    BY <2>1, <2>4, <2>6, <2>9
  <2>11. asked' \in [Blocks -> Nat] /\ addr' \in [Blocks -> Nat]
    BY <2>1, <1>2
  <2> QED BY <2>10, <2>11, <1>6, <1>61 DEF UInv
<1> QED BY <1>7, <1>8

LEMMA FreeStep ==
  ASSUME UInv, NEW b \in Blocks, free(b)
  PROVE  UInv'
<1> DEFINE i == NodeOf(heap, b)
<1>1. /\ asked[b] # 0 /\ Release(heap, i, heap_end, brk_end)
      /\ asked' = [asked EXCEPT ![b] = 0] /\ addr' = [addr EXCEPT ![b] = 0]
  BY DEF free
<1>2. /\ asked \in [Blocks -> Nat] /\ addr \in [Blocks -> Nat]
      /\ Owned(Res(heap), asked, addr, Excused) /\ heap \in Seq(NodeSet) /\ HeapSits
      /\ (heapMode = "run" => HeapTight)
  BY UInvHas
<1>3. /\ i \in 1 .. Len(heap) /\ heap[i].of = b
      /\ \A u \in Res(heap) : u[3] = b => u = Entry(heap, i)
  BY <1>1, OwnersNode
<1> HIDE DEF i
<1>6. ReleaseResult(heap, i, heap_end, brk_end)
  BY <1>1, <1>2, <1>3, ReleaseRes DEF HeapSits
<1>7. Entry(heap, i)[3] = b
  BY <1>2, <1>3, EntryFields
<1>8. /\ \A u \in Res(heap') : u \in Res(heap) /\ u[3] # b
      /\ \A u \in Res(heap) : u[3] # b => u \in Res(heap')
  BY <1>3, <1>6, <1>7 DEF ReleaseResult
<1>9. StaysExcused(Res(heap), b, Excused, Excused')
  <2>1. ASSUME NEW u \in Res(heap), u[3] # b, u = LastEntry(heap) PROVE u = LastEntry(heap')
    <3>1. heap[Len(heap)].of # "free" /\ LastEntry(heap)[3] = heap[Len(heap)].of
      BY <2>1, <1>2, LastIsUsed
    <3>2. i < Len(heap)
      <4>1. i # Len(heap)
        BY <2>1, <3>1, <1>3
      <4>2. Len(heap) \in Nat
        BY <1>2
      <4> QED BY <4>1, <4>2, <1>3
    <3> QED BY <3>1, <3>2, <2>1, <1>6 DEF ReleaseResult
  <2>2. heapMode' = "run" => heapMode = "run"
    BY <1>6 DEF ReleaseResult
  <2> QED BY <2>1, <2>2, StillExcused
<1>10. Owned(Res(heap'), [asked EXCEPT ![b] = 0], [addr EXCEPT ![b] = 0], Excused')
  BY <1>2, <1>8, <1>9, RemovedOwned
<1>11. Owned(Res(heap'), asked', addr', Excused')
  BY <1>1, <1>10
<1>12. asked' \in [Blocks -> Nat] /\ addr' \in [Blocks -> Nat]
  BY <1>1, <1>2
<1>13. HeapSits' /\ (heapMode' = "run" => HeapTight')
  BY <1>2, <1>6 DEF ReleaseResult, HeapSits, HeapTight
<1> QED BY <1>11, <1>12, <1>13 DEF UInv

\* realloc to a smaller size or the same.
LEMMA ShrinkStep ==
  ASSUME UInv, NEW b \in Blocks, NEW n \in Nat \ {0}, realloc_shrink(b, n)
  PROVE  UInv'
<1> DEFINE i == NodeOf(heap, b)
           g == IF n < heap[i].size THEN create_padding_node(heap, i, n, heap_end) ELSE heap
           v == <<Start(heap, i), n, b>>
<1>1. /\ asked[b] # 0 /\ n <= heap[i].size
      /\ UNCHANGED <<heap_end, brk_end, addr>>
      /\ \/ /\ PaddingThere(heap, i, n, brk_end) /\ heap' = g
            /\ asked' = [asked EXCEPT ![b] = n] /\ heapMode' = heapMode
         \/ heapMode' = "pad" /\ UNCHANGED <<heap, asked>>
  BY DEF realloc_shrink
<1>2. /\ asked \in [Blocks -> Nat] /\ addr \in [Blocks -> Nat]
      /\ Owned(Res(heap), asked, addr, Excused) /\ heap \in Seq(NodeSet) /\ HeapSits
      /\ (heapMode = "run" => HeapTight)
  BY UInvHas
<1>3. /\ i \in 1 .. Len(heap) /\ heap[i].of = b
      /\ Start(heap, i) + 1 = addr[b]
      /\ \A u \in Res(heap) : u[3] = b => u = Entry(heap, i)
  BY <1>1, OwnersNode
<1>4. b \in Ofs /\ b # "free" /\ n \in Nat
  BY Names
<1> HIDE DEF i
<1>5. heap[i].size \in Nat /\ Start(heap, i) \in Nat /\ Entry(heap, i)[3] = b
      /\ Entry(heap, i) = <<Start(heap, i), heap[i].size, b>>
  BY <1>2, <1>3, EntryFields DEF Entry
<1>6. CASE heapMode' = "pad" /\ UNCHANGED <<heap, asked>>
  <2>1. \A u \in Res(heap) : u \in Excused => u \in Excused'
    <3>1. PICK Z : Z = Excused
      OBVIOUS
    <3>2. PICK Y : Y = Excused'
      OBVIOUS
    <3>3. Z \subseteq {LastEntry(heap)} /\ Y = {LastEntry(heap)}
      BY <3>1, <3>2, <1>6 DEF Excused
    <3> QED BY <3>1, <3>2, <3>3
  <2>2. Owned(Res(heap), asked, addr, Excused')
    BY <2>1, <1>2, ExcusedMore
  <2>3. Owned(Res(heap'), asked', addr', Excused')
    BY <2>2, <1>1, <1>6
  <2>4. HeapSits' /\ heapMode' # "run"
    BY <1>1, <1>2, <1>6 DEF HeapSits
  <2> QED BY <2>3, <2>4, <1>1, <1>2, <1>6 DEF UInv
<1>7. CASE /\ PaddingThere(heap, i, n, brk_end) /\ heap' = g
           /\ asked' = [asked EXCEPT ![b] = n] /\ heapMode' = heapMode
  <2>1. /\ Sits(g, heap_end, brk_end) /\ (HeapTight => Tight(g, heap_end, brk_end))
        /\ Res(g) = (Res(heap) \ {Entry(heap, i)}) \cup {v}
        /\ i < Len(heap) => LastEntry(g) = LastEntry(heap)
    <3>1. CASE n < heap[i].size
      <4>1. g = create_padding_node(heap, i, n, heap_end) /\ heap_end \in Nat
        BY <3>1, <1>2 DEF HeapSits, Sits
      <4>2. g \in Seq(NodeSet) /\ SplitUp(heap, g, i, n, b, Rest(heap, i, n, heap_end))
        BY <3>1, <4>1, <1>2, <1>3, <1>4, PaddingSplits
      <4> HIDE DEF g
      <4>3. PadResult(heap, g, i, n, b, heap_end, brk_end)
        BY <3>1, <4>2, <1>2, <1>3, <1>4, <1>7, PadRes DEF HeapSits
      <4> QED BY <4>3, <1>4 DEF PadResult, HeapTight
    <3>2. CASE ~(n < heap[i].size)
      <4>1. g = heap /\ n = heap[i].size
        BY <3>2, <1>1, <1>4, <1>5
      <4>2. v = Entry(heap, i) /\ v \in Res(heap)
        BY <4>1, <1>3, <1>4, <1>5 DEF Res, Used
      <4> HIDE DEF g, v
      <4> QED BY <4>1, <4>2, <1>2 DEF HeapSits, HeapTight
    <3> QED BY <3>1, <3>2
  <2> HIDE DEF g
  <2> DEFINE x == addr[b]
  <2>2. v[1] + 1 = x /\ v[2] >= n /\ v[3] = b /\ x \in Nat
    BY <1>2, <1>3
  <2> HIDE DEF v, x
  <2>3. Supplants(Res(heap), Res(g), b, v)
    BY <2>1, <1>3, <1>5 DEF Supplants
  <2>4. StaysExcused(Res(heap), b, Excused, Excused')
    <3>1. ASSUME NEW u \in Res(heap), u[3] # b, u = LastEntry(heap) PROVE u = LastEntry(heap')
      <4>1. heap[Len(heap)].of # "free" /\ LastEntry(heap)[3] = heap[Len(heap)].of
        BY <3>1, <1>2, LastIsUsed
      <4>2. i < Len(heap)
        <5>1. i # Len(heap)
          BY <3>1, <4>1, <1>3
        <5>2. Len(heap) \in Nat
          BY <1>2
        <5> QED BY <5>1, <5>2, <1>3
      <4> QED BY <4>2, <3>1, <2>1, <1>7
    <3>2. heapMode' = "run" => heapMode = "run"
      BY <1>7
    <3> QED BY <3>1, <3>2, StillExcused
  <2>5. Owned(Res(g), [asked EXCEPT ![b] = n], [addr EXCEPT ![b] = x], Excused')
    BY <2>2, <2>3, <2>4, <1>2, ReplacedOwned
  <2>6. [addr EXCEPT ![b] = x] = addr'
    BY <1>1, <1>2 DEF x
  <2>7. Owned(Res(heap'), asked', addr', Excused')
    BY <2>5, <2>6, <1>7
  <2>8. asked' \in [Blocks -> Nat] /\ addr' \in [Blocks -> Nat]
    BY <1>1, <1>2, <1>7
  <2>9. HeapSits' /\ (heapMode' = "run" => HeapTight')
    BY <2>1, <1>1, <1>2, <1>7 DEF HeapSits, HeapTight
  <2> QED BY <2>7, <2>8, <2>9 DEF UInv
<1> QED BY <1>1, <1>6, <1>7

\* The new block of a realloc takes the name of the one it replaces: after it
\* b has two entries, the old one t at place k and the new one v.
Renamed(h, b) ==
  [i \in DOMAIN h |-> IF h[i].of = "new" THEN Node(h[i].size, b) ELSE h[i]]

\* Place i of h is b's, of size m, beside what R says.
Beside(h, R, i, m, b) ==
  h[i] = Node(m, b) /\ Res(h) = R \cup {<<Start(h, i), m, b>>}

RenamedResult(h, g, i, m, b) ==
  /\ g \in Seq(NodeSet) /\ Len(g) = Len(h) /\ EndOf(g) = EndOf(h)
  /\ Start(g, i) = Start(h, i) /\ g[i] = Node(m, b)
  /\ Start(g, Len(g)) = Start(h, Len(h))
  /\ i < Len(h) => LastEntry(g) = LastEntry(h)
  /\ \A j \in 1 .. Len(h) : j # i => g[j] = h[j]

LEMMA RenamedRes ==
  ASSUME NEW h \in Seq(NodeSet), NEW b \in Blocks, NEW R, NEW i \in 1 .. Len(h), NEW m \in Nat,
         Beside(h, R, i, m, "new"), \A u \in R : u[3] \in Blocks
  PROVE  /\ RenamedResult(h, Renamed(h, b), i, m, b)
         /\ Beside(Renamed(h, b), R, i, m, b)
<1> DEFINE g == Renamed(h, b)
           w == <<Start(h, i), m, "new">>
<1>1. h[i].size = m /\ h[i].of = "new" /\ b \in Ofs /\ b # "free" /\ "new" # "free"
  BY Names DEF Beside, Node
<1>2. Entry(h, i) = w /\ w[3] = "new"
  BY <1>1 DEF Entry
<1>3. w \notin R
  BY <1>2, Names
<1> HIDE DEF w
<1>4. Res(h) = R \cup {w}
  BY DEF w, Beside
<1>5. ASSUME NEW j \in 1 .. Len(h), h[j].of = "new" PROVE j = i
  <2>1. Entry(h, j) \in Res(h) /\ Entry(h, j)[3] = "new"
    BY <1>1, <1>5, EntryFields DEF Res, Used
  <2>2. Entry(h, j) = Entry(h, i)
    BY <2>1, <1>2, <1>4, Names
  <2> QED BY <2>2, EntriesDiffer
<1>6. \A j \in 1 .. Len(h) : h[j] \in NodeSet
  BY NodeFields
<1>7. Node(m, b) \in NodeSet
  BY <1>1, NodeTyped
<1>8. DOMAIN h = 1 .. Len(h) /\ Len(h) \in Nat
  OBVIOUS
<1>9. g = [j \in 1 .. Len(h) |-> IF j = i THEN Node(m, b) ELSE h[j]]
  BY <1>1, <1>5, <1>8 DEF Renamed
<1>10. g \in Seq(NodeSet) /\ Len(g) = Len(h)
  BY <1>6, <1>7, <1>8, <1>9
<1>11. g[i] = Node(m, b) /\ \A j \in 1 .. Len(h) : j # i => g[j] = h[j]
  BY <1>9
<1> HIDE DEF g
<1>12. Rewritten(h, g, i, m, b)
  BY <1>10, <1>11 DEF Rewritten
<1>13. RewriteResult(h, g, i, m, b)
  BY <1>1, <1>10, <1>12, RewriteRes
<1>14. /\ EndOf(g) = EndOf(h) /\ Start(g, i) = Start(h, i)
       /\ Start(g, Len(g)) = Start(h, Len(h)) /\ (i < Len(h) => LastEntry(g) = LastEntry(h))
       /\ Res(g) = (Res(h) \ {w}) \cup {<<Start(h, i), m, b>>}
  BY <1>1, <1>2, <1>13 DEF RewriteResult
<1>15. Res(g) = R \cup {<<Start(h, i), m, b>>}
  BY <1>3, <1>4, <1>14
<1>16. RenamedResult(h, g, i, m, b)
  BY <1>10, <1>11, <1>14 DEF RenamedResult
<1>17. Beside(g, R, i, m, b)
  BY <1>11, <1>14, <1>15 DEF Beside
<1> QED BY <1>16, <1>17 DEF g

\* realloc to a larger size: the new block is there before the old one goes.
LEMMA GrowStep ==
  ASSUME UInv, NEW b \in Blocks, NEW n \in Nat \ {0}, realloc_grow(b, n)
  PROVE  UInv'
<1>1. asked[b] # 0
  BY DEF realloc_grow
<1>2. PICK o \in Allocs(n, "new") :
        \/ /\ heapMode' \in {"pad", "fault"}
           /\ UNCHANGED <<heap, heap_end, brk_end, asked, addr>>
        \/ /\ o.ret = "block"
           /\ Release(Renamed(o.nodes, b), NodeOf(o.nodes, b), o.end, o.brk)
           /\ asked' = [asked EXCEPT ![b] = n]
           /\ addr' = [addr EXCEPT ![b] = Start(o.nodes, NodeOf(o.nodes, "new")) + 1]
  BY DEF realloc_grow, Renamed
<1>3. /\ asked \in [Blocks -> Nat] /\ addr \in [Blocks -> Nat]
      /\ Owned(Res(heap), asked, addr, Excused) /\ heap \in Seq(NodeSet) /\ HeapSits
      /\ (heapMode = "run" => HeapTight)
  BY UInvHas
<1>4. CASE /\ heapMode' \in {"pad", "fault"}
           /\ UNCHANGED <<heap, heap_end, brk_end, asked, addr>>
  <2>1. \A u \in Res(heap) : u \in Excused => u \in Excused'
    <3>1. PICK Z : Z = Excused
      OBVIOUS
    <3>2. PICK Y : Y = Excused'
      OBVIOUS
    <3>3. Z \subseteq {LastEntry(heap)} /\ Y = {LastEntry(heap)}
      BY <3>1, <3>2, <1>4 DEF Excused
    <3> QED BY <3>1, <3>2, <3>3
  <2>2. Owned(Res(heap), asked, addr, Excused')
    BY <2>1, <1>3, ExcusedMore
  <2>3. Owned(Res(heap'), asked', addr', Excused')
    BY <2>2, <1>4
  <2>4. HeapSits' /\ heapMode' # "run"
    BY <1>3, <1>4 DEF HeapSits
  <2> QED BY <2>3, <2>4, <1>3, <1>4 DEF UInv
<1>5. CASE /\ o.ret = "block"
           /\ Release(Renamed(o.nodes, b), NodeOf(o.nodes, b), o.end, o.brk)
           /\ asked' = [asked EXCEPT ![b] = n]
           /\ addr' = [addr EXCEPT ![b] = Start(o.nodes, NodeOf(o.nodes, "new")) + 1]
  <2> DEFINE h == o.nodes
  <2>1. \A u \in Res(heap) : u[3] \in Blocks /\ u[3] # "new"
    BY <1>3, Names DEF Owned
  <2>2. AllocResult(o, n, "new")
    BY <1>3, <2>1, Names, AllocsAre
  <2>3. /\ h \in Seq(NodeSet) /\ Sits(h, o.end, o.brk) /\ h # <<>>
        /\ (HeapTight => Tight(h, o.end, o.brk)) /\ KeepsLast(heap, h)
        /\ Gained(Res(heap), h, n, "new")
    BY <2>2, <1>5 DEF AllocResult, Sits
  <2> HIDE DEF h
  <2>4. PICK i \in 1 .. Len(h), m \in Nat :
          /\ m >= n /\ h[i] = Node(m, "new")
          /\ Res(h) = Res(heap) \cup {<<Start(h, i), m, "new">>}
    BY <2>3 DEF Gained
  <2> DEFINE g == Renamed(h, b)
             v == <<Start(h, i), m, b>>
             w == <<Start(h, i), m, "new">>
             x == Start(h, i) + 1
             k == NodeOf(h, b)
  <2>5. /\ g \in Seq(NodeSet) /\ Len(g) = Len(h) /\ EndOf(g) = EndOf(h)
        /\ Start(g, i) = Start(h, i) /\ g[i] = Node(m, b)
        /\ Start(g, Len(g)) = Start(h, Len(h)) /\ (i < Len(h) => LastEntry(g) = LastEntry(h))
        /\ \A j \in 1 .. Len(h) : j # i => g[j] = h[j]
        /\ Res(g) = Res(heap) \cup {v}
    <3>1. Beside(h, Res(heap), i, m, "new")
      BY <2>4 DEF Beside
    <3>2. \A u \in Res(heap) : u[3] \in Blocks
      BY <2>1
    <3>3. RenamedResult(h, g, i, m, b) /\ Beside(g, Res(heap), i, m, b)
      BY <3>1, <3>2, <2>3, RenamedRes
    <3> HIDE DEF g
    <3> QED BY <3>3 DEF RenamedResult, Beside
  <2>6. h[i].size = m /\ h[i].of = "new" /\ g[i].size = m /\ g[i].of = b
    BY <2>4, <2>5 DEF Node
  <2>7. /\ Entry(g, i) = v /\ v[3] = b /\ v[2] >= n /\ v[1] + 1 = x /\ x \in Nat
        /\ Entry(h, i) = w /\ w[3] = "new"
    BY <2>3, <2>4, <2>5, <2>6, EntryFields DEF Entry
  <2>8. Res(h) = Res(heap) \cup {w}
    BY <2>4
  <2> HIDE DEF g, v, w
  <2>9. PICK t \in Res(heap) : t[3] = b /\ \A u \in Res(heap) : u[3] = b => u = t
    BY <1>1, <1>3 DEF Owned
  <2>10. t \in Res(h) /\ \A u \in Res(h) : u[3] = b => u = t
    BY <2>7, <2>8, <2>9, Names
  <2>11. k \in 1 .. Len(h) /\ h[k].of = b
    BY <2>3, <2>9, <2>10, Names, TheNodeOf
  <2>12. NodeOf(h, "new") = i
    <3>1. \A u \in Res(h) : u[3] = "new" => u = Entry(h, i)
      BY <2>1, <2>7, <2>8
    <3> QED BY <3>1, <2>3, <2>6, Names, NodeOfIs
  <2> HIDE DEF k
  <2>13. k # i /\ g[k].of = b /\ k \in 1 .. Len(g)
    BY <2>5, <2>6, <2>11, Names
  <2>14. Entry(g, k) = t /\ v # t
    <3>1. Entry(g, k) # v
      BY <2>5, <2>7, <2>13, EntriesDiffer
    <3>2. Entry(g, k) \in Res(g)
      BY <2>13, Names DEF Res, Used
    <3>3. Entry(g, k)[3] = b
      BY <2>5, <2>13, EntryFields
    <3> QED BY <3>1, <3>2, <3>3, <2>5, <2>9
  <2>15. /\ Sits(g, o.end, o.brk) /\ (Tight(h, o.end, o.brk) => Tight(g, o.end, o.brk))
         /\ g # <<>>
    <3>1. g # <<>>
      BY <2>5, <2>13
    <3> QED BY <3>1, <2>3, <2>5 DEF Sits, Tight
  <2>16. ReleaseResult(g, k, o.end, o.brk)
    <3>1. Release(g, k, o.end, o.brk)
      BY <1>5 DEF g, k, h
    <3> QED BY <3>1, <2>13, <2>15, ReleaseRes
  <2>17. Supplants(Res(heap), Res(heap'), b, v)
    BY <2>5, <2>9, <2>14, <2>16 DEF Supplants, ReleaseResult
  <2>18. asked' = [asked EXCEPT ![b] = n] /\ addr' = [addr EXCEPT ![b] = x]
    BY <2>12, <1>5 DEF h
  <2> HIDE DEF x
  <2>181. StaysExcused(Res(heap), b, Excused, Excused')
    <3>1. ASSUME NEW u \in Res(heap), u[3] # b, u = LastEntry(heap) PROVE u = LastEntry(heap')
      <4>1. heap # <<>> /\ heap[Len(heap)].of # "free"
        BY <3>1, <1>3, LastIsUsed
      <4>2. LastEntry(h) = u /\ u[3] \in Blocks /\ u[3] # "new"
        BY <4>1, <3>1, <2>1, <2>3 DEF KeepsLast
      <4>3. i # Len(h)
        BY <4>2, <2>7 DEF LastEntry
      <4>4. i < Len(h) /\ Len(h) \in 1 .. Len(h)
        BY <4>3, <2>3, <2>4
      <4>5. LastEntry(g) = u
        BY <4>2, <4>4, <2>5
      <4>6. g[Len(g)].of = u[3]
        BY <4>4, <4>5, <2>5, EntryFields DEF LastEntry
      <4>7. k # Len(g)
        BY <4>6, <3>1, <2>13
      <4>8. k < Len(g) /\ g[Len(g)].of # "free"
        BY <4>2, <4>4, <4>6, <4>7, <2>5, <2>13, Names
      <4> QED BY <4>5, <4>8, <2>16 DEF ReleaseResult
    <3>2. heapMode' = "run" => heapMode = "run"
      BY <2>16 DEF ReleaseResult
    <3> QED BY <3>1, <3>2, StillExcused
  <2>19. Owned(Res(heap'), [asked EXCEPT ![b] = n], [addr EXCEPT ![b] = x], Excused')
    BY <2>7, <2>17, <2>181, <1>3, ReplacedOwned
  <2>20. Owned(Res(heap'), asked', addr', Excused')
    BY <2>18, <2>19
  <2>21. asked' \in [Blocks -> Nat] /\ addr' \in [Blocks -> Nat]
    BY <2>7, <2>18, <1>3
  <2>22. HeapSits' /\ (heapMode' = "run" => HeapTight')
    BY <2>3, <2>15, <2>16, <1>3 DEF ReleaseResult, HeapSits, HeapTight
  <2> QED BY <2>20, <2>21, <2>22 DEF UInv
<1> QED BY <1>2, <1>4, <1>5

LEMMA UInvStep == UInv /\ [HeapNext]_heapVars => UInv'
<1> SUFFICES ASSUME UInv, [HeapNext]_heapVars PROVE UInv'
  OBVIOUS
<1>1. ASSUME NEW b \in Blocks, NEW n \in 1 .. MaxAsk,
             malloc(n, b) \/ calloc(n, b) \/ realloc_shrink(b, n) \/ realloc_grow(b, n)
      PROVE  UInv'
  <2>1. n \in Nat \ {0}
    BY UmallocAssumption
  <2>2. CASE malloc(n, b)
    BY <2>1, <2>2, AllocStep DEF malloc
  <2>3. CASE calloc(n, b)
    BY <2>1, <2>3, AllocStep DEF calloc
  <2>4. CASE realloc_shrink(b, n)
    BY <2>1, <2>4, ShrinkStep
  <2>5. CASE realloc_grow(b, n)
    BY <2>1, <2>5, GrowStep
  <2> QED BY <1>1, <2>2, <2>3, <2>4, <2>5
<1>2. ASSUME NEW b \in Blocks, free(b) PROVE UInv'
  BY <1>2, FreeStep
<1>3. CASE UNCHANGED heapVars
  <2>1. UNCHANGED <<heap, heap_end, brk_end, asked, addr, heapMode>>
    BY <1>3 DEF heapVars
  <2>2. Owned(Res(heap), asked, addr, Excused)' = Owned(Res(heap), asked, addr, Excused)
    BY <2>1 DEF Excused
  <2> QED BY <2>1, <2>2 DEF UInv, HeapSits, HeapTight
<1> QED BY <1>1, <1>2, <1>3 DEF HeapNext

\* Whatever malloc, calloc, realloc and free a program calls, for every page
\* size and every amount of memory, the nodes of malloc.c tile what the kernel
\* gave, until a free merges the last node backwards or gets no memory.
THEOREM HeapStaysTiled == HeapSpec => []HeapTiled
<1>1. UInv => HeapTiled
  BY TiledAndOwned
<1> QED BY <1>1, UInvInit, UInvStep, PTL DEF HeapSpec

\* Every block a program holds is one reserved node of malloc.c, where the
\* program was told and of the size it asked for, and nothing else is
\* reserved.  After a free has left the size of the last node untrue the calls
\* go on: that node alone may then be smaller than its owner thinks.
THEOREM BlocksStayOwned == HeapSpec => []BlocksOwned
<1>1. UInv => BlocksOwned
  BY TiledAndOwned
<1> QED BY <1>1, UInvInit, UInvStep, PTL DEF HeapSpec

----------------------------------------------------------------------------
(* The string functions: their loops *)

\* What holds at a place when it holds at all behind it holds everywhere.
LEMMA EveryPlace ==
  ASSUME NEW G, \A k \in Place : (\A j \in Place : j > k => j \in G) => k \in G
  PROVE  \A k \in Place : k \in G
<1> DEFINE B == {i \in Nat : StrSize - 1 - i \in Place /\ StrSize - 1 - i \notin G}
<1>0. StrSize \in Nat
  BY StrAssumption
<1>1. ASSUME B # {} PROVE FALSE
  <2>1. B \in SUBSET Nat
    OBVIOUS
  <2>2. PICK k : k = Min(B)
    OBVIOUS
  <2>3. k \in B /\ \A y \in B : k <= y
    <3> HIDE DEF B
    <3> QED BY <1>1, <2>1, <2>2, LeastOf
  <2>4. PICK j \in Place : j = StrSize - 1 - k /\ j \notin G /\ k \in Nat
    BY <2>3
  <2>5. PICK i \in Place : i > j /\ i \notin G
    BY <2>4
  <2>6. StrSize - 1 - i \in Nat /\ StrSize - 1 - (StrSize - 1 - i) = i /\ StrSize - 1 - i < k
    BY <1>0, <2>4, <2>5 DEF Place
  <2>7. StrSize - 1 - i \in B
    BY <2>5, <2>6
  <2> QED BY <2>3, <2>4, <2>6, <2>7
<1>2. ASSUME NEW k \in Place, k \notin G PROVE FALSE
  <2>1. StrSize - 1 - k \in Nat /\ StrSize - 1 - (StrSize - 1 - k) = k
    BY <1>0 DEF Place
  <2>2. StrSize - 1 - k \in B
    BY <1>2, <2>1
  <2> QED BY <1>1, <2>2
<1> QED BY <1>2

----------------------------------------------------------------------------
(* The lengths of strings *)

Byte == StrChars \cup {0}
MemT == {m \in [Place -> Byte] : m[StrSize - 1] = 0}

LEMMA Places ==
  /\ StrSize \in Nat /\ StrSize > 0 /\ StrSize - 1 \in Place /\ 0 \in Place
  /\ Place \in SUBSET Nat /\ (\A k \in Place : k <= StrSize - 1)
  /\ \A k \in Nat : k < StrSize => k \in Place
  BY StrAssumption DEF Place

LEMMA Bytes ==
  ASSUME NEW m \in MemT
  PROVE  /\ m \in [Place -> Byte] /\ m[StrSize - 1] = 0
         /\ \A k \in Place : m[k] \in Nat /\ m[k] \in Byte
<1>1. m \in [Place -> Byte] /\ m[StrSize - 1] = 0
  BY DEF MemT
<1>2. Byte \subseteq Nat
  BY StrAssumption DEF Byte
<1> QED BY <1>1, <1>2

\* Where the string at k ends.
StrEnd(m, k) == Min({j \in k .. StrSize - 1 : m[j] = 0})

LEMMA FirstZero ==
  ASSUME NEW m \in MemT, NEW k \in Place
  PROVE  /\ StrEnd(m, k) \in Place /\ StrEnd(m, k) >= k /\ m[StrEnd(m, k)] = 0
         /\ \A j \in k .. StrEnd(m, k) - 1 : m[j] # 0
         /\ m[k] = 0 => StrEnd(m, k) = k
         /\ m[k] # 0 => k + 1 \in Place /\ StrEnd(m, k + 1) = StrEnd(m, k) /\ StrEnd(m, k) >= k + 1
<1> DEFINE S(i) == {j \in i .. StrSize - 1 : m[j] = 0}
<1>1. \A i \in Place : S(i) \in SUBSET Nat /\ S(i) # {}
  BY Bytes, Places
<1>2. PICK z : z = Min(S(k))
  OBVIOUS
<1>3. z \in S(k) /\ \A y \in S(k) : z <= y
  <2> HIDE DEF S
  <2> QED BY <1>1, <1>2, LeastOf
<1>4. StrEnd(m, k) = z
  BY <1>2 DEF StrEnd
<1>5. z \in Place /\ z >= k /\ m[z] = 0 /\ z \in Nat /\ k \in Nat
  BY <1>3, Places
<1>6. ASSUME NEW j \in k .. z - 1 PROVE m[j] # 0
  BY <1>3, <1>5, Places
<1>7. m[k] = 0 => z = k
  <2>1. ASSUME z # k PROVE m[k] # 0
    <3>1. k \in k .. z - 1
      BY <1>5, <2>1
    <3> QED BY <1>6, <3>1
  <2> QED BY <2>1
<1>8. ASSUME m[k] # 0 PROVE k + 1 \in Place /\ StrEnd(m, k + 1) = z /\ z >= k + 1
  <2>1. z # k
    BY <1>5, <1>8
  <2>2. z >= k + 1 /\ k + 1 \in Place
    BY <1>5, <2>1, Places
  <2>3. z \in S(k + 1) /\ \A y \in S(k + 1) : z <= y
    BY <1>3, <1>5, <2>2
  <2>4. Min(S(k + 1)) = z
    <3>1. S(k + 1) \in SUBSET Nat
      BY <1>1, <2>2
    <3> HIDE DEF S
    <3> QED BY <2>3, <3>1, MinIs
  <2> QED BY <2>2, <2>4 DEF StrEnd
<1> QED BY <1>4, <1>5, <1>6, <1>7, <1>8

\* strlen counts to there.
LEMMA LenIs ==
  ASSUME NEW m \in MemT, NEW p \in Place
  PROVE  strlen(m, p) = StrEnd(m, p) - p
<1> DEFINE F(w) == [k \in Place |-> IF m[k] = 0 THEN 0 ELSE 1 + w[k + 1]]
           v == [k \in Place |-> StrEnd(m, k) - k]
<1>1. ASSUME NEW k \in Place
      PROVE  StrEnd(m, k) - k = IF m[k] = 0 THEN 0 ELSE 1 + (StrEnd(m, k + 1) - (k + 1))
  <2>1. PICK z : z = StrEnd(m, k)
    OBVIOUS
  <2>2. z \in Nat /\ k \in Nat /\ (m[k] = 0 => z = k) /\ (m[k] # 0 => StrEnd(m, k + 1) = z)
    BY <2>1, FirstZero, Places
  <2> QED BY <2>1, <2>2
<1>2. v = F(v)
  <2>1. \A k \in Place : m[k] # 0 => k + 1 \in Place
    BY FirstZero
  <2>2. \A k \in Place : v[k] = IF m[k] = 0 THEN 0 ELSE 1 + v[k + 1]
    BY <1>1, <2>1
  <2> QED BY <2>2
<1>3. PICK w : w = F(w) /\ strlen(m, p) = w[p]
  <2>1. \E w : w = F(w)
    BY <1>2
  <2> QED BY <2>1 DEF strlen
<1> DEFINE G == {k \in Place : w[k] = StrEnd(m, k) - k}
<1>4. ASSUME NEW k \in Place, \A j \in Place : j > k => j \in G PROVE k \in G
  <2>1. w[k] = IF m[k] = 0 THEN 0 ELSE 1 + w[k + 1]
    BY <1>3
  <2>2. m[k] # 0 => k + 1 \in Place /\ k + 1 > k
    BY FirstZero, Places
  <2>3. m[k] # 0 => w[k + 1] = StrEnd(m, k + 1) - (k + 1)
    BY <1>4, <2>2
  <2> QED BY <1>1, <2>1, <2>3
<1> HIDE DEF G
<1>5. p \in G
  BY <1>4, EveryPlace
<1> QED BY <1>3, <1>5 DEF G

\* The length of a string, and the bytes of it.
LEMMA Length ==
  ASSUME NEW m \in MemT, NEW p \in Place
  PROVE  LET l == strlen(m, p)
         IN  /\ l \in Nat /\ p + l \in Place /\ m[p + l] = 0
             /\ \A j \in p .. p + l - 1 : j \in Place /\ m[j] # 0
             /\ \A j \in 0 .. l : p + j \in Place
             /\ \A j \in 0 .. l - 1 : m[p + j] # 0
             /\ m[p] = 0 => l = 0
             /\ m[p] # 0 => l > 0 /\ p + 1 \in Place /\ strlen(m, p + 1) = l - 1
<1>1. PICK z : z = StrEnd(m, p)
  OBVIOUS
<1>2. PICK l : l = strlen(m, p)
  OBVIOUS
<1>3. /\ z \in Place /\ z >= p /\ m[z] = 0 /\ (\A j \in p .. z - 1 : m[j] # 0)
      /\ (m[p] = 0 => z = p)
      /\ (m[p] # 0 => p + 1 \in Place /\ StrEnd(m, p + 1) = z /\ z >= p + 1)
  BY <1>1, FirstZero
<1>4. l = z - p
  BY <1>1, <1>2, LenIs
<1>5. z \in Nat /\ p \in Nat /\ l \in Nat /\ p + l = z
  BY <1>3, <1>4, Places
<1>6. \A j \in p .. p + l - 1 : j \in Place /\ m[j] # 0
  BY <1>3, <1>5, Places
<1>7. \A j \in 0 .. l : p + j \in Place
  BY <1>3, <1>5, Places
<1>8. ASSUME NEW j \in 0 .. l - 1 PROVE m[p + j] # 0
  <2>1. p + j \in p .. p + l - 1
    BY <1>5
  <2> QED BY <1>6, <2>1
<1>9. ASSUME m[p] # 0 PROVE l > 0 /\ p + 1 \in Place /\ strlen(m, p + 1) = l - 1
  <2>1. p + 1 \in Place /\ StrEnd(m, p + 1) = z /\ z >= p + 1
    BY <1>3, <1>9
  <2>2. strlen(m, p + 1) = z - (p + 1)
    BY <2>1, LenIs
  <2> QED BY <1>4, <1>5, <2>1, <2>2
<1>10. m[p] = 0 => l = 0
  BY <1>3, <1>4, <1>5
<1> QED BY <1>2, <1>3, <1>5, <1>6, <1>7, <1>8, <1>9, <1>10

\* And nothing else is.
LEMMA LengthOf ==
  ASSUME NEW m \in MemT, NEW p \in Place, NEW l \in Nat, p + l \in Place, m[p + l] = 0,
         \A j \in 0 .. l - 1 : m[p + j] # 0
  PROVE  strlen(m, p) = l
<1>1. PICK k : k = strlen(m, p)
  OBVIOUS
<1>2. k \in Nat /\ m[p + k] = 0 /\ \A j \in 0 .. k - 1 : m[p + j] # 0
  BY <1>1, Length
<1>3. ~(k < l)
  <2>1. k < l => k \in 0 .. l - 1
    BY <1>2
  <2> QED BY <1>2, <2>1
<1>4. ~(l < k)
  <2>1. l < k => l \in 0 .. k - 1
    BY <1>2
  <2> QED BY <1>2, <2>1
<1> QED BY <1>1, <1>2, <1>3, <1>4

----------------------------------------------------------------------------
(* Looking for a character or a string *)

\* The first of the places in T from a to b.
FirstOf(T, a, b) == IF T \cap (a .. b) = {} THEN Null ELSE Min(T \cap (a .. b))

LEMMA FirstIs ==
  ASSUME NEW T \in SUBSET Nat, NEW a \in Nat, NEW b \in Int
  PROVE  LET x == FirstOf(T, a, b)
         IN  /\ x = Null <=> \A j \in a .. b : j \notin T
             /\ x # Null => x \in a .. b /\ x \in T /\ \A j \in a .. x - 1 : j \notin T
<1>1. PICK S : S = T \cap (a .. b)
  OBVIOUS
<1>2. S \in SUBSET Nat
  BY <1>1
<1>3. CASE S = {}
  <2>1. \A j \in a .. b : j \notin T
    BY <1>1, <1>3
  <2>2. FirstOf(T, a, b) = Null
    BY <1>1, <1>3 DEF FirstOf
  <2> QED BY <2>1, <2>2
<1>4. CASE S # {}
  <2>1. PICK x : x = FirstOf(T, a, b)
    OBVIOUS
  <2>2. x = Min(S)
    BY <1>1, <1>4, <2>1 DEF FirstOf
  <2>3. x \in S /\ \A y \in S : x <= y
    BY <1>2, <1>4, <2>2, LeastOf
  <2>4. x \in Nat /\ x # Null /\ x \in a .. b /\ x \in T
    BY <1>1, <1>2, <2>3 DEF Null
  <2>5. ASSUME NEW j \in a .. x - 1 PROVE j \notin T
    <3>1. j \in a .. b /\ ~(x <= j)
      BY <2>4
    <3> QED BY <1>1, <2>3, <3>1
  <2> QED BY <2>1, <2>4, <2>5
<1> QED BY <1>3, <1>4

LEMMA FirstOnly ==
  ASSUME NEW T \in SUBSET Nat, NEW a \in Nat, NEW b \in Int, NEW x \in a .. b, x \in T,
         \A j \in a .. x - 1 : j \notin T
  PROVE  FirstOf(T, a, b) = x
<1>1. PICK y : y = FirstOf(T, a, b)
  OBVIOUS
<1>2. y # Null /\ y \in a .. b /\ y \in T /\ \A j \in a .. y - 1 : j \notin T
  BY <1>1, FirstIs
<1>3. ~(x < y)
  <2>1. x < y => x \in a .. y - 1
    BY <1>2
  <2> QED BY <1>2, <2>1
<1>4. ~(y < x)
  <2>1. y < x => y \in a .. x - 1
    BY <1>2
  <2> QED BY <1>2, <2>1
<1> QED BY <1>1, <1>2, <1>3, <1>4

LEMMA FirstStep ==
  ASSUME NEW T \in SUBSET Nat, NEW a \in Nat, NEW b \in Int
  PROVE  /\ b < a => FirstOf(T, a, b) = Null
         /\ a <= b => FirstOf(T, a, b) = IF a \in T THEN a ELSE FirstOf(T, a + 1, b)
<1>1. ASSUME b < a PROVE FirstOf(T, a, b) = Null
  <2>1. a .. b = {}
    BY <1>1
  <2> QED BY <2>1 DEF FirstOf
<1>2. ASSUME a <= b, a \in T PROVE FirstOf(T, a, b) = a
  <2>1. a \in a .. b /\ a .. a - 1 = {}
    BY <1>2
  <2> QED BY <1>2, <2>1, FirstOnly
<1>3. ASSUME a <= b, a \notin T PROVE FirstOf(T, a, b) = FirstOf(T, a + 1, b)
  <2>1. T \cap (a .. b) = T \cap (a + 1 .. b)
    BY <1>3
  <2> QED BY <2>1 DEF FirstOf
<1> QED BY <1>1, <1>2, <1>3

\* The places of a character.
PlacesOf(m, v) == {k \in Place : m[k] = v}

\* memchr looks at n bytes.
LEMMA MemchrIs ==
  ASSUME NEW m \in MemT, NEW p \in Place, NEW v, NEW n \in Nat, p + n <= StrSize
  PROVE  memchr(m, p, v, n) = FirstOf(PlacesOf(m, v), p, p + n - 1)
<1> DEFINE T == PlacesOf(m, v)
           b == p + n - 1
           C(k) == FirstOf(T, p + n - k, b)
           F(w) == [k \in 0 .. n |-> IF k = 0 THEN Null
                                     ELSE IF m[p + n - k] = v THEN p + n - k ELSE w[k - 1]]
           u == [k \in 0 .. n |-> C(k)]
<1>0. p \in Nat /\ T \in SUBSET Nat /\ b \in Int /\ StrSize \in Nat
  <2>1. p \in Nat /\ b \in Int /\ StrSize \in Nat
    BY Places
  <2> QED BY <2>1, Places DEF PlacesOf
<1>1. C(0) = Null
  <2>1. p + n - 0 \in Nat /\ b < p + n - 0
    BY <1>0
  <2> HIDE DEF T, b
  <2> QED BY <1>0, <2>1, FirstStep
<1>2. ASSUME NEW k \in 1 .. n
      PROVE  C(k) = IF m[p + n - k] = v THEN p + n - k ELSE C(k - 1)
  <2>1. PICK a : a = p + n - k
    OBVIOUS
  <2>2. a \in Place /\ a \in Nat /\ a <= b /\ p + n - (k - 1) = a + 1
    BY <1>0, <2>1, Places
  <2>3. a \in T <=> m[a] = v
    BY <2>2 DEF PlacesOf
  <2>4. FirstOf(T, a, b) = IF a \in T THEN a ELSE FirstOf(T, a + 1, b)
    <3> HIDE DEF T, b
    <3> QED BY <1>0, <2>2, FirstStep
  <2> HIDE DEF T, b
  <2> QED BY <2>1, <2>2, <2>3, <2>4
<1> HIDE DEF C
<1>3. u = F(u)
  <2>1. \A k \in 0 .. n : k = 0 \/ (k \in 1 .. n /\ k - 1 \in 0 .. n)
    OBVIOUS
  <2>2. \A k \in 0 .. n : u[k] = IF k = 0 THEN Null
                                 ELSE IF m[p + n - k] = v THEN p + n - k ELSE u[k - 1]
    BY <1>1, <1>2, <2>1
  <2> QED BY <2>2
<1>4. PICK w : w = F(w) /\ memchr(m, p, v, n) = w[n]
  <2>1. \E w : w = F(w)
    BY <1>3
  <2> QED BY <2>1 DEF memchr
<1> DEFINE G == {k \in 0 .. n : w[k] = C(k)}
<1>5. 0 \in G
  <2>1. 0 \in 0 .. n
    OBVIOUS
  <2>2. w[0] = Null
    BY <1>4, <2>1
  <2> QED BY <1>1, <2>1, <2>2
<1>6. ASSUME NEW i \in 1 .. n, i - 1 \in G PROVE i \in G
  <2>1. i \in 0 .. n /\ i # 0
    OBVIOUS
  <2>2. w[i] = IF m[p + n - i] = v THEN p + n - i ELSE w[i - 1]
    BY <1>4, <2>1
  <2> QED BY <1>2, <1>6, <2>1, <2>2
<1> HIDE DEF G
<1>7. \A i \in 0 .. n : i \in G
  BY <1>5, <1>6, EveryTurn
<1>8. n \in G
  BY <1>7
<1>9. w[n] = C(n)
  BY <1>8 DEF G
<1> QED
  <2>1. p + n - n = p
    BY <1>0
  <2> QED BY <1>4, <1>9, <2>1 DEF C

\* strchr looks up to the terminator and finds that, too.
LEMMA StrchrIs ==
  ASSUME NEW m \in MemT, NEW p \in Place, NEW v
  PROVE  strchr(m, p, v) = FirstOf(PlacesOf(m, v), p, p + strlen(m, p))
<1> DEFINE T == PlacesOf(m, v)
           C(k) == FirstOf(T, k, k + strlen(m, k))
           F(w) == [k \in Place |-> IF m[k] = v THEN k ELSE IF m[k] = 0 THEN Null ELSE w[k + 1]]
           u == [k \in Place |-> C(k)]
<1>0. T \in SUBSET Nat
  BY Places DEF PlacesOf
<1>1. ASSUME NEW k \in Place
      PROVE  C(k) = IF m[k] = v THEN k ELSE IF m[k] = 0 THEN Null ELSE C(k + 1)
  <2>1. PICK l : l = strlen(m, k)
    OBVIOUS
  <2>2. /\ l \in Nat /\ k \in Nat /\ (m[k] = 0 => l = 0)
        /\ (m[k] # 0 => k + 1 \in Place /\ strlen(m, k + 1) = l - 1 /\ l > 0)
    BY <2>1, Length, Places
  <2>3. k \in T <=> m[k] = v
    BY DEF PlacesOf
  <2>4. FirstOf(T, k, k + l) = IF k \in T THEN k ELSE FirstOf(T, k + 1, k + l)
    <3> HIDE DEF T
    <3> QED BY <1>0, <2>2, FirstStep
  <2>5. m[k] = 0 => FirstOf(T, k + 1, k + l) = Null
    <3>1. m[k] = 0 => k + l < k + 1
      BY <2>2
    <3>2. k + 1 \in Nat /\ k + l \in Int
      BY <2>2
    <3> HIDE DEF T
    <3> QED BY <1>0, <3>1, <3>2, FirstStep
  <2>6. m[k] # 0 => k + 1 + strlen(m, k + 1) = k + l
    BY <2>2
  <2> HIDE DEF T
  <2> QED BY <2>1, <2>3, <2>4, <2>5, <2>6
<1> HIDE DEF C
<1>2. \A k \in Place : m[k] # 0 => k + 1 \in Place
  BY Length
<1>3. u = F(u)
  <2>1. \A k \in Place : u[k] = IF m[k] = v THEN k ELSE IF m[k] = 0 THEN Null ELSE u[k + 1]
    BY <1>1, <1>2
  <2> QED BY <2>1
<1>4. PICK w : w = F(w) /\ strchr(m, p, v) = w[p]
  <2>1. \E w : w = F(w)
    BY <1>3
  <2> QED BY <2>1 DEF strchr
<1> DEFINE G == {k \in Place : w[k] = C(k)}
<1>5. ASSUME NEW k \in Place, \A j \in Place : j > k => j \in G PROVE k \in G
  <2>1. w[k] = IF m[k] = v THEN k ELSE IF m[k] = 0 THEN Null ELSE w[k + 1]
    BY <1>4
  <2>2. m[k] # 0 => k + 1 \in Place /\ k + 1 > k
    BY <1>2, Places
  <2>3. m[k] # 0 => w[k + 1] = C(k + 1)
    BY <1>5, <2>2
  <2> QED BY <1>1, <2>1, <2>3
<1> HIDE DEF G
<1>6. p \in G
  BY <1>5, EveryPlace
<1> QED BY <1>4, <1>6 DEF G, C

\* The kernel's finds the characters of the string.
LEMMA KernelStrchr ==
  ASSUME NEW m \in MemT, NEW q \in Place, NEW v
  PROVE  kernel_strchr(m, q, v) # Null <=> \E j \in q .. q + strlen(m, q) - 1 : m[j] = v
<1>1. PICK l : l = strlen(m, q)
  OBVIOUS
<1>2. /\ l \in Nat /\ q \in Nat /\ m[q + l] = 0 /\ \A j \in q .. q + l - 1 : j \in Place /\ m[j] # 0
  BY <1>1, Length, Places
<1>3. CASE v = 0
  BY <1>1, <1>2, <1>3 DEF kernel_strchr
<1>4. CASE v # 0
  <2>1. kernel_strchr(m, q, v) = FirstOf(PlacesOf(m, v), q, q + l)
    BY <1>1, <1>4, StrchrIs DEF kernel_strchr
  <2>2. PlacesOf(m, v) \in SUBSET Nat /\ q + l \in Int
    <3>1. PlacesOf(m, v) \in SUBSET Nat
      BY Places DEF PlacesOf
    <3> QED BY <1>2, <3>1
  <2>3. kernel_strchr(m, q, v) = Null <=> \A j \in q .. q + l : j \notin PlacesOf(m, v)
    BY <1>2, <2>1, <2>2, FirstIs
  <2>4. \A j \in q .. q + l : j = q + l \/ j \in q .. q + l - 1
    BY <1>2
  <2>5. \A j \in q .. q + l - 1 : j \in q .. q + l
    BY <1>2
  <2>6. \A j \in q .. q + l : j \in PlacesOf(m, v) <=> j \in q .. q + l - 1 /\ m[j] = v
    BY <1>2, <1>4, <2>4 DEF PlacesOf
  <2> QED BY <1>1, <2>3, <2>5, <2>6
<1> QED BY <1>3, <1>4

\* The last of the places in T from a to b.
LastOf(T, a, b) == IF T \cap (a .. b) = {} THEN Null ELSE Max(T \cap (a .. b))

LEMMA LastStep ==
  ASSUME NEW T \in SUBSET Nat, NEW a \in Nat, NEW b \in Int
  PROVE  /\ b < a => LastOf(T, a, b) = Null
         /\ a <= b => LastOf(T, a, b) = IF b \in T THEN b ELSE LastOf(T, a, b - 1)
<1>1. ASSUME b < a PROVE LastOf(T, a, b) = Null
  <2>1. a .. b = {}
    BY <1>1
  <2> QED BY <2>1 DEF LastOf
<1>2. ASSUME a <= b, b \in T PROVE LastOf(T, a, b) = b
  <2>1. PICK S : S = T \cap (a .. b)
    OBVIOUS
  <2>2. S \in SUBSET Nat /\ b \in S /\ \A y \in S : b >= y
    BY <1>2, <2>1
  <2>3. Max(S) = b
    BY <2>2, MaxIs
  <2> QED BY <2>1, <2>2, <2>3 DEF LastOf
<1>3. ASSUME a <= b, b \notin T PROVE LastOf(T, a, b) = LastOf(T, a, b - 1)
  <2>1. T \cap (a .. b) = T \cap (a .. b - 1)
    BY <1>3
  <2> QED BY <2>1 DEF LastOf
<1> QED BY <1>1, <1>2, <1>3

\* strrchr goes to the terminator and comes back.
LEMMA StrrchrIs ==
  ASSUME NEW m \in MemT, NEW p \in Place, NEW v
  PROVE  strrchr(m, p, v) = LastOf(PlacesOf(m, v), p, p + strlen(m, p))
<1>1. PICK l : l = strlen(m, p)
  OBVIOUS
<1>2. l \in Nat /\ p \in Nat /\ (\A j \in 0 .. l : p + j \in Place)
  BY <1>1, Length, Places
<1> DEFINE T == PlacesOf(m, v)
           D == p - 1 .. p + l
           C(k) == LastOf(T, p, k)
           F(w) == [k \in D |-> IF k < p THEN Null ELSE IF m[k] = v THEN k ELSE w[k - 1]]
           u == [k \in D |-> C(k)]
<1>3. T \in SUBSET Nat
  BY Places DEF PlacesOf
<1>4. ASSUME NEW k \in D
      PROVE  C(k) = IF k < p THEN Null ELSE IF m[k] = v THEN k ELSE C(k - 1)
  <2>1. k \in Int
    BY <1>2
  <2>2. k >= p => k - p \in 0 .. l /\ k = p + (k - p)
    BY <1>2
  <2>3. k >= p => (k \in T <=> m[k] = v)
    BY <1>2, <2>2 DEF PlacesOf
  <2> HIDE DEF T
  <2> QED BY <1>2, <1>3, <2>1, <2>3, LastStep
<1> HIDE DEF C
<1>5. \A k \in D : k < p \/ k - 1 \in D
  BY <1>2
<1>6. u = F(u)
  <2>1. \A k \in D : u[k] = IF k < p THEN Null ELSE IF m[k] = v THEN k ELSE u[k - 1]
    BY <1>4, <1>5
  <2> QED BY <2>1
<1>7. PICK w : w = F(w) /\ strrchr(m, p, v) = w[p + l]
  <2>1. \E w : w = F(w)
    BY <1>6
  <2> QED BY <1>1, <2>1 DEF strrchr
<1> DEFINE G == {i \in 0 .. l + 1 : w[p - 1 + i] = C(p - 1 + i)}
<1>8. ASSUME NEW k \in D PROVE w[k] = IF k < p THEN Null ELSE IF m[k] = v THEN k ELSE w[k - 1]
  BY <1>7
<1>9. 0 \in G
  <2>1. p - 1 + 0 \in D /\ p - 1 + 0 < p /\ 0 \in 0 .. l + 1
    BY <1>2
  <2> QED BY <1>4, <1>8, <2>1
<1>10. ASSUME NEW i \in 1 .. l + 1, i - 1 \in G PROVE i \in G
  <2>1. PICK k \in D : k = p - 1 + i /\ k - 1 = p - 1 + (i - 1)
    BY <1>2
  <2>2. i \in 0 .. l + 1
    BY <1>2
  <2>3. w[k - 1] = C(k - 1)
    BY <1>10, <2>1
  <2>4. w[k] = C(k)
    BY <1>4, <1>8, <2>3
  <2> QED BY <2>1, <2>2, <2>4
<1> HIDE DEF G
<1>11. \A i \in 0 .. l + 1 : i \in G
  BY <1>2, <1>9, <1>10, EveryTurn
<1>12. l + 1 \in G /\ p - 1 + (l + 1) = p + l
  BY <1>2, <1>11
<1> QED BY <1>1, <1>7, <1>12 DEF G, C

\* strpbrk finds the first character that is one of those at q.
Accepted(m, q) == {k \in Place : \E j \in q .. q + strlen(m, q) - 1 : m[j] = m[k]}

LEMMA StrpbrkIs ==
  ASSUME NEW m \in MemT, NEW p \in Place, NEW q \in Place
  PROVE  strpbrk(m, p, q) = FirstOf(Accepted(m, q), p, p + strlen(m, p) - 1)
<1> DEFINE T == Accepted(m, q)
           C(k) == FirstOf(T, k, k + strlen(m, k) - 1)
           F(w) == [k \in Place |-> IF m[k] = 0 THEN Null
                                    ELSE IF kernel_strchr(m, q, m[k]) # Null THEN k ELSE w[k + 1]]
           u == [k \in Place |-> C(k)]
<1>0. T \in SUBSET Nat
  <2>1. T \subseteq Place
    BY DEF Accepted
  <2> QED BY <2>1, Places
<1>1. ASSUME NEW k \in Place
      PROVE  C(k) = IF m[k] = 0 THEN Null
                    ELSE IF kernel_strchr(m, q, m[k]) # Null THEN k ELSE C(k + 1)
  <2>1. PICK l : l = strlen(m, k)
    OBVIOUS
  <2>2. /\ l \in Nat /\ k \in Nat /\ (m[k] = 0 => l = 0)
        /\ (m[k] # 0 => k + 1 \in Place /\ strlen(m, k + 1) = l - 1 /\ l > 0)
    BY <2>1, Length, Places
  <2>3. k \in T <=> kernel_strchr(m, q, m[k]) # Null
    BY KernelStrchr DEF Accepted
  <2>4. m[k] # 0 => FirstOf(T, k, k + l - 1) = IF k \in T THEN k ELSE FirstOf(T, k + 1, k + l - 1)
    <3> HIDE DEF T
    <3>1. m[k] # 0 => k <= k + l - 1
      BY <2>2
    <3>2. k + l - 1 \in Int
      BY <2>2
    <3>3. k \in Nat
      BY <2>2
    <3>4. PICK b \in Int : b = k + l - 1
      BY <3>2
    <3>5. k <= b => FirstOf(T, k, b) = IF k \in T THEN k ELSE FirstOf(T, k + 1, b)
      BY <1>0, <3>3, FirstStep
    <3> QED BY <3>1, <3>4, <3>5
  <2>5. m[k] = 0 => FirstOf(T, k, k + l - 1) = Null
    <3>1. m[k] = 0 => k + l - 1 < k
      BY <2>2
    <3>2. k + l - 1 \in Int
      BY <2>2
    <3> HIDE DEF T
    <3> QED BY <1>0, <2>2, <3>1, <3>2, FirstStep
  <2>6. m[k] # 0 => k + 1 + strlen(m, k + 1) - 1 = k + l - 1
    BY <2>2
  <2> HIDE DEF T
  <2> QED BY <2>1, <2>3, <2>4, <2>5, <2>6
<1> HIDE DEF C
<1>2. \A k \in Place : m[k] # 0 => k + 1 \in Place
  BY Length
<1>3. u = F(u)
  <2>1. \A k \in Place : u[k] = IF m[k] = 0 THEN Null
                                ELSE IF kernel_strchr(m, q, m[k]) # Null THEN k ELSE u[k + 1]
    BY <1>1, <1>2
  <2> QED BY <2>1
<1>4. PICK w : w = F(w) /\ strpbrk(m, p, q) = w[p]
  <2>1. \E w : w = F(w)
    BY <1>3
  <2> QED BY <2>1 DEF strpbrk
<1> DEFINE G == {k \in Place : w[k] = C(k)}
<1>5. ASSUME NEW k \in Place, \A j \in Place : j > k => j \in G PROVE k \in G
  <2>1. w[k] = IF m[k] = 0 THEN Null
               ELSE IF kernel_strchr(m, q, m[k]) # Null THEN k ELSE w[k + 1]
    BY <1>4
  <2>2. m[k] # 0 => k + 1 \in Place /\ k + 1 > k
    BY <1>2, Places
  <2>3. m[k] # 0 => w[k + 1] = C(k + 1)
    BY <1>5, <2>2
  <2> QED BY <1>1, <2>1, <2>3
<1> HIDE DEF G
<1>6. p \in G
  BY <1>5, EveryPlace
<1> QED BY <1>4, <1>6 DEF G, C

\* strcspn counts the characters in front of it.
LEMMA StrcspnIs ==
  ASSUME NEW m \in MemT, NEW p \in Place, NEW q \in Place
  PROVE  strcspn(m, p, q) =
           Min({k \in 0 .. strlen(m, p) :
                  k = strlen(m, p) \/ m[p + k] \in {Str(m, q)[i] : i \in DOMAIN Str(m, q)}})
<1>1. PICK l, h, x : l = strlen(m, p) /\ h = strlen(m, q) /\ x = strpbrk(m, p, q)
  OBVIOUS
<1>2. /\ l \in Nat /\ p \in Nat /\ h \in Nat /\ q \in Nat
      /\ \A j \in 0 .. l : p + j \in Place
  BY <1>1, Length, Places
<1> DEFINE S == {k \in 0 .. l : k = l \/ m[p + k] \in {Str(m, q)[i] : i \in DOMAIN Str(m, q)}}
           T == Accepted(m, q)
<1>3. \A v : v \in {Str(m, q)[i] : i \in DOMAIN Str(m, q)} <=> \E j \in q .. q + h - 1 : m[j] = v
  <2>1. {Str(m, q)[i] : i \in DOMAIN Str(m, q)} = {m[q + i - 1] : i \in 1 .. h}
    BY <1>1 DEF Str
  <2>2. ASSUME NEW v, NEW i \in 1 .. h, v = m[q + i - 1] PROVE \E j \in q .. q + h - 1 : m[j] = v
    <3>1. q + i - 1 \in q .. q + h - 1
      BY <1>2
    <3> QED BY <2>2, <3>1
  <2>3. ASSUME NEW v, NEW j \in q .. q + h - 1, m[j] = v PROVE \E i \in 1 .. h : v = m[q + i - 1]
    <3>1. j - q + 1 \in 1 .. h /\ q + (j - q + 1) - 1 = j
      BY <1>2
    <3> QED BY <2>3, <3>1
  <2> QED BY <2>1, <2>2, <2>3
<1>4. \A k \in 0 .. l : m[p + k] \in {Str(m, q)[i] : i \in DOMAIN Str(m, q)} <=> p + k \in T
  BY <1>1, <1>2, <1>3 DEF Accepted
<1>5. T \in SUBSET Nat
  <2>1. T \subseteq Place
    BY DEF Accepted
  <2> QED BY <2>1, Places
<1>6. S = {k \in 0 .. l : k = l \/ p + k \in T}
  BY <1>4
<1> HIDE DEF T
<1>7. /\ x = Null <=> \A j \in p .. p + l - 1 : j \notin T
      /\ x # Null => x \in p .. p + l - 1 /\ x \in T /\ \A j \in p .. x - 1 : j \notin T
  <2>1. x = FirstOf(T, p, p + l - 1)
    BY <1>1, StrpbrkIs DEF T
  <2>2. PICK b \in Int : b = p + l - 1
    BY <1>2
  <2>3. x = FirstOf(T, p, b)
    BY <2>1, <2>2
  <2>4. p \in Nat
    BY <1>2
  <2>5. /\ x = Null <=> \A j \in p .. b : j \notin T
        /\ x # Null => x \in p .. b /\ x \in T /\ \A j \in p .. x - 1 : j \notin T
    BY <1>5, <2>3, <2>4, FirstIs
  <2> QED BY <2>2, <2>5
<1>8. CASE x = Null
  <2>1. l \in S /\ \A y \in S : l <= y
    <3>1. \A k \in 0 .. l : k # l => p + k \in p .. p + l - 1
      BY <1>2
    <3> QED BY <1>2, <1>6, <1>7, <1>8, <3>1
  <2>2. Min(S) = l
    <3>1. S \in SUBSET Nat
      BY <1>6
    <3> HIDE DEF S
    <3> QED BY <2>1, <3>1, MinIs
  <2>3. strcspn(m, p, q) = l
    BY <1>1, <1>8 DEF strcspn
  <2> QED BY <1>1, <2>2, <2>3
<1>9. CASE x # Null
  <2>1. x \in p .. p + l - 1 /\ x \in T /\ \A j \in p .. x - 1 : j \notin T
    BY <1>7, <1>9
  <2>2. x - p \in 0 .. l /\ p + (x - p) = x
    BY <1>2, <2>1
  <2>3. x - p \in S
    BY <1>6, <2>1, <2>2
  <2>4. ASSUME NEW y \in S, y < x - p PROVE FALSE
    <3>1. y \in 0 .. l /\ (y = l \/ p + y \in T)
      BY <1>6, <2>4
    <3>2. y # l /\ p + y \in p .. x - 1
      BY <1>2, <2>1, <2>4, <3>1
    <3> QED BY <2>1, <3>1, <3>2
  <2>5. \A y \in S : x - p <= y
    BY <1>2, <1>6, <2>2, <2>4
  <2>6. Min(S) = x - p
    <3>1. S \in SUBSET Nat
      BY <1>6
    <3> HIDE DEF S
    <3> QED BY <2>3, <2>5, <3>1, MinIs
  <2>7. strcspn(m, p, q) = x - p
    BY <1>1, <1>9 DEF strcspn
  <2> QED BY <1>1, <2>6, <2>7
<1> QED BY <1>8, <1>9

LEMMA SameSize ==
  ASSUME NEW S, IsFiniteSet(S), NEW T, NEW f \in [S -> T],
         \A i, j \in S : f[i] = f[j] => i = j, \A t \in T : \E j \in S : f[j] = t
  PROVE  IsFiniteSet(T) /\ Cardinality(T) = Cardinality(S)
<1>1. f \in Bijection(S, T)
  BY Fun_IsBij DEF Injection, Surjection, IsInjective
<1>2. ExistsBijection(S, T)
  BY <1>1 DEF ExistsBijection
<1> QED BY <1>2, FS_Bijection

\* Pairs of a place from a on and one in Q with the same character.
Pairs(m, a, e, Q) == {r \in (a .. e - 1) \X Q : m[r[1]] = m[r[2]]}

LEMMA PairsFinite ==
  ASSUME NEW m, NEW e \in Nat, NEW Q, IsFiniteSet(Q), NEW a \in Nat
  PROVE  /\ a >= e => Pairs(m, a, e, Q) = {}
         /\ a < e /\ IsFiniteSet(Pairs(m, a + 1, e, Q)) =>
              /\ IsFiniteSet(Pairs(m, a, e, Q))
              /\ Cardinality(Pairs(m, a, e, Q)) =
                   Cardinality({j \in Q : m[j] = m[a]}) + Cardinality(Pairs(m, a + 1, e, Q))
<1>1. ASSUME a >= e PROVE Pairs(m, a, e, Q) = {}
  <2>1. a .. e - 1 = {}
    BY <1>1
  <2> QED BY <2>1 DEF Pairs
<1>2. ASSUME a < e, IsFiniteSet(Pairs(m, a + 1, e, Q))
      PROVE  /\ IsFiniteSet(Pairs(m, a, e, Q))
             /\ Cardinality(Pairs(m, a, e, Q)) =
                  Cardinality({j \in Q : m[j] = m[a]}) + Cardinality(Pairs(m, a + 1, e, Q))
  <2>1. PICK B : B = {j \in Q : m[j] = m[a]}
    OBVIOUS
  <2>2. PICK P : P = Pairs(m, a + 1, e, Q)
    OBVIOUS
  <2>3. PICK Row : Row = {r \in {a} \X Q : m[r[1]] = m[r[2]]}
    OBVIOUS
  <2>4. IsFiniteSet(B) /\ Cardinality(B) \in Nat
    <3>1. B \in SUBSET Q
      BY <2>1
    <3>2. IsFiniteSet(B)
      BY <3>1, FS_Subset
    <3> QED BY <3>2, FS_CardinalityType
  <2>5. IsFiniteSet(Row) /\ Cardinality(Row) = Cardinality(B)
    <3> DEFINE f == [j \in B |-> <<a, j>>]
    <3>1. \A j \in B : <<a, j>> \in Row
      BY <2>1, <2>3
    <3>2. f \in [B -> Row]
      BY <3>1
    <3>3. \A i, j \in B : f[i] = f[j] => i = j
      OBVIOUS
    <3>4. \A r \in Row : \E j \in B : f[j] = r
      <4> SUFFICES ASSUME NEW r \in Row PROVE \E j \in B : f[j] = r
        OBVIOUS
      <4>1. r \in {a} \X Q /\ m[r[1]] = m[r[2]]
        BY <2>3
      <4>2. r[2] \in B /\ r = <<a, r[2]>>
        BY <2>1, <4>1
      <4> QED BY <4>2
    <3> HIDE DEF f
    <3> QED BY <2>4, <3>2, <3>3, <3>4, SameSize
  <2>6. Pairs(m, a, e, Q) = Row \cup P /\ Row \cap P = {}
    <3>1. a .. e - 1 = {a} \cup (a + 1 .. e - 1) /\ a \notin a + 1 .. e - 1
      BY <1>2
    <3> QED BY <2>2, <2>3, <3>1 DEF Pairs
  <2>7. IsFiniteSet(P) /\ Cardinality(P) \in Nat /\ Cardinality({}) = 0
    BY <1>2, <2>2, FS_CardinalityType, FS_EmptySet
  <2>8. /\ IsFiniteSet(Row \cup P)
        /\ Cardinality(Row \cup P) = Cardinality(Row) + Cardinality(P) - Cardinality(Row \cap P)
    BY <2>5, <2>7, FS_Union
  <2>9. Cardinality(Row \cup P) = Cardinality(B) + Cardinality(P)
    <3>1. PICK c \in Nat : c = Cardinality(B)
      BY <2>4
    <3>2. PICK d \in Nat : d = Cardinality(P)
      BY <2>7
    <3>3. Cardinality(Row \cap P) = 0 /\ Cardinality(Row) = c
      BY <2>5, <2>6, <2>7, <3>1
    <3>4. Cardinality(Row \cup P) = c + d - 0
      BY <2>8, <3>2, <3>3
    <3> QED BY <3>1, <3>2, <3>4
  <2> QED BY <2>1, <2>2, <2>6, <2>8, <2>9
<1> QED BY <1>1, <1>2

LEMMA PairsAre ==
  ASSUME NEW m, NEW a, NEW e, NEW Q
  PROVE  \A i, j : <<i, j>> \in Pairs(m, a, e, Q) <=> i \in a .. e - 1 /\ j \in Q /\ m[i] = m[j]
<1>1. PICK A : A = a .. e - 1
  OBVIOUS
<1>2. Pairs(m, a, e, Q) = {r \in A \X Q : m[r[1]] = m[r[2]]}
  BY <1>1 DEF Pairs
<1> QED BY <1>1, <1>2

LEMMA PairsOnly ==
  ASSUME NEW m, NEW a, NEW e, NEW Q
  PROVE  \A r \in Pairs(m, a, e, Q) : r = <<r[1], r[2]>>
<1>1. PICK A : A = a .. e - 1
  OBVIOUS
<1>2. Pairs(m, a, e, Q) = {r \in A \X Q : m[r[1]] = m[r[2]]}
  BY <1>1 DEF Pairs
<1> QED BY <1>2

\* strspn counts the pairs.
LEMMA StrspnCounts ==
  ASSUME NEW m \in MemT, NEW p \in Place, NEW q \in Place
  PROVE  LET P == Pairs(m, p, p + strlen(m, p), q .. q + strlen(m, q) - 1)
         IN  IsFiniteSet(P) /\ strspn(m, p, q) = Cardinality(P)
<1> DEFINE Q == q .. q + strlen(m, q) - 1
           P(k) == Pairs(m, k, k + strlen(m, k), Q)
           B(k) == {j \in Q : m[j] = m[k]}
           F(w) == [k \in Place |-> IF m[k] = 0 THEN 0 ELSE Cardinality(B(k)) + w[k + 1]]
           u == [k \in Place |-> Cardinality(P(k))]
<1>0. IsFiniteSet(Q)
  <2>1. strlen(m, q) \in Nat /\ q \in Nat
    BY Length, Places
  <2> QED BY <2>1, FS_Interval
<1>1. ASSUME NEW k \in Place
      PROVE  /\ m[k] = 0 => P(k) = {}
             /\ m[k] # 0 => k + 1 \in Place
             /\ m[k] # 0 /\ IsFiniteSet(P(k + 1)) =>
                  IsFiniteSet(P(k)) /\ Cardinality(P(k)) = Cardinality(B(k)) + Cardinality(P(k + 1))
  <2>1. PICK l, e : l = strlen(m, k) /\ e = k + l
    OBVIOUS
  <2>0. /\ l \in Nat /\ k \in Nat /\ (m[k] = 0 => l = 0)
        /\ (m[k] # 0 => k + 1 \in Place /\ strlen(m, k + 1) = l - 1 /\ l > 0)
    BY <2>1, Length, Places
  <2>2. /\ l \in Nat /\ k \in Nat /\ e \in Nat /\ (m[k] = 0 => k >= e)
        /\ (m[k] # 0 => k + 1 \in Place /\ strlen(m, k + 1) = l - 1 /\ l > 0)
    BY <2>0, <2>1
  <2>3. m[k] # 0 => k < e /\ k + 1 + strlen(m, k + 1) = e
    BY <2>1, <2>2
  <2> HIDE DEF Q
  <2>4. P(k) = Pairs(m, k, e, Q) /\ (m[k] # 0 => P(k + 1) = Pairs(m, k + 1, e, Q))
    BY <2>1, <2>3
  <2> HIDE DEF P
  <2>5. k \in Nat /\ e \in Nat
    BY <2>2
  <2>6. /\ k >= e => Pairs(m, k, e, Q) = {}
        /\ k < e /\ IsFiniteSet(Pairs(m, k + 1, e, Q)) =>
             /\ IsFiniteSet(Pairs(m, k, e, Q))
             /\ Cardinality(Pairs(m, k, e, Q)) =
                  Cardinality({j \in Q : m[j] = m[k]}) + Cardinality(Pairs(m, k + 1, e, Q))
    BY <1>0, <2>5, PairsFinite, Zenon
  <2>7. B(k) = {j \in Q : m[j] = m[k]}
    OBVIOUS
  <2> HIDE DEF B
  <2> QED BY <2>2, <2>3, <2>4, <2>6, <2>7
<1> HIDE DEF P, B, Q
<1>2. \A k \in Place : IsFiniteSet(P(k))
  <2> DEFINE G == {k \in Place : IsFiniteSet(P(k))}
  <2>1. ASSUME NEW k \in Place, \A j \in Place : j > k => j \in G PROVE k \in G
    <3>1. CASE m[k] = 0
      BY <1>1, <3>1, FS_EmptySet
    <3>2. CASE m[k] # 0
      <4>1. k + 1 \in Place /\ k + 1 > k
        BY <1>1, <3>2, Places
      <4>2. IsFiniteSet(P(k + 1))
        BY <2>1, <4>1
      <4> QED BY <1>1, <3>2, <4>2
    <3> QED BY <3>1, <3>2
  <2> HIDE DEF G
  <2>2. \A k \in Place : k \in G
    BY <2>1, EveryPlace
  <2> QED BY <2>2 DEF G
<1>3. ASSUME NEW k \in Place
      PROVE  /\ m[k] # 0 => k + 1 \in Place
             /\ Cardinality(P(k)) = IF m[k] = 0 THEN 0 ELSE Cardinality(B(k)) + Cardinality(P(k + 1))
  BY <1>1, <1>2, FS_EmptySet
<1>4. u = F(u)
  <2>1. \A k \in Place : u[k] = IF m[k] = 0 THEN 0 ELSE Cardinality(B(k)) + u[k + 1]
    BY <1>3
  <2> QED BY <2>1
<1>5. PICK w : w = F(w) /\ strspn(m, p, q) = w[p]
  <2>1. \E w : w = F(w)
    BY <1>4
  <2> QED BY <2>1 DEF strspn, B, Q
<1> DEFINE G == {k \in Place : w[k] = Cardinality(P(k))}
<1>6. ASSUME NEW k \in Place, \A j \in Place : j > k => j \in G PROVE k \in G
  <2>1. w[k] = IF m[k] = 0 THEN 0 ELSE Cardinality(B(k)) + w[k + 1]
    BY <1>5
  <2>2. m[k] # 0 => k + 1 \in Place /\ k + 1 > k
    BY <1>3, Places
  <2>3. m[k] # 0 => w[k + 1] = Cardinality(P(k + 1))
    BY <1>6, <2>2
  <2> QED BY <1>3, <2>1, <2>3
<1> HIDE DEF G
<1>7. p \in G
  BY <1>6, EveryPlace
<1> QED BY <1>2, <1>5, <1>7 DEF G, P, Q

\* What the letters of a string are.
LEMMA LettersAre ==
  ASSUME NEW m \in MemT, NEW q \in Place
  PROVE  \A v : v \in Letters(m, q) <=> \E j \in q .. q + strlen(m, q) - 1 : m[j] = v
<1>1. PICK h : h = strlen(m, q)
  OBVIOUS
<1>2. h \in Nat /\ q \in Nat
  BY <1>1, Length, Places
<1>3. Letters(m, q) = {m[q + i - 1] : i \in 1 .. h}
  BY <1>1 DEF Str, Letters
<1>4. ASSUME NEW v, NEW i \in 1 .. h, v = m[q + i - 1] PROVE \E j \in q .. q + h - 1 : m[j] = v
  <2>1. q + i - 1 \in q .. q + h - 1
    BY <1>2
  <2> QED BY <1>4, <2>1
<1>5. ASSUME NEW v, NEW j \in q .. q + h - 1, m[j] = v PROVE \E i \in 1 .. h : v = m[q + i - 1]
  <2>1. j - q + 1 \in 1 .. h /\ q + (j - q + 1) - 1 = j
    BY <1>2
  <2> QED BY <1>5, <2>1
<1> QED BY <1>1, <1>3, <1>4, <1>5

\* When no character comes twice, that is the length of the first part.
LEMMA StrspnIs ==
  ASSUME NEW m \in MemT, NEW p \in Place, NEW q \in Place, SpanClear(m, p, q)
  PROVE  strspn(m, p, q) = Prefix(m, p, Letters(m, q))
<1>1. PICK l, h, A : l = strlen(m, p) /\ h = strlen(m, q) /\ A = Letters(m, q)
  OBVIOUS
<1>2. l \in Nat /\ h \in Nat /\ p \in Nat /\ q \in Nat
  BY <1>1, Length, Places
<1>3. PICK Q : Q = q .. q + h - 1
  OBVIOUS
<1>4. \A v : v \in A <=> \E j \in Q : m[j] = v
  BY <1>1, <1>3, LettersAre
<1>5. PICK L : L = Prefix(m, p, A)
  OBVIOUS
<1>6. L \in 0 .. l /\ \A k \in 0 .. L - 1 : m[p + k] \in A
  <2> DEFINE S == {k \in 0 .. l : k = l \/ m[p + k] \notin A}
  <2>1. L = Min(S)
    BY <1>1, <1>5 DEF Prefix
  <2>2. S \in SUBSET Nat /\ l \in S
    BY <1>2
  <2>3. L \in S /\ \A y \in S : L <= y
    <3> HIDE DEF S
    <3> QED BY <2>1, <2>2, LeastOf
  <2>4. ASSUME NEW k \in 0 .. L - 1, m[p + k] \notin A PROVE FALSE
    <3>1. k \in 0 .. l /\ ~(L <= k)
      BY <1>2, <2>3
    <3> QED BY <2>3, <2>4, <3>1
  <2> QED BY <2>3, <2>4
<1>7. \A k \in L .. l - 1 : m[p + k] \notin A
  BY <1>1, <1>5 DEF SpanClear
<1>8. ASSUME NEW i \in Q, NEW j \in Q, m[i] = m[j] PROVE i = j
  <2>1. Str(m, q) = [k \in 1 .. h |-> m[q + k - 1]]
    BY <1>1 DEF Str
  <2>2. PICK a, b : a = i - q + 1 /\ b = j - q + 1
    OBVIOUS
  <2>3. a \in 1 .. h /\ b \in 1 .. h /\ q + a - 1 = i /\ q + b - 1 = j /\ i \in Int /\ j \in Int
    BY <1>2, <1>3, <2>2
  <2>4. DOMAIN Str(m, q) = 1 .. h /\ Str(m, q)[a] = m[i] /\ Str(m, q)[b] = m[j]
    BY <2>1, <2>3
  <2>5. a = b
    BY <1>8, <2>3, <2>4 DEF SpanClear
  <2> QED BY <2>3, <2>5
<1>9. PICK e, S : e = p + l /\ S = Pairs(m, p, e, Q)
  OBVIOUS
<1>10. IsFiniteSet(S) /\ strspn(m, p, q) = Cardinality(S)
  <2>1. S = Pairs(m, p, p + strlen(m, p), q .. q + strlen(m, q) - 1)
    BY <1>1, <1>3, <1>9
  <2> QED BY <2>1, StrspnCounts
<1>11. e \in Nat
  BY <1>2, <1>9
<1>12. \A i, j : <<i, j>> \in S <=> i \in p .. e - 1 /\ j \in Q /\ m[i] = m[j]
  <2>0. p \in Nat
    BY <1>2
  <2>1. ASSUME NEW i, NEW j
        PROVE  <<i, j>> \in Pairs(m, p, e, Q) <=> i \in p .. e - 1 /\ j \in Q /\ m[i] = m[j]
    BY <1>11, <2>0, PairsAre
  <2> QED BY <1>9, <2>1, Zenon
<1> DEFINE T == p .. p + L - 1
           f == [r \in S |-> r[1]]
<1>13. ASSUME NEW r \in S
       PROVE  /\ r = <<r[1], r[2]>> /\ r[1] \in T /\ r[2] \in Q /\ m[r[1]] = m[r[2]]
  <2>1. r = <<r[1], r[2]>>
    BY <1>9, PairsOnly
  <2>2. PICK i, j : i = r[1] /\ j = r[2]
    OBVIOUS
  <2>3. i \in p .. e - 1 /\ j \in Q /\ m[i] = m[j]
    <3>1. <<i, j>> \in S
      BY <2>1, <2>2
    <3> QED BY <1>12, <3>1
  <2>4. m[i] \in A
    BY <1>4, <2>3
  <2>5. PICK k \in Int : k = i - p
    BY <1>2, <1>11, <2>3
  <2>6. k \in 0 .. l - 1 /\ p + k = i
    BY <1>2, <1>9, <2>3, <2>5
  <2>7. ~(k >= L)
    <3>1. ASSUME k >= L PROVE FALSE
      <4>1. k \in L .. l - 1
        BY <1>2, <1>6, <2>6, <3>1
      <4> QED BY <1>7, <2>4, <2>6, <4>1
    <3> QED BY <3>1
  <2>8. i \in T
    BY <1>2, <1>6, <2>6, <2>7
  <2> HIDE DEF T, f
  <2> QED BY <2>1, <2>2, <2>3, <2>8
<1>14. f \in [S -> T]
  BY <1>13
<1>15. \A r, s \in S : f[r] = f[s] => r = s
  <2> SUFFICES ASSUME NEW r \in S, NEW s \in S, f[r] = f[s] PROVE r = s
    OBVIOUS
  <2>1. r[1] = s[1]
    OBVIOUS
  <2>2. r[2] = s[2]
    BY <1>8, <1>13, <2>1
  <2> QED BY <1>13, <2>1, <2>2
<1>16. \A t \in T : \E r \in S : f[r] = t
  <2> SUFFICES ASSUME NEW t \in T PROVE \E r \in S : f[r] = t
    OBVIOUS
  <2>1. t \in Int /\ t - p \in 0 .. L - 1 /\ p + (t - p) = t /\ t \in p .. e - 1
    BY <1>2, <1>6, <1>9
  <2>2. m[t] \in A
    BY <1>6, <2>1
  <2>3. PICK j \in Q : m[j] = m[t]
    BY <1>4, <2>2
  <2>4. <<t, j>> \in S
    BY <1>12, <2>1, <2>3
  <2> QED BY <2>4
<1>17. IsFiniteSet(T) /\ Cardinality(T) = L
  <2>1. p \in Int /\ p + L - 1 \in Int
    BY <1>2, <1>6
  <2>2. PICK a \in Int : a = p + L - 1
    BY <2>1
  <2>3. IsFiniteSet(p .. a) /\ Cardinality(p .. a) = IF p > a THEN 0 ELSE a - p + 1
    BY <2>1, FS_Interval
  <2>4. PICK c : c = Cardinality(p .. a)
    OBVIOUS
  <2>5. c = L
    BY <1>2, <1>6, <2>2, <2>3, <2>4
  <2>6. T = p .. a
    BY <2>2
  <2> HIDE DEF T
  <2> QED BY <2>3, <2>4, <2>5, <2>6
<1> HIDE DEF f, T
<1>18. Cardinality(T) = Cardinality(S)
  BY <1>10, <1>14, <1>15, <1>16, SameSize
<1> QED BY <1>1, <1>5, <1>10, <1>17, <1>18

\* A string ends where each of its tails ends.
LEMMA TailEnds ==
  ASSUME NEW m \in MemT, NEW p \in Place, NEW j \in p .. p + strlen(m, p)
  PROVE  j \in Place /\ j + strlen(m, j) = p + strlen(m, p)
<1>1. PICK l : l = strlen(m, p)
  OBVIOUS
<1>2. /\ l \in Nat /\ p \in Nat /\ p + l \in Place /\ m[p + l] = 0
      /\ \A i \in p .. p + l - 1 : i \in Place /\ m[i] # 0
  BY <1>1, Length, Places
<1>3. PICK d \in Nat : d = p + l - j
  BY <1>1, <1>2
<1>4. j \in Nat /\ j + d = p + l
  BY <1>1, <1>2, <1>3
<1>5. j \in Place
  <2>1. j = p + l \/ j \in p .. p + l - 1
    BY <1>1, <1>2
  <2> QED BY <1>2, <2>1
<1>6. ASSUME NEW i \in 0 .. d - 1 PROVE m[j + i] # 0
  <2>1. j + i \in p .. p + l - 1
    BY <1>1, <1>2, <1>3
  <2> QED BY <1>2, <2>1
<1>7. j + d \in Place /\ m[j + d] = 0
  BY <1>2, <1>4
<1>8. strlen(m, j) = d
  BY <1>5, <1>6, <1>7, LengthOf
<1> QED BY <1>1, <1>4, <1>5, <1>8

LEMMA FirstSkip ==
  ASSUME NEW T \in SUBSET Nat, NEW a \in Nat, NEW b \in Int, NEW c \in Nat, a <= c,
         \A j \in a .. c - 1 : j \notin T
  PROVE  FirstOf(T, a, b) = FirstOf(T, c, b)
<1>1. ASSUME NEW j \in a .. b, j \in T PROVE j \in c .. b
  <2>1. j \notin a .. c - 1
    BY <1>1
  <2> QED BY <2>1
<1>2. \A j \in c .. b : j \in a .. b
  OBVIOUS
<1>3. T \cap (a .. b) = T \cap (c .. b)
  BY <1>1, <1>2
<1> QED BY <1>3 DEF FirstOf

LEMMA NoneThere ==
  ASSUME NEW T \in SUBSET Nat, NEW a \in Nat, NEW b \in Int, \A j \in a .. b : j \notin T
  PROVE  FirstOf(T, a, b) = Null
<1>1. T \cap (a .. b) = {}
  OBVIOUS
<1> QED BY <1>1 DEF FirstOf

\* Where the string at q is found with more characters behind it.
Hits(m, q) ==
  {k \in Place : m[k + strlen(m, q)] # 0 /\ \A j \in 0 .. strlen(m, q) - 1 : m[k + j] = m[q + j]}

\* The inner loop of strstr stops at the terminator of the string at q just there.
LEMMA MismatchIs ==
  ASSUME NEW m \in MemT, NEW q \in Place, NEW r \in Place, m[q] # 0, m[r] = m[q]
  PROVE  Mismatch(m, r, q, strlen(m, q)) = strlen(m, q) <=> r \in Hits(m, q)
<1>1. PICK n : n = strlen(m, q)
  OBVIOUS
<1>2. n \in Nat /\ n > 0 /\ q \in Nat /\ r \in Nat /\ m[q + n] = 0
  BY <1>1, Length, Places
<1> DEFINE Stops(k) == k = n + 1 \/ m[r + k] # m[q + k]
           Q(k) == (\A j \in 1 .. k - 1 : m[r + j] = m[q + j]) /\ Stops(k)
           S == {k \in 1 .. n + 1 : Stops(k)}
<1>3. \E k \in 1 .. n + 1 : Q(k)
  <2>1. S \in SUBSET Nat /\ n + 1 \in S
    BY <1>2
  <2>2. PICK k : k = Min(S)
    OBVIOUS
  <2>3. k \in S /\ \A y \in S : k <= y
    <3> HIDE DEF S
    <3> QED BY <2>1, <2>2, LeastOf
  <2>4. ASSUME NEW j \in 1 .. k - 1 PROVE m[r + j] = m[q + j]
    <3>1. j \in 1 .. n + 1 /\ ~(k <= j)
      BY <1>2, <2>3
    <3> QED BY <2>3, <3>1
  <2> QED BY <2>3, <2>4
<1>4. PICK x \in 1 .. n + 1 : x = Mismatch(m, r, q, n) /\ Q(x)
  <2>1. Mismatch(m, r, q, n) = CHOOSE k \in 1 .. n + 1 : Q(k)
    BY DEF Mismatch
  <2> HIDE DEF Q
  <2> QED BY <1>3, <2>1
<1>5. ASSUME Q(n) PROVE x = n
  <2>1. ~(x < n)
    <3>1. ASSUME x < n PROVE FALSE
      <4>1. x \in 1 .. n - 1 /\ x # n + 1
        BY <1>2, <3>1
      <4> QED BY <1>4, <1>5, <4>1
    <3> QED BY <3>1
  <2>2. ~(x > n)
    <3>1. ASSUME x > n PROVE FALSE
      <4>1. n \in 1 .. x - 1 /\ n # n + 1
        BY <1>2, <3>1
      <4> QED BY <1>4, <1>5, <4>1
    <3> QED BY <3>1
  <2> QED BY <1>2, <1>4, <2>1, <2>2
<1>6. x = n <=> Q(n)
  BY <1>4, <1>5
<1>7. Q(n) <=> m[r + n] # 0 /\ \A j \in 0 .. n - 1 : m[r + j] = m[q + j]
  <2>1. \A j \in 0 .. n - 1 : j = 0 \/ j \in 1 .. n - 1
    BY <1>2
  <2>2. \A j \in 1 .. n - 1 : j \in 0 .. n - 1
    BY <1>2
  <2>3. r + 0 = r /\ q + 0 = q /\ n # n + 1
    BY <1>2
  <2> QED BY <1>2, <2>1, <2>2, <2>3
<1> HIDE DEF Q
<1>8. r \in Hits(m, q) <=> m[r + n] # 0 /\ \A j \in 0 .. n - 1 : m[r + j] = m[q + j]
  BY <1>1 DEF Hits
<1> QED BY <1>1, <1>4, <1>6, <1>7, <1>8

\* strstr finds the first of them.
LEMMA StrstrFirst ==
  ASSUME NEW m \in MemT, NEW p \in Place, NEW q \in Place, m[q] # 0
  PROVE  strstr(m, p, q) = FirstOf(Hits(m, q), p, p + strlen(m, p) - 1)
<1> DEFINE T == Hits(m, q)
           C(k) == FirstOf(T, k, k + strlen(m, k) - 1)
           R(k) == strchr(m, k, m[q])
           Hit(r) == Mismatch(m, r, q, strlen(m, q)) = strlen(m, q)
           F(w) == [k \in Place |-> IF m[k] = 0 \/ R(k) = Null THEN Null
                                    ELSE IF Hit(R(k)) THEN R(k) ELSE w[R(k) + 1]]
           u == [k \in Place |-> C(k)]
<1>0. T \in SUBSET Nat
  <2>1. T \subseteq Place
    BY DEF Hits
  <2> QED BY <2>1, Places
<1>1. \A k \in T : m[k] = m[q]
  <2>1. PICK h : h = strlen(m, q)
    OBVIOUS
  <2>2. h > 0 /\ h \in Nat
    BY <2>1, Length
  <2> SUFFICES ASSUME NEW k \in T PROVE m[k] = m[q]
    OBVIOUS
  <2>3. k \in Place /\ \A j \in 0 .. h - 1 : m[k + j] = m[q + j]
    BY <2>1 DEF Hits
  <2>4. 0 \in 0 .. h - 1 /\ k + 0 = k /\ q + 0 = q
    BY <2>2, <2>3, Places
  <2> HIDE DEF T
  <2> QED BY <2>3, <2>4
<1>2. ASSUME NEW k \in Place
      PROVE  /\ C(k) = IF m[k] = 0 \/ R(k) = Null THEN Null
                       ELSE IF Hit(R(k)) THEN R(k) ELSE C(R(k) + 1)
             /\ m[k] # 0 /\ R(k) # Null => R(k) + 1 \in Place /\ R(k) + 1 > k
  <2>1. PICK l, r : l = strlen(m, k) /\ r = R(k)
    OBVIOUS
  <2>2. /\ l \in Nat /\ k \in Nat /\ (m[k] = 0 => l = 0) /\ m[k + l] = 0
    BY <2>1, Length, Places
  <2>3. PICK b \in Int : b = k + l - 1
    BY <2>2
  <2>4. m[k] = 0 => FirstOf(T, k, b) = Null
    <3>1. m[k] = 0 => b < k
      BY <2>2, <2>3
    <3> HIDE DEF T
    <3> QED BY <1>0, <2>2, <3>1, FirstStep
  <2>5. /\ r = Null <=> \A j \in k .. k + l : j \notin PlacesOf(m, m[q])
        /\ r # Null => r \in k .. k + l /\ r \in PlacesOf(m, m[q])
                       /\ \A j \in k .. r - 1 : j \notin PlacesOf(m, m[q])
    <3>1. r = FirstOf(PlacesOf(m, m[q]), k, k + l)
      BY <2>1, StrchrIs
    <3>2. PlacesOf(m, m[q]) \in SUBSET Nat /\ k + l \in Int
      <4>1. PlacesOf(m, m[q]) \in SUBSET Nat
        BY Places DEF PlacesOf
      <4> QED BY <2>2, <4>1
    <3> QED BY <2>2, <3>1, <3>2, FirstIs
  <2>6. \A j \in T : j \in PlacesOf(m, m[q])
    <3>1. \A j \in T : j \in Place
      BY DEF Hits
    <3> HIDE DEF T
    <3> QED BY <1>1, <3>1 DEF PlacesOf
  <2>7. r = Null => FirstOf(T, k, b) = Null
    <3>1. r = Null => \A j \in k .. b : j \notin T
      <4>1. \A j \in k .. b : j \in k .. k + l
        BY <2>2, <2>3
      <4> HIDE DEF T
      <4> QED BY <2>5, <2>6, <4>1
    <3> HIDE DEF T
    <3> QED BY <1>0, <2>2, <3>1, NoneThere
  <2>8. ASSUME m[k] # 0, r # Null
        PROVE  /\ r \in Place /\ r \in k .. b /\ m[r] = m[q] /\ r + 1 \in Place /\ r + 1 > k
               /\ (\A j \in k .. r - 1 : j \notin T)
               /\ r + 1 + strlen(m, r + 1) = k + l
    <3>1. r \in k .. k + l /\ r \in Place /\ m[r] = m[q]
      BY <2>5, <2>8 DEF PlacesOf
    <3>2. r # k + l
      BY <2>2, <3>1
    <3>3. r \in k .. b /\ r + 1 > k /\ r + 1 \in k .. k + l
      BY <2>2, <2>3, <3>1, <3>2
    <3>4. r + 1 \in Place /\ r + 1 + strlen(m, r + 1) = k + l
      BY <2>1, <3>3, TailEnds
    <3>5. \A j \in k .. r - 1 : j \notin T
      <4> HIDE DEF T
      <4> QED BY <2>5, <2>6, <2>8
    <3> QED BY <3>1, <3>3, <3>4, <3>5
  <2>9. ASSUME m[k] # 0, r # Null
        PROVE  FirstOf(T, k, b) = IF Hit(r) THEN r ELSE C(r + 1)
    <3>1. Hit(r) <=> r \in T
      BY <2>8, <2>9, MismatchIs
    <3>2. CASE r \in T
      <4>1. FirstOf(T, k, b) = r
        <5> HIDE DEF T
        <5> QED BY <1>0, <2>2, <2>8, <2>9, <3>2, FirstOnly
      <4> HIDE DEF T
      <4> QED BY <3>1, <3>2, <4>1
    <3>3. CASE r \notin T
      <4>1. r \in Nat /\ r + 1 \in Nat /\ k <= r + 1
        BY <2>2, <2>8, <2>9
      <4>2. \A j \in k .. (r + 1) - 1 : j \notin T
        <5>1. \A j \in k .. (r + 1) - 1 : j = r \/ j \in k .. r - 1
          BY <2>2, <4>1
        <5> HIDE DEF T
        <5> QED BY <2>8, <2>9, <3>3, <5>1
      <4>3. FirstOf(T, k, b) = FirstOf(T, r + 1, b)
        <5> HIDE DEF T
        <5> QED BY <1>0, <2>2, <4>1, <4>2, FirstSkip
      <4>4. r + 1 + strlen(m, r + 1) - 1 = b
        <5>1. strlen(m, r + 1) \in Nat
          BY <2>8, <2>9, Length
        <5> QED BY <2>2, <2>3, <2>8, <2>9, <4>1, <5>1
      <4> HIDE DEF T
      <4> QED BY <3>1, <3>3, <4>3, <4>4
    <3> QED BY <3>2, <3>3
  <2>10. C(k) = FirstOf(T, k, b)
    BY <2>1, <2>3
  <2> HIDE DEF C, T, R, Hit
  <2>11. CASE m[k] = 0
    BY <2>4, <2>10, <2>11
  <2>12. CASE r = Null
    BY <2>1, <2>7, <2>10, <2>12
  <2>13. CASE m[k] # 0 /\ r # Null
    BY <2>1, <2>8, <2>9, <2>10, <2>13
  <2> QED BY <2>11, <2>12, <2>13
<1>3. PICK w : w = F(w) /\ strstr(m, p, q) = w[p]
  <2>1. u = F(u)
    <3> HIDE DEF C, R, Hit, T
    <3>1. \A k \in Place : u[k] = IF m[k] = 0 \/ R(k) = Null THEN Null
                                  ELSE IF Hit(R(k)) THEN R(k) ELSE u[R(k) + 1]
      BY <1>2
    <3> QED BY <3>1
  <2>2. \E w : w = F(w)
    BY <2>1
  <2> QED BY <2>2 DEF strstr
<1> DEFINE G == {k \in Place : w[k] = C(k)}
<1> HIDE DEF C, R, Hit, T
<1>4. ASSUME NEW k \in Place, \A j \in Place : j > k => j \in G PROVE k \in G
  <2>1. w[k] = IF m[k] = 0 \/ R(k) = Null THEN Null
               ELSE IF Hit(R(k)) THEN R(k) ELSE w[R(k) + 1]
    BY <1>3
  <2>2. m[k] # 0 /\ R(k) # Null => w[R(k) + 1] = C(R(k) + 1)
    BY <1>2, <1>4
  <2> QED BY <1>2, <2>1, <2>2
<1> HIDE DEF G
<1>5. p \in G
  BY <1>4, EveryPlace
<1> QED BY <1>3, <1>5 DEF G, C, T

\* Which are the matches that do not end the string.
LEMMA StrstrIs ==
  ASSUME NEW m \in MemT, NEW p \in Place, NEW q \in Place, m[q] # 0
  PROVE  LET inside == Matches(m, p, q) \ {p + strlen(m, p) - strlen(m, q)}
         IN  strstr(m, p, q) = IF inside = {} THEN Null ELSE Min(inside)
<1>1. PICK l, h, e : l = strlen(m, p) /\ h = strlen(m, q) /\ e = p + l
  OBVIOUS
<1>2. /\ l \in Nat /\ h \in Nat /\ h > 0 /\ p \in Nat /\ q \in Nat /\ e \in Nat /\ e \in Place /\ m[e] = 0
      /\ \A j \in p .. e - 1 : j \in Place /\ m[j] # 0
  <2>1. /\ l \in Nat /\ h \in Nat /\ h > 0 /\ p \in Nat /\ q \in Nat /\ e \in Place /\ m[e] = 0
        /\ \A j \in p .. p + l - 1 : j \in Place /\ m[j] # 0
    BY <1>1, Length, Places
  <2> QED BY <1>1, <2>1
<1>3. \A j \in 0 .. h - 1 : m[q + j] # 0
  BY <1>1, Length
<1> DEFINE Same(k) == \A j \in 0 .. h - 1 : m[k + j] = m[q + j]
           inside == Matches(m, p, q) \ {p + strlen(m, p) - strlen(m, q)}
<1>4. \A k : k \in inside <=> k \in p .. e - h /\ Same(k) /\ k # e - h
  <2>1. PICK d \in Int : d = e - h
    BY <1>2
  <2>2. p + strlen(m, p) - strlen(m, q) = d /\ strlen(m, q) = h
    BY <1>1, <1>2, <2>1
  <2>3. inside = {k \in p .. d : Same(k)} \ {d}
    BY <2>2 DEF Matches
  <2> HIDE DEF inside, Same
  <2>4. \A k : k \in inside <=> k \in p .. d /\ Same(k) /\ k # d
    BY <2>3
  <2> QED BY <2>1, <2>4
<1>5. \A k : k \in Hits(m, q) <=> k \in Place /\ m[k + h] # 0 /\ Same(k)
  BY <1>1 DEF Hits
<1>6. ASSUME NEW k \in inside PROVE k \in Hits(m, q) /\ k \in p .. e - 1
  <2>1. k \in p .. e - h /\ Same(k) /\ k # e - h
    BY <1>4
  <2>2. k \in p .. e - 1 /\ k + h \in p .. e - 1
    BY <1>2, <2>1
  <2> QED BY <1>2, <1>5, <2>1, <2>2
<1>7. ASSUME NEW k \in p .. e - 1, k \in Hits(m, q) PROVE k \in inside
  <2>1. k \in Place /\ m[k + h] # 0 /\ Same(k)
    BY <1>5, <1>7
  <2>2. ~(e < k + h)
    <3>1. ASSUME e < k + h PROVE FALSE
      <4>1. e - k \in 0 .. h - 1 /\ k + (e - k) = e
        BY <1>2, <3>1
      <4> QED BY <1>2, <1>3, <2>1, <4>1
    <3> QED BY <3>1
  <2>3. k + h # e
    BY <1>2, <2>1
  <2>4. k \in p .. e - h /\ k # e - h
    BY <1>2, <2>2, <2>3
  <2> QED BY <1>4, <2>1, <2>4
<1>8. inside = Hits(m, q) \cap (p .. e - 1)
  BY <1>6, <1>7
<1>9. strstr(m, p, q) = FirstOf(Hits(m, q), p, e - 1)
  <2>1. p + strlen(m, p) - 1 = e - 1
    BY <1>1, <1>2
  <2>2. strstr(m, p, q) = FirstOf(Hits(m, q), p, p + strlen(m, p) - 1)
    BY StrstrFirst
  <2> QED BY <2>1, <2>2
<1> HIDE DEF inside
<1>10. strstr(m, p, q) = IF inside = {} THEN Null ELSE Min(inside)
  BY <1>8, <1>9 DEF FirstOf
<1> QED BY <1>10 DEF inside

\* The first of those is the first of all, since the other one is the last.
LEMMA StrstrFinds ==
  ASSUME NEW m \in MemT, NEW p \in Place, NEW q \in Place, m[q] # 0
  PROVE  LET all == Matches(m, p, q)
             inside == all \ {p + strlen(m, p) - strlen(m, q)}
         IN  /\ strstr(m, p, q) # Null => all # {} /\ strstr(m, p, q) = Min(all)
             /\ inside # {} => strstr(m, p, q) # Null
<1> DEFINE all == Matches(m, p, q)
           last == p + strlen(m, p) - strlen(m, q)
           inside == all \ {last}
<1>1. strstr(m, p, q) = IF inside = {} THEN Null ELSE Min(inside)
  BY StrstrIs
<1>2. p \in Nat /\ last \in Int
  <2>1. strlen(m, p) \in Nat /\ strlen(m, q) \in Nat /\ p \in Nat
    BY Length, Places
  <2> QED BY <2>1
<1>3. all \in SUBSET Nat /\ \A k \in all : k <= last
  <2> HIDE DEF last
  <2>1. all \subseteq p .. last
    BY DEF Matches, last
  <2> HIDE DEF all
  <2> QED BY <1>2, <2>1
<1> HIDE DEF all, last
<1>4. CASE inside # {}
  <2>1. PICK x : x = Min(inside)
    OBVIOUS
  <2>2. x \in inside /\ \A y \in inside : x <= y
    <3>1. inside \in SUBSET Nat
      BY <1>3
    <3> HIDE DEF inside
    <3> QED BY <1>4, <2>1, <3>1, LeastOf
  <2>3. x \in all /\ \A y \in all : x <= y
    BY <1>3, <2>2
  <2>4. Min(all) = x
    BY <1>3, <2>3, MinIs
  <2>5. x # Null
    BY <1>3, <2>3 DEF Null
  <2> HIDE DEF inside
  <2>6. strstr(m, p, q) = x
    BY <1>1, <1>4, <2>1
  <2> QED BY <2>3, <2>4, <2>5, <2>6 DEF inside, all, last
<1>5. CASE inside = {}
  BY <1>1, <1>5 DEF inside, all, last
<1> QED BY <1>4, <1>5

----------------------------------------------------------------------------
(* Comparing strings and bytes *)

\* A loop over n bytes that leaves with V[i] at the first i in T, with z at the end.
IsLoop(f, n, z, T, V) ==
  f = [k \in 0 .. n |-> IF k = 0 THEN z ELSE IF n - k \in T THEN V[n - k] ELSE f[k - 1]]

LEMMA LoopLeaves ==
  ASSUME NEW n \in Nat, NEW z, NEW T \in SUBSET Nat, NEW V
  PROVE  LET r == IF FirstOf(T, 0, n - 1) = Null THEN z ELSE V[FirstOf(T, 0, n - 1)]
         IN  /\ \E f : IsLoop(f, n, z, T, V)
             /\ \A f : IsLoop(f, n, z, T, V) => f[n] = r
<1> DEFINE X(k) == FirstOf(T, n - k, n - 1)
           C(k) == IF X(k) = Null THEN z ELSE V[X(k)]
<1>1. C(0) = z
  <2>1. n - 0 \in Nat /\ n - 1 \in Int /\ n - 1 < n - 0
    OBVIOUS
  <2>2. X(0) = Null
    BY <2>1, FirstStep
  <2> QED BY <2>2
<1>2. ASSUME NEW k \in 1 .. n PROVE C(k) = IF n - k \in T THEN V[n - k] ELSE C(k - 1)
  <2>1. PICK a \in Nat : a = n - k
    OBVIOUS
  <2>2. PICK b \in Int : b = n - 1
    OBVIOUS
  <2>3. a <= b /\ n - (k - 1) = a + 1
    BY <2>1, <2>2
  <2>4. FirstOf(T, a, b) = IF a \in T THEN a ELSE FirstOf(T, a + 1, b)
    BY <2>3, FirstStep
  <2>5. X(k) = FirstOf(T, a, b) /\ X(k - 1) = FirstOf(T, a + 1, b)
    BY <2>1, <2>2, <2>3
  <2>6. a # Null
    BY DEF Null
  <2> HIDE DEF X
  <2> QED BY <2>1, <2>4, <2>5, <2>6
<1>3. n - n = 0
  OBVIOUS
<1>4. C(n) = IF FirstOf(T, 0, n - 1) = Null THEN z ELSE V[FirstOf(T, 0, n - 1)]
  BY <1>3
<1> HIDE DEF C, X
<1>5. \E f : IsLoop(f, n, z, T, V)
  <2> DEFINE u == [k \in 0 .. n |-> C(k)]
  <2>1. \A k \in 0 .. n : k = 0 \/ (k \in 1 .. n /\ k - 1 \in 0 .. n)
    OBVIOUS
  <2>2. \A k \in 0 .. n : u[k] = IF k = 0 THEN z ELSE IF n - k \in T THEN V[n - k] ELSE u[k - 1]
    BY <1>1, <1>2, <2>1
  <2>3. u = [k \in 0 .. n |-> IF k = 0 THEN z ELSE IF n - k \in T THEN V[n - k] ELSE u[k - 1]]
    BY <2>2
  <2> HIDE DEF u
  <2> QED BY <2>3 DEF IsLoop
<1>6. ASSUME NEW f, IsLoop(f, n, z, T, V) PROVE f[n] = C(n)
  <2> DEFINE G == {k \in 0 .. n : f[k] = C(k)}
  <2>1. \A k \in 0 .. n : f[k] = IF k = 0 THEN z ELSE IF n - k \in T THEN V[n - k] ELSE f[k - 1]
    BY <1>6 DEF IsLoop
  <2>2. 0 \in G
    BY <1>1, <2>1
  <2>3. ASSUME NEW i \in 1 .. n, i - 1 \in G PROVE i \in G
    <3>1. i \in 0 .. n /\ i # 0
      OBVIOUS
    <3>2. f[i - 1] = C(i - 1)
      BY <2>3
    <3>3. f[i] = C(i)
      BY <1>2, <2>1, <3>1, <3>2
    <3> QED BY <3>1, <3>3
  <2> HIDE DEF G
  <2>4. \A i \in 0 .. n : i \in G
    BY <2>2, <2>3, EveryTurn
  <2> QED BY <2>4 DEF G
<1> QED BY <1>4, <1>5, <1>6

\* memcmp finds the first difference.
LEMMA MemcmpIs ==
  ASSUME NEW m \in MemT, NEW p \in Place, NEW q \in Place, NEW n \in Nat, Inside(p, q, n)
  PROVE  memcmp(m, p, q, n) = 0 <=> \A k \in 0 .. n - 1 : m[p + k] = m[q + k]
<1> DEFINE T == {i \in Nat : m[p + i] # m[q + i]}
           V == [i \in Nat |-> Sign(m[p + i], m[q + i])]
           F(w) == [k \in 0 .. n |->
                      IF k = 0 THEN 0
                      ELSE IF m[p + n - k] # m[q + n - k] THEN Sign(m[p + n - k], m[q + n - k])
                      ELSE w[k - 1]]
<1>1. p \in Nat /\ q \in Nat /\ StrSize \in Nat
  BY Places
<1>2. ASSUME NEW w PROVE IsLoop(w, n, 0, T, V) <=> w = F(w)
  <2>1. ASSUME NEW k \in 0 .. n
        PROVE  (IF k = 0 THEN 0 ELSE IF n - k \in T THEN V[n - k] ELSE w[k - 1]) =
               (IF k = 0 THEN 0
                ELSE IF m[p + n - k] # m[q + n - k] THEN Sign(m[p + n - k], m[q + n - k])
                ELSE w[k - 1])
    <3>1. n - k \in Nat /\ p + (n - k) = p + n - k /\ q + (n - k) = q + n - k
      BY <1>1
    <3>2. n - k \in T <=> m[p + n - k] # m[q + n - k]
      BY <3>1
    <3>3. V[n - k] = Sign(m[p + n - k], m[q + n - k])
      BY <3>1
    <3> QED BY <3>2, <3>3
  <2> HIDE DEF T, V
  <2>2. [k \in 0 .. n |-> IF k = 0 THEN 0 ELSE IF n - k \in T THEN V[n - k] ELSE w[k - 1]] = F(w)
    BY <2>1
  <2> QED BY <2>2 DEF IsLoop
<1>3. T \in SUBSET Nat
  OBVIOUS
<1>4. PICK w : w = F(w) /\ memcmp(m, p, q, n) = w[n]
  <2>1. \E w : w = F(w)
    <3> HIDE DEF T, V, F
    <3> QED BY <1>2, <1>3, LoopLeaves
  <2> QED BY <2>1 DEF memcmp
<1>5. PICK x : x = FirstOf(T, 0, n - 1)
  OBVIOUS
<1>6. w[n] = IF x = Null THEN 0 ELSE V[x]
  <2>1. IsLoop(w, n, 0, T, V)
    BY <1>2, <1>4
  <2> HIDE DEF T, V, F
  <2> QED BY <1>3, <1>5, <2>1, LoopLeaves
<1>7. /\ x = Null <=> \A j \in 0 .. n - 1 : j \notin T
      /\ x # Null => x \in 0 .. n - 1 /\ x \in T
  <2> HIDE DEF T
  <2>1. n - 1 \in Int
    OBVIOUS
  <2> QED BY <1>3, <1>5, <2>1, FirstIs
<1>8. CASE x = Null
  BY <1>4, <1>6, <1>7, <1>8
<1>9. CASE x # Null
  <2>1. x \in 0 .. n - 1 /\ m[p + x] # m[q + x]
    BY <1>7, <1>9
  <2>2. p + x \in Place /\ q + x \in Place
    BY <1>1, <2>1, Places DEF Inside
  <2>3. m[p + x] \in Nat /\ m[q + x] \in Nat
    BY <2>2, Bytes
  <2>4. Sign(m[p + x], m[q + x]) # 0
    BY <2>1, <2>3 DEF Sign
  <2>5. V[x] # 0
    BY <2>1, <2>4
  <2> QED BY <1>4, <1>6, <1>9, <2>1, <2>5
<1> QED BY <1>8, <1>9

LEMMA Min2 ==
  ASSUME NEW a \in Nat, NEW b \in Nat
  PROVE  Min({a, b}) = IF a <= b THEN a ELSE b
<1>1. {a, b} \in SUBSET Nat
  OBVIOUS
<1>2. CASE a <= b
  <2>1. a \in {a, b} /\ \A y \in {a, b} : a <= y
    BY <1>2
  <2> QED BY <1>1, <1>2, <2>1, MinIs
<1>3. CASE ~(a <= b)
  <2>1. b \in {a, b} /\ \A y \in {a, b} : b <= y
    BY <1>3
  <2> QED BY <1>1, <1>3, <2>1, MinIs
<1> QED BY <1>2, <1>3

\* A string as a sequence.
LEMMA StrIs ==
  ASSUME NEW m \in MemT, NEW p \in Place
  PROVE  /\ Str(m, p) \in Seq(Byte) /\ Len(Str(m, p)) = strlen(m, p) /\ strlen(m, p) \in Nat
         /\ \A i \in 1 .. strlen(m, p) : Str(m, p)[i] = m[p + i - 1] /\ m[p + i - 1] \in Byte
<1>1. PICK l : l = strlen(m, p)
  OBVIOUS
<1>2. l \in Nat /\ p \in Nat /\ \A j \in 0 .. l : p + j \in Place
  BY <1>1, Length, Places
<1>3. ASSUME NEW i \in 1 .. l PROVE m[p + i - 1] \in Byte
  <2>1. i - 1 \in 0 .. l /\ p + (i - 1) = p + i - 1
    BY <1>2
  <2>2. p + i - 1 \in Place
    BY <1>2, <2>1
  <2> QED BY <2>2, Bytes
<1>4. Str(m, p) = [i \in 1 .. l |-> m[p + i - 1]]
  BY <1>1 DEF Str
<1>5. Str(m, p) \in Seq(Byte) /\ Len(Str(m, p)) = l
  BY <1>2, <1>3, <1>4
<1> QED BY <1>1, <1>2, <1>3, <1>4, <1>5

LEMMA Beginning ==
  ASSUME NEW S, NEW s \in Seq(S), NEW c \in Nat, c <= Len(s)
  PROVE  /\ SubSeq(s, 1, c) \in Seq(S) /\ Len(SubSeq(s, 1, c)) = c
         /\ \A i \in 1 .. c : SubSeq(s, 1, c)[i] = s[i]
  OBVIOUS

\* Two strings agree in n places.
Agree(m, p, q, n) == \A i \in 0 .. n - 1 : m[p + i] = m[q + i]

\* Their beginnings are the same.
LEMMA UptoSame ==
  ASSUME NEW m \in MemT, NEW p \in Place, NEW q \in Place, NEW n \in Nat,
         NEW c \in Nat, c = Min({n, strlen(m, p)}),
         NEW d \in Nat, d = Min({n, strlen(m, q)})
  PROVE  Upto(Str(m, p), n) = Upto(Str(m, q), n) <=> c = d /\ Agree(m, p, q, c)
<1>1. PICK s, t : s = Str(m, p) /\ t = Str(m, q)
  OBVIOUS
<1>2. /\ s \in Seq(Byte) /\ t \in Seq(Byte) /\ c <= Len(s) /\ d <= Len(t)
      /\ (\A i \in 1 .. c : s[i] = m[p + i - 1] /\ s[i] \in Byte)
      /\ \A i \in 1 .. d : t[i] = m[q + i - 1] /\ t[i] \in Byte
  <2>1. /\ s \in Seq(Byte) /\ Len(s) = strlen(m, p) /\ Len(s) \in Nat
        /\ \A i \in 1 .. Len(s) : s[i] = m[p + i - 1] /\ s[i] \in Byte
    BY <1>1, StrIs
  <2>2. /\ t \in Seq(Byte) /\ Len(t) = strlen(m, q) /\ Len(t) \in Nat
        /\ \A i \in 1 .. Len(t) : t[i] = m[q + i - 1] /\ t[i] \in Byte
    BY <1>1, StrIs
  <2>3. c <= Len(s)
    BY <2>1, Min2
  <2>4. d <= Len(t)
    BY <2>2, Min2
  <2>5. (\A i \in 1 .. c : i \in 1 .. Len(s)) /\ \A i \in 1 .. d : i \in 1 .. Len(t)
    BY <2>1, <2>2, <2>3, <2>4
  <2> QED BY <2>1, <2>2, <2>3, <2>4, <2>5
<1>3. PICK x, y : x = SubSeq(s, 1, c) /\ y = SubSeq(t, 1, d)
  OBVIOUS
<1>4. x \in Seq(Byte) /\ Len(x) = c /\ \A i \in 1 .. c : x[i] = s[i]
  BY <1>2, <1>3, Beginning
<1>5. y \in Seq(Byte) /\ Len(y) = d /\ \A i \in 1 .. d : y[i] = t[i]
  BY <1>2, <1>3, Beginning
<1>6. Upto(Str(m, p), n) = x /\ Upto(Str(m, q), n) = y
  <2>1. Len(Str(m, p)) = strlen(m, p) /\ Len(Str(m, q)) = strlen(m, q)
    BY StrIs
  <2> QED BY <1>1, <1>3, <2>1 DEF Upto
<1>7. p \in Nat /\ q \in Nat
  BY Places
<1>8. ASSUME x = y PROVE c = d /\ Agree(m, p, q, c)
  <2>1. c = d
    BY <1>4, <1>5, <1>8
  <2>2. ASSUME NEW i \in 0 .. c - 1 PROVE m[p + i] = m[q + i]
    <3>1. i + 1 \in 1 .. c /\ p + (i + 1) - 1 = p + i /\ q + (i + 1) - 1 = q + i
      BY <1>7
    <3>2. s[i + 1] = t[i + 1]
      BY <1>4, <1>5, <1>8, <2>1, <3>1
    <3> QED BY <1>2, <2>1, <3>1, <3>2
  <2> QED BY <2>1, <2>2 DEF Agree
<1>9. ASSUME c = d, Agree(m, p, q, c) PROVE x = y
  <2>1. ASSUME NEW i \in 1 .. c PROVE x[i] = y[i]
    <3>1. i - 1 \in 0 .. c - 1 /\ p + (i - 1) = p + i - 1 /\ q + (i - 1) = q + i - 1
      BY <1>7
    <3>2. m[p + i - 1] = m[q + i - 1]
      BY <1>9, <3>1 DEF Agree
    <3> QED BY <1>2, <1>4, <1>5, <1>9, <3>2
  <2> QED BY <1>4, <1>5, <1>9, <2>1, SeqEqual
<1> QED BY <1>6, <1>8, <1>9

\* Two strings are the same.
LEMMA StrSame ==
  ASSUME NEW m \in MemT, NEW p \in Place, NEW q \in Place
  PROVE  Str(m, p) = Str(m, q) <=> strlen(m, p) = strlen(m, q) /\ Agree(m, p, q, strlen(m, p))
<1>1. PICK s, t : s = Str(m, p) /\ t = Str(m, q)
  OBVIOUS
<1>2. PICK c \in Nat : c = strlen(m, p)
  BY StrIs
<1>3. PICK d \in Nat : d = strlen(m, q)
  BY StrIs
<1>4. /\ s \in Seq(Byte) /\ t \in Seq(Byte) /\ Len(s) = c /\ Len(t) = d
      /\ (\A i \in 1 .. c : s[i] = m[p + i - 1]) /\ \A i \in 1 .. d : t[i] = m[q + i - 1]
  BY <1>1, <1>2, <1>3, StrIs
<1>7. p \in Nat /\ q \in Nat
  BY Places
<1>8. ASSUME s = t PROVE c = d /\ Agree(m, p, q, c)
  <2>1. c = d
    BY <1>4, <1>8
  <2>2. ASSUME NEW i \in 0 .. c - 1 PROVE m[p + i] = m[q + i]
    <3>1. i + 1 \in 1 .. c /\ p + (i + 1) - 1 = p + i /\ q + (i + 1) - 1 = q + i
      BY <1>7
    <3> QED BY <1>4, <1>8, <2>1, <3>1
  <2> QED BY <2>1, <2>2 DEF Agree
<1>9. ASSUME c = d, Agree(m, p, q, c) PROVE s = t
  <2>1. ASSUME NEW i \in 1 .. c PROVE s[i] = t[i]
    <3>1. i - 1 \in 0 .. c - 1 /\ p + (i - 1) = p + i - 1 /\ q + (i - 1) = q + i - 1
      BY <1>7
    <3>2. m[p + i - 1] = m[q + i - 1]
      BY <1>9, <3>1 DEF Agree
    <3> QED BY <1>4, <1>9, <3>2
  <2> QED BY <1>4, <1>9, <2>1, SeqEqual
<1> QED BY <1>1, <1>2, <1>3, <1>8, <1>9

LEMMA StrcmpIs ==
  ASSUME NEW m \in MemT, NEW p \in Place, NEW q \in Place
  PROVE  strcmp(m, p, q) = 0 <=> Str(m, p) = Str(m, q)
<1>1. PICK l, h : l = strlen(m, p) /\ h = strlen(m, q)
  OBVIOUS
<1>2. /\ l \in Nat /\ h \in Nat /\ p \in Nat /\ q \in Nat /\ p + l \in Place /\ q + h \in Place
      /\ StrSize \in Nat
  BY <1>1, Length, Places
<1>3. CASE l # h
  <2>1. l - h # 0
    BY <1>2, <1>3
  <2> QED BY <1>1, <1>3, <2>1, StrSame DEF strcmp
<1>4. CASE l = h
  <2>1. p + l <= StrSize - 1 /\ q + l <= StrSize - 1
    BY <1>2, <1>4, Places
  <2>2. Inside(p, q, l)
    BY <1>2, <2>1 DEF Inside
  <2>3. memcmp(m, p, q, l) = 0 <=> Agree(m, p, q, l)
    <3>1. l \in Nat
      BY <1>2
    <3>2. memcmp(m, p, q, l) = 0 <=> \A k \in 0 .. l - 1 : m[p + k] = m[q + k]
      BY <2>2, <3>1, MemcmpIs
    <3> QED BY <3>2 DEF Agree
  <2> QED BY <1>1, <1>4, <2>3, StrSame DEF strcmp
<1> QED BY <1>3, <1>4

\* Where the loop of strncmp leaves, with k bytes to go, and with what.
Shorter(m, a, b, k) == strlen(m, a) < k /\ strlen(m, a) < strlen(m, b)
Leaves(m, a, b, k) == Shorter(m, a, b, k) \/ Shorter(m, b, a, k) \/ m[a] # m[b] \/ m[a] = 0
LeavesWith(m, a, b, k) ==
  IF Shorter(m, a, b, k) THEN -1
  ELSE IF Shorter(m, b, a, k) THEN 1
  ELSE IF m[a] # m[b] THEN Sign(m[a], m[b]) ELSE 0

LEMMA StrncmpLeaves ==
  ASSUME NEW m \in MemT, NEW p \in Place, NEW q \in Place, NEW n \in Nat
  PROVE  LET T == {i \in Nat : Leaves(m, p + i, q + i, n - i)}
             x == FirstOf(T, 0, n - 1)
         IN  strncmp(m, p, q, n) = IF x = Null THEN 0 ELSE LeavesWith(m, p + x, q + x, n - x)
<1> DEFINE T == {i \in Nat : Leaves(m, p + i, q + i, n - i)}
           V == [i \in Nat |-> LeavesWith(m, p + i, q + i, n - i)]
           Body(a, b, k, r) ==
             IF k = 0 THEN 0
             ELSE IF strlen(m, a) < k /\ strlen(m, a) < strlen(m, b) THEN -1
             ELSE IF strlen(m, b) < k /\ strlen(m, b) < strlen(m, a) THEN 1
             ELSE IF m[a] # m[b] THEN Sign(m[a], m[b])
             ELSE IF m[a] = 0 THEN 0 ELSE r
           F(w) == [k \in 0 .. n |-> Body(p + n - k, q + n - k, k, w[k - 1])]
<1>1. p \in Nat /\ q \in Nat
  BY Places
<1>2. ASSUME NEW w PROVE IsLoop(w, n, 0, T, V) <=> w = F(w)
  <2>1. ASSUME NEW k \in 0 .. n
        PROVE  (IF k = 0 THEN 0 ELSE IF n - k \in T THEN V[n - k] ELSE w[k - 1]) =
               Body(p + n - k, q + n - k, k, w[k - 1])
    <3>1. PICK a, b : a = p + n - k /\ b = q + n - k
      OBVIOUS
    <3>2. n - k \in Nat /\ p + (n - k) = a /\ q + (n - k) = b /\ n - (n - k) = k
      BY <1>1, <3>1
    <3>3. n - k \in T <=> Leaves(m, a, b, k)
      BY <3>2
    <3>4. V[n - k] = LeavesWith(m, a, b, k)
      BY <3>2
    <3> HIDE DEF T, V
    <3>5. (IF k = 0 THEN 0 ELSE IF n - k \in T THEN V[n - k] ELSE w[k - 1]) =
          Body(a, b, k, w[k - 1])
      BY <3>3, <3>4 DEF Leaves, LeavesWith, Shorter
    <3> HIDE DEF Body
    <3> QED BY <3>1, <3>5
  <2> HIDE DEF T, V, Body
  <2>2. [k \in 0 .. n |-> IF k = 0 THEN 0 ELSE IF n - k \in T THEN V[n - k] ELSE w[k - 1]] = F(w)
    BY <2>1
  <2> QED BY <2>2 DEF IsLoop
<1>3. T \in SUBSET Nat
  OBVIOUS
<1>4. PICK w : w = F(w) /\ strncmp(m, p, q, n) = w[n]
  <2>1. \E w : w = F(w)
    <3> HIDE DEF T, V, F
    <3> QED BY <1>2, <1>3, LoopLeaves
  <2> QED BY <2>1 DEF strncmp
<1>5. PICK x : x = FirstOf(T, 0, n - 1)
  OBVIOUS
<1>6. w[n] = IF x = Null THEN 0 ELSE V[x]
  <2>1. IsLoop(w, n, 0, T, V)
    BY <1>2, <1>4
  <2> HIDE DEF T, V, F
  <2> QED BY <1>3, <1>5, <2>1, LoopLeaves
<1>7. x # Null => x \in Nat
  <2>1. x # Null => x \in 0 .. n - 1
    <3> HIDE DEF T
    <3>1. n - 1 \in Int
      OBVIOUS
    <3> QED BY <1>3, <1>5, <3>1, FirstIs
  <2> QED BY <2>1
<1>8. x # Null => V[x] = LeavesWith(m, p + x, q + x, n - x)
  BY <1>7
<1> HIDE DEF T, V, F
<1>9. strncmp(m, p, q, n) = IF x = Null THEN 0 ELSE LeavesWith(m, p + x, q + x, n - x)
  BY <1>4, <1>6, <1>8
<1> QED BY <1>5, <1>9 DEF T

\* strncmp compares the beginnings.
LEMMA StrncmpIs ==
  ASSUME NEW m \in MemT, NEW p \in Place, NEW q \in Place, NEW n \in Nat
  PROVE  strncmp(m, p, q, n) = 0 <=> Upto(Str(m, p), n) = Upto(Str(m, q), n)
<1>1. PICK l, h : l = strlen(m, p) /\ h = strlen(m, q)
  OBVIOUS
<1>2. /\ l \in Nat /\ h \in Nat /\ p \in Nat /\ q \in Nat /\ m[p + l] = 0 /\ m[q + h] = 0
      /\ (\A j \in 0 .. l - 1 : m[p + j] # 0) /\ \A j \in 0 .. h - 1 : m[q + j] # 0
  BY <1>1, Length, Places
<1> DEFINE T == {i \in Nat : Leaves(m, p + i, q + i, n - i)}
<1>3. PICK x : x = FirstOf(T, 0, n - 1)
  OBVIOUS
<1>4. /\ x = Null <=> \A j \in 0 .. n - 1 : j \notin T
      /\ x # Null => x \in 0 .. n - 1 /\ x \in T /\ \A j \in 0 .. x - 1 : j \notin T
  <2>1. T \in SUBSET Nat /\ n - 1 \in Int
    OBVIOUS
  <2> HIDE DEF T
  <2> QED BY <1>3, <2>1, FirstIs
<1>5. strncmp(m, p, q, n) = IF x = Null THEN 0 ELSE LeavesWith(m, p + x, q + x, n - x)
  BY <1>3, StrncmpLeaves
<1>6. PICK c \in Nat : c = Min({n, l}) /\ c = IF n <= l THEN n ELSE l
  BY <1>2, Min2
<1>7. PICK d \in Nat : d = Min({n, h}) /\ d = IF n <= h THEN n ELSE h
  BY <1>2, Min2
<1>8. Upto(Str(m, p), n) = Upto(Str(m, q), n) <=> c = d /\ Agree(m, p, q, c)
  BY <1>1, <1>6, <1>7, UptoSame
<1>9. ASSUME NEW y \in 0 .. n, \A j \in 0 .. y - 1 : j \notin T
      PROVE  y <= l /\ y <= h /\ Agree(m, p, q, y)
  <2>1. ASSUME NEW j \in 0 .. y - 1 PROVE m[p + j] = m[q + j] /\ m[p + j] # 0
    <3>1. j \in Nat
      OBVIOUS
    <3>2. ~Leaves(m, p + j, q + j, n - j)
      BY <1>9, <3>1
    <3> QED BY <3>2 DEF Leaves
  <2>2. ~(l < y)
    <3>1. l < y => l \in 0 .. y - 1
      BY <1>2
    <3> QED BY <1>2, <2>1, <3>1
  <2>3. ~(h < y)
    <3>1. h < y => h \in 0 .. y - 1
      BY <1>2
    <3>2. h < y => m[p + h] = m[q + h] /\ m[p + h] # 0
      BY <2>1, <3>1
    <3> QED BY <1>2, <3>2
  <2> QED BY <1>2, <2>1, <2>2, <2>3 DEF Agree
<1>10. CASE x = Null
  <2>1. n \in 0 .. n /\ \A j \in 0 .. n - 1 : j \notin T
    BY <1>4, <1>10
  <2>2. n <= l /\ n <= h /\ Agree(m, p, q, n)
    <3> HIDE DEF T
    <3> QED BY <1>9, <2>1
  <2>3. c = n /\ d = n
    BY <1>6, <1>7, <2>2
  <2> QED BY <1>5, <1>8, <1>10, <2>2, <2>3
<1>11. CASE x # Null
  <2>1. x \in 0 .. n - 1 /\ x \in T /\ \A j \in 0 .. x - 1 : j \notin T
    BY <1>4, <1>11
  <2>2. x \in 0 .. n /\ x \in Nat /\ x < n
    BY <2>1
  <2>3. x <= l /\ x <= h /\ Agree(m, p, q, x)
    <3> HIDE DEF T
    <3> QED BY <1>9, <2>1, <2>2
  <2>4. PICK a, b, k : a = p + x /\ b = q + x /\ k = n - x
    OBVIOUS
  <2>5. Leaves(m, a, b, k) /\ strncmp(m, p, q, n) = LeavesWith(m, a, b, k)
    BY <1>5, <1>11, <2>1, <2>4
  <2>6. /\ a \in Place /\ b \in Place /\ strlen(m, a) = l - x /\ strlen(m, b) = h - x
    <3>1. a \in p .. p + l /\ b \in q .. q + h
      BY <1>2, <2>2, <2>3, <2>4
    <3>2. /\ a \in Place /\ a + strlen(m, a) = p + l
          /\ b \in Place /\ b + strlen(m, b) = q + h
      BY <1>1, <3>1, TailEnds
    <3>3. strlen(m, a) \in Nat /\ strlen(m, b) \in Nat
      BY <3>2, Length
    <3> QED BY <1>2, <2>2, <2>4, <3>2, <3>3
  <2>7. /\ m[a] \in Nat /\ m[b] \in Nat
        /\ (m[a] = 0 <=> x = l) /\ (m[b] = 0 <=> x = h)
    <3>1. m[a] \in Nat /\ m[b] \in Nat
      BY <2>6, Bytes
    <3>2. x # l => x \in 0 .. l - 1
      BY <1>2, <2>2, <2>3
    <3>3. x # h => x \in 0 .. h - 1
      BY <1>2, <2>2, <2>3
    <3> QED BY <1>2, <2>4, <3>1, <3>2, <3>3
  <2>8. CASE Shorter(m, a, b, k)
    <3>1. l - x < k /\ l - x < h - x
      BY <2>6, <2>8 DEF Shorter
    <3>2. c # d
      BY <1>2, <1>6, <1>7, <2>2, <2>4, <3>1
    <3>3. LeavesWith(m, a, b, k) = -1
      BY <2>8 DEF LeavesWith
    <3> QED BY <1>8, <2>5, <3>2, <3>3
  <2>9. CASE ~Shorter(m, a, b, k) /\ Shorter(m, b, a, k)
    <3>1. h - x < k /\ h - x < l - x
      BY <2>6, <2>9 DEF Shorter
    <3>2. c # d
      BY <1>2, <1>6, <1>7, <2>2, <2>4, <3>1
    <3>3. LeavesWith(m, a, b, k) = 1
      BY <2>9 DEF LeavesWith
    <3> QED BY <1>8, <2>5, <3>2, <3>3
  <2>10. CASE ~Shorter(m, a, b, k) /\ ~Shorter(m, b, a, k)
    <3>1. ~(l - x < k /\ l - x < h - x) /\ ~(h - x < k /\ h - x < l - x)
      BY <2>6, <2>10 DEF Shorter
    <3>2. CASE m[a] # m[b]
      <4>1. LeavesWith(m, a, b, k) = Sign(m[a], m[b])
        BY <2>10, <3>2 DEF LeavesWith
      <4>2. Sign(m[a], m[b]) # 0
        BY <2>7, <3>2 DEF Sign
      <4>3. x # l /\ x # h
        BY <1>2, <2>2, <2>3, <2>4, <2>7, <3>1, <3>2
      <4>4. x \in 0 .. c - 1
        BY <1>2, <1>6, <2>2, <2>3, <4>3
      <4>5. ~Agree(m, p, q, c)
        BY <2>4, <3>2, <4>4 DEF Agree
      <4> QED BY <1>8, <2>5, <4>1, <4>2, <4>5
    <3>3. CASE m[a] = m[b]
      <4>1. LeavesWith(m, a, b, k) = 0
        BY <2>10, <3>3 DEF LeavesWith
      <4>2. m[a] = 0
        BY <2>5, <2>10, <3>3 DEF Leaves
      <4>3. x = l /\ x = h
        BY <2>7, <3>3, <4>2
      <4>4. c = x /\ d = x
        BY <1>6, <1>7, <2>2, <4>3
      <4> QED BY <1>8, <2>3, <2>5, <4>1, <4>4
    <3> QED BY <3>2, <3>3
  <2> QED BY <2>8, <2>9, <2>10
<1> QED BY <1>10, <1>11

\* strchr, memchr and strrchr find the first and the last place of a character.
LEMMA FindsRight ==
  ASSUME NEW m \in MemT, NEW p \in Place, NEW v
  PROVE  LET at == {k \in p .. p + strlen(m, p) : m[k] = v}
         IN  /\ strchr(m, p, v) = (IF at = {} THEN Null ELSE Min(at))
             /\ memchr(m, p, v, strlen(m, p) + 1) = strchr(m, p, v)
             /\ strrchr(m, p, v) = (IF at = {} THEN Null ELSE Max(at))
<1>1. PICK l : l = strlen(m, p)
  OBVIOUS
<1>2. /\ l \in Nat /\ p \in Nat /\ p + l \in Place /\ StrSize \in Nat
  BY <1>1, Length, Places
<1> DEFINE at == {k \in p .. p + strlen(m, p) : m[k] = v}
<1>3. at = PlacesOf(m, v) \cap (p .. p + l)
  <2>1. \A k \in p .. p + l : k \in Place
    BY <1>2, Places
  <2> QED BY <1>1, <2>1 DEF PlacesOf
<1>4. strchr(m, p, v) = FirstOf(PlacesOf(m, v), p, p + l)
  BY <1>1, StrchrIs
<1>5. memchr(m, p, v, l + 1) = FirstOf(PlacesOf(m, v), p, p + l)
  <2>1. p + (l + 1) <= StrSize /\ l + 1 \in Nat /\ p + (l + 1) - 1 = p + l
    BY <1>2, Places
  <2>2. memchr(m, p, v, l + 1) = FirstOf(PlacesOf(m, v), p, p + (l + 1) - 1)
    BY <2>1, MemchrIs
  <2> QED BY <2>1, <2>2
<1>6. strrchr(m, p, v) = LastOf(PlacesOf(m, v), p, p + l)
  BY <1>1, StrrchrIs
<1> HIDE DEF at
<1>7. /\ strchr(m, p, v) = (IF at = {} THEN Null ELSE Min(at))
      /\ strrchr(m, p, v) = (IF at = {} THEN Null ELSE Max(at))
  BY <1>3, <1>4, <1>6 DEF FirstOf, LastOf
<1> QED BY <1>1, <1>4, <1>5, <1>7 DEF at

LEMMA LooksInv == ASSUME strText \in MemT PROVE LooksRight
<1> DEFINE m == strText
<1>1. m \in MemT
  OBVIOUS
<1> HIDE DEF m
<1> DEFINE A(p, q) == (strcmp(m, p, q) = 0) = (Str(m, p) = Str(m, q))
           B(p, q, n) == (strncmp(m, p, q, n) = 0) = (Upto(Str(m, p), n) = Upto(Str(m, q), n))
           C(p, q, n) == Inside(p, q, n) =>
             (memcmp(m, p, q, n) = 0) = (\A k \in 0 .. n - 1 : m[p + k] = m[q + k])
           D(p, q) == strcspn(m, p, q) =
             Min({k \in 0 .. strlen(m, p) : k = strlen(m, p) \/ m[p + k] \in Letters(m, q)})
           E(p, q) == SpanClear(m, p, q) => strspn(m, p, q) = Prefix(m, p, Letters(m, q))
           F(p, q) == m[q] # 0 =>
             LET all == Matches(m, p, q)
                 inside == all \ {p + strlen(m, p) - strlen(m, q)}
             IN /\ strstr(m, p, q) # Null => all # {} /\ strstr(m, p, q) = Min(all)
                /\ inside # {} => strstr(m, p, q) # Null
           H(p, v) == LET at == {k \in p .. p + strlen(m, p) : m[k] = v}
                      IN  /\ strchr(m, p, v) = (IF at = {} THEN Null ELSE Min(at))
                          /\ memchr(m, p, v, strlen(m, p) + 1) = strchr(m, p, v)
                          /\ strrchr(m, p, v) = (IF at = {} THEN Null ELSE Max(at))
<1>2. ASSUME NEW p \in Place, NEW q \in Place
      PROVE  /\ A(p, q) /\ (\A n \in 0 .. StrSize : B(p, q, n) /\ C(p, q, n)) /\ D(p, q) /\ E(p, q)
             /\ F(p, q) /\ \A v \in StrChars \cup {0} : H(p, v)
  <2>1. A(p, q)
    <3>1. strcmp(m, p, q) = 0 <=> Str(m, p) = Str(m, q)
      BY <1>1, StrcmpIs
    <3> QED BY <3>1
  <2>2. ASSUME NEW n \in 0 .. StrSize PROVE B(p, q, n) /\ C(p, q, n)
    <3>1. n \in Nat
      BY Places
    <3>2. strncmp(m, p, q, n) = 0 <=> Upto(Str(m, p), n) = Upto(Str(m, q), n)
      BY <1>1, <3>1, StrncmpIs
    <3>3. Inside(p, q, n) => (memcmp(m, p, q, n) = 0 <=> \A k \in 0 .. n - 1 : m[p + k] = m[q + k])
      BY <1>1, <3>1, MemcmpIs
    <3> QED BY <3>2, <3>3
  <2>3. D(p, q)
    BY <1>1, StrcspnIs DEF Letters
  <2>4. E(p, q)
    BY <1>1, StrspnIs
  <2>5. F(p, q)
    BY <1>1, StrstrFinds
  <2>6. ASSUME NEW v \in StrChars \cup {0} PROVE H(p, v)
    BY <1>1, FindsRight
  <2> HIDE DEF A, B, C, D, E, F, H
  <2> QED BY <2>1, <2>2, <2>3, <2>4, <2>5, <2>6
<1>3. \A p, q \in Place :
        /\ A(p, q)
        /\ \A n \in 0 .. StrSize : /\ B(p, q, n)
                                  /\ C(p, q, n)
        /\ D(p, q)
        /\ E(p, q)
        /\ F(p, q)
        /\ \A v \in StrChars \cup {0} : H(p, v)
  <2> HIDE DEF A, B, C, D, E, F, H
  <2> QED BY <1>2
<1> QED BY <1>3, ZenonT(60) DEF LooksRight, m

----------------------------------------------------------------------------
(* Copying strings and bytes *)

\* A loop of n turns on memory m that reads at R and writes at W.
IsWrite(f, n, m, W, R) ==
  f = [k \in 0 .. n |-> IF k = 0 THEN m ELSE [f[k - 1] EXCEPT ![W[k]] = f[k - 1][R[k]]]]

\* C is the memory after each turn.
IsWritten(C, n, m, W, R) ==
  /\ DOMAIN C = 0 .. n /\ C[0] = m
  /\ \A k \in 1 .. n : C[k] = [C[k - 1] EXCEPT ![W[k]] = C[k - 1][R[k]]]

LEMMA LoopWrites ==
  ASSUME NEW n \in Nat, NEW m, NEW W, NEW R, NEW C, IsWritten(C, n, m, W, R)
  PROVE  /\ \E f : IsWrite(f, n, m, W, R)
         /\ \A f : IsWrite(f, n, m, W, R) => \A k \in 0 .. n : f[k] = C[k]
<1>0. /\ DOMAIN C = 0 .. n /\ C[0] = m
      /\ \A k \in 1 .. n : C[k] = [C[k - 1] EXCEPT ![W[k]] = C[k - 1][R[k]]]
  BY DEF IsWritten
<1>1. \A k \in 0 .. n : k = 0 \/ (k \in 1 .. n /\ k - 1 \in 0 .. n)
  OBVIOUS
<1>2. \E f : IsWrite(f, n, m, W, R)
  <2> DEFINE u == [k \in 0 .. n |-> C[k]]
             B(w, k) == IF k = 0 THEN m ELSE [w[k - 1] EXCEPT ![W[k]] = w[k - 1][R[k]]]
  <2>1. ASSUME NEW k \in 0 .. n PROVE u[k] = B(u, k)
    <3>1. CASE k = 0
      BY <1>0, <3>1
    <3>2. CASE k # 0
      <4>1. k \in 1 .. n /\ u[k] = C[k] /\ u[k - 1] = C[k - 1]
        BY <1>1, <3>2
      <4> HIDE DEF u
      <4> QED BY <1>0, <3>2, <4>1
    <3> QED BY <3>1, <3>2
  <2> HIDE DEF B
  <2>2. u = [k \in 0 .. n |-> B(u, k)]
    BY <2>1
  <2> HIDE DEF u
  <2> QED BY <2>2 DEF B, IsWrite
<1>3. ASSUME NEW f, IsWrite(f, n, m, W, R) PROVE \A k \in 0 .. n : f[k] = C[k]
  <2> DEFINE G == {k \in 0 .. n : f[k] = C[k]}
             B(k) == IF k = 0 THEN m ELSE [f[k - 1] EXCEPT ![W[k]] = f[k - 1][R[k]]]
  <2>1. \A k \in 0 .. n : f[k] = B(k)
    <3>1. f = [k \in 0 .. n |-> B(k)]
      BY <1>3 DEF IsWrite
    <3> HIDE DEF B
    <3> QED BY <3>1
  <2>2. 0 \in G
    <3>1. 0 \in 0 .. n /\ B(0) = m
      OBVIOUS
    <3>2. f[0] = m
      <4> HIDE DEF B
      <4> QED BY <2>1, <3>1
    <3> QED BY <1>0, <3>1, <3>2
  <2>3. ASSUME NEW i \in 1 .. n, i - 1 \in G PROVE i \in G
    <3>1. i \in 0 .. n /\ i # 0
      OBVIOUS
    <3>2. f[i - 1] = C[i - 1]
      BY <2>3
    <3>3. f[i] = [f[i - 1] EXCEPT ![W[i]] = f[i - 1][R[i]]]
      BY <2>1, <3>1
    <3>4. f[i] = C[i]
      BY <1>0, <3>2, <3>3
    <3> QED BY <3>1, <3>4
  <2> HIDE DEF G
  <2>4. \A i \in 0 .. n : i \in G
    BY <2>2, <2>3, EveryTurn
  <2> QED BY <2>4 DEF G
<1> QED BY <1>2, <1>3

\* The memory with the bytes a to b written from as many at x.
Blit(m, a, b, x) == [j \in Place |-> IF j \in a .. b THEN m[x + j - a] ELSE m[j]]

\* Upwards, the bytes that are still to be read are not written.
LEMMA CopiedIs ==
  ASSUME NEW m \in MemT, NEW d \in Nat, NEW s \in Nat, NEW n \in Nat, Inside(d, s, n),
         s >= d \/ s + n <= d
  PROVE  \A k \in 0 .. n : Copied(m, d, s, n)[k] = Blit(m, d, d + k - 1, s)
<1> DEFINE C == [k \in 0 .. n |-> Blit(m, d, d + k - 1, s)]
           W == [k \in 1 .. n |-> d + k - 1]
           R == [k \in 1 .. n |-> s + k - 1]
           F(w) == [k \in 0 .. n |->
                      IF k = 0 THEN m ELSE [w[k - 1] EXCEPT ![d + k - 1] = w[k - 1][s + k - 1]]]
<1>1. StrSize \in Nat /\ d + n <= StrSize /\ s + n <= StrSize
  BY Places DEF Inside
<1>2. \A k \in 1 .. n : d + k - 1 \in Place /\ s + k - 1 \in Place
  BY <1>1, Places
<1>3. C[0] = m
  <2>1. m = [j \in Place |-> m[j]]
    BY Bytes
  <2>2. d .. d + 0 - 1 = {}
    OBVIOUS
  <2>3. Blit(m, d, d + 0 - 1, s) = m
    BY <2>1, <2>2 DEF Blit
  <2> QED BY <2>3
<1>4. ASSUME NEW k \in 1 .. n
      PROVE  C[k] = [C[k - 1] EXCEPT ![d + k - 1] = C[k - 1][s + k - 1]]
  <2>1. k \in 0 .. n /\ k - 1 \in 0 .. n
    OBVIOUS
  <2>2. PICK o, a, x : o = C[k - 1] /\ a = d + k - 1 /\ x = s + k - 1
    OBVIOUS
  <2>3. a \in Place /\ x \in Place
    BY <1>2, <2>2
  <2>4. o = [j \in Place |-> IF j \in d .. a - 1 THEN m[s + j - d] ELSE m[j]]
    <3>1. d + (k - 1) - 1 = a - 1
      BY <2>2
    <3> QED BY <2>1, <2>2, <3>1 DEF Blit
  <2>5. C[k] = [j \in Place |-> IF j \in d .. a THEN m[s + j - d] ELSE m[j]]
    BY <2>1, <2>2 DEF Blit
  <2> HIDE DEF C
  <2>6. x \notin d .. a - 1 /\ x = s + a - d
    BY <1>1, <2>2
  <2>7. o[x] = m[x]
    BY <2>3, <2>4, <2>6
  <2>8. ASSUME NEW j \in Place PROVE C[k][j] = [o EXCEPT ![a] = m[x]][j]
    <3>1. j \in Nat /\ a \in Nat
      BY <2>3, Places
    <3>2. CASE j = a
      <4>1. j \in d .. a
        BY <2>2, <3>1, <3>2
      <4>2. [o EXCEPT ![a] = m[x]][j] = m[x]
        BY <2>3, <2>4, <3>2
      <4>3. C[k][j] = m[s + j - d]
        BY <2>5, <4>1
      <4> QED BY <2>6, <3>2, <4>2, <4>3
    <3>3. CASE j # a
      <4>1. j \in d .. a <=> j \in d .. a - 1
        BY <3>1, <3>3
      <4>2. [o EXCEPT ![a] = m[x]][j] = o[j]
        BY <2>3, <2>4, <3>3
      <4> QED BY <2>4, <2>5, <4>1, <4>2
    <3> QED BY <3>2, <3>3
  <2>9. C[k] = [o EXCEPT ![a] = m[x]]
    <3>1. DOMAIN C[k] = Place /\ C[k] = [j \in Place |-> C[k][j]]
      BY <2>5
    <3>2. [o EXCEPT ![a] = m[x]] = [j \in Place |-> [o EXCEPT ![a] = m[x]][j]]
      BY <2>4
    <3> QED BY <2>8, <3>1, <3>2
  <2> QED BY <2>2, <2>7, <2>9
<1> HIDE DEF C
<1>5. ASSUME NEW w PROVE IsWrite(w, n, m, W, R) <=> w = F(w)
  <2> DEFINE A(k) == IF k = 0 THEN m ELSE [w[k - 1] EXCEPT ![W[k]] = w[k - 1][R[k]]]
             B(k) == IF k = 0 THEN m ELSE [w[k - 1] EXCEPT ![d + k - 1] = w[k - 1][s + k - 1]]
  <2>1. ASSUME NEW k \in 0 .. n PROVE A(k) = B(k)
    <3>1. k # 0 => W[k] = d + k - 1 /\ R[k] = s + k - 1
      OBVIOUS
    <3> HIDE DEF W, R
    <3> QED BY <3>1
  <2> HIDE DEF A, B
  <2>2. [k \in 0 .. n |-> A(k)] = [k \in 0 .. n |-> B(k)]
    BY <2>1
  <2> QED BY <2>2 DEF A, B, IsWrite
<1>6. \A k \in 1 .. n : C[k] = [C[k - 1] EXCEPT ![W[k]] = C[k - 1][R[k]]]
  <2> SUFFICES ASSUME NEW k \in 1 .. n PROVE C[k] = [C[k - 1] EXCEPT ![W[k]] = C[k - 1][R[k]]]
    OBVIOUS
  <2>1. W[k] = d + k - 1 /\ R[k] = s + k - 1
    OBVIOUS
  <2> HIDE DEF W, R
  <2> QED BY <1>4, <2>1
<1>7. DOMAIN C = 0 .. n
  BY DEF C
<1> HIDE DEF W, R
<1>8. /\ \E f : IsWrite(f, n, m, W, R)
      /\ \A f : IsWrite(f, n, m, W, R) => \A k \in 0 .. n : f[k] = C[k]
  <2>1. IsWritten(C, n, m, W, R)
    BY <1>3, <1>6, <1>7 DEF IsWritten
  <2> QED BY <2>1, LoopWrites
<1>9. PICK w : w = F(w) /\ Copied(m, d, s, n) = w
  <2>1. \E w : w = F(w)
    <3> HIDE DEF F
    <3> QED BY <1>5, <1>8
  <2> QED BY <2>1 DEF Copied
<1>10. \A k \in 0 .. n : w[k] = C[k]
  <2> HIDE DEF F
  <2> QED BY <1>5, <1>8, <1>9
<1> QED BY <1>9, <1>10 DEF C

\* Downwards, neither; memmove leaves out the first byte.
LEMMA MovedBack ==
  ASSUME NEW m \in MemT, NEW d \in Nat, NEW s \in Nat, NEW n \in Nat, Inside(d, s, n),
         n # 0, s <= d
  PROVE  memmove(m, d, s, n) = [j \in Place |-> IF j \in d + 1 .. d + n - 1 THEN m[s + j - d] ELSE m[j]]
<1>0. PICK t \in Nat : t = n - 1
  OBVIOUS
<1> DEFINE C == [k \in 0 .. t |->
                   [j \in Place |-> IF j \in d + n - k .. d + n - 1 THEN m[s + j - d] ELSE m[j]]]
           W == [k \in 1 .. t |-> d + n - k]
           R == [k \in 1 .. t |-> s + n - k]
           F(w) == [k \in 0 .. t |->
                      IF k = 0 THEN m ELSE [w[k - 1] EXCEPT ![d + n - k] = w[k - 1][s + n - k]]]
<1>1. StrSize \in Nat /\ d + n <= StrSize /\ s + n <= StrSize
  BY Places DEF Inside
<1>2. \A k \in 1 .. t : d + n - k \in Place /\ s + n - k \in Place
  BY <1>0, <1>1, Places
<1>3. C[0] = m
  <2>1. m = [j \in Place |-> m[j]]
    BY Bytes
  <2>2. d + n - 0 .. d + n - 1 = {} /\ 0 \in 0 .. t
    OBVIOUS
  <2> QED BY <2>1, <2>2
<1>4. ASSUME NEW k \in 1 .. t
      PROVE  C[k] = [C[k - 1] EXCEPT ![d + n - k] = C[k - 1][s + n - k]]
  <2>1. k \in 0 .. t /\ k - 1 \in 0 .. t
    BY <1>0
  <2>2. PICK o, a, x, b : o = C[k - 1] /\ a = d + n - k /\ x = s + n - k /\ b = d + n - 1
    OBVIOUS
  <2>3. a \in Place /\ x \in Place /\ b \in Nat
    BY <1>2, <2>2
  <2>4. o = [j \in Place |-> IF j \in a + 1 .. b THEN m[s + j - d] ELSE m[j]]
    <3>1. d + n - (k - 1) = a + 1
      BY <2>2
    <3>2. o = [j \in Place |-> IF j \in d + n - (k - 1) .. d + n - 1 THEN m[s + j - d] ELSE m[j]]
      BY <2>1, <2>2
    <3> QED BY <2>2, <3>1, <3>2
  <2>5. C[k] = [j \in Place |-> IF j \in a .. b THEN m[s + j - d] ELSE m[j]]
    BY <2>1, <2>2
  <2> HIDE DEF C
  <2>6. x \notin a + 1 .. b /\ x = s + a - d
    BY <1>1, <2>2
  <2>7. o[x] = m[x]
    BY <2>3, <2>4, <2>6
  <2>8. ASSUME NEW j \in Place PROVE C[k][j] = [o EXCEPT ![a] = m[x]][j]
    <3>1. j \in Nat /\ a \in Nat
      BY <2>3, Places
    <3>2. CASE j = a
      <4>1. j \in a .. b
        BY <1>0, <2>2, <3>1, <3>2
      <4>2. [o EXCEPT ![a] = m[x]][j] = m[x]
        BY <2>3, <2>4, <3>2
      <4>3. C[k][j] = m[s + j - d]
        BY <2>5, <4>1
      <4> QED BY <2>6, <3>2, <4>2, <4>3
    <3>3. CASE j # a
      <4>1. j \in a .. b <=> j \in a + 1 .. b
        BY <2>3, <3>1, <3>3
      <4>2. [o EXCEPT ![a] = m[x]][j] = o[j]
        BY <2>3, <2>4, <3>3
      <4> QED BY <2>4, <2>5, <4>1, <4>2
    <3> QED BY <3>2, <3>3
  <2>9. C[k] = [o EXCEPT ![a] = m[x]]
    <3>1. DOMAIN C[k] = Place /\ C[k] = [j \in Place |-> C[k][j]]
      BY <2>5
    <3>2. [o EXCEPT ![a] = m[x]] = [j \in Place |-> [o EXCEPT ![a] = m[x]][j]]
      BY <2>4
    <3> QED BY <2>8, <3>1, <3>2
  <2> QED BY <2>2, <2>7, <2>9
<1> HIDE DEF C
<1>5. ASSUME NEW w PROVE IsWrite(w, t, m, W, R) <=> w = F(w)
  <2> DEFINE A(k) == IF k = 0 THEN m ELSE [w[k - 1] EXCEPT ![W[k]] = w[k - 1][R[k]]]
             B(k) == IF k = 0 THEN m ELSE [w[k - 1] EXCEPT ![d + n - k] = w[k - 1][s + n - k]]
  <2>1. ASSUME NEW k \in 0 .. t PROVE A(k) = B(k)
    <3>1. k # 0 => W[k] = d + n - k /\ R[k] = s + n - k
      OBVIOUS
    <3> HIDE DEF W, R
    <3> QED BY <3>1
  <2> HIDE DEF A, B
  <2>2. [k \in 0 .. t |-> A(k)] = [k \in 0 .. t |-> B(k)]
    BY <2>1
  <2> QED BY <2>2 DEF A, B, IsWrite
<1>6. \A k \in 1 .. t : C[k] = [C[k - 1] EXCEPT ![W[k]] = C[k - 1][R[k]]]
  <2> SUFFICES ASSUME NEW k \in 1 .. t PROVE C[k] = [C[k - 1] EXCEPT ![W[k]] = C[k - 1][R[k]]]
    OBVIOUS
  <2>1. W[k] = d + n - k /\ R[k] = s + n - k
    OBVIOUS
  <2> HIDE DEF W, R
  <2> QED BY <1>4, <2>1
<1>7. DOMAIN C = 0 .. t
  BY DEF C
<1> HIDE DEF W, R
<1>8. /\ \E f : IsWrite(f, t, m, W, R)
      /\ \A f : IsWrite(f, t, m, W, R) => \A k \in 0 .. t : f[k] = C[k]
  <2>1. IsWritten(C, t, m, W, R)
    BY <1>3, <1>6, <1>7 DEF IsWritten
  <2> QED BY <2>1, LoopWrites
<1>9. PICK w : w = F(w) /\ memmove(m, d, s, n) = w[t]
  <2>1. \E w : w = F(w)
    <3> HIDE DEF F
    <3> QED BY <1>5, <1>8
  <2>2. ~(n = 0 \/ s > d)
    OBVIOUS
  <2> QED BY <1>0, <2>1, <2>2 DEF memmove
<1>10. w[t] = C[t]
  <2>1. t \in 0 .. t
    OBVIOUS
  <2> HIDE DEF F
  <2> QED BY <1>5, <1>8, <1>9, <2>1
<1>11. t \in 0 .. t /\ d + n - t = d + 1
  BY <1>0
<1>12. C[t] = [j \in Place |-> IF j \in d + n - t .. d + n - 1 THEN m[s + j - d] ELSE m[j]]
  BY <1>11 DEF C
<1> QED BY <1>9, <1>10, <1>11, <1>12

LEMMA MemcpyIs ==
  ASSUME NEW m \in MemT, NEW d \in Nat, NEW s \in Nat, NEW n \in Nat, Inside(d, s, n),
         s >= d \/ s + n <= d
  PROVE  memcpy(m, d, s, n) = Blit(m, d, d + n - 1, s)
<1>1. n \in 0 .. n
  OBVIOUS
<1>2. Copied(m, d, s, n)[n] = Blit(m, d, d + n - 1, s)
  BY <1>1, CopiedIs
<1> QED BY <1>2 DEF memcpy

LEMMA MemmoveIs ==
  ASSUME NEW m \in MemT, NEW d \in Place, NEW s \in Place, NEW n \in Nat, Inside(d, s, n)
  PROVE  memmove(m, d, s, n) =
           [k \in Place |-> IF k \in d .. d + n - 1 /\ ~(k = d /\ d >= s) THEN m[s + k - d] ELSE m[k]]
<1>1. d \in Nat /\ s \in Nat /\ \A k \in Place : k \in Nat
  BY Places
<1>2. CASE s > d
  <2>1. memmove(m, d, s, n) = Blit(m, d, d + n - 1, s)
    BY <1>1, <1>2, MemcpyIs DEF memmove
  <2>2. ~(d >= s)
    BY <1>1, <1>2
  <2> QED BY <2>1, <2>2 DEF Blit
<1>3. CASE n = 0
  <2>1. memmove(m, d, s, n) = Copied(m, d, s, 0)[0]
    BY <1>3 DEF memmove, memcpy
  <2>2. Copied(m, d, s, 0)[0] = m
    <3> DEFINE F(w) == [k \in 0 .. 0 |->
                          IF k = 0 THEN m ELSE [w[k - 1] EXCEPT ![d + k - 1] = w[k - 1][s + k - 1]]]
               u == [k \in 0 .. 0 |-> m]
    <3>1. \A k \in 0 .. 0 : k = 0
      OBVIOUS
    <3>2. ASSUME NEW w PROVE F(w) = u
      BY <3>1
    <3>3. PICK w : w = F(w) /\ Copied(m, d, s, 0) = w
      <4>1. \E w : w = F(w)
        <5>1. u = F(u)
          BY <3>2
        <5> QED BY <5>1
      <4> QED BY <4>1 DEF Copied
    <3>4. w = u
      BY <3>2, <3>3
    <3> QED BY <3>3, <3>4
  <2>3. d .. d + n - 1 = {}
    BY <1>1, <1>3
  <2>4. m = [k \in Place |-> m[k]]
    BY Bytes
  <2> QED BY <2>1, <2>2, <2>3, <2>4
<1>4. CASE n # 0 /\ ~(s > d)
  <2>1. s <= d
    BY <1>1, <1>4
  <2>2. memmove(m, d, s, n) = [j \in Place |-> IF j \in d + 1 .. d + n - 1 THEN m[s + j - d] ELSE m[j]]
    BY <1>1, <1>4, <2>1, MovedBack
  <2>3. \A k \in Place : k \in d + 1 .. d + n - 1 <=> k \in d .. d + n - 1 /\ ~(k = d /\ d >= s)
    BY <1>1, <2>1
  <2> QED BY <2>2, <2>3
<1> QED BY <1>2, <1>3, <1>4

\* Every byte but one.
LEMMA MemmoveCopies ==
  ASSUME NEW m \in MemT, NEW d \in Place, NEW s \in Place, NEW n \in Nat, Inside(d, s, n)
  PROVE  CopiedBut(memmove(m, d, s, n), m, d, s, n, IF d > s THEN d ELSE Null)
<1>1. d \in Nat /\ s \in Nat /\ \A k \in Place : k \in Nat
  BY Places
<1>2. PICK x, new : x = (IF d > s THEN d ELSE Null) /\ new = memmove(m, d, s, n)
  OBVIOUS
<1>3. ASSUME NEW k \in Place \ {x}
      PROVE  new[k] = IF k \in d .. d + n - 1 THEN m[s + k - d] ELSE m[k]
  <2>1. new[k] = IF k \in d .. d + n - 1 /\ ~(k = d /\ d >= s) THEN m[s + k - d] ELSE m[k]
    BY <1>2, MemmoveIs
  <2>2. CASE k = d /\ d >= s
    <3>1. d = s /\ s + k - d = k
      BY <1>1, <1>2, <2>2
    <3> QED BY <2>1, <3>1
  <2> QED BY <2>1, <2>2
<1> QED BY <1>2, <1>3 DEF CopiedBut

LEMMA MemsetIs ==
  ASSUME NEW m \in MemT, NEW p \in Place, NEW v, NEW n \in Nat, p + n <= StrSize
  PROVE  memset(m, p, v, n) = [k \in Place |-> IF k \in p .. p + n - 1 THEN v ELSE m[k]]
<1> DEFINE C(k) == [j \in Place |-> IF j \in p + n - k .. p + n - 1 THEN v ELSE m[j]]
           B(w, k) == IF k = 0 THEN m ELSE [w[k - 1] EXCEPT ![p + n - k] = v]
           F(w) == [k \in 0 .. n |-> B(w, k)]
           u == [k \in 0 .. n |-> C(k)]
<1>1. p \in Nat /\ StrSize \in Nat /\ \A k \in Place : k \in Nat
  BY Places
<1>2. C(0) = m
  <2>1. m = [j \in Place |-> m[j]]
    BY Bytes
  <2>2. p + n - 0 .. p + n - 1 = {}
    BY <1>1
  <2> QED BY <2>1, <2>2
<1>3. ASSUME NEW k \in 1 .. n PROVE C(k) = [C(k - 1) EXCEPT ![p + n - k] = v]
  <2>1. PICK a, b, o : a = p + n - k /\ b = p + n - 1 /\ o = C(k - 1)
    OBVIOUS
  <2>2. a \in Place /\ a \in Nat /\ b \in Nat /\ a <= b /\ p + n - (k - 1) = a + 1
    BY <1>1, <2>1, Places
  <2>3. o = [j \in Place |-> IF j \in a + 1 .. b THEN v ELSE m[j]]
    BY <2>1, <2>2
  <2>4. C(k) = [j \in Place |-> IF j \in a .. b THEN v ELSE m[j]]
    BY <2>1
  <2> HIDE DEF C
  <2>5. ASSUME NEW j \in Place PROVE C(k)[j] = [o EXCEPT ![a] = v][j]
    <3>1. j \in a .. b <=> j = a \/ j \in a + 1 .. b
      BY <1>1, <2>2
    <3> QED BY <2>2, <2>3, <2>4, <3>1
  <2>6. C(k) = [o EXCEPT ![a] = v]
    <3>1. C(k) = [j \in Place |-> C(k)[j]]
      BY <2>4
    <3>2. [o EXCEPT ![a] = v] = [j \in Place |-> [o EXCEPT ![a] = v][j]]
      BY <2>3
    <3> QED BY <2>5, <3>1, <3>2
  <2> QED BY <2>1, <2>6
<1> HIDE DEF C
<1>4. \A k \in 0 .. n : k = 0 \/ (k \in 1 .. n /\ k - 1 \in 0 .. n)
  OBVIOUS
<1>5. u = F(u)
  <2>1. ASSUME NEW k \in 0 .. n PROVE u[k] = B(u, k)
    <3>1. CASE k = 0
      BY <1>2, <3>1
    <3>2. CASE k # 0
      <4>1. k \in 1 .. n /\ u[k] = C(k) /\ u[k - 1] = C(k - 1)
        BY <1>4, <3>2
      <4> HIDE DEF u
      <4> QED BY <1>3, <3>2, <4>1
    <3> QED BY <3>1, <3>2
  <2> HIDE DEF B
  <2> QED BY <2>1
<1>6. PICK w : w = F(w) /\ memset(m, p, v, n) = w[n]
  <2>1. \E w : w = F(w)
    BY <1>5
  <2> QED BY <2>1 DEF memset
<1>7. \A k \in 0 .. n : w[k] = B(w, k)
  <2> HIDE DEF B
  <2> QED BY <1>6
<1> DEFINE G == {k \in 0 .. n : w[k] = C(k)}
<1>8. 0 \in G
  <2>1. 0 \in 0 .. n /\ B(w, 0) = m
    OBVIOUS
  <2> HIDE DEF B
  <2> QED BY <1>2, <1>7, <2>1
<1>9. ASSUME NEW i \in 1 .. n, i - 1 \in G PROVE i \in G
  <2>1. i \in 0 .. n /\ i # 0 /\ w[i - 1] = C(i - 1)
    BY <1>9
  <2>2. w[i] = [w[i - 1] EXCEPT ![p + n - i] = v]
    BY <1>7, <2>1
  <2>3. w[i] = C(i)
    BY <1>3, <2>1, <2>2
  <2> QED BY <2>1, <2>3
<1> HIDE DEF G
<1>10. \A i \in 0 .. n : i \in G
  BY <1>8, <1>9, EveryTurn
<1>11. w[n] = C(n) /\ p + n - n = p
  <2>1. n \in 0 .. n /\ p + n - n = p
    BY <1>1
  <2> QED BY <1>10, <2>1 DEF G
<1> QED BY <1>6, <1>11 DEF C

LEMMA StrcpyIs ==
  ASSUME NEW m \in MemT, NEW d \in Place, NEW s \in Place,
         Inside(d, s, strlen(m, s) + 1), Apart(d, s, strlen(m, s) + 1)
  PROVE  Str(strcpy(m, d, s), d) = Str(m, s)
<1>1. PICK l, o : l = strlen(m, s) /\ o = strcpy(m, d, s)
  OBVIOUS
<1>2. /\ l \in Nat /\ d \in Nat /\ s \in Nat /\ StrSize \in Nat /\ m[s + l] = 0
      /\ (\A j \in 0 .. l : s + j \in Place) /\ \A j \in 0 .. l - 1 : m[s + j] # 0
  BY <1>1, Length, Places
<1>3. /\ d + (l + 1) <= StrSize /\ s + (l + 1) <= StrSize
      /\ (s >= d \/ s + (l + 1) <= d) /\ l + 1 \in Nat /\ d + (l + 1) - 1 = d + l
  BY <1>1, <1>2 DEF Inside, Apart
<1>4. o = [j \in Place |-> IF j \in d .. d + l THEN m[s + j - d] ELSE m[j]]
  <2>1. Inside(d, s, l + 1)
    BY <1>1
  <2>2. memcpy(m, d, s, l + 1) = Blit(m, d, d + (l + 1) - 1, s)
    BY <1>2, <1>3, <2>1, MemcpyIs
  <2>3. o = Blit(m, d, d + l, s)
    BY <1>1, <1>3, <2>2 DEF strcpy
  <2> QED BY <2>3 DEF Blit
<1>5. ASSUME NEW j \in 0 .. l PROVE d + j \in Place /\ o[d + j] = m[s + j]
  <2>1. d + j \in Place /\ d + j \in d .. d + l /\ s + (d + j) - d = s + j
    BY <1>2, <1>3, Places
  <2> QED BY <1>4, <2>1
<1>6. o \in MemT
  <2>1. ASSUME NEW j \in Place PROVE o[j] \in Byte
    <3>1. CASE j \in d .. d + l
      <4>1. j - d \in 0 .. l /\ s + (j - d) = s + j - d
        BY <1>2, <3>1
      <4>2. s + j - d \in Place
        BY <1>2, <4>1
      <4> QED BY <1>4, <3>1, <4>2, Bytes
    <3>2. CASE j \notin d .. d + l
      BY <1>4, <3>2, Bytes
    <3> QED BY <3>1, <3>2
  <2>2. o[StrSize - 1] = 0
    <3>1. StrSize - 1 \in Place
      BY Places
    <3>2. CASE StrSize - 1 \in d .. d + l
      <4>1. StrSize - 1 = d + l /\ l \in 0 .. l
        BY <1>2, <1>3, <3>2
      <4> QED BY <1>2, <1>5, <4>1
    <3>3. CASE StrSize - 1 \notin d .. d + l
      BY <1>4, <3>1, <3>3, Bytes
    <3> QED BY <3>2, <3>3
  <2>3. o \in [Place -> Byte]
    <3>1. o = [j \in Place |-> o[j]]
      BY <1>4
    <3> QED BY <2>1, <3>1
  <2> QED BY <2>2, <2>3 DEF MemT
<1>7. strlen(o, d) = l
  <2>1. l \in 0 .. l /\ \A j \in 0 .. l - 1 : j \in 0 .. l
    BY <1>2
  <2>2. d + l \in Place /\ o[d + l] = 0 /\ \A j \in 0 .. l - 1 : o[d + j] # 0
    BY <1>2, <1>5, <2>1
  <2> QED BY <1>2, <1>6, <2>2, LengthOf
<1>8. Str(o, d) = [k \in 1 .. l |-> o[d + k - 1]] /\ Str(m, s) = [k \in 1 .. l |-> m[s + k - 1]]
  BY <1>1, <1>7 DEF Str
<1>9. ASSUME NEW k \in 1 .. l PROVE o[d + k - 1] = m[s + k - 1]
  <2>1. k - 1 \in 0 .. l /\ d + (k - 1) = d + k - 1 /\ s + (k - 1) = s + k - 1
    BY <1>2
  <2> QED BY <1>5, <2>1
<1> QED BY <1>1, <1>8, <1>9

LEMMA StrncpyIs ==
  ASSUME NEW m \in MemT, NEW d \in Place, NEW s \in Place,
         Inside(d, s, strlen(m, s) + 1), Apart(d, s, strlen(m, s) + 1), NEW n \in 1 .. strlen(m, s)
  PROVE  strncpy(m, d, s, n) = memcpy(m, d, s, n)
<1>1. PICK l, cpy : l = strlen(m, s) /\ cpy = Copied(m, d, s, n)
  OBVIOUS
<1>2. /\ l \in Nat /\ d \in Nat /\ s \in Nat /\ StrSize \in Nat
      /\ (\A j \in 0 .. l : s + j \in Place) /\ \A j \in 0 .. l - 1 : m[s + j] # 0
  BY <1>1, Length, Places
<1>3. n \in Nat /\ n >= 1 /\ n <= l
  BY <1>1, <1>2
<1>4. /\ d + (l + 1) <= StrSize /\ s + (l + 1) <= StrSize
      /\ (d + (l + 1) <= s \/ s + (l + 1) <= d)
  BY <1>1, <1>2 DEF Inside, Apart
<1>5. /\ Inside(d, s, n) /\ (s >= d \/ s + n <= d)
  BY <1>2, <1>3, <1>4 DEF Inside
<1>6. \A k \in 0 .. n : cpy[k] = Blit(m, d, d + k - 1, s)
  BY <1>1, <1>2, <1>3, <1>5, CopiedIs
<1> DEFINE stops == {k \in 1 .. n : k = n \/ cpy[k][s + k] = 0}
<1>7. ASSUME NEW k \in 1 .. n, k # n PROVE cpy[k][s + k] # 0
  <2>1. k \in 0 .. n /\ k \in 0 .. l /\ k \in 0 .. l - 1 /\ s + k \notin d .. d + k - 1
    BY <1>2, <1>3, <1>4, <1>7
  <2>2. cpy[k] = [j \in Place |-> IF j \in d .. d + k - 1 THEN m[s + j - d] ELSE m[j]]
    BY <1>6, <2>1 DEF Blit
  <2>3. s + k \in Place /\ m[s + k] # 0
    BY <1>2, <2>1
  <2> QED BY <2>1, <2>2, <2>3
<1>8. stops \in SUBSET Nat /\ n \in stops /\ \A y \in stops : n <= y
  <2>1. \A y \in stops : y = n
    BY <1>7
  <2> QED BY <1>3, <2>1
<1>9. Min(stops) = n
  <2> HIDE DEF stops
  <2> QED BY <1>8, MinIs
<1>10. strncpy(m, d, s, n) = cpy[Min(stops)]
  BY <1>1, <1>3 DEF strncpy
<1> HIDE DEF stops
<1> QED BY <1>1, <1>9, <1>10 DEF memcpy

LEMMA StrcatIs ==
  ASSUME NEW m \in MemT, NEW d \in Place, NEW s \in Place,
         NEW l, l = strlen(m, s), NEW e, e = d + strlen(m, d),
         Inside(e, s, l), Apart(d, s, strlen(m, d) + l + 1)
  PROVE  /\ strcat(m, d, s) = [k \in Place |-> IF k \in e .. e + l - 1 THEN m[s + k - e] ELSE m[k]]
         /\ \A n \in l .. StrSize : strncat(m, d, s, n) = strcat(m, d, s)
<1>1. PICK h : h = strlen(m, d)
  OBVIOUS
<1>2. h \in Nat /\ l \in Nat /\ d \in Nat /\ s \in Nat /\ e \in Nat /\ StrSize \in Nat /\ e = d + h
  <2>1. h \in Nat /\ l \in Nat /\ d \in Nat /\ s \in Nat /\ StrSize \in Nat
    BY <1>1, Length, Places
  <2> QED BY <1>1, <2>1
<1>3. s >= e \/ s + l <= e
  BY <1>1, <1>2 DEF Apart
<1>4. memcpy(m, e, s, l) = Blit(m, e, e + l - 1, s)
  BY <1>2, <1>3, MemcpyIs
<1>5. strcat(m, d, s) = memcpy(m, e, s, l)
  BY DEF strcat
<1>6. ASSUME NEW n \in l .. StrSize PROVE strncat(m, d, s, n) = memcpy(m, e, s, l)
  <2>1. n \in Nat /\ l <= n
    BY <1>2
  <2>2. Min({l, n}) = l
    BY <1>2, <2>1, Min2
  <2> QED BY <2>2 DEF strncat
<1> QED BY <1>4, <1>5, <1>6 DEF Blit

LEMMA CopiesInv == ASSUME strText \in MemT PROVE CopiesRight
<1> DEFINE m == strText
<1>1. m \in MemT
  OBVIOUS
<1> HIDE DEF m
<1> DEFINE A(d, s, n) == memset(m, d, m[s], n) =
                           [k \in Place |-> IF k \in d .. d + n - 1 THEN m[s] ELSE m[k]]
           B(d, s, n) == Inside(d, s, n) =>
             CopiedBut(memmove(m, d, s, n), m, d, s, n, IF d > s THEN d ELSE Null)
           E(d, s) ==
             LET l == strlen(m, s)
             IN  /\ Inside(d, s, l + 1) /\ Apart(d, s, l + 1) =>
                      Str(strcpy(m, d, s), d) = Str(m, s)
                 /\ \A n \in 1 .. l :
                      Inside(d, s, l + 1) /\ Apart(d, s, l + 1) =>
                        strncpy(m, d, s, n) = memcpy(m, d, s, n)
                 /\ LET e == d + strlen(m, d)
                    IN Inside(e, s, l) /\ Apart(d, s, strlen(m, d) + l + 1) =>
                         /\ CopiedBut(strcat(m, d, s), m, e, s, l, e + l)
                         /\ \A n \in l .. StrSize :
                              CopiedBut(strncat(m, d, s, n), m, e, s, l, e + l)
<1>2. ASSUME NEW d \in Place, NEW s \in Place, NEW n \in 0 .. StrSize - d PROVE A(d, s, n)
  <2>1. n \in Nat /\ d + n <= StrSize
    BY Places
  <2> QED BY <1>1, <2>1, MemsetIs
<1>3. ASSUME NEW d \in Place, NEW s \in Place, NEW n \in 0 .. StrSize PROVE B(d, s, n)
  <2>1. n \in Nat
    BY Places
  <2> QED BY <1>1, <2>1, MemmoveCopies
<1>4. ASSUME NEW d \in Place, NEW s \in Place PROVE E(d, s)
  <2>1. PICK l, e : l = strlen(m, s) /\ e = d + strlen(m, d)
    OBVIOUS
  <2>2. Inside(d, s, l + 1) /\ Apart(d, s, l + 1) => Str(strcpy(m, d, s), d) = Str(m, s)
    BY <1>1, <2>1, StrcpyIs
  <2>3. ASSUME NEW n \in 1 .. l, Inside(d, s, l + 1), Apart(d, s, l + 1)
        PROVE  strncpy(m, d, s, n) = memcpy(m, d, s, n)
    BY <1>1, <2>1, <2>3, StrncpyIs
  <2>4. ASSUME Inside(e, s, l), Apart(d, s, strlen(m, d) + l + 1)
        PROVE  /\ CopiedBut(strcat(m, d, s), m, e, s, l, e + l)
               /\ \A n \in l .. StrSize :
                    CopiedBut(strncat(m, d, s, n), m, e, s, l, e + l)
    <3>1. /\ strcat(m, d, s) = [k \in Place |-> IF k \in e .. e + l - 1 THEN m[s + k - e] ELSE m[k]]
          /\ \A n \in l .. StrSize : strncat(m, d, s, n) = strcat(m, d, s)
      BY <1>1, <2>1, <2>4, StrcatIs
    <3>2. CopiedBut(strcat(m, d, s), m, e, s, l, e + l)
      BY <3>1 DEF CopiedBut
    <3> QED BY <3>1, <3>2
  <2> QED BY <2>1, <2>2, <2>3, <2>4
<1>5. \A d, s \in Place :
        /\ \A n \in 0 .. StrSize - d : A(d, s, n)
        /\ \A n \in 0 .. StrSize : B(d, s, n)
        /\ E(d, s)
  <2> HIDE DEF A, B, E
  <2> QED BY <1>2, <1>3, <1>4
<1> QED BY <1>5, ZenonT(60) DEF CopiesRight, m

----------------------------------------------------------------------------
(* strtok *)

\* A character of text t that is none of the delimiters D, and the words.
InWord(t, D, k) == k \in 0 .. strlen(t, 0) - 1 /\ t[k] \notin D
IsWord(t, D, a, b) ==
  a <= b /\ (\A k \in a .. b : InWord(t, D, k)) /\ ~InWord(t, D, a - 1) /\ ~InWord(t, D, b + 1)

\* Where a call that starts at p finds the beginning of a word and its end.
StartFrom(m, D, p) == Min({k \in p .. StrSize - 1 : m[k] \notin D})
EndFrom(m, D, p) == Min({k \in p .. StrSize - 1 : m[k] = 0 \/ m[k] \in D})

\* The rest of the text is as it was, and begins with a word or none.
RestAt(t, D, m, pos) ==
  /\ pos \in 0 .. strlen(t, 0)
  /\ \A k \in Place : k >= pos => m[k] = t[k]
  /\ pos = strlen(t, 0) \/ ~InWord(t, D, pos - 1)

\* The words in front of it were found.
FoundTo(t, D, found, pos) ==
  /\ \A a, b \in Place : (\E i \in 1 .. Len(found) : found[i] = <<a, b>>) <=> IsWord(t, D, a, b) /\ a < pos
  /\ \A i \in 1 .. Len(found) : found[i][2] < pos
  /\ \A i \in 1 .. Len(found) : i > 1 => found[i - 1][2] < found[i][1]

LEMMA TextEnd ==
  ASSUME NEW t \in MemT
  PROVE  /\ strlen(t, 0) \in Nat /\ strlen(t, 0) \in Place /\ t[strlen(t, 0)] = 0
         /\ \A k \in 0 .. strlen(t, 0) - 1 : t[k] # 0 /\ k \in Place
<1>1. PICK e : e = strlen(t, 0)
  OBVIOUS
<1>2. /\ e \in Nat /\ 0 + e \in Place /\ t[0 + e] = 0
      /\ \A j \in 0 .. 0 + e - 1 : j \in Place /\ t[j] # 0
  BY <1>1, Length, Places
<1>3. 0 + e = e
  BY <1>2
<1> QED BY <1>1, <1>2, <1>3

LEMMA NoDelimiter == ASSUME NEW D \in Delims PROVE 0 \notin D
  BY StrAssumption

\* A call skips delimiters only.
LEMMA StartIs ==
  ASSUME NEW t \in MemT, NEW m \in MemT, NEW D \in Delims, NEW p \in Nat, RestAt(t, D, m, p)
  PROVE  LET s == StartFrom(m, D, p)
             e == strlen(t, 0)
         IN  /\ s \in p .. e /\ s \in Place /\ m[s] = t[s] /\ t[s] \notin D
             /\ \A k \in p .. s - 1 : ~InWord(t, D, k)
             /\ t[s] = 0 <=> s = e
<1>1. PICK e : e = strlen(t, 0)
  OBVIOUS
<1>2. e \in Nat /\ e \in Place /\ t[e] = 0 /\ \A k \in 0 .. e - 1 : t[k] # 0 /\ k \in Place
  BY <1>1, TextEnd
<1>3. p <= e /\ \A k \in Place : k >= p => m[k] = t[k]
  BY <1>1, <1>2 DEF RestAt
<1> DEFINE S == {k \in p .. StrSize - 1 : m[k] \notin D}
<1>4. S \in SUBSET Nat /\ e \in S
  <2>1. m[e] = 0 /\ e <= StrSize - 1 /\ StrSize \in Nat
    BY <1>2, <1>3, Places
  <2>2. m[e] \notin D
    BY <2>1, NoDelimiter
  <2>3. e \in p .. StrSize - 1
    BY <1>2, <1>3, <2>1
  <2> QED BY <2>2, <2>3
<1>5. PICK s : s = StartFrom(m, D, p)
  OBVIOUS
<1>6. s \in S /\ \A y \in S : s <= y
  <2>1. s = Min(S)
    BY <1>5 DEF StartFrom
  <2> HIDE DEF S
  <2> QED BY <1>4, <2>1, LeastOf
<1>7. s \in p .. StrSize - 1 /\ m[s] \notin D /\ s <= e /\ s \in Nat
  BY <1>4, <1>6
<1>8. s \in p .. e /\ s \in Place
  BY <1>2, <1>7, Places
<1>9. m[s] = t[s] /\ t[s] \notin D
  BY <1>3, <1>7, <1>8
<1>10. ASSUME NEW k \in p .. s - 1 PROVE ~InWord(t, D, k)
  <2>1. k \in p .. StrSize - 1 /\ ~(s <= k) /\ k \in Place /\ k >= p
    BY <1>7, <1>8, Places
  <2>2. m[k] \in D
    BY <1>6, <2>1
  <2>3. t[k] \in D
    BY <1>3, <2>1, <2>2
  <2> QED BY <2>3 DEF InWord
<1>11. t[s] = 0 <=> s = e
  <2>1. s # e => s \in 0 .. e - 1
    BY <1>2, <1>7
  <2> QED BY <1>2, <2>1
<1> QED BY <1>1, <1>5, <1>8, <1>9, <1>10, <1>11

\* And goes to the end of the word.
LEMMA EndIs ==
  ASSUME NEW t \in MemT, NEW m \in MemT, NEW D \in Delims, NEW s \in Place, s < strlen(t, 0),
         t[s] \notin D, \A k \in Place : k >= s => m[k] = t[k]
  PROVE  LET x == EndFrom(m, D, s)
             e == strlen(t, 0)
         IN  /\ x \in s + 1 .. e /\ x \in Place /\ m[x] = t[x]
             /\ \A k \in s .. x - 1 : InWord(t, D, k)
             /\ ~InWord(t, D, x)
             /\ t[x] = 0 <=> x = e
<1>1. PICK e : e = strlen(t, 0)
  OBVIOUS
<1>2. e \in Nat /\ e \in Place /\ t[e] = 0 /\ \A k \in 0 .. e - 1 : t[k] # 0 /\ k \in Place
  BY <1>1, TextEnd
<1>3. s \in Nat /\ s < e /\ s \in 0 .. e - 1
  BY <1>1, <1>2, Places
<1> DEFINE S == {k \in s .. StrSize - 1 : m[k] = 0 \/ m[k] \in D}
<1>4. S \in SUBSET Nat /\ e \in S
  <2>1. m[e] = 0 /\ e <= StrSize - 1 /\ StrSize \in Nat
    BY <1>2, <1>3, Places
  <2>2. e \in s .. StrSize - 1
    BY <1>2, <1>3, <2>1
  <2> QED BY <1>3, <2>1, <2>2
<1>5. PICK x : x = EndFrom(m, D, s)
  OBVIOUS
<1>6. x \in S /\ \A y \in S : x <= y
  <2>1. x = Min(S)
    BY <1>5 DEF EndFrom
  <2> HIDE DEF S
  <2> QED BY <1>4, <2>1, LeastOf
<1>7. x \in s .. StrSize - 1 /\ (m[x] = 0 \/ m[x] \in D) /\ x <= e /\ x \in Nat /\ x \in Place /\ x >= s
  <2>1. x \in s .. StrSize - 1 /\ (m[x] = 0 \/ m[x] \in D) /\ x <= e /\ x \in Nat
    BY <1>4, <1>6
  <2> QED BY <1>3, <2>1, Places
<1>8. m[x] = t[x]
  BY <1>7
<1>9. x # s
  <2>1. t[s] # 0
    BY <1>2, <1>3
  <2> QED BY <1>7, <1>8, <2>1
<1>10. x \in s + 1 .. e
  BY <1>3, <1>7, <1>9
<1>11. ASSUME NEW k \in s .. x - 1 PROVE InWord(t, D, k)
  <2>1. k \in s .. StrSize - 1 /\ ~(x <= k) /\ k \in 0 .. e - 1 /\ k >= s
    BY <1>2, <1>3, <1>7, <1>10, Places
  <2>2. k \in Place
    BY <1>2, <2>1
  <2>3. m[k] \notin D
    BY <1>6, <2>1
  <2> QED BY <1>1, <2>1, <2>2, <2>3 DEF InWord
<1>12. t[x] = 0 <=> x = e
  <2>1. x # e => x \in 0 .. e - 1
    BY <1>2, <1>7
  <2> QED BY <1>2, <2>1
<1>13. ~InWord(t, D, x)
  <2>1. x = e => x \notin 0 .. e - 1
    BY <1>2
  <2> QED BY <1>1, <1>7, <1>8, <1>12, <2>1 DEF InWord
<1> QED BY <1>1, <1>5, <1>7, <1>8, <1>10, <1>11, <1>12, <1>13

\* With the last word found, every word is.
LEMMA NoWordLeft ==
  ASSUME NEW t \in MemT, NEW D \in Delims, NEW p \in Nat, NEW found, FoundTo(t, D, found, p),
         \A k \in p .. strlen(t, 0) - 1 : ~InWord(t, D, k)
  PROVE  \A a, b \in Place : (\E i \in 1 .. Len(found) : found[i] = <<a, b>>) <=> IsWord(t, D, a, b)
<1> SUFFICES ASSUME NEW a \in Place, NEW b \in Place, IsWord(t, D, a, b) PROVE a < p
  BY DEF FoundTo
<1>1. PICK e \in Nat : e = strlen(t, 0)
  BY TextEnd
<1>2. a \in Nat /\ b \in Nat /\ a <= b
  BY Places DEF IsWord
<1>3. a \in a .. b
  BY <1>2
<1>4. InWord(t, D, a)
  BY <1>3 DEF IsWord
<1>5. a \in 0 .. e - 1
  BY <1>1, <1>4 DEF InWord
<1>6. ~(a >= p)
  <2>1. a >= p => a \in p .. e - 1
    BY <1>5
  <2> QED BY <1>1, <1>4, <2>1
<1> QED BY <1>2, <1>6

\* The text from p on begins with delimiters up to the word from s to x - 1.
WordAhead(t, D, p, s, x) ==
  /\ s \in p .. strlen(t, 0) /\ s < strlen(t, 0) /\ x \in s + 1 .. strlen(t, 0)
  /\ \A k \in p .. s - 1 : ~InWord(t, D, k)
  /\ \A k \in s .. x - 1 : InWord(t, D, k)
  /\ ~InWord(t, D, x)

\* The word a call returns is the next one.
LEMMA NextWord ==
  ASSUME NEW t \in MemT, NEW D \in Delims, NEW p \in Nat, p = strlen(t, 0) \/ ~InWord(t, D, p - 1),
         NEW s, NEW x, WordAhead(t, D, p, s, x), NEW y, y \in x .. x + 1
  PROVE  \A a, b \in Place : IsWord(t, D, a, b) /\ a < y <=>
           \/ IsWord(t, D, a, b) /\ a < p
           \/ a = s /\ b = x - 1
<1>1. PICK e \in Nat : e = strlen(t, 0)
  BY TextEnd
<1>0. /\ s \in p .. e /\ s < e /\ x \in s + 1 .. e
      /\ (\A k \in p .. s - 1 : ~InWord(t, D, k)) /\ (\A k \in s .. x - 1 : InWord(t, D, k))
      /\ ~InWord(t, D, x) /\ (p = e \/ ~InWord(t, D, p - 1))
  BY <1>1 DEF WordAhead
<1>2. s \in Nat /\ x \in Nat /\ y \in Nat /\ p <= s /\ s < x /\ x <= y /\ y <= x + 1 /\ s < e /\ x <= e
  BY <1>0, <1>1
<1>3. IsWord(t, D, s, x - 1)
  <2>1. s <= x - 1 /\ x - 1 + 1 = x
    BY <1>2
  <2>2. ~InWord(t, D, s - 1)
    <3>1. CASE s = p
      BY <1>0, <1>2, <3>1
    <3>2. CASE s # p
      <4>1. s - 1 \in p .. s - 1
        BY <1>2, <3>2
      <4> QED BY <1>0, <4>1
    <3> QED BY <3>1, <3>2
  <2> QED BY <1>0, <2>1, <2>2 DEF IsWord
<1>4. s < y
  BY <1>2
<1>5. ASSUME NEW a \in Place, NEW b \in Place, IsWord(t, D, a, b), a < y, ~(a < p)
      PROVE  a = s /\ b = x - 1
  <2>1. a \in Nat /\ b \in Nat /\ a <= b
    BY <1>5, Places DEF IsWord
  <2>2. InWord(t, D, a) /\ ~InWord(t, D, a - 1) /\ ~InWord(t, D, b + 1)
    <3>1. a \in a .. b
      BY <2>1
    <3> QED BY <1>5, <3>1 DEF IsWord
  <2>3. ~(a < s)
    <3>1. a < s => a \in p .. s - 1
      BY <1>2, <1>5, <2>1
    <3> QED BY <1>0, <2>2, <3>1
  <2>4. a # x
    BY <1>0, <2>2
  <2>5. a <= x - 1
    BY <1>2, <1>5, <2>1, <2>4
  <2>6. a = s
    <3>1. a # s => a - 1 \in s .. x - 1
      BY <1>2, <2>1, <2>3, <2>5
    <3> QED BY <1>0, <2>2, <3>1
  <2>7. ~(b >= x)
    <3>1. b >= x => x \in a .. b
      BY <1>2, <2>1, <2>5
    <3> QED BY <1>0, <1>5, <3>1 DEF IsWord
  <2>8. ~(b < x - 1)
    <3>1. b < x - 1 => b + 1 \in s .. x - 1
      BY <1>2, <2>1, <2>6
    <3> QED BY <1>0, <2>2, <3>1
  <2> QED BY <1>2, <2>1, <2>6, <2>7, <2>8
<1>6. \A a \in Place : a < p => a < y
  BY <1>2, Places
<1> QED BY <1>3, <1>4, <1>5, <1>6

\* A call at p that finds the word from s to x - 1, and what it leaves: the
\* memory o, the next call at y and the results more.
Finds(t, D, m, found, p, s, x) ==
  /\ t \in MemT /\ m \in MemT /\ D \in Delims /\ found \in Seq(Place \X Place) /\ p \in Nat
  /\ RestAt(t, D, m, p) /\ FoundTo(t, D, found, p)
  /\ s = StartFrom(m, D, p) /\ x = EndFrom(m, D, s) /\ m[s] # 0
Gives(m, found, s, x, y, o, more) ==
  /\ y = (IF m[x] = 0 THEN x ELSE x + 1) /\ o = [m EXCEPT ![x] = 0]
  /\ more = Append(found, <<s, x - 1>>)

\* A call that finds a word leaves the memory and the results so that the next
\* call finds the one after it.
LEMMA TokenStep ==
  ASSUME NEW t, NEW D, NEW m, NEW found, NEW p, NEW s, NEW x, Finds(t, D, m, found, p, s, x),
         NEW y, NEW o, NEW more, Gives(m, found, s, x, y, o, more)
  PROVE  /\ y \in Nat /\ o \in MemT /\ more \in Seq(Place \X Place)
         /\ RestAt(t, D, o, y) /\ FoundTo(t, D, more, y)
<1>0. /\ t \in MemT /\ m \in MemT /\ D \in Delims /\ found \in Seq(Place \X Place) /\ p \in Nat
      /\ RestAt(t, D, m, p) /\ FoundTo(t, D, found, p)
      /\ s = StartFrom(m, D, p) /\ x = EndFrom(m, D, s) /\ m[s] # 0
  BY DEF Finds
<1>8. /\ y = (IF m[x] = 0 THEN x ELSE x + 1) /\ o = [m EXCEPT ![x] = 0]
      /\ more = Append(found, <<s, x - 1>>)
  BY DEF Gives
<1>1. PICK e : e = strlen(t, 0)
  OBVIOUS
<1>2. e \in Nat /\ e \in Place /\ t[e] = 0
  BY <1>0, <1>1, TextEnd
<1>3. /\ s \in p .. e /\ s \in Place /\ m[s] = t[s] /\ t[s] \notin D
      /\ (\A k \in p .. s - 1 : ~InWord(t, D, k)) /\ (t[s] = 0 <=> s = e)
  BY <1>0, <1>1, StartIs
<1>4. s \in Nat /\ s < e /\ p <= s
  BY <1>0, <1>2, <1>3
<1>5. \A k \in Place : k >= s => m[k] = t[k]
  <2>1. \A k \in Place : k >= s => k >= p
    BY <1>0, <1>4, Places
  <2> QED BY <1>0, <2>1 DEF RestAt
<1>6. /\ x \in s + 1 .. e /\ x \in Place /\ m[x] = t[x] /\ (\A k \in s .. x - 1 : InWord(t, D, k))
      /\ ~InWord(t, D, x) /\ (t[x] = 0 <=> x = e)
  BY <1>0, <1>1, <1>3, <1>4, <1>5, EndIs
<1>7. x \in Nat /\ s < x /\ x <= e
  BY <1>2, <1>4, <1>6
<1>9. y \in Nat /\ y \in x .. x + 1 /\ y \in 0 .. e /\ (m[x] # 0 => y = x + 1) /\ (m[x] = 0 => y = e)
  BY <1>2, <1>6, <1>7, <1>8
<1>11. o \in MemT /\ o[x] = 0 /\ \A k \in Place : k # x => o[k] = m[k]
  <2>1. m \in [Place -> Byte] /\ m[StrSize - 1] = 0 /\ 0 \in Byte /\ StrSize - 1 \in Place
    BY <1>0, Bytes, Places DEF Byte
  <2>2. o \in [Place -> Byte] /\ o[x] = 0 /\ \A k \in Place : k # x => o[k] = m[k]
    BY <1>6, <1>8, <2>1
  <2>3. o[StrSize - 1] = 0
    BY <2>1, <2>2
  <2> QED BY <2>2, <2>3 DEF MemT
<1>12. RestAt(t, D, o, y)
  <2>1. ASSUME NEW k \in Place, k >= y PROVE o[k] = t[k]
    <3>1. k \in Nat
      BY Places
    <3>2. k >= s
      BY <1>4, <1>7, <1>9, <2>1, <3>1
    <3>3. CASE k = x
      <4>1. m[x] = 0
        BY <1>7, <1>9, <2>1, <3>3
      <4> QED BY <1>6, <1>11, <3>3, <4>1
    <3>4. CASE k # x
      BY <1>5, <1>11, <3>2, <3>4
    <3> QED BY <3>3, <3>4
  <2>2. y = e \/ ~InWord(t, D, y - 1)
    <3>1. x + 1 - 1 = x
      BY <1>7
    <3> QED BY <1>6, <1>9, <3>1
  <2> QED BY <1>1, <1>9, <2>1, <2>2 DEF RestAt
<1>14. PICK n \in Nat : n = Len(found)
  BY <1>0
<1>15. x - 1 \in Place /\ x - 1 \in Nat
  <2>1. x - 1 \in Nat /\ x <= StrSize - 1 /\ StrSize \in Nat
    BY <1>4, <1>6, <1>7, Places
  <2>2. x - 1 < StrSize
    BY <1>7, <2>1
  <2> QED BY <2>1, <2>2, Places
<1>16. /\ more \in Seq(Place \X Place) /\ Len(more) = n + 1
       /\ (\A i \in 1 .. n : more[i] = found[i]) /\ more[n + 1] = <<s, x - 1>>
  <2>1. <<s, x - 1>> \in Place \X Place
    BY <1>3, <1>15
  <2> QED BY <1>0, <1>8, <1>14, <2>1, AppendProperties
<1>17. \A i \in 1 .. n + 1 : i = n + 1 \/ i \in 1 .. n
  OBVIOUS
<1>18. ASSUME NEW a \in Place, NEW b \in Place
       PROVE  (\E i \in 1 .. Len(more) : more[i] = <<a, b>>) <=> IsWord(t, D, a, b) /\ a < y
  <2>1. (\E i \in 1 .. Len(more) : more[i] = <<a, b>>) <=>
          (\E i \in 1 .. n : found[i] = <<a, b>>) \/ (a = s /\ b = x - 1)
    <3>1. more[n + 1] = <<a, b>> <=> a = s /\ b = x - 1
      BY <1>16
    <3>2. n + 1 \in 1 .. n + 1 /\ \A i \in 1 .. n : i \in 1 .. n + 1
      OBVIOUS
    <3> QED BY <1>16, <1>17, <3>1, <3>2
  <2>2. (\E i \in 1 .. n : found[i] = <<a, b>>) <=> IsWord(t, D, a, b) /\ a < p
    BY <1>0, <1>14 DEF FoundTo
  <2>3. IsWord(t, D, a, b) /\ a < y <=> (IsWord(t, D, a, b) /\ a < p) \/ (a = s /\ b = x - 1)
    <3>1. WordAhead(t, D, p, s, x)
      BY <1>1, <1>3, <1>4, <1>6 DEF WordAhead
    <3>2. y \in x .. x + 1 /\ (p = strlen(t, 0) \/ ~InWord(t, D, p - 1))
      BY <1>0, <1>9 DEF RestAt
    <3> QED BY <1>0, <3>1, <3>2, NextWord
  <2> QED BY <2>1, <2>2, <2>3
<1>19. ASSUME NEW i \in 1 .. n PROVE found[i][1] \in Nat /\ found[i][2] \in Nat /\ found[i][2] < p
  <2>1. found[i] \in Place \X Place
    BY <1>0, <1>14
  <2>2. found[i][2] < p
    BY <1>0, <1>14 DEF FoundTo
  <2> QED BY <2>1, <2>2, Places
<1>20. \A i \in 1 .. Len(more) : more[i][2] < y
  <2>1. ASSUME NEW i \in 1 .. n PROVE found[i][2] < y
    BY <1>0, <1>4, <1>7, <1>9, <1>19
  <2>2. more[n + 1][2] < y
    BY <1>7, <1>9, <1>16
  <2> QED BY <1>16, <1>17, <2>1, <2>2
<1>21. \A i \in 1 .. Len(more) : i > 1 => more[i - 1][2] < more[i][1]
  <2> SUFFICES ASSUME NEW i \in 1 .. n + 1, i > 1 PROVE more[i - 1][2] < more[i][1]
    BY <1>16
  <2>1. i - 1 \in 1 .. n /\ more[i - 1] = found[i - 1]
    BY <1>16
  <2>2. CASE i = n + 1
    <3>1. more[i][1] = s
      BY <1>16, <2>2
    <3>2. found[i - 1][2] < p /\ found[i - 1][2] \in Nat
      BY <1>19, <2>1
    <3>3. PICK g \in Nat : g = found[i - 1][2] /\ g < p
      BY <3>2
    <3>4. g < s
      BY <1>0, <1>4, <3>3
    <3> QED BY <2>1, <3>1, <3>3, <3>4
  <2>3. CASE i # n + 1
    <3>1. i \in 1 .. n /\ more[i] = found[i]
      BY <1>16, <1>17, <2>3
    <3>2. found[i - 1][2] < found[i][1]
      BY <1>0, <1>14, <3>1 DEF FoundTo
    <3> QED BY <2>1, <3>1, <3>2
  <2> QED BY <2>2, <2>3
<1>22. FoundTo(t, D, more, y)
  BY <1>18, <1>20, <1>21 DEF FoundTo
<1> QED BY <1>9, <1>11, <1>12, <1>16, <1>22

----------------------------------------------------------------------------
(* strtok: the inductive invariant *)

StrTypeOK ==
  /\ strText \in MemT /\ strMem \in MemT /\ strDelims \in Delims
  /\ strFound \in Seq(Place \X Place) /\ strPhase \in {"new", "running", "ended"}

\* Between the calls the rest of the text is as it was; the words in front of it were found.
Resumes(pos) ==
  pos \in Nat /\ RestAt(strText, strDelims, strMem, pos) /\ FoundTo(strText, strDelims, strFound, pos)

AllFound ==
  /\ \A a, b \in Place : (\E i \in 1 .. Len(strFound) : strFound[i] = <<a, b>>)
                         <=> IsWord(strText, strDelims, a, b)
  /\ \A i \in 1 .. Len(strFound) : i > 1 => strFound[i - 1][2] < strFound[i][1]

StrIInv ==
  /\ StrTypeOK
  /\ strPhase = "new" => Resumes(0)
  /\ strPhase = "running" => Resumes(strLast)
  /\ strPhase = "ended" => AllFound

LEMMA StrInitInv == StrInit => StrIInv
<1> SUFFICES ASSUME StrInit PROVE StrIInv
  OBVIOUS
<1>1. StrTypeOK
  BY DEF StrInit, StrTypeOK, MemT, Byte
<1>2. strPhase = "new" /\ strMem = strText /\ strFound = <<>>
  BY DEF StrInit
<1>3. strlen(strText, 0) \in Nat
  BY <1>1, TextEnd DEF StrTypeOK
<1>4. RestAt(strText, strDelims, strMem, 0)
  <2>1. 0 - 1 \notin 0 .. strlen(strText, 0) - 1
    OBVIOUS
  <2> QED BY <1>2, <1>3, <2>1 DEF RestAt, InWord
<1>5. FoundTo(strText, strDelims, strFound, 0)
  <2>1. 1 .. Len(strFound) = {}
    BY <1>2
  <2>2. \A a \in Place : ~(a < 0)
    BY Places
  <2> QED BY <2>1, <2>2 DEF FoundTo
<1> QED BY <1>1, <1>2, <1>4, <1>5 DEF StrIInv, Resumes

LEMMA StrtokInv ==
  ASSUME StrTypeOK, NEW p, Resumes(p), strtok(p), UNCHANGED <<strText, strDelims>>
  PROVE  StrIInv'
<1>1. PICK s, x : s = StartFrom(strMem, strDelims, p) /\ x = EndFrom(strMem, strDelims, s)
  OBVIOUS
<1>2. TokenStart(p) = s /\ TokenEnd(s) = x
  BY <1>1 DEF TokenStart, TokenEnd, IsDelim, StartFrom, EndFrom
<1>3. /\ strText \in MemT /\ strMem \in MemT /\ strDelims \in Delims /\ p \in Nat
      /\ strFound \in Seq(Place \X Place)
      /\ RestAt(strText, strDelims, strMem, p) /\ FoundTo(strText, strDelims, strFound, p)
  BY DEF StrTypeOK, Resumes
<1>4. CASE /\ strMem[s] = 0 /\ strLast' = Null /\ strPhase' = "ended"
           /\ UNCHANGED <<strMem, strFound>>
  <2>1. StrTypeOK'
    BY <1>4 DEF StrTypeOK
  <2>2. \A k \in p .. strlen(strText, 0) - 1 : ~InWord(strText, strDelims, k)
    <3>1. PICK e : e = strlen(strText, 0)
      OBVIOUS
    <3>2. /\ strMem[s] = strText[s] /\ (\A k \in p .. s - 1 : ~InWord(strText, strDelims, k))
          /\ (strText[s] = 0 <=> s = e)
      BY <1>1, <1>3, <3>1, StartIs
    <3> QED BY <1>4, <3>1, <3>2
  <2>3. \A a, b \in Place : (\E i \in 1 .. Len(strFound) : strFound[i] = <<a, b>>)
                            <=> IsWord(strText, strDelims, a, b)
    BY <1>3, <2>2, NoWordLeft
  <2>4. \A i \in 1 .. Len(strFound) : i > 1 => strFound[i - 1][2] < strFound[i][1]
    BY <1>3 DEF FoundTo
  <2>5. AllFound
    BY <2>3, <2>4 DEF AllFound
  <2>6. AllFound'
    BY <1>4, <2>5 DEF AllFound
  <2> QED BY <1>4, <2>1, <2>6 DEF StrIInv
<1>5. CASE /\ strMem[s] # 0
           /\ strMem' = [strMem EXCEPT ![x] = 0]
           /\ strLast' = IF strMem[x] = 0 THEN x ELSE x + 1
           /\ strFound' = Append(strFound, <<s, x - 1>>)
           /\ strPhase' = "running"
  <2>1. /\ strLast' \in Nat /\ strMem' \in MemT /\ strFound' \in Seq(Place \X Place)
        /\ RestAt(strText, strDelims, strMem', strLast') /\ FoundTo(strText, strDelims, strFound', strLast')
    <3>1. PICK t, m, D, found : t = strText /\ m = strMem /\ D = strDelims /\ found = strFound
      OBVIOUS
    <3>2. Finds(t, D, m, found, p, s, x)
      BY <1>1, <1>3, <1>5, <3>1 DEF Finds
    <3>3. PICK y, o, more : Gives(m, found, s, x, y, o, more)
      BY DEF Gives
    <3>4. /\ y \in Nat /\ o \in MemT /\ more \in Seq(Place \X Place)
          /\ RestAt(t, D, o, y) /\ FoundTo(t, D, more, y)
      BY <3>2, <3>3, TokenStep
    <3>5. strLast' = y /\ strMem' = o /\ strFound' = more
      BY <1>5, <3>1, <3>3 DEF Gives
    <3> QED BY <3>1, <3>4, <3>5
  <2>2. StrTypeOK'
    BY <1>5, <2>1 DEF StrTypeOK
  <2>3. Resumes(strLast)'
    BY <2>1 DEF Resumes
  <2> QED BY <1>5, <2>2, <2>3 DEF StrIInv
<1> QED BY <1>2, <1>4, <1>5 DEF strtok

LEMMA StrNextInv == StrIInv /\ [StrNext]_strVars => StrIInv'
<1> SUFFICES ASSUME StrIInv, [StrNext]_strVars PROVE StrIInv'
  OBVIOUS
<1>1. StrTypeOK /\ (strPhase = "new" => Resumes(0)) /\ (strPhase = "running" => Resumes(strLast))
  BY DEF StrIInv
<1>2. CASE strPhase = "new" /\ strtok(0) /\ UNCHANGED <<strText, strDelims>>
  BY <1>1, <1>2, StrtokInv
<1>3. CASE strPhase = "running" /\ strtok(strLast) /\ UNCHANGED <<strText, strDelims>>
  BY <1>1, <1>3, StrtokInv
<1>4. CASE UNCHANGED strVars
  BY <1>4 DEF strVars, StrIInv, StrTypeOK, Resumes, AllFound
<1> QED BY <1>2, <1>3, <1>4 DEF StrNext

LEMMA TokensInv == StrIInv => TokensSplit
<1> SUFFICES ASSUME StrIInv, strPhase = "ended" PROVE TokensSplit
  BY DEF TokensSplit
<1>1. StrTypeOK /\ AllFound
  BY DEF StrIInv
<1> DEFINE In(k) == k \in 0 .. strlen(strText, 0) - 1 /\ ~IsDelim(strText[k])
           Runs == {r \in Place \X Place :
                      /\ r[1] <= r[2] /\ \A k \in r[1] .. r[2] : In(k)
                      /\ ~In(r[1] - 1) /\ ~In(r[2] + 1)}
<1>2. \A k : In(k) <=> InWord(strText, strDelims, k)
  BY DEF InWord, IsDelim
<1> HIDE DEF In
<1>3. \A r \in Place \X Place : r \in Runs <=> IsWord(strText, strDelims, r[1], r[2])
  BY <1>2 DEF IsWord
<1>4. PICK n \in Nat : n = Len(strFound) /\ DOMAIN strFound = 1 .. n
  BY <1>1 DEF StrTypeOK
<1>5. \A i \in 1 .. n : strFound[i] \in Place \X Place
  BY <1>1, <1>4 DEF StrTypeOK
<1>6. {strFound[i] : i \in DOMAIN strFound} = Runs
  <2>1. Runs \subseteq Place \X Place
    OBVIOUS
  <2> HIDE DEF Runs
  <2>2. ASSUME NEW r \in Place \X Place
        PROVE  (\E i \in 1 .. n : strFound[i] = r) <=> r \in Runs
    <3>1. PICK a \in Place, b \in Place : r = <<a, b>>
      OBVIOUS
    <3>2. (\E i \in 1 .. n : strFound[i] = <<a, b>>) <=> IsWord(strText, strDelims, a, b)
      BY <1>1, <1>4 DEF AllFound
    <3>3. r[1] = a /\ r[2] = b
      BY <3>1
    <3> QED BY <1>3, <3>1, <3>2, <3>3
  <2> QED BY <1>4, <1>5, <2>1, <2>2
<1>7. \A i \in DOMAIN strFound : i > 1 => strFound[i - 1][2] < strFound[i][1]
  BY <1>1, <1>4 DEF AllFound
<1> QED BY <1>6, <1>7 DEF TokensSplit, In

LEMMA StrIInvAlways == StrSpec => []StrIInv
<1>1. StrInit => StrIInv
  BY StrInitInv
<1>2. StrIInv /\ [StrNext]_strVars => StrIInv'
  BY StrNextInv
<1> QED BY <1>1, <1>2, PTL DEF StrSpec

\* TokensSplit: the calls of strtok on any text with any delimiters return the
\* runs of other characters, all of them, each once and in order, though each
\* call writes into the text and leaves only a static pointer to the next.
THEOREM TokensFound == StrSpec => []TokensSplit
  BY StrIInvAlways, TokensInv, PTL

\* LooksRight: over memories of any size and content the loops of string.c that
\* look and compare compute what is said of them, wherever the strings lie.
THEOREM LooksAreRight == StrSpec => []LooksRight
<1>1. StrIInv => LooksRight
  BY LooksInv DEF StrIInv, StrTypeOK
<1> QED BY <1>1, StrIInvAlways, PTL

\* CopiesRight: and those that set and copy write what is said of them, and
\* nothing else.
THEOREM CopiesAreRight == StrSpec => []CopiesRight
<1>1. StrIInv => CopiesRight
  BY CopiesInv DEF StrIInv, StrTypeOK
<1> QED BY <1>1, StrIInvAlways, PTL

=============================================================================
