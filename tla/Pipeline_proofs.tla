-------------------------- MODULE Pipeline_proofs --------------------------
(***************************************************************************)
(* Pipelines: what goes through a pipe, and how the shell sets them up.    *)
(*                                                                         *)
(* A pipe keeps count of its bytes, and the bytes below the last of its    *)
(* first block come out in order, whatever the size of a block and         *)
(* whatever is written behind them.  The limit is tight: from that byte on *)
(* BytesInOrder is violated.                                               *)
(*                                                                         *)
(* The shell wires the commands of a line as the line says and leaves      *)
(* nothing of it behind, for every set of lines it understands, any number *)
(* of commands and descriptors, and every order of the steps of the shell  *)
(* and of the processes it has forked.                                     *)
(***************************************************************************)
EXTENDS PipeData, Rash, FiniteSetTheorems, SequenceTheorems, NaturalsInduction,
        WellFoundedInduction, TLAPS

----------------------------------------------------------------------------
(* Loops *)

\* The least of a set of numbers.
LEMMA LeastOf ==
  ASSUME NEW S \in SUBSET Nat, S # {}
  PROVE  /\ Min(S) \in S
         /\ \A y \in S : Min(S) <= y
<1> DEFINE L == {r \in Nat \X Nat : r[1] < r[2]}
<1>1. IsWellFoundedOn(L, Nat)
  BY NatLessThanWellFounded DEF OpToRel
<1> HIDE DEF L
<1>2. PICK x \in S : \A y \in S : <<y, x>> \notin L
  BY <1>1, WFMin
<1>3. ASSUME NEW y \in S, y < x PROVE FALSE
  BY <1>2, <1>3 DEF L
<1>4. \A y \in S : x <= y
  BY <1>3
<1> QED BY <1>4 DEF Min

\* What one turn of a loop keeps, the loop keeps.
LEMMA TurnsKeep ==
  ASSUME NEW n \in Nat, NEW f, NEW S, f[0] \in S,
         \A i \in 1 .. n : f[i - 1] \in S => f[i] \in S
  PROVE  f[n] \in S
<1> DEFINE B == {i \in 0 .. n : f[i] \notin S}
<1>1. SUFFICES ASSUME B # {} PROVE FALSE
  <2>1. B = {} => f[n] \in S
    OBVIOUS
  <2> QED BY <2>1
<1>2. B \in SUBSET Nat
  OBVIOUS
<1>3. PICK k : k = Min(B)
  OBVIOUS
<1>4. k \in B /\ \A y \in B : k <= y
  <2> HIDE DEF B
  <2> QED BY <1>1, <1>2, <1>3, LeastOf
<1>5. k \in 1 .. n /\ k - 1 \in 0 .. n /\ ~(k <= k - 1) /\ f[k] \notin S
  BY <1>4
<1>6. f[k - 1] \in S
  BY <1>4, <1>5
<1> QED BY <1>5, <1>6

\* A loop can be run: there is a function of the turns that starts with b and
\* takes step g in turn i.
Runs(f, S, m, b, g) ==
  f \in [0 .. m -> S] /\ f[0] = b /\ \A i \in 1 .. m : f[i] = g[<<f[i - 1], i>>]

\* So every loop of the shell has a run.
LEMMA LoopRuns ==
  ASSUME NEW S, NEW n \in Nat, NEW b \in S, NEW g \in [S \X (1 .. n) -> S]
  PROVE  \E f : Runs(f, S, n, b, g)
<1> DEFINE B == {m \in 0 .. n : ~\E f : Runs(f, S, m, b, g)}
<1>1. SUFFICES ASSUME B # {} PROVE FALSE
  OBVIOUS
<1>2. B \in SUBSET Nat
  OBVIOUS
<1>3. PICK k : k = Min(B)
  OBVIOUS
<1>4. k \in B /\ \A y \in B : k <= y
  <2> HIDE DEF B
  <2> QED BY <1>1, <1>2, <1>3, LeastOf
<1>5. k # 0
  <2>1. Runs([i \in 0 .. 0 |-> b], S, 0, b, g)
    BY DEF Runs
  <2> QED BY <1>4, <2>1
<1>6. k \in 1 .. n /\ k - 1 \in 0 .. n /\ ~(k <= k - 1)
  BY <1>4, <1>5
<1>7. PICK f : Runs(f, S, k - 1, b, g)
  BY <1>4, <1>6
<1> DEFINE h == [i \in 0 .. k |-> IF i = k THEN g[<<f[k - 1], k>>] ELSE f[i]]
<1>8. f \in [0 .. k - 1 -> S] /\ f[0] = b /\ \A i \in 1 .. k - 1 : f[i] = g[<<f[i - 1], i>>]
  BY <1>7 DEF Runs
<1>9. g[<<f[k - 1], k>>] \in S
  <2>1. k - 1 \in 0 .. k - 1
    BY <1>6
  <2>2. f[k - 1] \in S
    BY <1>8, <2>1
  <2>3. <<f[k - 1], k>> \in S \X (1 .. n)
    BY <1>6, <2>2
  <2> QED BY <2>3
<1>10. h \in [0 .. k -> S] /\ h[0] = b
  <2>1. \A i \in 0 .. k : i = k \/ i \in 0 .. k - 1
    BY <1>6
  <2>2. \A i \in 0 .. k : h[i] \in S
    BY <2>1, <1>8, <1>9
  <2>3. 0 \in 0 .. k /\ 0 # k
    BY <1>6
  <2> QED BY <2>2, <2>3, <1>8
<1>11. \A i \in 1 .. k : h[i] = g[<<h[i - 1], i>>]
  <2> SUFFICES ASSUME NEW i \in 1 .. k PROVE h[i] = g[<<h[i - 1], i>>]
    OBVIOUS
  <2>1. i \in 0 .. k /\ i - 1 \in 0 .. k /\ i - 1 # k
    BY <1>6
  <2>2. h[i - 1] = f[i - 1]
    BY <2>1
  <2>3. CASE i = k
    BY <2>1, <2>2, <2>3
  <2>4. CASE i # k
    <3>1. i \in 1 .. k - 1
      BY <1>6, <2>4
    <3>2. h[i] = f[i]
      BY <2>1, <2>4
    <3> QED BY <1>8, <2>2, <3>1, <3>2
  <2> QED BY <2>3, <2>4
<1> HIDE DEF h
<1>12. Runs(h, S, k, b, g)
  BY <1>10, <1>11 DEF Runs
<1> QED BY <1>4, <1>12

----------------------------------------------------------------------------
(* The data of a pipe *)

\* Nothing to walk: the curnode loop of write_pipe and read_pipe leaves
\* hdr->data when it makes no turn.
LEMMA WalkZero == Walk(0) = 1
<1> DEFINE F(w) == [k \in 0 .. 0 |-> IF k = 0 THEN 1
                         ELSE IF Usable(w[k - 1]) THEN blocks[w[k - 1]].next
                         ELSE w[k - 1]]
<1>1. \E w : w = F(w)
  <2> DEFINE v == [k \in 0 .. 0 |-> 1]
  <2>1. v = F(v)
    OBVIOUS
  <2> QED BY <2>1
<1>2. PICK w : w = F(w) /\ Walk(0) = w[0]
  BY <1>1 DEF Walk
<1> QED BY <1>2

\* The bound of a copy loop is one of its two limits.
LEMMA MinIsOne ==
  ASSUME NEW a \in Int, NEW b \in Int
  PROVE  (Min({a, b}) = a /\ a <= b) \/ (Min({a, b}) = b /\ b <= a)
<1>1. CASE a <= b
  BY <1>1 DEF Min
<1>2. CASE b <= a
  BY <1>2 DEF Min
<1> QED BY <1>1, <1>2

\* The last byte stored at a position when one was.
LEMMA MaxOfOne ==
  ASSUME NEW a \in Int
  PROVE  Max({a}) = a
  BY DEF Max

\* Within the first block the block number is 0 and the offset the position.
LEMMA SmallDiv ==
  ASSUME NEW d \in Nat, NEW x \in Nat, x < d
  PROVE  x \div d = 0 /\ x % d = x
  BY SMT

\* Behind it the block number is not 0.
LEMMA LargeDiv ==
  ASSUME NEW d \in Nat \ {0}, NEW x \in Nat, x >= d
  PROVE  x \div d \in Nat \ {0}
<1>1. x = d * (x \div d) + (x % d)
  BY SMT
<1>a. x % d \in 0 .. d - 1
  BY SMT
<1>b. x \div d \in Int
  BY SMT
<1>2. PICK q \in Int, r \in 0 .. d - 1 : q = x \div d /\ x = d * q + r
  BY <1>1, <1>a, <1>b
<1>3. ASSUME q <= 0 PROVE FALSE
  <2>1. d * q <= 0
    BY <1>3, SMT
  <2> QED BY <1>2, <2>1
<1> QED BY <1>2, <1>3

\* The blocks write_pipe and read_pipe leave are again a list, of the length
\* they were built with.
LEMMA FcnIsSeq ==
  ASSUME NEW L \in Nat, NEW S, NEW f \in [1 .. L -> S]
  PROVE  f \in Seq(S) /\ Len(f) = L
  BY SMT

\* What a reader has after a read: what it had, then the bytes of the read.
LEMMA Appended ==
  ASSUME NEW S, NEW a \in Seq(S), NEW b \in Seq(S)
  PROVE  /\ a \o b \in Seq(S) /\ Len(a \o b) = Len(a) + Len(b)
         /\ \A i \in 1 .. Len(a) + Len(b) :
              (a \o b)[i] = IF i <= Len(a) THEN a[i] ELSE b[i - Len(a)]
  BY SMT

----------------------------------------------------------------------------
(* The invariant: the counts agree, nothing in the list of blocks leads    *)
(* back to the first, and until the reader has passed the first block the  *)
(* bytes to come lie there, but for its last place.                        *)

Counts ==
  /\ sent \in Nat /\ st_size \in Nat /\ Len(got) \in Nat
  /\ \E S : got \in Seq(S)
  /\ Len(got) + st_size = sent
  /\ \A i \in 1 .. Len(got) : i < Blk => got[i] = i

IsBlock(B) ==
  /\ B = [data |-> B.data, next |-> B.next, live |-> B.live]
  /\ B.next \in Int \ {1}

Listed ==
  /\ write_at \in Int /\ read_at = Len(got)
  /\ Len(blocks) \in Nat /\ Len(blocks) >= 1
  /\ DOMAIN blocks = 1 .. Len(blocks)
  /\ \A b \in 1 .. Len(blocks) : IsBlock(blocks[b])

InPlace ==
  Len(got) < Blk =>
    /\ write_at = sent /\ blocks[1].live = TRUE
    /\ \A k \in Len(got) + 1 .. sent : k < Blk => blocks[1].data[k - 1] = k

DInv == Counts /\ (mode = "run" => Listed /\ InPlace)

\* A walk of some turns does not end at the block it begins with.
LEMMA WalkLeaves ==
  ASSUME Listed, blocks[1].live = TRUE, NEW i \in Nat \ {0}
  PROVE  Walk(i) # 1
<1> DEFINE Step(b) == IF Usable(b) THEN blocks[b].next ELSE b
           F(w) == [k \in 0 .. i |-> IF k = 0 THEN 1 ELSE Step(w[k - 1])]
           g == [x \in Int \X (1 .. i) |-> Step(x[1])]
<1>1. ASSUME NEW b \in Int
      PROVE  Step(b) \in Int /\ (b # 1 => Step(b) # 1) /\ Step(1) # 1
  <2>1. \A c : Usable(c) => blocks[c].next \in Int \ {1}
    BY DEF Usable, Listed, IsBlock
  <2>2. Usable(1)
    BY DEF Usable, Listed
  <2> QED BY <2>1, <2>2
<1> HIDE DEF Step
<1>2. g \in [Int \X (1 .. i) -> Int]
  BY <1>1
<1>3. \E w : w = F(w)
  <2>1. PICK f : Runs(f, Int, i, 1, g)
    BY <1>2, LoopRuns
  <2>2. f \in [0 .. i -> Int] /\ f[0] = 1 /\ \A k \in 1 .. i : f[k] = g[<<f[k - 1], k>>]
    BY <2>1 DEF Runs
  <2>3. ASSUME NEW k \in 1 .. i PROVE f[k] = Step(f[k - 1])
    <3>1. k - 1 \in 0 .. i
      OBVIOUS
    <3>2. <<f[k - 1], k>> \in Int \X (1 .. i)
      BY <2>2, <3>1
    <3> QED BY <2>2, <3>2
  <2>4. \A k \in 0 .. i : k = 0 \/ k \in 1 .. i
    OBVIOUS
  <2>5. \A k \in 0 .. i : f[k] = IF k = 0 THEN 1 ELSE Step(f[k - 1])
    BY <2>2, <2>3, <2>4
  <2>6. f = [k \in 0 .. i |-> f[k]]
    BY <2>2
  <2>7. f = F(f)
    BY <2>5, <2>6
  <2> QED BY <2>7
<1>4. PICK w : w = F(w) /\ Walk(i) = w[i]
  BY <1>3 DEF Walk, Step
<1>5. w[0] = 1 /\ \A k \in 1 .. i : w[k] = Step(w[k - 1])
  <2>1. \A k \in 0 .. i : w[k] = IF k = 0 THEN 1 ELSE Step(w[k - 1])
    BY <1>4
  <2>2. 0 \in 0 .. i /\ \A k \in 1 .. i : k \in 0 .. i /\ k # 0
    OBVIOUS
  <2> HIDE DEF F
  <2> QED BY <2>1, <2>2
<1> HIDE DEF F, g
<1> DEFINE v == [k \in 0 .. i - 1 |-> w[k + 1]]
           Z == Int \ {1}
<1>6. i - 1 \in Nat /\ 1 \in 1 .. i /\ 0 \in 0 .. i - 1
  OBVIOUS
<1>7. v[0] \in Z
  BY <1>1, <1>5, <1>6
<1>8. ASSUME NEW k \in 1 .. i - 1, v[k - 1] \in Z PROVE v[k] \in Z
  <2>1. k \in 0 .. i - 1 /\ k - 1 \in 0 .. i - 1 /\ k + 1 \in 1 .. i
        /\ (k - 1) + 1 = k /\ (k + 1) - 1 = k
    OBVIOUS
  <2>2. v[k] = w[k + 1] /\ v[k - 1] = w[k]
    BY <2>1
  <2>3. w[k + 1] = Step(w[k])
    BY <1>5, <2>1
  <2> QED BY <1>1, <1>8, <2>2, <2>3
<1>9. v[i - 1] \in Z
  <2> HIDE DEF v, Z
  <2> QED BY <1>6, <1>7, <1>8, TurnsKeep
<1>10. v[i - 1] = w[i]
  <2>1. i - 1 \in 0 .. i - 1 /\ (i - 1) + 1 = i
    OBVIOUS
  <2> QED BY <2>1
<1> QED BY <1>4, <1>9, <1>10

\* creat_pipe establishes the invariant.
LEMMA InitDInv == Init => DInv
<1> USE DataAssumption
<1> SUFFICES ASSUME Init PROVE DInv
  OBVIOUS
<1>1. Counts
  <2>1. got \in Seq({})
    BY DEF Init
  <2> QED BY <2>1 DEF Init, Counts
<1>2. Len(blocks) = 1 /\ DOMAIN blocks = 1 .. 1 /\ blocks[1] = NewBlock(Uninit)
  BY DEF Init
<1>3. Listed
  <2>1. IsBlock(blocks[1])
    BY <1>2 DEF NewBlock, IsBlock, Uninit
  <2> QED BY <2>1, <1>2 DEF Init, Listed
<1>4. InPlace
  BY <1>2 DEF Init, InPlace, NewBlock
<1> QED BY <1>1, <1>3, <1>4 DEF DInv

\* The counts after a write of w bytes.
LEMMA WriteCounts ==
  ASSUME Counts, NEW w \in Nat, st_size' = st_size + w, sent' = sent + w,
         got' = got
  PROVE  Counts'
  BY DEF Counts

\* write_pipe preserves it: the bytes for the first block go there, behind the
\* ones there, and the others to blocks that are not the first.
LEMMA WriteDInv ==
  ASSUME DInv, NEW n \in Sizes, NEW m \in 0 .. MaxTotal, write_pipe(n, m)
  PROVE  DInv'
<1> USE DataAssumption
<1> DEFINE off   == OffsetOf(write_at)
           first == Walk(StartNode(write_at))
           w     == Fits(n, off, m)
           old   == Len(blocks)
           At(i) == IF i = 0 THEN first ELSE old + i
           Was(b) == IF b <= old THEN blocks[b] ELSE NewBlock(NULL)
           Pos(b, o) == {j \in 0 .. w - 1 : /\ At((off + j) \div Blk) = b
                                            /\ (off + j) % Blk = o}
           Data(b, o) == IF Pos(b, o) = {} THEN Was(b).data[o]
                         ELSE sent + 1 + Max(Pos(b, o))
           Succ(b) == CASE b = first /\ m > 0           -> old + 1
                          [] b > old /\ b < old + m       -> b + 1
                          [] b = At(m)                    -> NULL
                          [] OTHER                        -> Was(b).next
           New(b) == [data |-> [o \in Offs |-> Data(b, o)],
                      next |-> Succ(b), live |-> Was(b).live]
<1>1. mode = "run" /\ Counts /\ Listed /\ InPlace
  BY DEF write_pipe, DInv
<1>2. n \in Nat /\ n >= 1 /\ m \in Nat /\ sent \in Nat /\ Len(got) \in Nat
      /\ Len(got) <= sent /\ write_at \in Int
  BY <1>1 DEF Sizes, Counts, Listed
<1>3. off \in Int /\ 0 <= off /\ off < Blk
  BY <1>2 DEF OffsetOf
<1>4. (m + 1) * Blk \in Int /\ (m + 1) * Blk >= Blk
  BY <1>2, SMT
<1>5. w \in Nat /\ w >= 1 /\ (off + w >= Blk \/ w = n)
  BY <1>2, <1>3, <1>4, MinIsOne DEF Fits
<1> HIDE DEF off, first, w, old
<1>6. CASE Crash(first)
  BY <1>6, <1>1 DEF Crash, DInv, Counts
<1>7. CASE /\ Usable(first)
           /\ blocks' = [b \in 1 .. old + m |-> New(b)]
           /\ write_at' = write_at + w /\ st_size' = st_size + w
           /\ sent' = sent + w
           /\ UNCHANGED <<read_at, got, mode>>
  <2>1. Counts'
    BY <1>1, <1>5, <1>7, WriteCounts
  <2>2. old \in Nat /\ old >= 1
    BY <1>1 DEF Listed, old
  <2>3. Len(blocks') = old + m /\ DOMAIN blocks' = 1 .. old + m
        /\ \A b \in 1 .. old + m : blocks'[b] = New(b)
    <3> HIDE DEF New
    <3>1. blocks' \in [1 .. old + m -> {New(b) : b \in 1 .. old + m}]
      BY <1>7
    <3>2. Len(blocks') = old + m
      BY <3>1, <1>2, <2>2, FcnIsSeq
    <3> QED BY <3>2, <1>7, <1>2, <2>2
  <2>4. ASSUME NEW b \in 1 .. old + m PROVE IsBlock(New(b))
    <3>1. IsBlock(Was(b))
      <4>1. CASE b <= old
        BY <4>1, <2>2, <1>1 DEF Listed, old
      <4>2. CASE ~(b <= old)
        BY <4>2 DEF IsBlock, NewBlock, NULL
      <4> QED BY <4>1, <4>2
    <3>2. Succ(b) \in Int \ {1}
      <4>1. Was(b).next \in Int \ {1}
        BY <3>1 DEF IsBlock
      <4>2. old + 1 \in Int \ {1} /\ b + 1 \in Int \ {1} /\ NULL \in Int \ {1}
        BY <2>2, <1>2 DEF NULL
      <4> HIDE DEF Was, At
      <4> QED BY <4>1, <4>2
    <3> HIDE DEF Succ, Data, Was
    <3> QED BY <3>2 DEF IsBlock
  <2>5. Listed'
    <3>1. \A b \in 1 .. old + m : IsBlock(blocks'[b])
      BY <2>3, <2>4
    <3>2. Len(blocks') \in Nat /\ Len(blocks') >= 1
      BY <2>2, <2>3, <1>2
    <3>3. write_at' \in Int
      BY <1>2, <1>5, <1>7
    <3>4. read_at' = Len(got')
      BY <1>1, <1>7 DEF Listed
    <3> HIDE DEF New
    <3> QED BY <3>1, <3>2, <3>3, <3>4, <2>3 DEF Listed, IsBlock
  <2>6. ASSUME Len(got) < Blk
        PROVE  /\ blocks'[1].live = TRUE
               /\ \A k \in Len(got) + 1 .. sent + w : k < Blk => blocks'[1].data[k - 1] = k
    <3>1. write_at = sent /\ blocks[1].live = TRUE
          /\ \A k \in Len(got) + 1 .. sent : k < Blk => blocks[1].data[k - 1] = k
      BY <1>1, <2>6 DEF InPlace
    <3>2. Was(1) = blocks[1] /\ blocks'[1] = New(1)
      <4>1. 1 <= old /\ 1 \in 1 .. old + m
        BY <2>2, <1>2
      <4> HIDE DEF New
      <4> QED BY <4>1, <2>3
    <3>3. blocks'[1].live = TRUE /\ \A o \in Offs : blocks'[1].data[o] = Data(1, o)
      <4> HIDE DEF Data, Succ, Was
      <4> QED BY <3>1, <3>2
    <3>4. ASSUME NEW k \in Len(got) + 1 .. sent + w, k < Blk
          PROVE  Data(1, k - 1) = k
      <4>1. k \in Int /\ k - 1 \in Offs /\ Len(got) < k
        BY <1>2, <1>5, <3>4 DEF Offs
      <4>2. CASE sent < Blk - 1
        <5>1. off = sent
          <6>1. sent < Blk
            BY <1>2, <4>2
          <6> QED BY <3>1, <1>2, <6>1, SmallDiv DEF OffsetOf, off
        <5>2. first = 1
          <6>1. sent \div (Blk - 1) = 0
            BY <1>2, <4>2, SmallDiv
          <6> QED BY <6>1, <3>1, WalkZero DEF StartNode, first
        <5>3. ASSUME NEW j \in 0 .. w - 1
              PROVE  (At((off + j) \div Blk) = 1 /\ (off + j) % Blk = k - 1)
                       <=> sent + j = k - 1
          <6>1. sent + j \in Nat
            BY <1>2, <1>5
          <6>2. CASE sent + j < Blk
            <7>1. (sent + j) \div Blk = 0 /\ (sent + j) % Blk = sent + j
              BY <6>1, <6>2, SmallDiv
            <7> QED BY <7>1, <5>1, <5>2
          <6>3. CASE sent + j >= Blk
            <7>1. (off + j) \div Blk \in Nat \ {0}
              BY <6>1, <6>3, <5>1, LargeDiv
            <7>2. At((off + j) \div Blk) # 1
              BY <7>1, <2>2
            <7>3. sent + j # k - 1
              BY <6>1, <6>3, <3>4, <4>1
            <7> QED BY <7>2, <7>3
          <6> QED BY <6>1, <6>2, <6>3
        <5>4. Pos(1, k - 1) = {j \in 0 .. w - 1 : sent + j = k - 1}
          BY <5>3
        <5>5. CASE k <= sent
          <6>0. \A j \in 0 .. w - 1 : sent + j # k - 1
            BY <5>5, <4>1, <1>2, <1>5
          <6>1. Pos(1, k - 1) = {}
            <7> HIDE DEF Pos
            <7> QED BY <5>4, <6>0
          <6>2. blocks[1].data[k - 1] = k
            BY <3>1, <3>4, <4>1, <5>5, <1>2
          <6> QED BY <6>1, <6>2, <3>2
        <5>6. CASE k > sent
          <6>1. k - 1 - sent \in 0 .. w - 1
            BY <4>1, <5>6, <1>2, <1>5, <3>4
          <6>2. \A j \in 0 .. w - 1 : sent + j = k - 1 <=> j = k - 1 - sent
            BY <4>1, <1>2, <1>5
          <6>3. Pos(1, k - 1) = {k - 1 - sent}
            <7> HIDE DEF Pos
            <7> QED BY <5>4, <6>1, <6>2, Zenon
          <6>4. Max(Pos(1, k - 1)) = k - 1 - sent
            BY <6>3, <4>1, <1>2, MaxOfOne
          <6>5. sent + 1 + (k - 1 - sent) = k
            BY <4>1, <1>2
          <6> HIDE DEF Pos
          <6> QED BY <6>3, <6>4, <6>5
        <5>7. k <= sent \/ k > sent
          BY <4>1, <1>2
        <5> QED BY <5>5, <5>6, <5>7
      <4>3. CASE sent >= Blk - 1
        <5>1. StartNode(write_at) \in Nat \ {0}
          BY <3>1, <4>3, <1>2, LargeDiv DEF StartNode
        <5>2. first # 1
          BY <5>1, <1>1, <3>1, WalkLeaves DEF first
        <5>3. \A j \in 0 .. w - 1 : At((off + j) \div Blk) # 1
          <6> SUFFICES ASSUME NEW j \in 0 .. w - 1 PROVE At((off + j) \div Blk) # 1
            OBVIOUS
          <6>1. off + j \in Nat
            BY <1>3, <1>5
          <6>2. (off + j) \div Blk \in Nat
            <7>1. CASE off + j < Blk
              BY <6>1, <7>1, SmallDiv
            <7>2. CASE off + j >= Blk
              BY <6>1, <7>2, LargeDiv
            <7> QED BY <6>1, <7>1, <7>2
          <6> QED BY <6>2, <5>2, <2>2
        <5>4. Pos(1, k - 1) = {}
          BY <5>3
        <5>5. k <= sent
          BY <3>4, <4>1, <4>3, <1>2
        <5>6. blocks[1].data[k - 1] = k
          BY <3>1, <3>4, <4>1, <5>5, <1>2
        <5> QED BY <5>4, <5>6, <3>2
      <4>4. sent < Blk - 1 \/ sent >= Blk - 1
        BY <1>2
      <4> QED BY <4>2, <4>3, <4>4
    <3>5. ASSUME NEW k \in Len(got) + 1 .. sent + w, k < Blk
          PROVE  blocks'[1].data[k - 1] = k
      <4>1. k - 1 \in Offs
        BY <1>2, <1>5, <3>5 DEF Offs
      <4> HIDE DEF Data
      <4> QED BY <3>3, <3>4, <3>5, <4>1
    <3> QED BY <3>3, <3>5
  <2>7. InPlace'
    <3>1. Len(got) < Blk => write_at' = sent'
      BY <1>1, <1>7 DEF InPlace
    <3> QED BY <3>1, <2>6, <1>7 DEF InPlace
  <2> QED BY <2>1, <2>5, <2>7 DEF DInv
<1> QED BY <1>6, <1>7 DEF write_pipe, off, first, w, old

\* read_pipe preserves it: the bytes it takes of the first block are the next
\* ones, and as long as the block has more to come it is not freed.
LEMMA ReadDInv ==
  ASSUME DInv, NEW n \in Sizes, read_pipe(n)
  PROVE  DInv'
<1> USE DataAssumption
<1> DEFINE off == OffsetOf(read_at)
           r   == Take(n)
           f   == FreedBy(off, r)
           del == {Walk(i) : i \in 0 .. f - 1}
           last == Walk((off + r - 1) \div Blk)
           g   == Len(got)
           e(j) == blocks[Walk((off + j - 1) \div Blk)].data[(off + j - 1) % Blk]
           new == [j \in 1 .. r |-> e(j)]
           E(b) == [blocks[b] EXCEPT !.live = @ /\ b \notin del]
<1>1. mode = "run" /\ st_size > 0 /\ Counts /\ Listed /\ InPlace
  BY DEF read_pipe, DInv
<1>2. /\ n \in Nat /\ n >= 1 /\ g \in Nat /\ sent \in Nat /\ st_size \in Nat
      /\ g + st_size = sent /\ read_at = g /\ write_at \in Int
  BY <1>1 DEF Sizes, Counts, Listed
<1>3. r \in Nat /\ r >= 1 /\ r <= st_size
  BY <1>1, <1>2, MinIsOne DEF Take
<1> HIDE DEF r
<1>4. off \in Int /\ f \in Int /\ (g < Blk => off = g)
  <2>1. off \in Int
    BY <1>2 DEF OffsetOf
  <2>2. off + r \in Int
    BY <2>1, <1>3
  <2>3. g < Blk => off = g
    BY <1>2, SmallDiv DEF OffsetOf
  <2> HIDE DEF off
  <2> QED BY <2>1, <2>2, <2>3 DEF FreedBy
<1>5. CASE Crash(last)
  BY <1>5, <1>1 DEF Crash, DInv, Counts
<1>6. CASE /\ got' = got \o new
           /\ blocks' = [b \in DOMAIN blocks |-> E(b)]
           /\ read_at' = read_at + r
           /\ st_size' = st_size - r
           /\ write_at' = write_at - Blk * f
           /\ UNCHANGED <<sent, mode>>
  <2>1. PICK S : got \in Seq(S)
    BY <1>1 DEF Counts
  <2> DEFINE T == S \cup {e(j) : j \in 1 .. r}
  <2>2. got \in Seq(T) /\ new \in Seq(T) /\ Len(new) = r
    <3> HIDE DEF e
    <3>1. new \in [1 .. r -> T]
      OBVIOUS
    <3>2. \A i \in 1 .. Len(got) : got[i] \in T
      BY <2>1
    <3> HIDE DEF T, new
    <3> QED BY <2>1, <3>1, <3>2, <1>3, FcnIsSeq
  <2> HIDE DEF new, T
  <2>3. /\ got' \in Seq(T) /\ Len(got') = g + r
        /\ \A i \in 1 .. g + r : got'[i] = IF i <= g THEN got[i] ELSE new[i - g]
    BY <2>2, <1>6, Appended
  <2>4. ASSUME NEW j \in 1 .. r, g + j < Blk PROVE new[j] = g + j
    <3>1. g + j - 1 \in Nat /\ g + j - 1 < Blk /\ g < Blk /\ j \in Int
      BY <1>2, <2>4
    <3>2. off + j - 1 = g + j - 1
      BY <1>4, <3>1
    <3>3. (off + j - 1) \div Blk = 0 /\ (off + j - 1) % Blk = g + j - 1
      BY <3>1, <3>2, SmallDiv
    <3>4. e(j) = blocks[1].data[g + j - 1]
      BY <3>3, WalkZero
    <3>5. g + j \in g + 1 .. sent /\ (g + j) - 1 = g + j - 1
      BY <1>2, <1>3
    <3>6. blocks[1].data[(g + j) - 1] = g + j
      BY <3>1, <3>5, <2>4, <1>1 DEF InPlace
    <3> HIDE DEF e, g
    <3> QED BY <3>4, <3>5, <3>6 DEF new
  <2>5. Counts'
    <3>1. ASSUME NEW i \in 1 .. g + r, i < Blk PROVE got'[i] = i
      <4>1. CASE i <= g
        <5>1. got[i] = i
          BY <3>1, <4>1, <1>1, <1>2 DEF Counts
        <5> QED BY <2>3, <4>1, <5>1
      <4>2. CASE i > g
        <5>1. i - g \in 1 .. r /\ g + (i - g) = i
          BY <4>2, <1>2, <1>3
        <5>2. new[i - g] = i
          BY <3>1, <5>1, <2>4
        <5>3. ~(i <= g)
          BY <4>2, <1>2
        <5> QED BY <2>3, <5>2, <5>3
      <4> QED BY <4>1, <4>2, <1>2, <1>3
    <3>2. sent' \in Nat /\ st_size' \in Nat /\ Len(got') \in Nat
          /\ Len(got') + st_size' = sent'
      <4>1. sent' = sent /\ st_size' = st_size - r
        BY <1>6
      <4> QED BY <4>1, <1>2, <1>3, <2>3
    <3>3. \A i \in 1 .. Len(got') : i < Blk => got'[i] = i
      BY <2>3, <3>1
    <3> QED BY <3>2, <3>3, <2>3 DEF Counts
  <2>6. ASSUME NEW b \in DOMAIN blocks
        PROVE  /\ IsBlock(E(b)) /\ E(b).data = blocks[b].data
               /\ b \notin del => (blocks[b].live = TRUE => E(b).live = TRUE)
    <3>1. IsBlock(blocks[b])
      BY <1>1 DEF Listed
    <3>2. PICK B : B = blocks[b]
      OBVIOUS
    <3>3. PICK c : c = (B.live /\ b \notin del)
      OBVIOUS
    <3>4. E(b) = [B EXCEPT !.live = c]
      BY <3>2, <3>3
    <3>5. B = [data |-> B.data, next |-> B.next, live |-> B.live] /\ B.next \in Int \ {1}
      BY <3>1, <3>2 DEF IsBlock
    <3>6. PICK d, x, l : B = [data |-> d, next |-> x, live |-> l] /\ x \in Int \ {1}
      BY <3>5
    <3>7. [B EXCEPT !.live = c] = [data |-> d, next |-> x, live |-> c]
      BY <3>6
    <3>8. b \notin del /\ B.live = TRUE => c = TRUE
      BY <3>3
    <3> HIDE DEF del, E
    <3>9. IsBlock(E(b)) /\ E(b).data = d /\ E(b).live = c /\ B.data = d
      BY <3>4, <3>6, <3>7 DEF IsBlock
    <3> QED BY <3>2, <3>8, <3>9
  <2>7. Len(blocks') = Len(blocks) /\ DOMAIN blocks' = 1 .. Len(blocks)
        /\ \A b \in 1 .. Len(blocks) : blocks'[b] = E(b)
    <3> DEFINE L == Len(blocks)
    <3>1. L \in Nat /\ L >= 1 /\ DOMAIN blocks = 1 .. L
      BY <1>1 DEF Listed
    <3> HIDE DEF E, L
    <3>2. blocks' = [b \in 1 .. L |-> E(b)]
      BY <3>1, <1>6
    <3>3. blocks' \in [1 .. L -> {E(b) : b \in 1 .. L}]
      BY <3>2
    <3>4. Len(blocks') = L
      BY <3>1, <3>3, FcnIsSeq
    <3>5. DOMAIN blocks' = 1 .. L /\ \A b \in 1 .. L : blocks'[b] = E(b)
      BY <3>1, <3>2
    <3> QED BY <3>4, <3>5 DEF L
  <2>8. Listed'
    <3>1. \A b \in 1 .. Len(blocks) : IsBlock(blocks'[b])
      <4> HIDE DEF E
      <4> QED BY <2>6, <2>7, <1>1 DEF Listed
    <3>2. Blk * f \in Int
      BY <1>4
    <3>3. write_at' \in Int /\ read_at' = Len(got')
      <4> HIDE DEF f, g, off
      <4>1. write_at' \in Int
        BY <1>2, <1>6, <3>2
      <4>2. read_at' = g + r
        BY <1>2, <1>6
      <4> QED BY <4>1, <4>2, <2>3
    <3> QED BY <1>1, <2>7, <3>1, <3>3 DEF Listed, IsBlock
  <2>9. InPlace'
    <3> SUFFICES ASSUME g + r < Blk
                 PROVE  /\ write_at' = sent' /\ blocks'[1].live = TRUE
                        /\ \A k \in g + r + 1 .. sent : k < Blk => blocks'[1].data[k - 1] = k
      BY <2>3, <1>6 DEF InPlace
    <3>1. g < Blk
      BY <1>2, <1>3
    <3>2. write_at = sent /\ blocks[1].live = TRUE
          /\ \A k \in g + 1 .. sent : k < Blk => blocks[1].data[k - 1] = k
      BY <1>1, <3>1 DEF InPlace
    <3>3. f = 0
      <4>1. off + r \in Nat /\ off + r < Blk
        BY <1>2, <1>3, <1>4, <3>1
      <4> QED BY <4>1, SmallDiv DEF FreedBy
    <3>4. del = {} /\ Blk * f = 0
      BY <3>3
    <3>5. 1 \in DOMAIN blocks /\ 1 \in 1 .. Len(blocks)
      BY <1>1 DEF Listed
    <3>6. blocks'[1].live = TRUE /\ blocks'[1].data = blocks[1].data
      <4>1. 1 \notin del
        BY <3>4
      <4> HIDE DEF E, del
      <4> QED BY <4>1, <2>6, <2>7, <3>2, <3>5
    <3>7. \A k \in g + r + 1 .. sent : k \in g + 1 .. sent
      BY <1>2, <1>3
    <3>8. write_at' = sent'
      BY <3>2, <3>4, <1>6, <1>2
    <3> QED BY <3>2, <3>6, <3>7, <3>8
  <2> QED BY <2>5, <2>8, <2>9 DEF DInv
<1> QED BY <1>5, <1>6 DEF read_pipe, r

\* No call ever leaves the invariant.
LEMMA DInvariant == Spec => []DInv
<1>1. Init => DInv
  BY InitDInv
<1>2. DInv /\ [Next]_vars => DInv'
  <2> SUFFICES ASSUME DInv, [Next]_vars PROVE DInv'
    OBVIOUS
  <2>1. ASSUME NEW n \in Sizes, read_pipe(n) PROVE DInv'
    BY <2>1, ReadDInv
  <2>2. ASSUME NEW n \in Sizes, NEW m \in 0 .. MaxTotal, write_pipe(n, m)
        PROVE  DInv'
    BY <2>2, WriteDInv
  <2>3. CASE delete
    <3>1. mode' # "run" /\ UNCHANGED <<write_at, read_at, st_size, sent, got>>
      BY <2>3 DEF delete, Crash
    <3> QED BY <3>1 DEF DInv, Counts
  <2>4. CASE UNCHANGED vars
    BY <2>4 DEF vars, DInv, Counts, Listed, IsBlock, InPlace
  <2>5. CASE Ended
    BY <2>5, <2>4 DEF Ended
  <2> QED BY <2>1, <2>2, <2>3, <2>4, <2>5 DEF Next
<1> QED BY <1>1, <1>2, PTL DEF Spec

\* read_pipe and write_pipe never lose count of the bytes, and the bytes below
\* the last of the first block are delivered in order, for every size of a
\* block, any number of bytes and blocks, every division into calls and every
\* failure of kmalloc in them.
THEOREM FirstBlockInOrder == Spec => []InOrder
<1>1. DInv => InOrder
  <2> SUFFICES ASSUME DInv PROVE InOrder
    OBVIOUS
  <2>1. PICK S : got \in Seq(S)
    BY DEF DInv, Counts
  <2>2. DOMAIN got = 1 .. Len(got)
    BY <2>1
  <2> QED BY <2>2 DEF DInv, Counts, InOrder
<1> QED BY <1>1, DInvariant, PTL

\* Until the reader has passed the first block nobody frees it or changes a
\* byte of it that is to come, wherever the walk of a later write_pipe ends.
THEOREM FirstBlockKept == Spec => []PendingInPlace
<1>1. DInv => PendingInPlace
  BY DEF DInv, InPlace, PendingInPlace
<1> QED BY <1>1, DInvariant, PTL

----------------------------------------------------------------------------
(* A line *)

Letter == STRING \cup {"NUL", "PIPE", "IN", "OUT"}
Words  == Seq(Letter)

\* rash_read_line gives a line.
LEMMA LineTyped ==
  ASSUME NEW keys \in Seq(STRING)
  PROVE  rash_read_line(keys) \in Words
<1> DEFINE n == Len(keys)
           F(w) == [i \in 0 .. n |-> IF i = 0 THEN <<>> ELSE Keyed(w[i - 1], keys[i])]
           g == [x \in Words \X (1 .. n) |-> Keyed(x[1], keys[x[2]])]
<1>1. n \in Nat /\ <<>> \in Words
  BY DEF Words
<1>2. ASSUME NEW b \in Words, NEW i \in 1 .. n PROVE Keyed(b, keys[i]) \in Words
  <2>1. keys[i] \in Letter
    BY ElementOfSeq DEF Letter
  <2>2. Append(b, keys[i]) \in Words
    BY <2>1 DEF Words
  <2>3. CASE b = <<>>
    BY <2>2, <2>3 DEF Keyed
  <2>4. CASE b # <<>>
    <3>1. Len(b) \in Nat /\ Len(b) > 0
      BY <2>4 DEF Words
    <3>2. Front(b) \in Words
      <4>1. \A k \in 1 .. Len(b) - 1 : b[k] \in Letter
        BY <3>1, ElementOfSeq DEF Words
      <4> QED BY <3>1, <4>1, SubSeqProperties DEF Front, Words
    <3> QED BY <2>2, <3>2 DEF Keyed
  <2> QED BY <2>3, <2>4
<1>3. g \in [Words \X (1 .. n) -> Words]
  <2>1. \A x \in Words \X (1 .. n) : Keyed(x[1], keys[x[2]]) \in Words
    BY <1>2
  <2> QED BY <2>1
<1>4. \E w : w = F(w)
  <2>1. PICK f : Runs(f, Words, n, <<>>, g)
    BY <1>1, <1>3, LoopRuns
  <2>2. f \in [0 .. n -> Words] /\ f[0] = <<>>
    BY <2>1 DEF Runs
  <2>3. \A i \in 1 .. n : f[i] = Keyed(f[i - 1], keys[i])
    <3> SUFFICES ASSUME NEW i \in 1 .. n PROVE f[i] = Keyed(f[i - 1], keys[i])
      OBVIOUS
    <3>1. i - 1 \in 0 .. n
      OBVIOUS
    <3>2. <<f[i - 1], i>> \in Words \X (1 .. n)
      BY <2>2, <3>1
    <3>3. f[i] = g[<<f[i - 1], i>>]
      BY <2>1 DEF Runs
    <3> QED BY <3>2, <3>3
  <2>4. \A i \in 0 .. n : f[i] = IF i = 0 THEN <<>> ELSE Keyed(f[i - 1], keys[i])
    BY <2>2, <2>3
  <2>5. f = F(f)
    BY <2>2, <2>4
  <2> QED BY <2>5
<1>5. PICK w : w = F(w) /\ rash_read_line(keys) = w[n]
  BY <1>4 DEF rash_read_line
<1>6. w[0] \in Words
  <2>1. 0 \in 0 .. n
    BY <1>1
  <2> QED BY <1>1, <1>5, <2>1
<1>7. \A i \in 1 .. n : w[i - 1] \in Words => w[i] \in Words
  <2> SUFFICES ASSUME NEW i \in 1 .. n, w[i - 1] \in Words PROVE w[i] \in Words
    OBVIOUS
  <2>1. i \in 0 .. n /\ i # 0
    BY <1>1
  <2>2. w[i] = Keyed(w[i - 1], keys[i])
    BY <1>5, <2>1
  <2> QED BY <1>2, <2>2
<1>8. w[n] \in Words
  <2> HIDE DEF n
  <2> QED BY <1>1, <1>6, <1>7, TurnsKeep
<1> QED BY <1>5, <1>8

\* The state of rash_split_line: the array has its first size or a larger one,
\* and it overflowed only with more tokens than the first size.
SplitR == [state : {"DEFAULT", "QUOTED", "ESCAPED"}, token : Words, tokens : Seq(Words),
           argbuf : Nat, over : BOOLEAN]
SplitT == {t \in SplitR : t.argbuf >= ArgBuf /\ (t.over => Len(t.tokens) > ArgBuf)}

\* A word in front of a separator keeps it so,
LEMMA FlushKeeps ==
  ASSUME NEW t \in SplitT
  PROVE  Flush(t) \in SplitT /\ Flush(t).argbuf = t.argbuf /\ Flush(t).state = t.state
<1>1. t \in SplitR /\ t.argbuf >= ArgBuf /\ (t.over => Len(t.tokens) > ArgBuf)
  BY DEF SplitT
<1>2. t.tokens \in Seq(Words) /\ t.token \in Words /\ ArgBuf \in Nat
  BY <1>1, RashAssumption DEF SplitR
<1>3. Append(t.tokens, t.token) \in Seq(Words)
      /\ Len(Append(t.tokens, t.token)) = Len(t.tokens) + 1 /\ Len(t.tokens) \in Nat
  BY <1>2
<1>4. <<>> \in Words
  BY DEF Words
<1> DEFINE u == [t EXCEPT !.tokens = Append(@, t.token), !.token = <<>>]
<1>5. u \in SplitR /\ u.argbuf = t.argbuf /\ u.over = t.over /\ u.state = t.state
      /\ Len(u.tokens) = Len(t.tokens) + 1
  BY <1>1, <1>3, <1>4 DEF SplitR
<1>6. u \in SplitT
  <2> HIDE DEF u
  <2> QED BY <1>1, <1>2, <1>3, <1>5 DEF SplitT
<1> QED BY <1>5, <1>6 DEF Flush

\* and so does a special character, which may be one too many.
LEMMA SpecialKeeps ==
  ASSUME NEW t \in SplitT, NEW c
  PROVE  AddSpecial(t, c) \in SplitT
<1>1. t \in SplitR /\ t.argbuf >= ArgBuf /\ (t.over => Len(t.tokens) > ArgBuf)
  BY DEF SplitT
<1>2. t.tokens \in Seq(Words) /\ t.argbuf \in Nat /\ ArgBuf \in Nat /\ t.over \in BOOLEAN
  BY <1>1, RashAssumption DEF SplitR
<1>3. CASE c \in {"|", "<", ">"}
  <2>1. Special(c) \in Words
    <3>1. Special(c) \in {<<"PIPE">>, <<"IN">>, <<"OUT">>}
      BY <1>3 DEF Special, Pipe, In, Out
    <3>2. \A x \in Letter : <<x>> \in Words
      BY DEF Words
    <3>3. "PIPE" \in Letter /\ "IN" \in Letter /\ "OUT" \in Letter
      BY DEF Letter
    <3> QED BY <3>1, <3>2, <3>3
  <2>2. Append(t.tokens, Special(c)) \in Seq(Words)
        /\ Len(Append(t.tokens, Special(c))) = Len(t.tokens) + 1 /\ Len(t.tokens) \in Nat
    BY <1>2, <2>1
  <2>3. PICK ov \in BOOLEAN : ov = (t.over \/ Len(t.tokens) >= t.argbuf)
    OBVIOUS
  <2> DEFINE u == [t EXCEPT !.tokens = Append(@, Special(c)), !.over = ov]
  <2>4. AddSpecial(t, c) = u
    BY <1>3, <2>3 DEF AddSpecial
  <2>5. u \in SplitR /\ u.argbuf = t.argbuf /\ u.over = ov
        /\ Len(u.tokens) = Len(t.tokens) + 1
    BY <1>1, <2>2 DEF SplitR
  <2> HIDE DEF u
  <2>6. ov => Len(t.tokens) + 1 > ArgBuf
    BY <1>1, <1>2, <2>2, <2>3
  <2>7. u \in SplitT
    BY <1>1, <2>5, <2>6 DEF SplitT
  <2> QED BY <2>4, <2>7
<1>4. CASE c \notin {"|", "<", ">"}
  BY <1>4 DEF AddSpecial
<1> QED BY <1>3, <1>4

\* Every character keeps it so.
LEMMA SplitKeeps ==
  ASSUME NEW t \in SplitT, NEW c \in Letter
  PROVE  Split(t, c) \in SplitT
<1>1. t \in SplitR /\ t.argbuf >= ArgBuf /\ (t.over => Len(t.tokens) > ArgBuf)
  BY DEF SplitT
<1>2. Append(t.token, c) \in Words
  BY <1>1 DEF SplitR, Words
<1>3. ASSUME NEW st \in {"DEFAULT", "QUOTED", "ESCAPED"}
      PROVE  /\ [t EXCEPT !.state = st] \in SplitT
             /\ [t EXCEPT !.token = Append(@, c), !.state = st] \in SplitT
             /\ [t EXCEPT !.token = Append(@, c)] \in SplitT
  BY <1>1, <1>2 DEF SplitT, SplitR
<1>4. AddSpecial(Flush(t), c) \in SplitT
  BY FlushKeeps, SpecialKeeps
<1> DEFINE u == CASE t.state = "QUOTED" /\ c = "'" -> [t EXCEPT !.state = "DEFAULT"]
             [] t.state = "QUOTED" /\ c # "'" -> [t EXCEPT !.token = Append(@, c)]
             [] t.state = "ESCAPED" ->
                  [t EXCEPT !.token = Append(@, c), !.state = "DEFAULT"]
             [] t.state = "DEFAULT" /\ c \in {" ", "|", "<", ">", "NUL"} ->
                  AddSpecial(Flush(t), c)
             [] t.state = "DEFAULT" /\ c = "'" -> [t EXCEPT !.state = "QUOTED"]
             [] t.state = "DEFAULT" /\ c = "\\" -> [t EXCEPT !.state = "ESCAPED"]
             [] OTHER -> [t EXCEPT !.token = Append(@, c)]
<1>5. u \in SplitT
  BY <1>3, <1>4
<1> HIDE DEF u
<1>6. PICK k : k = IF Len(u.tokens) >= u.argbuf THEN 2 * u.argbuf ELSE u.argbuf
  OBVIOUS
<1>7. k \in Nat /\ k >= u.argbuf /\ u.argbuf \in Nat
  BY <1>5, <1>6 DEF SplitT, SplitR
<1>8. [u EXCEPT !.argbuf = k] \in SplitT
  <2> DEFINE v == [u EXCEPT !.argbuf = k]
  <2>1. u \in SplitR /\ u.argbuf >= ArgBuf /\ (u.over => Len(u.tokens) > ArgBuf)
    BY <1>5 DEF SplitT
  <2>2. v \in SplitR /\ v.argbuf = k /\ v.over = u.over /\ v.tokens = u.tokens
    BY <1>7, <2>1 DEF SplitR
  <2>3. k >= ArgBuf
    BY <1>7, <2>1, RashAssumption
  <2> HIDE DEF v
  <2>4. v \in SplitT
    BY <2>1, <2>2, <2>3 DEF SplitT
  <2> QED BY <2>4 DEF v
<1>9. Split(t, c) = [u EXCEPT !.argbuf = k]
  BY <1>6 DEF Split, u
<1> QED BY <1>8, <1>9

\* Tokens that overflow the array are more than its first size.
LEMMA OverflowIsLong ==
  ASSUME NEW line \in Words
  PROVE  rash_split_line(line) \in SplitT
<1> DEFINE chars == Append(line, "NUL")
           n == Len(chars)
           F(w) == [i \in 0 .. n |-> IF i = 0 THEN Start ELSE Split(w[i - 1], chars[i])]
           g == [x \in SplitT \X (1 .. n) |-> Split(x[1], chars[x[2]])]
<1>1. n \in Nat /\ \A i \in 1 .. n : chars[i] \in Letter
  <2>1. "NUL" \in Letter
    BY DEF Letter
  <2>2. chars \in Seq(Letter)
    BY <2>1 DEF Words
  <2> HIDE DEF chars
  <2> QED BY <2>2, ElementOfSeq
<1>2. Start \in SplitT
  <2>1. <<>> \in Words /\ <<>> \in Seq(Words) /\ ArgBuf \in Nat
    BY RashAssumption DEF Words
  <2>2. Start \in SplitR /\ Start.argbuf = ArgBuf /\ ~Start.over
    BY <2>1 DEF Start, SplitR
  <2> QED BY <2>1, <2>2 DEF SplitT
<1> HIDE DEF chars, n
<1>3. g \in [SplitT \X (1 .. n) -> SplitT]
  <2>1. \A x \in SplitT \X (1 .. n) : Split(x[1], chars[x[2]]) \in SplitT
    BY <1>1, SplitKeeps
  <2> QED BY <2>1
<1>4. \E w : w = F(w)
  <2>1. PICK f : Runs(f, SplitT, n, Start, g)
    BY <1>1, <1>2, <1>3, LoopRuns
  <2>2. f \in [0 .. n -> SplitT] /\ f[0] = Start
    BY <2>1 DEF Runs
  <2>3. \A i \in 1 .. n : f[i] = Split(f[i - 1], chars[i])
    <3> SUFFICES ASSUME NEW i \in 1 .. n PROVE f[i] = Split(f[i - 1], chars[i])
      OBVIOUS
    <3>1. i - 1 \in 0 .. n
      BY <1>1
    <3>2. <<f[i - 1], i>> \in SplitT \X (1 .. n)
      BY <2>2, <3>1
    <3>3. f[i] = g[<<f[i - 1], i>>]
      BY <2>1 DEF Runs
    <3> QED BY <3>2, <3>3
  <2>4. \A i \in 0 .. n : f[i] = IF i = 0 THEN Start ELSE Split(f[i - 1], chars[i])
    BY <1>1, <2>2, <2>3
  <2>5. f = F(f)
    BY <2>2, <2>4
  <2> QED BY <2>5
<1>5. PICK w : w = F(w) /\ rash_split_line(line) = w[n]
  BY <1>4 DEF rash_split_line, chars, n
<1>6. w[0] \in SplitT
  <2>1. 0 \in 0 .. n
    BY <1>1
  <2>2. w[0] = Start
    BY <1>5, <2>1
  <2> QED BY <1>2, <2>2
<1>7. \A i \in 1 .. n : w[i - 1] \in SplitT => w[i] \in SplitT
  <2> SUFFICES ASSUME NEW i \in 1 .. n, w[i - 1] \in SplitT PROVE w[i] \in SplitT
    OBVIOUS
  <2>1. i \in 0 .. n /\ i # 0
    BY <1>1
  <2>2. w[i] = Split(w[i - 1], chars[i])
    BY <1>5, <2>1
  <2> QED BY <1>1, <2>2, SplitKeeps
<1>8. w[n] \in SplitT
  BY <1>1, <1>6, <1>7, TurnsKeep
<1> QED BY <1>5, <1>8

\* The loop of rash_launch replaces tokens and neither adds nor takes any.
PartR == [args : Seq(Words), starts : Seq(Nat), skip : BOOLEAN, wild : BOOLEAN,
          names : [in : Words, out : Words]]
PartT(k) == {p \in PartR : Len(p.args) = k}

\* A redirection keeps the number of tokens,
LEMMA RedirectKeeps ==
  ASSUME NEW n \in Nat, NEW p \in PartT(n), NEW i \in 1 .. n, NEW which \in {"in", "out"}
  PROVE  Redirect(p, i, which) \in PartT(n)
<1>1. p \in PartR /\ Len(p.args) = n
  BY DEF PartT
<1>2. p.args \in Seq(Words) /\ p.names \in [in : Words, out : Words] /\ NullString \in Words
  BY <1>1 DEF PartR, Words, NullString
<1>3. PICK a : a = [p.args EXCEPT ![i] = NullString]
  OBVIOUS
<1>4. a \in Seq(Words) /\ Len(a) = n
  BY <1>1, <1>2, <1>3
<1>5. PICK v : v = IF i < Len(p.args) THEN p.args[i + 1] ELSE p.names[which]
  OBVIOUS
<1>6. v \in Words
  <2>1. i < n => p.args[i + 1] \in Words
    BY <1>1, <1>2, ElementOfSeq
  <2>2. p.names[which] \in Words
    BY <1>2
  <2> QED BY <1>1, <1>5, <2>1, <2>2
<1>7. PICK nm : nm = [p.names EXCEPT ![which] = v]
  OBVIOUS
<1>8. nm \in [in : Words, out : Words]
  BY <1>2, <1>6, <1>7
<1>9. PICK wl \in BOOLEAN : wl = (p.wild \/ i = Len(p.args))
  OBVIOUS
<1> DEFINE q == [p EXCEPT !.args = a, !.skip = TRUE, !.wild = wl, !.names = nm]
<1>10. Redirect(p, i, which) = q
  BY <1>1, <1>3, <1>5, <1>7, <1>9 DEF Redirect, PartR
<1>11. q \in PartR /\ q.args = a
  BY <1>1, <1>4, <1>8 DEF PartR
<1> HIDE DEF q
<1> QED BY <1>4, <1>10, <1>11 DEF PartT

\* and so does every other turn of the loop.
LEMMA PartKeeps ==
  ASSUME NEW n \in Nat, NEW p \in PartT(n), NEW i \in 1 .. n
  PROVE  Part(p, i) \in PartT(n)
<1>1. p \in PartR /\ Len(p.args) = n
  BY DEF PartT
<1>2. p.args \in Seq(Words) /\ p.starts \in Seq(Nat) /\ NullString \in Words /\ p.skip \in BOOLEAN
  BY <1>1 DEF PartR, Words, NullString
<1>3. [p EXCEPT !.skip = FALSE] \in PartT(n)
  <2> DEFINE q == [p EXCEPT !.skip = FALSE]
  <2>1. q \in PartR /\ q.args = p.args
    BY <1>1 DEF PartR
  <2> HIDE DEF q
  <2> QED BY <1>1, <2>1 DEF PartT, q
<1>4. [p EXCEPT !.args[i] = NullString, !.starts = Append(@, i + 1)] \in PartT(n)
  <2>1. PICK a : a = [p.args EXCEPT ![i] = NullString]
    OBVIOUS
  <2>2. a \in Seq(Words) /\ Len(a) = n
    BY <1>1, <1>2, <2>1
  <2>3. PICK st : st = Append(p.starts, i + 1)
    OBVIOUS
  <2>4. st \in Seq(Nat)
    BY <1>2, <2>3
  <2> DEFINE q == [p EXCEPT !.args = a, !.starts = st]
  <2>5. [p EXCEPT !.args[i] = NullString, !.starts = Append(@, i + 1)] = q
    BY <1>1, <2>1, <2>3 DEF PartR
  <2>6. q \in PartR /\ q.args = a
    BY <1>1, <2>2, <2>4 DEF PartR
  <2> HIDE DEF q
  <2>7. q \in PartT(n)
    BY <2>2, <2>6 DEF PartT
  <2> QED BY <2>5, <2>7
<1>5. Redirect(p, i, "in") \in PartT(n) /\ Redirect(p, i, "out") \in PartT(n)
  BY RedirectKeeps
<1>6. Pipe # In /\ Pipe # Out /\ In # Out
  BY DEF Pipe, In, Out
<1>7. CASE p.skip
  BY <1>3, <1>7 DEF Part
<1>8. CASE ~p.skip /\ p.args[i] = Pipe
  BY <1>4, <1>6, <1>8 DEF Part
<1>9. CASE ~p.skip /\ p.args[i] = In
  BY <1>5, <1>6, <1>9 DEF Part
<1>10. CASE ~p.skip /\ p.args[i] = Out
  BY <1>5, <1>6, <1>10 DEF Part
<1>11. CASE ~p.skip /\ p.args[i] \notin {Pipe, In, Out}
  BY <1>11 DEF Part
<1> QED BY <1>7, <1>8, <1>9, <1>10, <1>11

\* What the whole loop makes of a line.
LEMMA PartsKeepLength ==
  ASSUME NEW tokens \in Seq(Words)
  PROVE  Parts(tokens) \in PartT(Len(tokens))
<1> DEFINE n == Len(tokens)
           S == PartT(n)
           F(w) == [i \in 0 .. n |-> IF i = 0 THEN Whole(tokens) ELSE Part(w[i - 1], i)]
           g == [x \in S \X (1 .. n) |-> Part(x[1], x[2])]
<1>1. n \in Nat
  OBVIOUS
<1>2. Whole(tokens) \in S
  <2>1. <<>> \in Words /\ <<1>> \in Seq(Nat)
    BY DEF Words
  <2>2. Whole(tokens) \in PartR /\ Whole(tokens).args = tokens
    BY <2>1 DEF Whole, PartR, NullString
  <2> QED BY <2>2 DEF PartT
<1>0. ASSUME NEW p \in S, NEW i \in 1 .. n PROVE Part(p, i) \in S
  BY <1>1, PartKeeps
<1> HIDE DEF S, n
<1>3. g \in [S \X (1 .. n) -> S]
  <2>1. \A x \in S \X (1 .. n) : Part(x[1], x[2]) \in S
    BY <1>0
  <2> QED BY <2>1
<1>4. \E w : w = F(w)
  <2>1. PICK f : Runs(f, S, n, Whole(tokens), g)
    BY <1>1, <1>2, <1>3, LoopRuns
  <2>2. f \in [0 .. n -> S] /\ f[0] = Whole(tokens)
    BY <2>1 DEF Runs
  <2>3. \A i \in 1 .. n : f[i] = Part(f[i - 1], i)
    <3> SUFFICES ASSUME NEW i \in 1 .. n PROVE f[i] = Part(f[i - 1], i)
      OBVIOUS
    <3>1. i - 1 \in 0 .. n
      BY <1>1
    <3>2. <<f[i - 1], i>> \in S \X (1 .. n)
      BY <2>2, <3>1
    <3>3. f[i] = g[<<f[i - 1], i>>]
      BY <2>1 DEF Runs
    <3> QED BY <3>2, <3>3
  <2>4. \A i \in 0 .. n : f[i] = IF i = 0 THEN Whole(tokens) ELSE Part(f[i - 1], i)
    BY <1>1, <2>2, <2>3
  <2>5. f = F(f)
    BY <2>2, <2>4
  <2> QED BY <2>5
<1>5. PICK w : w = F(w) /\ Parts(tokens) = w[n]
  BY <1>4 DEF Parts, n
<1>6. w[0] \in S
  <2>1. 0 \in 0 .. n
    BY <1>1
  <2>2. w[0] = Whole(tokens)
    BY <1>5, <2>1
  <2> QED BY <1>2, <2>2
<1>7. \A i \in 1 .. n : w[i - 1] \in S => w[i] \in S
  <2> SUFFICES ASSUME NEW i \in 1 .. n, w[i - 1] \in S PROVE w[i] \in S
    OBVIOUS
  <2>1. i \in 0 .. n /\ i # 0
    BY <1>1
  <2>2. w[i] = Part(w[i - 1], i)
    BY <1>5, <2>1
  <2> QED BY <1>0, <2>2
<1>8. w[n] \in S
  BY <1>1, <1>6, <1>7, TurnsKeep
<1> QED BY <1>5, <1>8 DEF S, n

----------------------------------------------------------------------------
(* The inductive invariant *)

Obj    == {"tty", "none", "in", "out", "r", "w"} \X Nat
Tables == [Fds -> Obj]
PipeT  == [readers : Int, writers : Int, live : BOOLEAN]
KidT   == [pc : {"out", "in", "close", "exec", "run", "dead", "reaped"}, files : Tables]

\* The descriptors of m pipes.
PipesOk(fds, m) ==
  /\ fds \in Seq(Fds) /\ Len(fds) = 2 * m
  /\ \A a \in 1 .. 2 * m : fds[a] >= FirstFd
  /\ \A a, b \in 1 .. 2 * m : fds[a] = fds[b] => a = b

\* All their ends are open in table t.
Ends(t, fds, m) == \A k \in 1 .. m : t[fds[2 * k - 1]] = R(k) /\ t[fds[2 * k]] = W(k)

\* No end of a pipe is anywhere else, but for standard input and output.
OnlyAt(t, fds) ==
  \A fd \in Fds \ {0, 1} : PipeOf(t[fd]) => \E a \in 1 .. Len(fds) : fds[a] = fd
NoEnds(t) == \A fd \in Fds \ {0, 1} : ~PipeOf(t[fd])

Source(i, nm) == IF i > 1 THEN R(i - 1) ELSE IF nm.in = NullString THEN Tty ELSE <<"in", 0>>
Sink(i, m, nm) == IF i <= m THEN W(i) ELSE IF nm.out = NullString THEN Tty ELSE <<"out", 0>>

\* How far process i of a pipeline of m pipes is with its descriptors.
KidFine(k, i, fds, m, nm) ==
  /\ k.pc \in {"out", "in"} => Ends(k.files, fds, m) /\ k.files[0] = Tty
  /\ k.pc = "out" => k.files[1] = Tty
  /\ k.pc \in {"in", "close", "exec", "run"} => k.files[1] = Sink(i, m, nm)
  /\ k.pc \in {"close", "exec", "run"} => k.files[0] = Source(i, nm)
  /\ k.pc \in {"out", "in", "close"} => OnlyAt(k.files, fds)
  /\ k.pc \in {"exec", "run"} => NoEnds(k.files)

TypeR ==
  /\ sh \in {"prompt", "pipe", "fork", "close", "wait", "exited", "panic", "wild"}
  /\ input \in Inputs /\ left \in Nat
  /\ files \in Tables /\ files[0] = Tty /\ files[1] = Tty
  /\ pipes \in Seq(PipeT) /\ kids \in Seq(KidT)

ShellFine ==
  /\ sh \in {"pipe", "fork"} => Ends(files, pipefds, Len(pipes))
  /\ sh \in {"pipe", "fork", "close"} => OnlyAt(files, pipefds)
  /\ sh \in {"prompt", "wait"} => NoEnds(files)

CountsFine ==
  /\ kids # <<>> => Len(starts) = Len(pipes) + 1 /\ Len(kids) <= Len(pipes) + 1
  /\ sh \in {"fork", "close", "wait"} => Len(starts) = Len(pipes) + 1
  /\ sh = "pipe" => kids = <<>>
  /\ sh = "fork" => Len(kids) < Len(pipes) + 1
  /\ sh \in {"close", "wait"} => Len(kids) = Len(pipes) + 1
  /\ sh = "prompt" => Len(kids) = Len(pipes) + (IF kids = <<>> THEN 0 ELSE 1)

Tokens(x) == rash_split_line(rash_read_line(x.keys))
LineRead ==
  sh # "prompt" \/ kids # <<>> =>
    /\ args = Parts(Tokens(input).tokens).args
    /\ starts = Parts(Tokens(input).tokens).starts
    /\ names = Parts(Tokens(input).tokens).names
    /\ sh = "wild" => Tokens(input).over \/ Parts(Tokens(input).tokens).wild

KidsFine == \A i \in 1 .. Len(kids) : KidFine(kids[i], i, pipefds, Len(pipes), names)

RashInv ==
  /\ TypeR /\ PipesOk(pipefds, Len(pipes)) /\ ShellFine /\ CountsFine /\ LineRead /\ KidsFine

\* The array overflows only with more arguments than its first size.
LEMMA LongLine ==
  ASSUME NEW x \in Inputs, Tokens(x).over
  PROVE  Len(Parts(Tokens(x).tokens).args) > ArgBuf
<1>1. rash_read_line(x.keys) \in Words
  BY RashAssumption, LineTyped
<1>2. PICK t \in SplitT : t = Tokens(x)
  BY <1>1, OverflowIsLong DEF Tokens
<1>3. t.over => Len(t.tokens) > ArgBuf
  BY <1>2 DEF SplitT
<1>4. t.tokens \in Seq(Words)
  BY <1>2 DEF SplitT, SplitR
<1>5. Len(Parts(t.tokens).args) = Len(t.tokens)
  BY <1>4, PartsKeepLength DEF PartT
<1> QED BY <1>2, <1>3, <1>5

\* What the loop of rash_launch makes of a line that was typed.
LEMMA LineParts ==
  ASSUME NEW x \in Inputs
  PROVE  Parts(Tokens(x).tokens) \in PartR /\ Len(Parts(Tokens(x).tokens).starts) \in Nat
<1>1. rash_read_line(x.keys) \in Words
  BY RashAssumption, LineTyped
<1>2. PICK t \in SplitT : t = Tokens(x)
  BY <1>1, OverflowIsLong DEF Tokens
<1>3. t.tokens \in Seq(Words)
  BY <1>2 DEF SplitT, SplitR
<1>4. Parts(t.tokens) \in PartR
  BY <1>3, PartsKeepLength DEF PartT
<1>5. Parts(t.tokens).starts \in Seq(Nat)
  BY <1>4 DEF PartR
<1> QED BY <1>2, <1>4, <1>5

----------------------------------------------------------------------------
(* Descriptors *)

\* What a descriptor may stand for.
LEMMA Objects == /\ Tty \in Obj /\ None \in Obj /\ ~PipeOf(Tty) /\ ~PipeOf(None) /\ Tty # None
                 /\ <<"in", 0>> \in Obj /\ ~PipeOf(<<"in", 0>>)
                 /\ <<"out", 0>> \in Obj /\ ~PipeOf(<<"out", 0>>)
                 /\ \A k \in Nat : R(k) \in Obj /\ W(k) \in Obj /\ R(k) # None /\ W(k) # None
  BY DEF Tty, None, Obj, PipeOf, R, W

\* get_free_fd gives a descriptor that is not in use, or OPEN_MAX.
LEMMA FreeIs ==
  ASSUME NEW t
  PROVE  LET g == get_free_fd(t, FirstFd)
         IN  g \in Nat /\ (g < OpenMax => g \in Fds /\ g >= FirstFd /\ t[g] = None)
<1> DEFINE S == {fd \in Fds : fd >= FirstFd /\ t[fd] = None} \cup {OpenMax}
<1>1. S \in SUBSET Nat /\ S # {}
  BY RashAssumption DEF Fds
<1>2. PICK g : g = Min(S)
  OBVIOUS
<1>3. g \in S
  <2> HIDE DEF S
  <2> QED BY <1>1, <1>2, LeastOf
<1>4. get_free_fd(t, FirstFd) = g
  BY <1>2 DEF get_free_fd
<1>5. g < OpenMax => g \in Fds /\ g >= FirstFd /\ t[g] = None
  BY <1>3, RashAssumption
<1> QED BY <1>1, <1>3, <1>4, <1>5

\* Standard input and output are no descriptors that pipe gives.
LEMMA FdsAre == Fds \subseteq Nat /\ 0 \in Fds /\ 1 \in Fds /\ 0 < FirstFd /\ 1 < FirstFd /\ FirstFd \in Nat
  BY RashAssumption DEF Fds

\* The ends of a table stay where they are when other descriptors change.
LEMMA EndsStay ==
  ASSUME NEW t \in Tables, NEW fds, NEW m \in Nat, PipesOk(fds, m), Ends(t, fds, m),
         NEW u, \A fd \in Fds : (fd >= FirstFd /\ t[fd] # None) => u[fd] = t[fd]
  PROVE  Ends(u, fds, m)
<1> SUFFICES ASSUME NEW k \in 1 .. m
             PROVE  u[fds[2 * k - 1]] = R(k) /\ u[fds[2 * k]] = W(k)
  BY DEF Ends
<1>1. 2 * k - 1 \in 1 .. 2 * m /\ 2 * k \in 1 .. 2 * m /\ k \in Nat
  OBVIOUS
<1>2. fds \in Seq(Fds) /\ Len(fds) = 2 * m /\ \A a \in 1 .. 2 * m : fds[a] >= FirstFd
  BY DEF PipesOk
<1>3. \A a \in 1 .. 2 * m : fds[a] \in Fds
  BY <1>2, ElementOfSeq
<1>4. t[fds[2 * k - 1]] = R(k) /\ t[fds[2 * k]] = W(k)
  BY DEF Ends
<1>5. R(k) # None /\ W(k) # None
  BY <1>1, Objects
<1> QED BY <1>1, <1>2, <1>3, <1>4, <1>5

----------------------------------------------------------------------------
(* The processes *)

\* Nothing is asked of a shell that is gone.
LEMMA StopKeeps ==
  ASSUME RashInv, sh # "prompt" \/ kids # <<>>, sh' \in {"panic", "exited"},
         UNCHANGED <<Lines, files, pipefds, pipes, kids, left>>
  PROVE  RashInv'
<1>1. /\ UNCHANGED <<input, args, starts, names, files, pipefds, pipes, kids, left>>
  BY DEF Lines
<1>2. TypeR' /\ PipesOk(pipefds, Len(pipes))'
  BY <1>1 DEF RashInv, TypeR, PipesOk, Tables
<1>3. ShellFine'
  BY DEF ShellFine
<1>4. CountsFine'
  BY <1>1 DEF RashInv, CountsFine
<1>5. LineRead'
  BY <1>1 DEF RashInv, LineRead
<1>6. KidsFine'
  BY <1>1 DEF RashInv, KidsFine
<1> QED BY <1>2, <1>3, <1>4, <1>5, <1>6 DEF RashInv

\* A step of one process.
LEMMA KidStep ==
  ASSUME RashInv, NEW i \in 1 .. Len(kids),
         NEW k \in KidT, KidFine(k, i, pipefds, Len(pipes), names),
         kids' = [kids EXCEPT ![i] = k],
         pipes' \in Seq(PipeT), Len(pipes') = Len(pipes), UNCHANGED Shell
  PROVE  RashInv'
<1>1. UNCHANGED <<sh, input, args, starts, names, files, pipefds, left>>
  BY DEF Shell, Lines
<1>2. kids \in Seq(KidT)
  BY DEF RashInv, TypeR
<1>3. /\ kids' \in Seq(KidT) /\ Len(kids') = Len(kids) /\ kids # <<>> /\ kids' # <<>>
      /\ \A j \in 1 .. Len(kids) : kids'[j] = IF j = i THEN k ELSE kids[j]
  BY <1>2
<1>5. TypeR'
  BY <1>1, <1>3 DEF RashInv, TypeR, Tables
<1>6. PipesOk(pipefds, Len(pipes))'
  BY <1>1 DEF RashInv, PipesOk
<1>7. ShellFine'
  BY <1>1 DEF RashInv, ShellFine, Ends, OnlyAt, NoEnds
<1>8. CountsFine'
  BY <1>1, <1>3 DEF RashInv, CountsFine
<1>9. LineRead'
  BY <1>1, <1>3 DEF RashInv, LineRead
<1>10. KidsFine'
  <2> SUFFICES ASSUME NEW j \in 1 .. Len(kids)
               PROVE  KidFine(kids'[j], j, pipefds, Len(pipes), names)
    BY <1>1, <1>3 DEF KidsFine
  <2>1. CASE j = i
    BY <1>3, <2>1
  <2>2. CASE j # i
    BY <1>3, <2>2 DEF RashInv, KidsFine
  <2> QED BY <2>1, <2>2
<1> QED BY <1>5, <1>6, <1>7, <1>8, <1>9, <1>10 DEF RashInv

\* close_pipe changes counters and the life of a pipe, and no more.
LEMMA ClosePipe ==
  ASSUME RashInv, NEW o
  PROVE  close_pipe(o) \in Seq(PipeT) /\ Len(close_pipe(o)) = Len(pipes)
<1>1. pipes \in Seq(PipeT)
  BY DEF RashInv, TypeR
<1>2. CASE ~PipeOf(o)
  BY <1>1, <1>2 DEF close_pipe
<1>3. CASE PipeOf(o)
  <2> DEFINE n == o[2]
             h == [pipes[n] EXCEPT !.readers = IF o[1] = "r" THEN @ - 1 ELSE @,
                                   !.writers = IF o[1] = "w" THEN @ - 1 ELSE @]
             e == [h EXCEPT !.live = h.readers # 0 \/ h.writers # 0]
  <2>1. close_pipe(o) = [pipes EXCEPT ![n] = e]
    BY <1>3 DEF close_pipe
  <2>2. ASSUME n \in 1 .. Len(pipes) PROVE e \in PipeT
    <3>1. PICK q \in PipeT : q = pipes[n]
      BY <1>1, <2>2, ElementOfSeq
    <3>2. q.readers \in Int /\ q.writers \in Int
      BY DEF PipeT
    <3>3. PICK rd \in Int : rd = IF o[1] = "r" THEN q.readers - 1 ELSE q.readers
      BY <3>2
    <3>4. PICK wr \in Int : wr = IF o[1] = "w" THEN q.writers - 1 ELSE q.writers
      BY <3>2
    <3>5. PICK lv \in BOOLEAN : lv = (rd # 0 \/ wr # 0)
      OBVIOUS
    <3>6. h = [q EXCEPT !.readers = rd, !.writers = wr]
      BY <3>1, <3>3, <3>4 DEF PipeT
    <3>7. h \in PipeT /\ h.readers = rd /\ h.writers = wr
      <4> HIDE DEF h
      <4> QED BY <3>6 DEF PipeT
    <3> HIDE DEF h
    <3>8. e = [h EXCEPT !.live = lv]
      BY <3>5, <3>7
    <3>9. [h EXCEPT !.live = lv] \in PipeT
      BY <3>7 DEF PipeT
    <3> QED BY <3>8, <3>9
  <2> HIDE DEF e, n
  <2>3. CASE n \in 1 .. Len(pipes)
    BY <1>1, <2>1, <2>2, <2>3
  <2>4. CASE n \notin 1 .. Len(pipes)
    <3>1. [pipes EXCEPT ![n] = e] = pipes
      BY <1>1, <2>4
    <3> QED BY <1>1, <2>1, <3>1
  <2> QED BY <2>3, <2>4
<1> QED BY <1>2, <1>3

\* What is known of a process that is at work.
LEMMA KidIs ==
  ASSUME RashInv, NEW i \in 1 .. Len(kids)
  PROVE  /\ kids[i] \in KidT /\ kids[i].files \in Tables
         /\ KidFine(kids[i], i, pipefds, Len(pipes), names)
         /\ Commands = Len(pipes) + 1 /\ i \in 1 .. Len(pipes) + 1 /\ Len(pipes) \in Nat
         /\ pipes \in Seq(PipeT) /\ PipesOk(pipefds, Len(pipes))
<1>1. kids \in Seq(KidT) /\ pipes \in Seq(PipeT) /\ PipesOk(pipefds, Len(pipes))
  BY DEF RashInv, TypeR
<1>2. kids # <<>> /\ Len(kids) \in Nat /\ Len(pipes) \in Nat
  BY <1>1
<1>3. kids[i] \in KidT
  BY <1>1, ElementOfSeq
<1>4. kids[i].files \in Tables
  BY <1>3 DEF KidT
<1>5. KidFine(kids[i], i, pipefds, Len(pipes), names)
  BY DEF RashInv, KidsFine
<1>6. Len(starts) = Len(pipes) + 1 /\ Len(kids) <= Len(pipes) + 1
  BY <1>2 DEF RashInv, CountsFine
<1> QED BY <1>1, <1>2, <1>3, <1>4, <1>5, <1>6 DEF Commands

\* A process that fails is dead, and no more is asked of it.
LEMMA DeadKeeps ==
  ASSUME RashInv, NEW i \in DOMAIN kids,
         Becomes(i, "dead", kids[i].files), UNCHANGED <<Shell, pipes>>
  PROVE  RashInv'
<1>1. i \in 1 .. Len(kids)
  BY DEF RashInv, TypeR
<1> DEFINE k == [pc |-> "dead", files |-> kids[i].files]
<1>2. k \in KidT /\ k.pc = "dead"
  BY <1>1, KidIs DEF KidT
<1>3. kids' = [kids EXCEPT ![i] = k]
  BY DEF Becomes
<1> HIDE DEF k
<1>4. KidFine(k, i, pipefds, Len(pipes), names)
  BY <1>2 DEF KidFine
<1>5. UNCHANGED Shell /\ pipes' = pipes /\ pipes \in Seq(PipeT)
  BY DEF RashInv, TypeR
<1> QED BY <1>1, <1>2, <1>3, <1>4, <1>5, KidStep

\* A table in which only unused descriptors have changed, and no end of a pipe
\* has come to a new one.
LEMMA TableKeeps ==
  ASSUME NEW t \in Tables, NEW u, NEW fds, NEW m \in Nat, PipesOk(fds, m),
         \A fd \in Fds : (fd >= FirstFd /\ t[fd] # None) => u[fd] = t[fd],
         \A fd \in Fds \ {0, 1} : u[fd] = t[fd] \/ ~PipeOf(u[fd])
  PROVE  /\ Ends(t, fds, m) => Ends(u, fds, m)
         /\ OnlyAt(t, fds) => OnlyAt(u, fds)
<1>1. Ends(t, fds, m) => Ends(u, fds, m)
  BY EndsStay
<1>2. OnlyAt(t, fds) => OnlyAt(u, fds)
  BY DEF OnlyAt
<1> QED BY <1>1, <1>2

\* A file is opened at an unused descriptor and copied to fd.
LEMMA RedirectedIs ==
  ASSUME NEW t \in Tables, NEW fd \in {0, 1}, NEW o \in Obj, ~PipeOf(o),
         get_free_fd(t, FirstFd) < OpenMax
  PROVE  LET u == Redirected(t, fd, o)
         IN  /\ u \in Tables /\ u[fd] = o /\ u[1 - fd] = t[1 - fd]
             /\ \A d \in Fds : (d >= FirstFd /\ t[d] # None) => u[d] = t[d]
             /\ \A d \in Fds \ {0, 1} : u[d] = t[d] \/ ~PipeOf(u[d])
<1>1. PICK g : g = get_free_fd(t, FirstFd)
  OBVIOUS
<1>2. g \in Fds /\ g >= FirstFd /\ t[g] = None
  BY <1>1, FreeIs
<1>3. fd \in Fds /\ 1 - fd \in Fds /\ 1 - fd # fd /\ g # fd /\ g # 1 - fd
      /\ \A d \in Fds : d >= FirstFd => d # fd
  BY <1>2, FdsAre
<1>4. Redirected(t, fd, o) = [t EXCEPT ![g] = o, ![fd] = o]
  BY <1>1 DEF Redirected
<1>5. PICK u : u = [t EXCEPT ![g] = o, ![fd] = o]
  OBVIOUS
<1>6. u \in Tables /\ \A d \in Fds : u[d] = IF d = fd \/ d = g THEN o ELSE t[d]
  BY <1>2, <1>3, <1>5 DEF Tables
<1>7. u[fd] = o /\ u[1 - fd] = t[1 - fd]
  BY <1>3, <1>6
<1>8. \A d \in Fds : (d >= FirstFd /\ t[d] # None) => u[d] = t[d]
  BY <1>2, <1>3, <1>6
<1>9. \A d \in Fds \ {0, 1} : u[d] = t[d] \/ ~PipeOf(u[d])
  BY <1>6
<1> QED BY <1>4, <1>5, <1>6, <1>7, <1>8, <1>9

\* What it takes for a process to go on with table u.
LEMMA GoesOn ==
  ASSUME RashInv, NEW i \in 1 .. Len(kids),
         NEW pc \in {"in", "close", "exec", "run"}, NEW u \in Tables,
         KidFine([pc |-> pc, files |-> u], i, pipefds, Len(pipes), names),
         Becomes(i, pc, u), pipes' \in Seq(PipeT), Len(pipes') = Len(pipes), UNCHANGED Shell
  PROVE  RashInv'
<1>1. PICK k : k = [pc |-> pc, files |-> u]
  OBVIOUS
<1>2. k \in KidT
  BY <1>1 DEF KidT
<1>3. kids' = [kids EXCEPT ![i] = k]
  BY <1>1 DEF Becomes
<1>4. KidFine(k, i, pipefds, Len(pipes), names)
  BY <1>1
<1> QED BY <1>2, <1>3, <1>4, KidStep

\* Standard output of a process: the pipe behind it, or the file named.
LEMMA ChildOut ==
  ASSUME RashInv, NEW i \in DOMAIN kids, child_out(i)
  PROVE  RashInv'
<1>0. i \in 1 .. Len(kids)
  BY DEF RashInv, TypeR
<1>1. PICK t, m, nm : t = kids[i].files /\ m = Len(pipes) /\ nm = names
  OBVIOUS
<1>2. /\ t \in Tables /\ m \in Nat /\ i \in 1 .. m + 1 /\ Commands = m + 1
      /\ PipesOk(pipefds, m) /\ pipes \in Seq(PipeT)
  BY <1>0, <1>1, KidIs
<1>3. kids[i].pc = "out" /\ UNCHANGED Shell /\ pipes' = pipes
  BY DEF child_out
<1>4. Ends(t, pipefds, m) /\ t[0] = Tty /\ t[1] = Tty /\ OnlyAt(t, pipefds)
  <2>1. KidFine(kids[i], i, pipefds, m, nm)
    BY <1>0, <1>1, KidIs
  <2> QED BY <1>1, <1>3, <2>1 DEF KidFine
<1>5. \A u : u \in Tables /\ Ends(u, pipefds, m) /\ u[0] = Tty /\ u[1] = Sink(i, m, nm)
              /\ OnlyAt(u, pipefds) /\ Becomes(i, "in", u)
            => RashInv'
  <2> SUFFICES ASSUME NEW u \in Tables, Ends(u, pipefds, m), u[0] = Tty, u[1] = Sink(i, m, nm),
                      OnlyAt(u, pipefds), Becomes(i, "in", u)
               PROVE  RashInv'
    OBVIOUS
  <2>1. KidFine([pc |-> "in", files |-> u], i, pipefds, Len(pipes), names)
    BY <1>1 DEF KidFine
  <2> QED BY <1>0, <1>2, <1>3, <2>1, GoesOn
<1>6. CASE i < Commands /\ Becomes(i, "in", [t EXCEPT ![1] = t[pipefds[2 * i]]])
  <2>1. i \in 1 .. m /\ 2 * i \in 1 .. 2 * m /\ i \in Nat
    BY <1>2, <1>6
  <2>2. t[pipefds[2 * i]] = W(i)
    BY <1>4, <2>1 DEF Ends
  <2>3. PICK u : u = [t EXCEPT ![1] = W(i)]
    OBVIOUS
  <2>4. u \in Tables /\ u[0] = Tty /\ u[1] = W(i) /\ \A fd \in Fds : fd # 1 => u[fd] = t[fd]
    BY <1>2, <1>4, <2>1, <2>3, Objects, FdsAre DEF Tables
  <2>5. Ends(u, pipefds, m) /\ OnlyAt(u, pipefds)
    <3>1. \A fd \in Fds : fd >= FirstFd => fd # 1
      BY FdsAre
    <3> QED BY <1>2, <1>4, <2>4, <3>1, TableKeeps
  <2>6. Sink(i, m, nm) = W(i)
    BY <2>1 DEF Sink
  <2> QED BY <1>5, <1>6, <2>2, <2>3, <2>4, <2>5, <2>6
<1>7. CASE /\ i = Commands /\ names.out # NullString /\ get_free_fd(t, FirstFd) < OpenMax
           /\ Becomes(i, "in", Redirected(t, 1, <<"out", 0>>))
  <2>1. PICK u : u = Redirected(t, 1, <<"out", 0>>)
    OBVIOUS
  <2>2. /\ u \in Tables /\ u[1] = <<"out", 0>> /\ u[0] = t[0]
        /\ \A d \in Fds : (d >= FirstFd /\ t[d] # None) => u[d] = t[d]
        /\ \A d \in Fds \ {0, 1} : u[d] = t[d] \/ ~PipeOf(u[d])
    <3>1. 1 \in {0, 1} /\ 1 - 1 = 0
      OBVIOUS
    <3> QED BY <1>2, <1>7, <2>1, <3>1, RedirectedIs, Objects, SMTT(30)
  <2>3. Ends(u, pipefds, m) /\ OnlyAt(u, pipefds)
    BY <1>2, <1>4, <2>2, TableKeeps
  <2>4. Sink(i, m, nm) = <<"out", 0>>
    BY <1>1, <1>2, <1>7 DEF Sink
  <2> QED BY <1>4, <1>5, <1>7, <2>1, <2>2, <2>3, <2>4
<1>8. CASE i = Commands /\ names.out = NullString /\ Becomes(i, "in", t)
  <2>1. Sink(i, m, nm) = Tty
    BY <1>1, <1>2, <1>8 DEF Sink
  <2> QED BY <1>2, <1>4, <1>5, <1>8, <2>1
<1> QED BY <1>1, <1>6, <1>7, <1>8 DEF child_out

\* Standard input of a process: the pipe in front of it, or the file named.
LEMMA ChildIn ==
  ASSUME RashInv, NEW i \in DOMAIN kids, child_in(i)
  PROVE  RashInv'
<1>0. i \in 1 .. Len(kids)
  BY DEF RashInv, TypeR
<1>1. PICK t, m, nm : t = kids[i].files /\ m = Len(pipes) /\ nm = names
  OBVIOUS
<1>2. /\ t \in Tables /\ m \in Nat /\ i \in 1 .. m + 1
      /\ PipesOk(pipefds, m) /\ pipes \in Seq(PipeT)
  BY <1>0, <1>1, KidIs
<1>3. kids[i].pc = "in" /\ UNCHANGED Shell /\ pipes' = pipes
  BY DEF child_in
<1>4. Ends(t, pipefds, m) /\ t[0] = Tty /\ t[1] = Sink(i, m, nm) /\ OnlyAt(t, pipefds)
  <2>1. KidFine(kids[i], i, pipefds, m, nm)
    BY <1>0, <1>1, KidIs
  <2> QED BY <1>1, <1>3, <2>1 DEF KidFine
<1>5. \A u : u \in Tables /\ u[0] = Source(i, nm) /\ u[1] = t[1]
              /\ OnlyAt(u, pipefds) /\ Becomes(i, "close", u)
            => RashInv'
  <2> SUFFICES ASSUME NEW u \in Tables, u[0] = Source(i, nm), u[1] = t[1],
                      OnlyAt(u, pipefds), Becomes(i, "close", u)
               PROVE  RashInv'
    OBVIOUS
  <2>1. KidFine([pc |-> "close", files |-> u], i, pipefds, Len(pipes), names)
    BY <1>1, <1>4 DEF KidFine
  <2> QED BY <1>0, <1>2, <1>3, <2>1, GoesOn
<1>6. CASE i > 1 /\ Becomes(i, "close", [t EXCEPT ![0] = t[InputEnd(i)]])
  <2>1. PICK k \in 1 .. m : k = i - 1 /\ 2 * i - 3 = 2 * k - 1 /\ k \in Nat
    BY <1>2, <1>6
  <2>2. t[InputEnd(i)] = R(k)
    BY <1>4, <2>1 DEF Ends, InputEnd
  <2>3. PICK u : u = [t EXCEPT ![0] = R(k)]
    OBVIOUS
  <2>4. u \in Tables /\ u[0] = R(k) /\ \A fd \in Fds : fd # 0 => u[fd] = t[fd]
    BY <1>2, <2>1, <2>3, Objects, FdsAre DEF Tables
  <2>5. OnlyAt(u, pipefds) /\ u[1] = t[1]
    <3>1. \A fd \in Fds : fd >= FirstFd => fd # 0
      BY FdsAre
    <3>2. OnlyAt(u, pipefds)
      BY <1>2, <1>4, <2>4, <3>1, TableKeeps
    <3> QED BY <2>4, <3>2, FdsAre
  <2>6. Source(i, nm) = R(k)
    BY <1>6, <2>1 DEF Source
  <2> QED BY <1>5, <1>6, <2>2, <2>3, <2>4, <2>5, <2>6
<1>7. CASE /\ i = 1 /\ names.in # NullString /\ get_free_fd(t, FirstFd) < OpenMax
           /\ Becomes(i, "close", Redirected(t, 0, <<"in", 0>>))
  <2>1. PICK u : u = Redirected(t, 0, <<"in", 0>>)
    OBVIOUS
  <2>2. /\ u \in Tables /\ u[0] = <<"in", 0>> /\ u[1] = t[1]
        /\ \A d \in Fds : (d >= FirstFd /\ t[d] # None) => u[d] = t[d]
        /\ \A d \in Fds \ {0, 1} : u[d] = t[d] \/ ~PipeOf(u[d])
    <3>1. 0 \in {0, 1} /\ 1 - 0 = 1
      OBVIOUS
    <3> QED BY <1>2, <1>7, <2>1, <3>1, RedirectedIs, Objects, SMTT(30)
  <2>3. OnlyAt(u, pipefds)
    BY <1>2, <1>4, <2>2, TableKeeps
  <2>4. Source(i, nm) = <<"in", 0>>
    BY <1>1, <1>2, <1>7 DEF Source
  <2> QED BY <1>5, <1>7, <2>1, <2>2, <2>3, <2>4
<1>8. CASE i = 1 /\ names.in = NullString /\ Becomes(i, "close", t)
  <2>1. Source(i, nm) = Tty
    BY <1>1, <1>2, <1>8 DEF Source
  <2> QED BY <1>2, <1>4, <1>5, <1>8, <2>1
<1> QED BY <1>1, <1>6, <1>7, <1>8 DEF child_in

\* The next descriptor to close is one of a pipe and is open; with none left
\* no end of a pipe is open, but for standard input and output.
LEMMA Closing ==
  ASSUME NEW t \in Tables, NEW m \in Nat, PipesOk(pipefds, m), OnlyAt(t, pipefds)
  PROVE  /\ ToClose(t) = {} => NoEnds(t)
         /\ ToClose(t) # {} =>
              /\ NextOf(t) \in Fds /\ NextOf(t) >= FirstFd
              /\ [t EXCEPT ![NextOf(t)] = None] \in Tables
              /\ [t EXCEPT ![NextOf(t)] = None][0] = t[0]
              /\ [t EXCEPT ![NextOf(t)] = None][1] = t[1]
              /\ OnlyAt([t EXCEPT ![NextOf(t)] = None], pipefds)
<1>1. /\ pipefds \in Seq(Fds) /\ Len(pipefds) = 2 * m /\ DOMAIN pipefds = 1 .. 2 * m
      /\ \A a \in 1 .. 2 * m : pipefds[a] \in Fds /\ pipefds[a] >= FirstFd
  BY ElementOfSeq DEF PipesOk
<1>2. ASSUME ToClose(t) = {} PROVE NoEnds(t)
  BY <1>1, <1>2, Objects DEF NoEnds, OnlyAt, ToClose
<1>3. ASSUME ToClose(t) # {}
      PROVE  /\ NextOf(t) \in Fds /\ NextOf(t) >= FirstFd
             /\ [t EXCEPT ![NextOf(t)] = None] \in Tables
             /\ [t EXCEPT ![NextOf(t)] = None][0] = t[0]
             /\ [t EXCEPT ![NextOf(t)] = None][1] = t[1]
             /\ OnlyAt([t EXCEPT ![NextOf(t)] = None], pipefds)
  <2>1. ToClose(t) \in SUBSET Nat
    BY <1>1 DEF ToClose
  <2>2. Min(ToClose(t)) \in ToClose(t)
    BY <1>3, <2>1, LeastOf
  <2>3. PICK g : g = NextOf(t)
    OBVIOUS
  <2>4. g \in Fds /\ g >= FirstFd
    BY <1>1, <2>2, <2>3 DEF NextOf, ToClose
  <2>5. PICK u : u = [t EXCEPT ![g] = None]
    OBVIOUS
  <2>6. u \in Tables /\ \A fd \in Fds : u[fd] = IF fd = g THEN None ELSE t[fd]
    BY <2>4, <2>5, Objects DEF Tables
  <2>7. u[0] = t[0] /\ u[1] = t[1]
    BY <2>4, <2>6, FdsAre
  <2>8. OnlyAt(u, pipefds)
    BY <2>6, Objects DEF OnlyAt
  <2> QED BY <2>3, <2>4, <2>5, <2>6, <2>7, <2>8
<1> QED BY <1>2, <1>3

\* A process closes what it has copied; a pipe that is gone stops the machine.
LEMMA ChildClose ==
  ASSUME RashInv, NEW i \in DOMAIN kids, child_close(i)
  PROVE  RashInv'
<1>0. i \in 1 .. Len(kids)
  BY DEF RashInv, TypeR
<1>1. PICK t, m, nm : t = kids[i].files /\ m = Len(pipes) /\ nm = names
  OBVIOUS
<1>2. /\ t \in Tables /\ m \in Nat /\ PipesOk(pipefds, m) /\ pipes \in Seq(PipeT)
  BY <1>0, <1>1, KidIs
<1>3. kids[i].pc = "close"
  BY DEF child_close
<1>4. t[0] = Source(i, nm) /\ t[1] = Sink(i, m, nm) /\ OnlyAt(t, pipefds)
  <2>1. KidFine(kids[i], i, pipefds, m, nm)
    BY <1>0, <1>1, KidIs
  <2> QED BY <1>1, <1>3, <2>1 DEF KidFine
<1>5. CASE ToClose(t) = {} /\ Becomes(i, "exec", t) /\ UNCHANGED <<Shell, pipes>>
  <2>1. NoEnds(t)
    BY <1>2, <1>4, <1>5, Closing
  <2>2. KidFine([pc |-> "exec", files |-> t], i, pipefds, Len(pipes), names)
    BY <1>1, <1>4, <2>1 DEF KidFine
  <2>3. UNCHANGED Shell /\ pipes' = pipes
    BY <1>5
  <2> QED BY <1>0, <1>2, <1>3, <1>5, <2>2, <2>3, GoesOn
<1>6. CASE /\ ToClose(t) # {} /\ Becomes(i, "close", [t EXCEPT ![NextOf(t)] = None])
           /\ pipes' = close_pipe(t[NextOf(t)]) /\ UNCHANGED Shell
  <2>1. PICK u : u = [t EXCEPT ![NextOf(t)] = None]
    OBVIOUS
  <2>2. u \in Tables /\ u[0] = t[0] /\ u[1] = t[1] /\ OnlyAt(u, pipefds)
    BY <1>2, <1>4, <1>6, <2>1, Closing
  <2>3. KidFine([pc |-> "close", files |-> u], i, pipefds, Len(pipes), names)
    BY <1>1, <1>4, <2>2 DEF KidFine
  <2>4. pipes' \in Seq(PipeT) /\ Len(pipes') = Len(pipes)
    BY <1>6, ClosePipe
  <2> QED BY <1>0, <1>3, <1>6, <2>1, <2>2, <2>3, <2>4, GoesOn
<1>7. CASE sh' = "panic" /\ UNCHANGED <<Lines, files, pipefds, pipes, kids, left>>
  <2>1. kids # <<>>
    BY <1>0 DEF RashInv, TypeR
  <2> QED BY <1>7, <2>1, StopKeeps
<1> QED BY <1>1, <1>5, <1>6, <1>7 DEF child_close

\* All that a process does.
LEMMA ChildSteps ==
  ASSUME RashInv, NEW i \in DOMAIN kids,
         \/ child_fails(i) \/ child_out(i) \/ child_in(i) \/ child_close(i)
         \/ execv(i) \/ ends(i)
  PROVE  RashInv'
<1>1. CASE child_fails(i)
  BY <1>1, DeadKeeps DEF child_fails
<1>2. CASE ends(i)
  BY <1>2, DeadKeeps DEF ends
<1>3. CASE execv(i)
  <2>0. i \in 1 .. Len(kids)
    BY DEF RashInv, TypeR
  <2>1. PICK t : t = kids[i].files
    OBVIOUS
  <2>2. kids[i].pc = "exec" /\ Becomes(i, "run", t) /\ UNCHANGED Shell /\ pipes' = pipes
    BY <1>3, <2>1 DEF execv
  <2>3. t \in Tables /\ pipes \in Seq(PipeT)
    BY <2>0, <2>1, KidIs
  <2>4. KidFine([pc |-> "run", files |-> t], i, pipefds, Len(pipes), names)
    <3>1. KidFine(kids[i], i, pipefds, Len(pipes), names)
      BY <2>0, KidIs
    <3> QED BY <2>1, <2>2, <3>1 DEF KidFine
  <2> QED BY <2>0, <2>2, <2>3, <2>4, GoesOn
<1> QED BY <1>1, <1>2, <1>3, ChildOut, ChildIn, ChildClose


----------------------------------------------------------------------------
(* The shell *)

\* rash_loop starts a line with nothing left of the one before.
LEMMA ReadsLine ==
  ASSUME RashInv, rash_loop
  PROVE  RashInv'
<1> DEFINE t == Tokens(input')
           p == Parts(t.tokens)
<1>1. /\ sh = "prompt" /\ args' = p.args /\ starts' = p.starts /\ names' = p.names
      /\ sh' = IF t.over \/ (rash_execute(t.tokens) = "pipe" /\ p.wild) THEN "wild"
               ELSE rash_execute(t.tokens)
      /\ input' \in Inputs
      /\ kids' = <<>> /\ pipes' = <<>> /\ pipefds' = <<>> /\ files' = files /\ left' = left
  BY DEF rash_loop, Tokens
<1>2. rash_execute(t.tokens) \in {"prompt", "exited", "pipe"}
  BY DEF rash_execute, builtin_func
<1> HIDE DEF t, p
<1>3. sh' \in {"prompt", "exited", "pipe", "wild"} /\ (sh' = "wild" => t.over \/ p.wild)
  BY <1>1, <1>2
<1>4. Len(kids') = 0 /\ Len(pipes') = 0 /\ Len(pipefds') = 0 /\ 1 .. 0 = {}
  BY <1>1
<1>5. NoEnds(files) /\ files \in Tables /\ files[0] = Tty /\ files[1] = Tty
      /\ left \in Nat
  BY <1>1 DEF RashInv, TypeR, ShellFine
<1>6. TypeR'
  <2>2. kids' \in Seq(KidT) /\ pipes' \in Seq(PipeT)
    BY <1>1
  <2> QED BY <1>1, <1>3, <1>5, <2>2 DEF TypeR, Tables
<1>7. PipesOk(pipefds, Len(pipes))'
  <2>1. pipefds' \in Seq(Fds) /\ 2 * 0 = 0
    BY <1>1
  <2> QED BY <1>4, <2>1 DEF PipesOk
<1>8. ShellFine'
  BY <1>1, <1>3, <1>4, <1>5 DEF ShellFine, Ends, OnlyAt, NoEnds, PipeOf
<1>9. CountsFine'
  BY <1>1, <1>3, <1>4 DEF CountsFine
<1>10. LineRead'
  <2> SUFFICES ASSUME sh' # "prompt"
               PROVE  /\ args' = Parts(Tokens(input').tokens).args
                      /\ starts' = Parts(Tokens(input').tokens).starts
                      /\ names' = Parts(Tokens(input').tokens).names
                      /\ sh' = "wild" => Tokens(input').over \/ Parts(Tokens(input').tokens).wild
    BY <1>1 DEF LineRead, Tokens
  <2> QED BY <1>1, <1>3 DEF t, p
<1>11. KidsFine'
  BY <1>4 DEF KidsFine
<1> QED BY <1>6, <1>7, <1>8, <1>9, <1>10, <1>11 DEF RashInv

\* The ends of a new pipe are at two descriptors that were not in use.
LEMMA NewPipe ==
  ASSUME NEW t \in Tables, NEW fds, NEW m \in Nat, PipesOk(fds, m), Ends(t, fds, m),
         OnlyAt(t, fds), NEW r \in Fds, NEW w \in Fds, r >= FirstFd, w >= FirstFd, r # w,
         t[r] = None, t[w] = None
  PROVE  \A u, gds : /\ u = [t EXCEPT ![r] = R(m + 1), ![w] = W(m + 1)]
                     /\ gds = fds \o <<r, w>>
           => /\ u \in Tables /\ u[0] = t[0] /\ u[1] = t[1]
              /\ PipesOk(gds, m + 1) /\ Ends(u, gds, m + 1) /\ OnlyAt(u, gds)
<1> TAKE u, gds
<1>1. HAVE /\ u = [t EXCEPT ![r] = R(m + 1), ![w] = W(m + 1)]
           /\ gds = fds \o <<r, w>>
<1>3. /\ u \in Tables
      /\ \A fd \in Fds : u[fd] = IF fd = w THEN W(m + 1) ELSE IF fd = r THEN R(m + 1) ELSE t[fd]
  <2>1. R(m + 1) \in Obj /\ W(m + 1) \in Obj
    BY Objects
  <2> QED BY <1>1, <2>1 DEF Tables
<1>4. fds \in Seq(Fds) /\ Len(fds) = 2 * m /\ (\A a \in 1 .. 2 * m : fds[a] >= FirstFd)
      /\ \A a \in 1 .. 2 * m : fds[a] \in Fds
  BY ElementOfSeq DEF PipesOk
<1>5. /\ gds \in Seq(Fds) /\ Len(gds) = 2 * (m + 1)
      /\ \A a \in 1 .. 2 * m : gds[a] = fds[a]
      /\ gds[2 * m + 1] = r /\ gds[2 * m + 2] = w
  <2>1. PICK q : q = <<r, w>>
    OBVIOUS
  <2>2. q \in Seq(Fds) /\ Len(q) = 2 /\ q[1] = r /\ q[2] = w
    BY <2>1
  <2>3. /\ fds \o q \in Seq(Fds) /\ Len(fds \o q) = 2 * m + 2
        /\ \A a \in 1 .. 2 * m + 2 : (fds \o q)[a] = IF a <= 2 * m THEN fds[a] ELSE q[a - 2 * m]
    <3>1. /\ fds \o q \in Seq(Fds) /\ Len(fds \o q) = Len(fds) + Len(q)
          /\ \A a \in 1 .. Len(fds) + Len(q) :
               (fds \o q)[a] = IF a <= Len(fds) THEN fds[a] ELSE q[a - Len(fds)]
      BY <1>4, <2>2, ConcatProperties
    <3>2. Len(fds) = 2 * m /\ Len(q) = 2
      BY <1>4, <2>2
    <3> QED BY <3>1, <3>2
  <2>4. /\ 2 * m + 1 \in 1 .. 2 * m + 2 /\ ~(2 * m + 1 <= 2 * m) /\ 2 * m + 1 - 2 * m = 1
        /\ 2 * m + 2 \in 1 .. 2 * m + 2 /\ ~(2 * m + 2 <= 2 * m) /\ 2 * m + 2 - 2 * m = 2
        /\ 2 * m + 2 = 2 * (m + 1) /\ \A a \in 1 .. 2 * m : a \in 1 .. 2 * m + 2 /\ a <= 2 * m
    OBVIOUS
  <2>5. \A a \in 1 .. 2 * m : (fds \o q)[a] = fds[a]
    BY <2>3, <2>4
  <2>6. (fds \o q)[2 * m + 1] = r /\ (fds \o q)[2 * m + 2] = w
    BY <2>2, <2>3, <2>4
  <2> QED BY <1>1, <2>1, <2>3, <2>4, <2>5, <2>6
<1>6. \A a \in 1 .. 2 * m : t[fds[a]] # None
  <2> SUFFICES ASSUME NEW a \in 1 .. 2 * m PROVE t[fds[a]] # None
    OBVIOUS
  <2>1. PICK k \in 1 .. m : a = 2 * k - 1 \/ a = 2 * k
    <3>1. (a + 1) \div 2 \in 1 .. m
      OBVIOUS
    <3>2. a = 2 * ((a + 1) \div 2) - 1 \/ a = 2 * ((a + 1) \div 2)
      OBVIOUS
    <3> QED BY <3>1, <3>2
  <2>2. R(k) # None /\ W(k) # None
    BY Objects
  <2> QED BY <2>1, <2>2 DEF Ends
<1>7. \A a \in 1 .. 2 * m : fds[a] # r /\ fds[a] # w
  BY <1>6
<1>8. \A a \in 1 .. 2 * (m + 1) : a \in 1 .. 2 * m \/ a = 2 * m + 1 \/ a = 2 * m + 2
  OBVIOUS
<1>9. PipesOk(gds, m + 1)
  <2>1. \A a \in 1 .. 2 * (m + 1) : gds[a] >= FirstFd
    BY <1>4, <1>5, <1>8
  <2>2. \A a, b \in 1 .. 2 * m : fds[a] = fds[b] => a = b
    BY DEF PipesOk
  <2>3. ASSUME NEW a \in 1 .. 2 * (m + 1), NEW b \in 1 .. 2 * (m + 1), gds[a] = gds[b]
        PROVE  a = b
    <3>1. CASE a \in 1 .. 2 * m /\ b \in 1 .. 2 * m
      BY <1>5, <2>2, <2>3, <3>1
    <3>2. CASE a \in 1 .. 2 * m /\ b \notin 1 .. 2 * m
      BY <1>5, <1>7, <1>8, <2>3, <3>2
    <3>3. CASE a \notin 1 .. 2 * m /\ b \in 1 .. 2 * m
      BY <1>5, <1>7, <1>8, <2>3, <3>3
    <3>4. CASE a \notin 1 .. 2 * m /\ b \notin 1 .. 2 * m
      BY <1>5, <1>8, <2>3, <3>4
    <3> QED BY <3>1, <3>2, <3>3, <3>4
  <2> QED BY <1>5, <2>1, <2>3 DEF PipesOk
<1>10. Ends(u, gds, m + 1)
  <2> SUFFICES ASSUME NEW k \in 1 .. m + 1
               PROVE  u[gds[2 * k - 1]] = R(k) /\ u[gds[2 * k]] = W(k)
    BY DEF Ends
  <2>1. CASE k = m + 1
    <3>1. 2 * k - 1 = 2 * m + 1 /\ 2 * k = 2 * m + 2
      BY <2>1
    <3> QED BY <1>3, <1>5, <2>1, <3>1
  <2>2. CASE k # m + 1
    <3>1. k \in 1 .. m /\ 2 * k - 1 \in 1 .. 2 * m /\ 2 * k \in 1 .. 2 * m
      BY <2>2
    <3>2. t[fds[2 * k - 1]] = R(k) /\ t[fds[2 * k]] = W(k)
      BY <3>1 DEF Ends
    <3> QED BY <1>3, <1>4, <1>5, <1>7, <3>1, <3>2
  <2> QED BY <2>1, <2>2
<1>11. OnlyAt(u, gds)
  <2> SUFFICES ASSUME NEW fd \in Fds \ {0, 1}, PipeOf(u[fd])
               PROVE  \E a \in 1 .. 2 * (m + 1) : gds[a] = fd
    BY <1>5 DEF OnlyAt
  <2>1. CASE fd = r
    <3>1. 2 * m + 1 \in 1 .. 2 * (m + 1)
      OBVIOUS
    <3> QED BY <1>5, <2>1, <3>1
  <2>2. CASE fd = w
    <3>1. 2 * m + 2 \in 1 .. 2 * (m + 1)
      OBVIOUS
    <3> QED BY <1>5, <2>2, <3>1
  <2>3. CASE fd # r /\ fd # w
    <3>1. PICK a \in 1 .. 2 * m : fds[a] = fd
      BY <1>3, <1>4, <2>3 DEF OnlyAt
    <3>2. a \in 1 .. 2 * (m + 1)
      OBVIOUS
    <3> QED BY <1>5, <3>1, <3>2
  <2> QED BY <2>1, <2>2, <2>3
<1>12. u[0] = t[0] /\ u[1] = t[1]
  <2>1. 0 # r /\ 0 # w /\ 1 # r /\ 1 # w
    BY FdsAre
  <2> QED BY <1>3, <2>1, FdsAre
<1> QED BY <1>3, <1>9, <1>10, <1>11, <1>12

\* pipe gives the two ends of the next pipe.
LEMMA MakesPipe ==
  ASSUME RashInv, pipe
  PROVE  RashInv'
<1>1. PICK r, w, m : /\ r = get_free_fd(files, FirstFd)
                     /\ w = get_free_fd([files EXCEPT ![r] = Tty], FirstFd) /\ m = Len(pipes)
  OBVIOUS
<1>2. /\ sh = "pipe" /\ r < OpenMax /\ w < OpenMax
      /\ files' = [files EXCEPT ![r] = R(m + 1), ![w] = W(m + 1)]
      /\ pipefds' = pipefds \o <<r, w>>
      /\ pipes' = Append(pipes, [readers |-> 2, writers |-> 2, live |-> TRUE])
      /\ UNCHANGED <<input, args, starts, names, sh, kids, left>>
  BY <1>1 DEF pipe, Lines
<1>3. /\ files \in Tables /\ files[0] = Tty /\ files[1] = Tty /\ pipes \in Seq(PipeT)
      /\ m \in Nat /\ PipesOk(pipefds, m) /\ Ends(files, pipefds, m) /\ OnlyAt(files, pipefds)
      /\ kids = <<>>
  BY <1>1, <1>2 DEF RashInv, TypeR, ShellFine, CountsFine
<1>4. r \in Fds /\ r >= FirstFd /\ files[r] = None
  BY <1>1, <1>2, FreeIs
<1>5. w \in Fds /\ w >= FirstFd /\ files[w] = None /\ r # w
  <2>1. w \in Fds /\ w >= FirstFd /\ [files EXCEPT ![r] = Tty][w] = None
    BY <1>1, <1>2, FreeIs
  <2> QED BY <1>3, <1>4, <2>1, Objects DEF Tables
<1>6. /\ files' \in Tables /\ files'[0] = Tty /\ files'[1] = Tty
      /\ PipesOk(pipefds', m + 1) /\ Ends(files', pipefds', m + 1) /\ OnlyAt(files', pipefds')
  <2>1. PICK u, gds : /\ u = [files EXCEPT ![r] = R(m + 1), ![w] = W(m + 1)]
                      /\ gds = pipefds \o <<r, w>>
    OBVIOUS
  <2>2. /\ u \in Tables /\ u[0] = files[0] /\ u[1] = files[1]
        /\ PipesOk(gds, m + 1) /\ Ends(u, gds, m + 1) /\ OnlyAt(u, gds)
    <3>1. \A v, gs : /\ v = [files EXCEPT ![r] = R(m + 1), ![w] = W(m + 1)]
                     /\ gs = pipefds \o <<r, w>>
            => /\ v \in Tables /\ v[0] = files[0] /\ v[1] = files[1]
               /\ PipesOk(gs, m + 1) /\ Ends(v, gs, m + 1) /\ OnlyAt(v, gs)
      <4>1. /\ files \in Tables /\ m \in Nat /\ PipesOk(pipefds, m) /\ Ends(files, pipefds, m)
            /\ OnlyAt(files, pipefds) /\ r \in Fds /\ w \in Fds /\ r >= FirstFd /\ w >= FirstFd
            /\ r # w /\ files[r] = None /\ files[w] = None
        BY <1>3, <1>4, <1>5
      <4> QED BY <4>1, NewPipe, Zenon
    <3> QED BY <2>1, <3>1
  <2>3. files' = u /\ pipefds' = gds
    BY <1>2, <2>1
  <2> QED BY <1>3, <2>2, <2>3
<1>7. pipes' \in Seq(PipeT) /\ Len(pipes') = m + 1
  <2>1. [readers |-> 2, writers |-> 2, live |-> TRUE] \in PipeT
    BY DEF PipeT
  <2> QED BY <1>1, <1>2, <1>3, <2>1, AppendProperties
<1>8. TypeR'
  BY <1>2, <1>6, <1>7 DEF RashInv, TypeR, Tables
<1>9. PipesOk(pipefds, Len(pipes))'
  BY <1>6, <1>7 DEF PipesOk
<1>10. ShellFine'
  BY <1>2, <1>6, <1>7 DEF ShellFine, Ends, OnlyAt
<1>11. CountsFine'
  BY <1>2, <1>3 DEF CountsFine
<1>12. LineRead'
  BY <1>2 DEF RashInv, LineRead
<1>13. KidsFine'
  BY <1>2, <1>3 DEF KidsFine
<1> QED BY <1>8, <1>9, <1>10, <1>11, <1>12, <1>13 DEF RashInv

\* A pipe for every bar of the line.
LEMMA PipesDone ==
  ASSUME RashInv, pipes_done
  PROVE  RashInv'
<1>1. /\ sh = "pipe" /\ Len(pipes) = Len(starts) - 1 /\ sh' = "fork"
      /\ UNCHANGED <<input, args, starts, names, files, pipefds, pipes, kids, left>>
  BY DEF pipes_done, Lines, Commands
<1>2. kids = <<>> /\ pipes \in Seq(PipeT) /\ Ends(files, pipefds, Len(pipes)) /\ OnlyAt(files, pipefds)
  BY <1>1 DEF RashInv, TypeR, CountsFine, ShellFine
<1>3. Len(pipes) \in Nat /\ Len(kids) = 0
  BY <1>2
<1>4. starts = Parts(Tokens(input).tokens).starts /\ input \in Inputs
  BY <1>1 DEF RashInv, LineRead, TypeR
<1>5. Len(starts) \in Nat
  BY <1>4, LineParts
<1>6. TypeR' /\ PipesOk(pipefds, Len(pipes))'
  BY <1>1 DEF RashInv, TypeR, PipesOk, Tables
<1>7. ShellFine'
  BY <1>1, <1>2 DEF ShellFine, Ends, OnlyAt
<1>8. CountsFine'
  <2>1. Len(starts) = Len(pipes) + 1
    BY <1>1, <1>3, <1>5
  <2> QED BY <1>1, <1>2, <1>3, <2>1 DEF CountsFine
<1>9. LineRead'
  BY <1>1 DEF RashInv, LineRead
<1>10. KidsFine'
  BY <1>1, <1>3 DEF KidsFine
<1> QED BY <1>6, <1>7, <1>8, <1>9, <1>10 DEF RashInv

\* A new process has the descriptors of the shell.
LEMMA Forks ==
  ASSUME RashInv, fork
  PROVE  RashInv'
<1>1. PICK n, m : n = Len(kids) /\ m = Len(pipes)
  OBVIOUS
<1>2. /\ sh = "fork" /\ kids' = Append(kids, [pc |-> "out", files |-> files])
      /\ sh' = IF n + 1 = Len(starts) THEN "close" ELSE "fork"
      /\ UNCHANGED <<input, args, starts, names, files, pipefds, pipes, left>>
  BY <1>1 DEF fork, Lines, Commands
<1>3. /\ n \in Nat /\ m \in Nat /\ Len(starts) = m + 1 /\ n < m + 1
      /\ Ends(files, pipefds, m) /\ OnlyAt(files, pipefds)
      /\ files \in Tables /\ files[0] = Tty /\ files[1] = Tty /\ kids \in Seq(KidT)
  BY <1>1, <1>2 DEF RashInv, TypeR, CountsFine, ShellFine
<1>4. PICK k : k = [pc |-> "out", files |-> files]
  OBVIOUS
<1>5. k \in KidT /\ k.pc = "out" /\ k.files = files
  BY <1>3, <1>4 DEF KidT
<1>6. /\ kids' \in Seq(KidT) /\ Len(kids') = n + 1 /\ kids' # <<>> /\ kids'[n + 1] = k
      /\ \A i \in 1 .. n : kids'[i] = kids[i]
  BY <1>1, <1>2, <1>3, <1>4, <1>5, AppendProperties
<1>7. \A i \in 1 .. n + 1 : i \in 1 .. n \/ i = n + 1
  BY <1>3
<1>9. TypeR' /\ PipesOk(pipefds, Len(pipes))'
  BY <1>2, <1>6 DEF RashInv, TypeR, PipesOk, Tables
<1>10. ShellFine'
  BY <1>1, <1>2, <1>3 DEF ShellFine, Ends, OnlyAt
<1>11. CountsFine'
  BY <1>1, <1>2, <1>3, <1>6 DEF CountsFine
<1>12. LineRead'
  BY <1>2 DEF RashInv, LineRead
<1>13. KidsFine'
  <2> SUFFICES ASSUME NEW i \in 1 .. n + 1
               PROVE  KidFine(kids'[i], i, pipefds, m, names)
    BY <1>1, <1>2, <1>6 DEF KidsFine
  <2>1. CASE i = n + 1
    BY <1>3, <1>5, <1>6, <2>1 DEF KidFine
  <2>2. CASE i \in 1 .. n
    BY <1>1, <1>6, <2>2 DEF RashInv, KidsFine
  <2> QED BY <1>7, <2>1, <2>2
<1> QED BY <1>9, <1>10, <1>11, <1>12, <1>13 DEF RashInv

\* The shell closes its own ends and goes on to wait.
LEMMA ShellCloses ==
  ASSUME RashInv, shell_close
  PROVE  RashInv'
<1>1. PICK m : m = Len(pipes)
  OBVIOUS
<1>2. sh = "close"
  BY DEF shell_close
<1>3. /\ m \in Nat /\ Len(starts) = m + 1 /\ Len(kids) = m + 1
      /\ OnlyAt(files, pipefds) /\ PipesOk(pipefds, m) /\ kids \in Seq(KidT)
      /\ files \in Tables /\ files[0] = Tty /\ files[1] = Tty
  BY <1>1, <1>2 DEF RashInv, TypeR, CountsFine, ShellFine
<1>4. CASE /\ ToClose(files) = {} /\ sh' = "wait" /\ left' = Waits
           /\ UNCHANGED <<Lines, files, pipefds, pipes, kids>>
  <2>1. left' = m + 1 /\ UNCHANGED <<input, args, starts, names, files, pipefds, pipes, kids>>
    BY <1>1, <1>4 DEF Waits, Lines
  <2>2. NoEnds(files)
    BY <1>3, <1>4, Closing
  <2>3. TypeR' /\ PipesOk(pipefds, Len(pipes))'
    BY <1>3, <1>4, <2>1 DEF RashInv, TypeR, PipesOk, Tables
  <2>4. ShellFine'
    BY <1>4, <2>1, <2>2 DEF ShellFine, NoEnds
  <2>5. CountsFine'
    BY <1>1, <1>3, <1>4, <2>1 DEF CountsFine
  <2>6. LineRead'
    BY <1>2, <1>4, <2>1 DEF RashInv, LineRead
  <2>7. KidsFine'
    BY <2>1 DEF RashInv, KidsFine
  <2> QED BY <2>3, <2>4, <2>5, <2>6, <2>7 DEF RashInv
<1>5. CASE /\ ToClose(files) # {} /\ files' = [files EXCEPT ![NextOf(files)] = None]
           /\ pipes' = close_pipe(files[NextOf(files)])
           /\ UNCHANGED <<Lines, sh, pipefds, kids, left>>
  <2>1. UNCHANGED <<input, args, starts, names, sh, pipefds, kids, left>>
    BY <1>5 DEF Lines
  <2>2. files' \in Tables /\ files'[0] = Tty /\ files'[1] = Tty /\ OnlyAt(files', pipefds)
    BY <1>3, <1>5, Closing
  <2>3. pipes' \in Seq(PipeT) /\ Len(pipes') = m
    BY <1>1, <1>5, ClosePipe
  <2>4. TypeR' /\ PipesOk(pipefds, Len(pipes))'
    BY <1>1, <2>1, <2>2, <2>3 DEF RashInv, TypeR, PipesOk, Tables
  <2>5. ShellFine'
    BY <1>2, <2>1, <2>2 DEF ShellFine, OnlyAt
  <2>6. CountsFine'
    BY <1>1, <1>2, <1>3, <2>1, <2>3 DEF CountsFine
  <2>7. LineRead'
    BY <2>1 DEF RashInv, LineRead
  <2>8. KidsFine'
    BY <1>1, <2>1, <2>3 DEF RashInv, KidsFine
  <2> QED BY <2>4, <2>5, <2>6, <2>7, <2>8 DEF RashInv
<1>6. CASE sh' = "panic" /\ UNCHANGED <<Lines, files, pipefds, pipes, kids, left>>
  BY <1>2, <1>6, StopKeeps
<1> QED BY <1>4, <1>5, <1>6 DEF shell_close

\* wait changes nothing of a process but that it is collected.
LEMMA Waiting ==
  ASSUME RashInv, wait
  PROVE  RashInv'
<1>1. PICK h : h = Head(queue)
  OBVIOUS
<1>2. /\ sh = "wait" /\ left > 0 /\ left' = left - 1
      /\ UNCHANGED <<input, args, starts, names, sh, files, pipefds, pipes>>
      /\ kids' = kids \/ kids' = [kids EXCEPT ![h].pc = "reaped"]
  BY <1>1 DEF wait, Lines
<1>3. /\ kids \in Seq(KidT) /\ left \in Nat /\ Len(pipes) \in Nat
      /\ Len(starts) = Len(pipes) + 1 /\ Len(kids) = Len(pipes) + 1
  BY <1>2 DEF RashInv, TypeR, CountsFine
<1>4. ASSUME NEW j \in 1 .. Len(kids)
      PROVE  /\ kids[j] \in KidT /\ [kids[j] EXCEPT !.pc = "reaped"] \in KidT
             /\ [kids[j] EXCEPT !.pc = "reaped"].pc = "reaped"
  <2>1. kids[j] \in KidT
    BY <1>3, <1>4, ElementOfSeq
  <2> QED BY <2>1 DEF KidT
<1>5. /\ kids' \in Seq(KidT) /\ Len(kids') = Len(kids) /\ kids' # <<>> /\ kids # <<>>
      /\ \A j \in 1 .. Len(kids) : kids'[j] = kids[j] \/ kids'[j].pc = "reaped"
  <2>1. CASE kids' = kids
    BY <1>3, <2>1
  <2>2. CASE kids' = [kids EXCEPT ![h].pc = "reaped"] /\ h \in 1 .. Len(kids)
    <3>1. PICK k : k = [kids[h] EXCEPT !.pc = "reaped"]
      OBVIOUS
    <3>2. k \in KidT /\ k.pc = "reaped" /\ kids' = [kids EXCEPT ![h] = k]
      BY <1>4, <2>2, <3>1
    <3>3. PICK n \in Nat : n = Len(kids)
      BY <1>3
    <3>4. kids' \in Seq(KidT) /\ Len(kids') = n
      BY <1>3, <2>2, <3>2, <3>3
    <3>5. kids' # <<>> /\ kids # <<>>
      BY <1>3, <3>3, <3>4
    <3>6. \A j \in 1 .. n : kids'[j] = IF j = h THEN k ELSE kids[j]
      BY <1>3, <2>2, <3>2, <3>3
    <3> QED BY <3>2, <3>3, <3>4, <3>5, <3>6
  <2>3. CASE kids' = [kids EXCEPT ![h].pc = "reaped"] /\ h \notin 1 .. Len(kids)
    <3>1. DOMAIN kids = 1 .. Len(kids) /\ kids = [j \in DOMAIN kids |-> kids[j]]
      BY <1>3
    <3>2. kids' = [j \in DOMAIN kids |-> kids[j]]
      BY <2>3, <3>1
    <3>3. kids' = kids
      BY <3>1, <3>2
    <3> QED BY <2>1, <3>3
  <2> QED BY <1>2, <2>1, <2>2, <2>3
<1>6. left' \in Nat
  BY <1>2, <1>3
<1>12. TypeR' /\ PipesOk(pipefds, Len(pipes))'
  BY <1>2, <1>5, <1>6 DEF RashInv, TypeR, PipesOk, Tables
<1>13. ShellFine'
  BY <1>2 DEF RashInv, ShellFine, NoEnds
<1>14. CountsFine'
  BY <1>2, <1>3, <1>5 DEF CountsFine
<1>15. LineRead'
  BY <1>2 DEF RashInv, LineRead
<1>16. KidsFine'
  <2> SUFFICES ASSUME NEW j \in 1 .. Len(kids)
               PROVE  KidFine(kids'[j], j, pipefds, Len(pipes), names)
    BY <1>2, <1>5 DEF KidsFine
  <2>1. CASE kids'[j].pc = "reaped"
    BY <2>1 DEF KidFine
  <2>2. CASE kids'[j] = kids[j]
    BY <2>2 DEF RashInv, KidsFine
  <2> QED BY <1>5, <2>1, <2>2
<1> QED BY <1>12, <1>13, <1>14, <1>15, <1>16 DEF RashInv

\* The prompt comes with the descriptors as they were for the wait.
LEMMA Launched ==
  ASSUME RashInv, launched
  PROVE  RashInv'
<1>1. /\ sh = "wait" /\ left = 0 /\ sh' = "prompt"
      /\ UNCHANGED <<input, args, starts, names, files, pipefds, pipes, kids, left>>
  BY DEF launched, Lines
<1>2. /\ kids \in Seq(KidT) /\ Len(pipes) \in Nat /\ Len(starts) = Len(pipes) + 1
      /\ Len(kids) = Len(pipes) + 1 /\ NoEnds(files)
  BY <1>1 DEF RashInv, TypeR, CountsFine, ShellFine
<1>4. TypeR' /\ PipesOk(pipefds, Len(pipes))'
  BY <1>1 DEF RashInv, TypeR, PipesOk, Tables
<1>5. ShellFine'
  BY <1>1, <1>2 DEF ShellFine, NoEnds
<1>6. CountsFine'
  <2>1. kids # <<>>
    BY <1>2
  <2> QED BY <1>1, <1>2, <2>1 DEF CountsFine
<1>7. LineRead'
  BY <1>1 DEF RashInv, LineRead
<1>8. KidsFine'
  BY <1>1 DEF RashInv, KidsFine
<1> QED BY <1>4, <1>5, <1>6, <1>7, <1>8 DEF RashInv

\* So does a process that the shell came by.
LEMMA StrayEnds ==
  ASSUME RashInv, stray_ends
  PROVE  RashInv'
<1>1. UNCHANGED <<sh, input, args, starts, names, files, pipefds, pipes, kids, left>>
  BY DEF stray_ends, Shell, Lines
<1> QED BY <1>1 DEF RashInv, TypeR, Tables, PipesOk, ShellFine, Ends, OnlyAt, NoEnds,
                    CountsFine, LineRead, KidsFine

\* The shell starts with a terminal and nothing else.
LEMMA Starting == RashInit => RashInv
<1> SUFFICES ASSUME RashInit PROVE RashInv
  OBVIOUS
<1>1. /\ sh = "prompt" /\ input \in Inputs /\ pipefds = <<>> /\ pipes = <<>> /\ kids = <<>>
      /\ left = 0 /\ files = [fd \in Fds |-> IF fd < FirstFd THEN Tty ELSE None]
  BY DEF RashInit
<1>2. Len(kids) = 0 /\ Len(pipes) = 0 /\ Len(pipefds) = 0 /\ 1 .. 0 = {}
  BY <1>1
<1>3. /\ files \in Tables /\ files[0] = Tty /\ files[1] = Tty
      /\ \A fd \in Fds : ~PipeOf(files[fd])
  <2>1. \A fd \in Fds : files[fd] = IF fd < FirstFd THEN Tty ELSE None
    BY <1>1
  <2>2. files \in Tables
    BY <1>1, Objects DEF Tables
  <2>3. \A fd \in Fds : ~PipeOf(files[fd])
    BY <2>1, Objects
  <2> QED BY <2>1, <2>2, <2>3, FdsAre
<1>4. TypeR
  <2>1. kids \in Seq(KidT) /\ pipes \in Seq(PipeT)
    BY <1>1
  <2> QED BY <1>1, <1>3, <2>1 DEF TypeR
<1>5. PipesOk(pipefds, Len(pipes))
  <2>1. pipefds \in Seq(Fds) /\ 2 * 0 = 0
    BY <1>1
  <2> QED BY <1>2, <2>1 DEF PipesOk
<1>6. ShellFine
  BY <1>1, <1>3 DEF ShellFine, NoEnds
<1>7. CountsFine
  BY <1>1, <1>2 DEF CountsFine
<1>8. LineRead
  BY <1>1 DEF LineRead
<1>9. KidsFine
  BY <1>2 DEF KidsFine
<1> QED BY <1>4, <1>5, <1>6, <1>7, <1>8, <1>9 DEF RashInv

\* Every step of the shell and of its processes keeps the invariant.
LEMMA RashStep == RashInv /\ [RashNext]_rashVars => RashInv'
<1> SUFFICES ASSUME RashInv, [RashNext]_rashVars PROVE RashInv'
  OBVIOUS
<1>1. CASE do_commands_fails
  <2>1. sh # "prompt" /\ sh' \in {"exited", "panic"}
    BY <1>1 DEF do_commands_fails
  <2>2. UNCHANGED <<Lines, files, pipefds, pipes, kids, left>>
    BY <1>1 DEF do_commands_fails
  <2> QED BY <2>1, <2>2, StopKeeps
<1>2. ASSUME NEW i \in DOMAIN kids,
             \/ child_fails(i) \/ child_out(i) \/ child_in(i) \/ child_close(i)
             \/ execv(i) \/ ends(i)
      PROVE  RashInv'
  BY <1>2, ChildSteps
<1>3. CASE UNCHANGED rashVars
  <2>1. UNCHANGED <<sh, input, args, starts, names, files, pipefds, pipes, kids, left>>
    BY <1>3 DEF rashVars
  <2> QED BY <2>1 DEF RashInv, TypeR, Tables, PipesOk, ShellFine, Ends, OnlyAt, NoEnds,
                      CountsFine, LineRead, KidsFine
<1> QED BY <1>1, <1>2, <1>3, ReadsLine, MakesPipe, PipesDone, Forks, ShellCloses, Waiting,
           Launched, StrayEnds DEF RashNext

----------------------------------------------------------------------------
(* What the shell promises *)

\* Whatever may be typed, if the shell takes it apart into what it asks for,
\* then in every order of the steps of the shell and of the processes a
\* command runs with its own arguments, with the ends of the pipes of its
\* neighbours or the files named as standard input and output, and with no
\* other end of a pipe open (do_commands).
THEOREM PipelinesWired == (\A x \in Inputs : Understood(x)) => (RashSpec => []CommandsWired)
<1>1. ASSUME \A x \in Inputs : Understood(x), RashInv PROVE CommandsWired
  <2> SUFFICES ASSUME NEW i \in DOMAIN kids, kids[i].pc = "run", input.cmds # <<>>
               PROVE  LET t == kids[i].files
                          last == Len(input.cmds)
                          source == IF i > 1 THEN R(i - 1)
                                    ELSE IF input.in = NullString THEN Tty ELSE <<"in", 0>>
                          sink == IF i < last THEN W(i)
                                  ELSE IF input.out = NullString THEN Tty ELSE <<"out", 0>>
                      IN /\ Vector(args, starts[i]) = input.cmds[i]
                         /\ names = [in |-> input.in, out |-> input.out]
                         /\ t[0] = source /\ t[1] = sink
                         /\ \A fd \in Fds \ {0, 1} : ~PipeOf(t[fd])
    BY DEF CommandsWired
  <2>1. i \in 1 .. Len(kids)
    BY <1>1 DEF RashInv, TypeR
  <2>2. PICK m : m = Len(pipes)
    OBVIOUS
  <2>3. m \in Nat /\ i \in 1 .. m + 1 /\ Len(starts) = m + 1
    BY <1>1, <2>1, <2>2, KidIs DEF Commands
  <2>4. KidFine(kids[i], i, pipefds, m, names)
    BY <1>1, <2>1, <2>2, KidIs
  <2>5. /\ kids[i].files[0] = Source(i, names) /\ kids[i].files[1] = Sink(i, m, names)
        /\ \A fd \in Fds \ {0, 1} : ~PipeOf(kids[i].files[fd])
    BY <2>4 DEF KidFine, NoEnds
  <2>6. kids # <<>>
    BY <1>1, <2>1 DEF RashInv, TypeR
  <2>7. PICK p : p = Parts(Tokens(input).tokens)
    OBVIOUS
  <2>8. args = p.args /\ starts = p.starts /\ names = p.names /\ input \in Inputs
    BY <1>1, <2>6, <2>7 DEF RashInv, LineRead, TypeR
  <2>9. /\ p.names = [in |-> input.in, out |-> input.out] /\ Len(p.starts) = Len(input.cmds)
        /\ \A j \in DOMAIN input.cmds : Vector(p.args, p.starts[j]) = input.cmds[j]
    <3>1. Understood(input)
      BY <1>1, <2>8
    <3> QED BY <2>7, <3>1 DEF Understood, Tokens
  <2>10. names.in = input.in /\ names.out = input.out
    BY <2>8, <2>9
  <2>11. Len(input.cmds) = m + 1
    BY <2>3, <2>8, <2>9
  <2>12. Source(i, names) = IF i > 1 THEN R(i - 1)
                            ELSE IF input.in = NullString THEN Tty ELSE <<"in", 0>>
    BY <2>10 DEF Source
  <2>13. Sink(i, m, names) = IF i < Len(input.cmds) THEN W(i)
                             ELSE IF input.out = NullString THEN Tty ELSE <<"out", 0>>
    BY <2>3, <2>10, <2>11 DEF Sink
  <2>14. i \in DOMAIN input.cmds
    BY <2>3, <2>11
  <2>15. Vector(args, starts[i]) = input.cmds[i] /\ names = [in |-> input.in, out |-> input.out]
    BY <2>8, <2>9, <2>14
  <2> QED BY <2>5, <2>12, <2>13, <2>15
<1>2. ASSUME \A x \in Inputs : Understood(x) PROVE RashSpec => []CommandsWired
  <2>1. RashInv => CommandsWired
    BY <1>1, <1>2
  <2> QED BY <2>1, Starting, RashStep, PTL DEF RashSpec
<1> QED BY <1>2

----------------------------------------------------------------------------
(* The children of the shell *)

Run(ks) == {i \in 1 .. Len(ks) : ks[i].pc \notin {"dead", "reaped"}}

\* The dead commands are in the wait queue, each of them once.
QueueFine(q, ks) ==
  /\ q \in Seq(Nat)
  /\ \A a \in 1 .. Len(q) : q[a] # 0 => q[a] \in 1 .. Len(ks) /\ ks[q[a]].pc = "dead"
  /\ \A a, b \in 1 .. Len(q) : q[a] = q[b] /\ q[a] # 0 => a = b
  /\ \A i \in 1 .. Len(ks) : ks[i].pc = "dead" => \E a \in 1 .. Len(q) : q[a] = i

\* The counter has fallen behind the shell's children by the orphans.
Balanced(st, q, ks, ch, orph) == st + Len(q) + Cardinality(Run(ks)) = ch + orph

\* Where the shell is with its forks and its waits.
Phase(s, ch, ks, l) ==
  /\ s \in {"prompt", "pipe"} => ch = 0
  /\ s \in {"fork", "close"} => ch = Len(ks)
  /\ s = "wait" => ch = l

FamilyFine ==
  /\ children \in Nat /\ strays \in Nat /\ orphans \in Nat
  /\ QueueFine(queue, kids)
  /\ Balanced(strays, queue, kids, children, orphans)
  /\ Phase(sh, children, kids, left)

\* The running commands can be counted.
LEMMA RunCount ==
  ASSUME NEW ks \in Seq(KidT)
  PROVE  IsFiniteSet(Run(ks)) /\ Cardinality(Run(ks)) \in Nat
<1>1. Len(ks) \in Nat /\ IsFiniteSet(1 .. Len(ks)) /\ Run(ks) \in SUBSET (1 .. Len(ks))
  BY FS_Interval DEF Run
<1>2. IsFiniteSet(Run(ks))
  BY <1>1, FS_Subset
<1> QED BY <1>2, FS_CardinalityType

\* What one process becomes, in the sequence of all.
LEMMA KidBecomes ==
  ASSUME RashInv, NEW i \in DOMAIN kids, NEW pc, NEW t, Becomes(i, pc, t)
  PROVE  /\ i \in 1 .. Len(kids) /\ Len(kids') = Len(kids) /\ kids'[i].pc = pc
         /\ \A j \in 1 .. Len(kids) : j # i => kids'[j] = kids[j]
<1>1. kids \in Seq(KidT) /\ kids' = [kids EXCEPT ![i] = [pc |-> pc, files |-> t]]
  BY DEF RashInv, TypeR, Becomes
<1>2. PICK k : k = [pc |-> pc, files |-> t]
  OBVIOUS
<1>3. k.pc = pc /\ kids' = [kids EXCEPT ![i] = k]
  BY <1>1, <1>2
<1> QED BY <1>1, <1>3

\* A process that goes on setting up its descriptors, or is replaced by its
\* program, changes nothing of this.
LEMMA FamilyStays ==
  ASSUME RashInv, FamilyFine, NEW i \in DOMAIN kids, NEW pc, NEW t, Becomes(i, pc, t),
         kids[i].pc \notin {"dead", "reaped"}, pc \notin {"dead", "reaped"},
         UNCHANGED <<Family, sh, left>>
  PROVE  FamilyFine'
<1>1. /\ i \in 1 .. Len(kids) /\ Len(kids') = Len(kids) /\ kids'[i].pc = pc
      /\ \A j \in 1 .. Len(kids) : j # i => kids'[j] = kids[j]
  BY KidBecomes
<1>2. /\ UNCHANGED <<children, strays, queue, orphans, sh, left>>
      /\ children \in Nat /\ strays \in Nat /\ orphans \in Nat
  BY DEF Family, FamilyFine
<1>3. Run(kids') = Run(kids)
  BY <1>1 DEF Run
<1>4. QueueFine(queue', kids')
  <2>1. QueueFine(queue, kids)
    BY DEF FamilyFine
  <2>2. \A j \in 1 .. Len(kids) : (kids'[j].pc = "dead") <=> (kids[j].pc = "dead")
    BY <1>1
  <2>3. \A a \in 1 .. Len(queue) : queue[a] # 0 => queue[a] \in 1 .. Len(kids') /\ kids'[queue[a]].pc = "dead"
    BY <1>1, <2>1, <2>2 DEF QueueFine
  <2>4. \A j \in 1 .. Len(kids') : kids'[j].pc = "dead" => \E a \in 1 .. Len(queue) : queue[a] = j
    BY <1>1, <2>1, <2>2 DEF QueueFine
  <2> QED BY <1>2, <2>1, <2>3, <2>4 DEF QueueFine
<1>5. Balanced(strays', queue', kids', children', orphans')
  <2>1. Balanced(strays, queue, kids, children, orphans)
    BY DEF FamilyFine
  <2> QED BY <1>2, <1>3, <2>1 DEF Balanced
<1>6. Phase(sh', children', kids', left')
  BY <1>1, <1>2 DEF FamilyFine, Phase
<1> QED BY <1>2, <1>4, <1>5, <1>6 DEF FamilyFine

\* A command that ends joins the queue, and its children the strays.
LEMMA FamilyDies ==
  ASSUME RashInv, FamilyFine, NEW i \in DOMAIN kids, NEW t, Becomes(i, "dead", t),
         kids[i].pc \notin {"dead", "reaped"}, NEW n \in Nat, task_kill(i, n),
         UNCHANGED <<sh, left>>
  PROVE  FamilyFine'
<1>1. /\ i \in 1 .. Len(kids) /\ Len(kids') = Len(kids) /\ kids'[i].pc = "dead"
      /\ \A j \in 1 .. Len(kids) : j # i => kids'[j] = kids[j]
  BY KidBecomes
<1>2. kids \in Seq(KidT) /\ i # 0 /\ i \in Nat /\ Len(kids) \in Nat
  BY <1>1 DEF RashInv, TypeR
<1>3. /\ queue' = Append(queue, i) /\ orphans' = orphans + n /\ strays' = strays + n
      /\ children' = children /\ sh' = sh /\ left' = left
  BY <1>2 DEF task_kill
<1>4. children \in Nat /\ strays \in Nat /\ orphans \in Nat /\ QueueFine(queue, kids)
  BY DEF FamilyFine
<1>5. PICK c : c = Len(queue)
  OBVIOUS
<1>6. /\ queue \in Seq(Nat) /\ c \in Nat /\ queue' \in Seq(Nat) /\ Len(queue') = c + 1
      /\ queue'[c + 1] = i /\ \A a \in 1 .. c : queue'[a] = queue[a]
      /\ \A a \in 1 .. c + 1 : a \in 1 .. c \/ a = c + 1
  BY <1>2, <1>3, <1>4, <1>5, AppendProperties DEF QueueFine
<1>7. \A a \in 1 .. c : queue[a] # i
  BY <1>1, <1>2, <1>4, <1>5 DEF QueueFine
<1>8. QueueFine(queue', kids')
  <2>1. ASSUME NEW a \in 1 .. c + 1, queue'[a] # 0
        PROVE  queue'[a] \in 1 .. Len(kids') /\ kids'[queue'[a]].pc = "dead"
    <3>1. CASE a = c + 1
      BY <1>1, <1>6, <3>1
    <3>2. CASE a \in 1 .. c
      <4>1. queue[a] # 0 /\ queue[a] # i /\ queue'[a] = queue[a]
        BY <1>6, <1>7, <2>1, <3>2
      <4>2. queue[a] \in 1 .. Len(kids) /\ kids[queue[a]].pc = "dead"
        BY <1>4, <1>5, <3>2, <4>1 DEF QueueFine
      <4> QED BY <1>1, <4>1, <4>2
    <3> QED BY <1>6, <3>1, <3>2
  <2>2. ASSUME NEW a \in 1 .. c + 1, NEW b \in 1 .. c + 1, queue'[a] = queue'[b], queue'[a] # 0
        PROVE  a = b
    <3>1. CASE a \in 1 .. c /\ b \in 1 .. c
      <4>1. queue[a] = queue[b] /\ queue[a] # 0
        BY <1>6, <2>2, <3>1
      <4> QED BY <1>4, <1>5, <3>1, <4>1 DEF QueueFine
    <3>2. CASE a = c + 1 /\ b \in 1 .. c
      BY <1>6, <1>7, <2>2, <3>2
    <3>3. CASE a \in 1 .. c /\ b = c + 1
      BY <1>6, <1>7, <2>2, <3>3
    <3> QED BY <1>6, <3>1, <3>2, <3>3
  <2>3. ASSUME NEW j \in 1 .. Len(kids'), kids'[j].pc = "dead"
        PROVE  \E a \in 1 .. c + 1 : queue'[a] = j
    <3>1. CASE j = i
      BY <1>6, <3>1
    <3>2. CASE j # i
      <4>1. kids[j].pc = "dead"
        BY <1>1, <2>3, <3>2
      <4>2. PICK a \in 1 .. c : queue[a] = j
        BY <1>1, <1>4, <1>5, <4>1 DEF QueueFine
      <4> QED BY <1>6, <4>2
    <3> QED BY <3>1, <3>2
  <2> QED BY <1>6, <2>1, <2>2, <2>3 DEF QueueFine
<1>9. Balanced(strays', queue', kids', children', orphans')
  <2>1. PICK S, T : S = Run(kids) /\ T = Run(kids')
    OBVIOUS
  <2>2. T = S \ {i} /\ i \in S
    BY <1>1, <2>1 DEF Run
  <2>3. IsFiniteSet(S) /\ Cardinality(S) \in Nat
    BY <1>2, <2>1, RunCount
  <2>4. Cardinality(T) = Cardinality(S) - 1
    BY <2>2, <2>3, FS_RemoveElement
  <2>5. PICK x \in Nat : x = Cardinality(S)
    BY <2>3
  <2>6. strays + c + x = children + orphans
    BY <1>5, <2>1, <2>5 DEF FamilyFine, Balanced
  <2>7. (strays + n) + (c + 1) + (x - 1) = children + (orphans + n)
    BY <1>4, <1>6, <2>6
  <2> QED BY <1>3, <1>6, <2>1, <2>4, <2>5, <2>7 DEF Balanced
<1>10. Phase(sh', children', kids', left')
  BY <1>1, <1>3 DEF FamilyFine, Phase
<1> QED BY <1>3, <1>4, <1>8, <1>9, <1>10 DEF FamilyFine

\* So does a stray.
LEMMA FamilyStray ==
  ASSUME RashInv, FamilyFine, stray_ends
  PROVE  FamilyFine'
<1>1. PICK n \in 0 .. MaxOrphans : task_kill(0, n)
  BY DEF stray_ends
<1>2. /\ queue' = Append(queue, 0) /\ orphans' = orphans + n /\ strays' = (strays - 1) + n
      /\ children' = children /\ sh' = sh /\ left' = left /\ kids' = kids /\ strays > 0
  BY <1>1 DEF task_kill, stray_ends, Shell
<1>3. children \in Nat /\ strays \in Nat /\ orphans \in Nat /\ QueueFine(queue, kids)
  BY DEF FamilyFine
<1>4. n \in Nat
  BY RashAssumption
<1>5. PICK c : c = Len(queue)
  OBVIOUS
<1>6. /\ queue \in Seq(Nat) /\ c \in Nat /\ queue' \in Seq(Nat) /\ Len(queue') = c + 1
      /\ queue'[c + 1] = 0 /\ \A a \in 1 .. c : queue'[a] = queue[a]
      /\ \A a \in 1 .. c + 1 : a \in 1 .. c \/ a = c + 1
  BY <1>2, <1>3, <1>5, AppendProperties DEF QueueFine
<1>7. QueueFine(queue', kids')
  <2>1. ASSUME NEW a \in 1 .. c + 1, queue'[a] # 0
        PROVE  a \in 1 .. c /\ queue[a] = queue'[a] /\ queue[a] # 0
    BY <1>6, <2>1
  <2>2. \A a \in 1 .. c + 1 : queue'[a] # 0 => queue'[a] \in 1 .. Len(kids) /\ kids[queue'[a]].pc = "dead"
    BY <1>3, <1>5, <2>1 DEF QueueFine
  <2>3. \A a, b \in 1 .. c + 1 : queue'[a] = queue'[b] /\ queue'[a] # 0 => a = b
    BY <1>3, <1>5, <2>1 DEF QueueFine
  <2>4. \A j \in 1 .. Len(kids) : kids[j].pc = "dead" => \E a \in 1 .. c + 1 : queue'[a] = j
    <3>1. \A j \in 1 .. Len(kids) : kids[j].pc = "dead" => \E a \in 1 .. c : queue[a] = j
      BY <1>3, <1>5 DEF QueueFine
    <3> QED BY <1>6, <3>1
  <2> QED BY <1>2, <1>6, <2>2, <2>3, <2>4 DEF QueueFine
<1>8. Balanced(strays', queue', kids', children', orphans')
  <2>1. kids \in Seq(KidT)
    BY DEF RashInv, TypeR
  <2>2. PICK x \in Nat : x = Cardinality(Run(kids))
    BY <2>1, RunCount
  <2>3. strays + c + x = children + orphans
    BY <1>5, <2>2 DEF FamilyFine, Balanced
  <2>4. ((strays - 1) + n) + (c + 1) + x = children + (orphans + n)
    BY <1>3, <1>4, <1>6, <2>3
  <2> QED BY <1>2, <1>6, <2>2, <2>4 DEF Balanced
<1>9. Phase(sh', children', kids', left')
  BY <1>2 DEF FamilyFine, Phase
<1>10. strays' \in Nat /\ orphans' \in Nat /\ children' \in Nat
  BY <1>2, <1>3, <1>4
<1> QED BY <1>7, <1>8, <1>9, <1>10 DEF FamilyFine

\* Steps of the shell that touch none of this.
LEMMA FamilySame ==
  ASSUME FamilyFine, UNCHANGED <<Family, kids>>, Phase(sh', children, kids, left')
  PROVE  FamilyFine'
<1>1. UNCHANGED <<children, strays, queue, orphans, kids>>
  BY DEF Family
<1> QED BY <1>1 DEF FamilyFine, QueueFine, Balanced, Run, Phase

\* With a new line the commands of the line before become strays.
LEMMA FamilyReads ==
  ASSUME RashInv, FamilyFine, rash_loop
  PROVE  FamilyFine'
<1>1. /\ sh = "prompt" /\ kids' = <<>> /\ children' = children /\ orphans' = orphans
      /\ strays' = strays + Cardinality(Running) /\ queue' = [j \in DOMAIN queue |-> 0]
  BY DEF rash_loop
<1>2. sh' \in {"prompt", "exited", "pipe", "wild"}
  BY DEF rash_loop, rash_execute, builtin_func
<1>3. kids \in Seq(KidT)
  BY DEF RashInv, TypeR
<1>4. Running = Run(kids)
  BY <1>3 DEF Running, Run
<1>5. /\ children \in Nat /\ strays \in Nat /\ orphans \in Nat /\ queue \in Seq(Nat)
      /\ children = 0
  BY <1>1 DEF FamilyFine, QueueFine, Phase
<1>6. PICK x \in Nat : x = Cardinality(Run(kids))
  BY <1>3, RunCount
<1>7. PICK c \in Nat : c = Len(queue)
  BY <1>5
<1>8. queue' = [j \in 1 .. c |-> 0]
  BY <1>1, <1>5, <1>7
<1>9. queue' \in Seq(Nat) /\ Len(queue') = c /\ \A a \in 1 .. c : queue'[a] = 0
  BY <1>8
<1>10. Len(kids') = 0 /\ 1 .. 0 = {}
  BY <1>1
<1>11. QueueFine(queue', kids')
  BY <1>9, <1>10 DEF QueueFine
<1>12. Balanced(strays', queue', kids', children', orphans')
  <2>1. Run(kids') = {}
    BY <1>10 DEF Run
  <2>2. Cardinality(Run(kids')) = 0
    BY <2>1, FS_EmptySet
  <2>3. strays + c + x = children + orphans
    BY <1>6, <1>7 DEF FamilyFine, Balanced
  <2>4. (strays + x) + c + 0 = children + orphans
    BY <1>5, <2>3
  <2> QED BY <1>1, <1>4, <1>6, <1>9, <2>2, <2>4 DEF Balanced
<1>13. Phase(sh', children', kids', left')
  BY <1>1, <1>2, <1>5 DEF Phase
<1>14. strays' \in Nat
  BY <1>1, <1>4, <1>5, <1>6
<1> QED BY <1>1, <1>5, <1>11, <1>12, <1>13, <1>14 DEF FamilyFine

\* fork counts the child.
LEMMA FamilyForks ==
  ASSUME RashInv, FamilyFine, fork
  PROVE  FamilyFine'
<1>1. PICK n, k : n = Len(kids) /\ k = [pc |-> "out", files |-> files]
  OBVIOUS
<1>2. /\ sh = "fork" /\ sh' \in {"close", "fork"} /\ kids' = Append(kids, k)
      /\ children' = children + 1 /\ UNCHANGED <<strays, queue, orphans>>
  BY <1>1 DEF fork
<1>3. kids \in Seq(KidT) /\ files \in Tables
  BY DEF RashInv, TypeR
<1>4. k \in KidT /\ k.pc = "out" /\ n \in Nat
  BY <1>1, <1>3 DEF KidT
<1>5. /\ kids' \in Seq(KidT) /\ Len(kids') = n + 1 /\ kids'[n + 1] = k
      /\ \A j \in 1 .. n : kids'[j] = kids[j]
      /\ \A j \in 1 .. n + 1 : j \in 1 .. n \/ j = n + 1
      /\ \A j \in 1 .. n : j \in 1 .. n + 1
  BY <1>1, <1>2, <1>3, <1>4, AppendProperties
<1>6. /\ children \in Nat /\ strays \in Nat /\ orphans \in Nat /\ QueueFine(queue, kids)
      /\ children = n
  BY <1>1, <1>2 DEF FamilyFine, Phase
<1>7. QueueFine(queue', kids')
  <2>1. \A a \in 1 .. Len(queue) : queue[a] # 0 => queue[a] \in 1 .. n + 1 /\ kids'[queue[a]].pc = "dead"
    BY <1>1, <1>5, <1>6 DEF QueueFine
  <2>2. ASSUME NEW j \in 1 .. n + 1, kids'[j].pc = "dead"
        PROVE  \E a \in 1 .. Len(queue) : queue[a] = j
    <3>1. j \in 1 .. n /\ kids[j].pc = "dead"
      BY <1>4, <1>5, <2>2
    <3> QED BY <1>1, <1>6, <3>1 DEF QueueFine
  <2> QED BY <1>2, <1>5, <1>6, <2>1, <2>2 DEF QueueFine
<1>8. Balanced(strays', queue', kids', children', orphans')
  <2>1. PICK S, T : S = Run(kids) /\ T = Run(kids')
    OBVIOUS
  <2>2. T = S \cup {n + 1} /\ n + 1 \notin S
    <3>1. n + 1 \notin S /\ n + 1 \in T
      BY <1>1, <1>4, <1>5, <2>1 DEF Run
    <3>2. \A j \in 1 .. n : j \in S <=> j \in T
      BY <1>1, <1>5, <2>1 DEF Run
    <3>3. S \subseteq 1 .. n /\ T \subseteq 1 .. n + 1
      BY <1>1, <1>5, <2>1 DEF Run
    <3> QED BY <1>5, <3>1, <3>2, <3>3
  <2>3. IsFiniteSet(S) /\ Cardinality(S) \in Nat
    BY <1>3, <2>1, RunCount
  <2>4. Cardinality(T) = Cardinality(S) + 1
    BY <2>2, <2>3, FS_AddElement
  <2>5. PICK x \in Nat : x = Cardinality(S)
    BY <2>3
  <2>6. PICK c \in Nat : c = Len(queue)
    BY <1>6 DEF QueueFine
  <2>7. strays + c + x = children + orphans
    BY <2>1, <2>5, <2>6 DEF FamilyFine, Balanced
  <2>8. strays + c + (x + 1) = (children + 1) + orphans
    BY <1>6, <2>7
  <2> QED BY <1>2, <2>1, <2>4, <2>5, <2>6, <2>8 DEF Balanced
<1>9. Phase(sh', children', kids', left')
  BY <1>2, <1>5, <1>6 DEF Phase
<1> QED BY <1>2, <1>6, <1>7, <1>8, <1>9 DEF FamilyFine

\* wait finds a child counted for every call that is left, and takes the first
\* of the queue.
LEMMA FamilyWaits ==
  ASSUME RashInv, FamilyFine, wait
  PROVE  FamilyFine'
<1>1. sh = "wait" /\ left > 0 /\ left' = left - 1 /\ sh' = sh /\ UNCHANGED <<strays, orphans>>
  BY DEF wait
<1>2. /\ children \in Nat /\ strays \in Nat /\ orphans \in Nat /\ QueueFine(queue, kids)
      /\ children = left
  BY <1>1 DEF FamilyFine, Phase
<1>3. children # 0
  BY <1>1, <1>2
<1>4. PICK h : h = Head(queue)
  OBVIOUS
<1>5. /\ queue # <<>> /\ queue' = Tail(queue) /\ children' = children - 1
      /\ kids' = IF h = 0 THEN kids ELSE [kids EXCEPT ![h].pc = "reaped"]
  BY <1>3, <1>4 DEF wait
<1>6. queue \in Seq(Nat) /\ kids \in Seq(KidT)
  BY <1>2 DEF QueueFine, RashInv, TypeR
<1>7. PICK c \in Nat : c = Len(queue) - 1 /\ Len(queue) = c + 1
  BY <1>5, <1>6
<1>8. /\ queue' \in Seq(Nat) /\ Len(queue') = c /\ h = queue[1] /\ h \in Nat
      /\ \A a \in 1 .. c : queue'[a] = queue[a + 1]
  BY <1>4, <1>5, <1>6, <1>7, HeadTailProperties
<1>9. /\ \A a \in 1 .. c : a + 1 \in 1 .. c + 1 /\ a + 1 # 1 /\ 1 \in 1 .. c + 1
      /\ \A a \in 1 .. c + 1 : a = 1 \/ \E b \in 1 .. c : a = b + 1
  <2>1. \A a \in 1 .. c + 1 : a # 1 => a - 1 \in 1 .. c /\ a = (a - 1) + 1
    BY <1>7
  <2> QED BY <1>7, <2>1
<1>10. /\ Len(kids') = Len(kids)
       /\ \A j \in 1 .. Len(kids) : j # h => kids'[j] = kids[j]
       /\ h # 0 => h \in 1 .. Len(kids) /\ kids[h].pc = "dead" /\ kids'[h].pc = "reaped"
  <2>1. CASE h = 0
    BY <1>5, <2>1
  <2>2. CASE h # 0
    <3>1. h \in 1 .. Len(kids) /\ kids[h].pc = "dead"
      <4>1. 1 \in 1 .. Len(queue)
        BY <1>7
      <4> QED BY <1>2, <1>8, <2>2, <4>1 DEF QueueFine
    <3>2. PICK k : k = [kids[h] EXCEPT !.pc = "reaped"]
      OBVIOUS
    <3>3. kids[h] \in KidT
      BY <1>6, <3>1, ElementOfSeq
    <3>4. k.pc = "reaped" /\ kids' = [kids EXCEPT ![h] = k]
      BY <1>5, <2>2, <3>2, <3>3 DEF KidT
    <3> QED BY <1>6, <3>1, <3>4
  <2> QED BY <2>1, <2>2
<1>11. QueueFine(queue', kids')
  <2>1. ASSUME NEW a \in 1 .. c, queue'[a] # 0
        PROVE  queue'[a] \in 1 .. Len(kids') /\ kids'[queue'[a]].pc = "dead" /\ queue'[a] # h
    <3>1. queue[a + 1] # 0 /\ queue'[a] = queue[a + 1] /\ a + 1 \in 1 .. c + 1
      BY <1>8, <1>9, <2>1
    <3>2. queue[a + 1] # h
      BY <1>2, <1>7, <1>8, <1>9, <3>1 DEF QueueFine
    <3>3. queue[a + 1] \in 1 .. Len(kids) /\ kids[queue[a + 1]].pc = "dead"
      BY <1>2, <1>7, <3>1 DEF QueueFine
    <3> QED BY <1>10, <3>1, <3>2, <3>3
  <2>2. ASSUME NEW a \in 1 .. c, NEW b \in 1 .. c, queue'[a] = queue'[b], queue'[a] # 0
        PROVE  a = b
    <3>1. queue[a + 1] = queue[b + 1] /\ queue[a + 1] # 0 /\ a + 1 \in 1 .. c + 1 /\ b + 1 \in 1 .. c + 1
      BY <1>8, <1>9, <2>2
    <3>2. a + 1 = b + 1
      BY <1>2, <1>7, <3>1 DEF QueueFine
    <3> QED BY <3>2
  <2>3. ASSUME NEW j \in 1 .. Len(kids'), kids'[j].pc = "dead"
        PROVE  \E a \in 1 .. c : queue'[a] = j
    <3>1. j # h \/ h = 0
      BY <1>10, <2>3
    <3>2. j \in 1 .. Len(kids) /\ j # h
      BY <1>10, <3>1
    <3>3. kids[j].pc = "dead"
      BY <1>10, <2>3, <3>2
    <3>4. PICK b \in 1 .. c + 1 : queue[b] = j
      BY <1>2, <1>7, <3>2, <3>3 DEF QueueFine
    <3>5. b # 1
      BY <1>8, <3>2, <3>4
    <3>6. PICK a \in 1 .. c : b = a + 1
      BY <1>9, <3>4, <3>5
    <3>7. queue'[a] = j
      BY <1>8, <3>4, <3>6
    <3> QED BY <3>6, <3>7
  <2> QED BY <1>8, <2>1, <2>2, <2>3 DEF QueueFine
<1>12. Balanced(strays', queue', kids', children', orphans')
  <2>1. Run(kids') = Run(kids)
    <3>1. \A j \in 1 .. Len(kids) : (kids'[j].pc \in {"dead", "reaped"}) <=> (kids[j].pc \in {"dead", "reaped"})
      BY <1>10
    <3> QED BY <1>10, <3>1 DEF Run
  <2>2. PICK x \in Nat : x = Cardinality(Run(kids))
    BY <1>6, RunCount
  <2>3. strays + (c + 1) + x = children + orphans
    BY <1>7, <2>2 DEF FamilyFine, Balanced
  <2>4. strays + c + x = (children - 1) + orphans
    BY <1>2, <2>3
  <2> QED BY <1>1, <1>5, <1>8, <2>1, <2>2, <2>4 DEF Balanced
<1>13. Phase(sh', children', kids', left')
  BY <1>1, <1>2, <1>5 DEF Phase
<1>14. children' \in Nat
  BY <1>2, <1>3, <1>5
<1> QED BY <1>1, <1>2, <1>11, <1>12, <1>13, <1>14 DEF FamilyFine

\* Every step of the shell and of its processes keeps this.
LEMMA FamilyStep == RashInv /\ FamilyFine /\ [RashNext]_rashVars => FamilyFine'
<1> SUFFICES ASSUME RashInv, FamilyFine, [RashNext]_rashVars PROVE FamilyFine'
  OBVIOUS
<1>0. Phase(sh, children, kids, left)
  BY DEF FamilyFine
<1>1. CASE pipe
  BY <1>0, <1>1, FamilySame DEF pipe, Phase
<1>2. CASE do_commands_fails
  BY <1>2, FamilySame DEF do_commands_fails, Phase
<1>3. CASE pipes_done
  <2>1. sh = "pipe" /\ sh' = "fork" /\ UNCHANGED <<Family, kids>> /\ kids = <<>>
    BY <1>3 DEF pipes_done, RashInv, CountsFine
  <2>2. children = Len(kids)
    BY <1>0, <2>1 DEF Phase
  <2> QED BY <2>1, <2>2, FamilySame DEF Phase
<1>4. CASE shell_close
  <2>0. sh = "close" /\ UNCHANGED <<Family, kids>>
    BY <1>4 DEF shell_close
  <2>1. Len(kids) = Len(pipes) + 1
    BY <2>0 DEF RashInv, CountsFine
  <2>2. Phase(sh', children, kids, left')
    BY <1>0, <1>4, <2>0, <2>1 DEF shell_close, Waits, Phase
  <2> QED BY <2>0, <2>2, FamilySame
<1>5. CASE launched
  BY <1>0, <1>5, FamilySame DEF launched, Phase
<1>6. ASSUME NEW i \in DOMAIN kids, child_fails(i) \/ ends(i) PROVE FamilyFine'
  <2>1. UNCHANGED <<sh, left>> /\ kids[i].pc \notin {"dead", "reaped"} /\ Becomes(i, "dead", kids[i].files)
    BY <1>6 DEF child_fails, ends, Shell
  <2>2. PICK n \in Nat : task_kill(i, n)
    <3>1. CASE child_fails(i)
      BY <3>1 DEF child_fails
    <3>2. CASE ends(i)
      BY <3>2, RashAssumption DEF ends
    <3> QED BY <1>6, <3>1, <3>2
  <2> QED BY <2>1, <2>2, FamilyDies
<1>7. ASSUME NEW i \in DOMAIN kids, child_out(i) \/ child_in(i) \/ child_close(i) \/ execv(i)
      PROVE  FamilyFine'
  <2>1. CASE sh' = "panic" /\ UNCHANGED <<Family, kids>>
    BY <2>1, FamilySame DEF Phase
  <2>2. CASE child_out(i)
    BY <2>2, FamilyStays DEF child_out, Shell
  <2>3. CASE child_in(i)
    BY <2>3, FamilyStays DEF child_in, Shell
  <2>4. CASE child_close(i)
    BY <2>1, <2>4, FamilyStays DEF child_close, Shell
  <2>5. CASE execv(i)
    BY <2>5, FamilyStays DEF execv, Shell
  <2> QED BY <1>7, <2>2, <2>3, <2>4, <2>5
<1>8. CASE UNCHANGED rashVars
  BY <1>0, <1>8, FamilySame DEF rashVars, Family
<1> QED BY <1>1, <1>2, <1>3, <1>4, <1>5, <1>6, <1>7, <1>8, FamilyReads, FamilyForks,
           FamilyWaits, FamilyStray DEF RashNext

\* The shell starts without children.
LEMMA FamilyStarts == RashInit => FamilyFine
<1> SUFFICES ASSUME RashInit PROVE FamilyFine
  OBVIOUS
<1>1. /\ children = 0 /\ strays = 0 /\ queue = <<>> /\ orphans = 0 /\ kids = <<>>
      /\ sh = "prompt"
  BY DEF RashInit
<1>2. Len(queue) = 0 /\ Len(kids) = 0 /\ 1 .. 0 = {} /\ queue \in Seq(Nat)
  BY <1>1
<1>3. QueueFine(queue, kids)
  BY <1>2 DEF QueueFine
<1>4. Run(kids) = {}
  BY <1>2 DEF Run
<1>5. Balanced(strays, queue, kids, children, orphans)
  BY <1>1, <1>2, <1>4, FS_EmptySet DEF Balanced
<1> QED BY <1>1, <1>3, <1>5 DEF FamilyFine, Phase

\* If the shell takes what may be typed apart into what it asks for, then
\* however many orphans it adopts, and in whatever order processes end, it
\* prompts again with exactly as many children left as it adopted, and with
\* every process of the pipeline collected if it adopted none (do_commands,
\* sys_wait, task_kill); it holds no end of a pipe, and leaves its array of
\* tokens only where more were typed than it first holds (rash_split_line).
THEOREM LinesEndClean == (\A x \in Inputs : Understood(x)) => (RashSpec => []LineDone)
<1>1. ASSUME \A x \in Inputs : Understood(x), RashInv, FamilyFine PROVE LineDone
  <2>1. files[0] = Tty /\ files[1] = Tty /\ kids \in Seq(KidT) /\ input \in Inputs
    BY <1>1 DEF RashInv, TypeR
  <2>2. ASSUME sh \in {"prompt", "wait"} PROVE \A fd \in Fds : ~PipeOf(files[fd])
    <3>1. NoEnds(files)
      BY <1>1, <2>2 DEF RashInv, ShellFine
    <3> QED BY <2>1, <3>1, Objects DEF NoEnds
  <2>3. ASSUME sh = "prompt"
        PROVE  /\ children = 0 /\ strays + Len(queue) + Cardinality(Running) = orphans
               /\ orphans = 0 => \A i \in DOMAIN kids : kids[i].pc = "reaped"
               /\ Len(kids) = Len(pipes) + (IF kids = <<>> THEN 0 ELSE 1)
    <3>1. Len(kids) = Len(pipes) + (IF kids = <<>> THEN 0 ELSE 1)
      BY <1>1, <2>3 DEF RashInv, CountsFine
    <3>2. children = 0 /\ strays \in Nat /\ orphans \in Nat /\ QueueFine(queue, kids)
      BY <1>1, <2>3 DEF FamilyFine, Phase
    <3>3. Running = Run(kids)
      BY <2>1 DEF Running, Run
    <3>4. PICK x \in Nat : x = Cardinality(Run(kids))
      BY <2>1, RunCount
    <3>5. PICK c \in Nat : c = Len(queue)
      BY <3>2 DEF QueueFine
    <3>6. strays + c + x = orphans
      <4>1. strays + c + x = children + orphans
        BY <1>1, <3>4, <3>5 DEF FamilyFine, Balanced
      <4> QED BY <3>2, <4>1
    <3>7. ASSUME orphans = 0, NEW i \in DOMAIN kids PROVE kids[i].pc = "reaped"
      <4>1. c = 0 /\ x = 0
        BY <3>2, <3>6, <3>7
      <4>2. i \in 1 .. Len(kids)
        BY <2>1, <3>7
      <4>3. Run(kids) = {}
        BY <2>1, <3>4, <4>1, RunCount, FS_EmptySet
      <4>4. kids[i].pc # "dead"
        BY <3>2, <3>5, <4>1, <4>2 DEF QueueFine
      <4> QED BY <4>2, <4>3, <4>4 DEF Run
    <3> QED BY <3>1, <3>2, <3>3, <3>4, <3>5, <3>6, <3>7
  <2>4. ASSUME sh = "wild", input.cmds # <<>> PROVE Len(args) > ArgBuf
    <3>1. PICK p : p = Parts(Tokens(input).tokens)
      OBVIOUS
    <3>2. args = p.args /\ (Tokens(input).over \/ p.wild)
      BY <1>1, <2>4, <3>1 DEF RashInv, LineRead
    <3>3. ~p.wild
      BY <1>1, <2>1, <2>4, <3>1 DEF Understood, Tokens
    <3> QED BY <2>1, <3>1, <3>2, <3>3, LongLine
  <2> QED BY <2>2, <2>3, <2>4 DEF LineDone
<1>2. ASSUME \A x \in Inputs : Understood(x) PROVE RashSpec => []LineDone
  <2>1. RashInv /\ FamilyFine => LineDone
    BY <1>1, <1>2
  <2> QED BY <2>1, Starting, RashStep, FamilyStarts, FamilyStep, PTL DEF RashSpec
<1> QED BY <1>2

=============================================================================
