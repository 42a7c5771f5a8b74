------------------------------ MODULE Io_proofs ------------------------------
(***************************************************************************)
(* Input and files.  The ring buffer of stdin keeps order, place and count *)
(* of the characters between any two instructions of read_stdin and the    *)
(* interrupt, for every size of the ring, in every behaviour in which      *)
(* typing is never ahead of reading by more than the ring holds; the       *)
(* keyboard driver decodes every key of the table as it was struck; files  *)
(* in memory give back what was written, for every size of a block.        *)
(***************************************************************************)
EXTENDS Stdin, Keyboard, Vfs, SequenceTheorems, NaturalsInduction,
        WellFoundedInduction, TLAPS

----------------------------------------------------------------------------
(***************************************************************************)
(* Stdin                                                                   *)
(***************************************************************************)

(* Arithmetic of the positions *)

\* Division with rest.
LEMMA Euclid ==
  ASSUME NEW R \in Nat \ {0}, NEW n \in Nat
  PROVE  /\ n \div R \in Nat /\ n % R \in 0 .. R - 1
         /\ n = R * (n \div R) + (n % R)
<1>1. n % R \in 0 .. R - 1
  BY SMT
<1>2. n \div R \in Int
  BY SMT
<1>3. n = R * (n \div R) + (n % R)
  BY SMT
<1>4. n \div R >= 0
  BY SMT
<1> QED BY <1>1, <1>2, <1>3, <1>4

\* The rest is the only one.
LEMMA RestUnique ==
  ASSUME NEW R \in Nat \ {0}, NEW q \in Nat, NEW r \in 0 .. R - 1
  PROVE  (R * q + r) % R = r
  BY SMT

\* Two characters in one slot are a whole ring apart.
LEMMA SameSlot ==
  ASSUME NEW R \in Nat \ {0}, NEW a \in Nat, NEW b \in Nat,
         a < b, b <= a + R, a % R = b % R
  PROVE  b = a + R
<1> DEFINE p == a \div R
           q == b \div R
<1>1. p \in Nat /\ q \in Nat /\ a = R * p + (a % R) /\ b = R * q + (b % R)
  BY Euclid, Zenon
<1>0. (a % R) \in Nat
  <2>1. (a % R) \in 0 .. R - 1
    BY Euclid, Zenon
  <2> QED BY <2>1
<1> HIDE DEF p, q
<1>2. b - a = R * q - R * p
  BY <1>0, <1>1
<1>3. R * q - R * p = R * (q - p)
  BY <1>1
<1>4. CASE q <= p
  <2>1. R * q <= R * p
    BY <1>1, <1>4
  <2> QED BY <1>2, <2>1, <1>1
<1>5. CASE q >= p + 2
  <2>1. R * q >= R * (p + 2)
    BY <1>1, <1>5
  <2>2. R * (p + 2) = R * p + R + R
    BY <1>1
  <2> QED BY <1>1, <1>2, <2>1, <2>2
<1>6. CASE q = p + 1
  <2>1. R * (p + 1) = R * p + R
    BY <1>1
  <2> QED BY <1>1, <1>2, <1>6, <2>1
<1> QED BY <1>1, <1>4, <1>5, <1>6

\* The next character has the next slot, or the first one behind the last.
LEMMA NextSlot ==
  ASSUME NEW R \in Nat \ {0}, NEW n \in Nat
  PROVE  ((n % R) + 1) % R = (n + 1) % R
<1> DEFINE q == n \div R
           r == n % R
<1>1. q \in Nat /\ r \in 0 .. R - 1 /\ n = R * q + r
  BY Euclid
<1> HIDE DEF q, r
<1>2. CASE r + 1 < R
  <2>1. n + 1 = R * q + (r + 1) /\ r + 1 \in 0 .. R - 1
    BY <1>1, <1>2
  <2>2. (R * q + (r + 1)) % R = r + 1 /\ (R * 0 + (r + 1)) % R = r + 1
    BY <1>1, <2>1, RestUnique
  <2>3. R * 0 + (r + 1) = r + 1
    BY <1>1
  <2> QED BY <2>1, <2>2, <2>3 DEF r
<1>3. CASE r + 1 = R
  <2>1. n + 1 = R * (q + 1) + 0
    BY <1>1, <1>3
  <2>2. (R * (q + 1) + 0) % R = 0 /\ (R * 1 + 0) % R = 0
    BY <1>1, RestUnique
  <2>3. R * 1 + 0 = r + 1
    BY <1>1, <1>3
  <2> QED BY <2>1, <2>2, <2>3 DEF r
<1> QED BY <1>1, <1>2, <1>3

\* A position is its own slot, but the one behind the ring is the first.
LEMMA SlotOf ==
  ASSUME NEW R \in Nat \ {0}, NEW m \in 0 .. R
  PROVE  m % R = IF m >= R THEN 0 ELSE m
<1>1. CASE m < R
  <2>1. (R * 0 + m) % R = m
    BY <1>1, RestUnique
  <2> QED BY <1>1, <2>1
<1>2. CASE m = R
  <2>1. (R * 1 + 0) % R = 0
    BY RestUnique
  <2> QED BY <1>2, <2>1
<1> QED BY <1>1, <1>2

----------------------------------------------------------------------------
(* The inductive invariant *)

\* Typing is never ahead of reading by more than the ring holds.  Nothing in
\* push_stdin sees to it: a behaviour in which it fails overwrites characters.
Within == Unread <= Ring

\* Where the reader and the writer are: their positions, in memory or in the
\* registers of the loop, are the slots of the next characters.
Positions ==
  /\ Len(got) <= typed /\ Unread <= Ring
  /\ write_at % Ring = typed % Ring
  /\ pc \in {"user", "wait", "load"} => read_at % Ring = Len(got) % Ring
  /\ pc \in {"pop", "fetch", "store"} => regs.read_at % Ring = Len(got) % Ring

\* How many characters the loop still counts on.
Owed == IF pc \in {"fetch", "store"} THEN 1 ELSE 0

Counting ==
  /\ stdin_buf_size <= typed /\ unset <= read /\ read <= size
  /\ pc \in {"wait", "load"} => read = 0
  /\ pc \in {"fetch", "store"} => read < size /\ Len(got) >= 1
  /\ pc \in {"load", "pop", "fetch", "store"} => size - read <= stdin_buf_size
  /\ pc = "store" => size - read <= regs.size

\* The register with write_at is as old as the loop: it is the slot behind
\* some character t, which is far enough for the characters still to come.
Snapshot(t) ==
  /\ t % Ring = regs.write_at % Ring /\ t <= typed
  /\ size - read <= t - Len(got) + Owed

RInv ==
  /\ TypeOK /\ InOrder /\ NeverOvercounted /\ RingInPlace
  /\ Positions /\ Counting
  /\ pc \in {"pop", "fetch", "store"} => \E t \in Nat : Snapshot(t)

\* The ring begins empty.
LEMMA RInvInit == Init => RInv
<1> SUFFICES ASSUME Init PROVE RInv
  OBVIOUS
<1>0. Ring \in Nat \ {0} /\ MaxRead \in Nat /\ MaxKeys \in Nat
  BY StdinAssumption
<1>1. TypeOK
  BY <1>0 DEF Init, TypeOK
<1>2. Len(got) = 0 /\ typed = 0 /\ Unread = 0
  <2>1. got = <<>> /\ typed = 0
    BY DEF Init
  <2>2. Len(got) = 0
    BY <2>1
  <2>3. Unread = 0 - 0
    BY <2>1, <2>2, Zenon DEF Unread
  <2> QED BY <2>1, <2>2, <2>3
<1>3. InOrder /\ NeverOvercounted /\ RingInPlace
  BY <1>2 DEF Init, InOrder, NeverOvercounted, RingInPlace
<1>4. Positions /\ Counting
  BY <1>0, <1>2 DEF Init, Positions, Counting
<1> QED BY <1>1, <1>3, <1>4 DEF Init, RInv

\* Facts every step needs: the sizes are numbers.
LEMMA Numbers ==
  ASSUME TypeOK
  PROVE  /\ Ring \in Nat \ {0} /\ typed \in Nat /\ Len(got) \in Nat
         /\ stdin_buf_size \in Nat /\ size \in Nat /\ read \in Nat /\ unset \in Nat
         /\ regs.size \in Nat /\ regs.read_at \in 0 .. Ring /\ regs.write_at \in 0 .. Ring
         /\ read_at \in 0 .. Ring /\ write_at \in 0 .. Ring
         /\ Unread = typed - Len(got) /\ Unread \in Int
  BY StdinAssumption DEF TypeOK, Unread

\* The interrupt: the new character takes the slot behind the last one, which
\* holds none that is still to be read.
LEMMA KeyStep ==
  ASSUME RInv, KeyPushed, Within'
  PROVE  RInv'
<1> DEFINE at == IF Top THEN 0 ELSE write_at
<1>1. /\ typed < MaxKeys /\ Unread < Ring
      /\ stdin_buf' = [stdin_buf EXCEPT ![at] = typed + 1]
      /\ write_at' = at + 1 /\ stdin_buf_size' = stdin_buf_size + 1
      /\ typed' = typed + 1
      /\ UNCHANGED <<read_at, got, unset, pc, size, read, regs>>
  <2>1. Ring \in Int /\ typed \in Int /\ Len(got) \in Int
    BY StdinAssumption, Numbers DEF RInv
  <2>2. typed' = typed + 1 /\ got' = got
    BY DEF KeyPushed, caller
  <2>3. typed' - Len(got') <= Ring
    BY DEF Within, Unread
  <2>4. Unread < Ring
    BY <2>1, <2>2, <2>3 DEF Unread
  <2> QED BY <2>4 DEF KeyPushed, caller
<1>2. TypeOK /\ Positions /\ Counting /\ NeverOvercounted
  BY DEF RInv
<1>3. /\ Ring \in Nat \ {0} /\ typed \in Nat /\ Len(got) \in Nat
      /\ stdin_buf_size \in Nat /\ size \in Nat /\ read \in Nat
      /\ write_at \in 0 .. Ring /\ Unread = typed - Len(got)
  BY <1>2, Numbers
<1>4. at = typed % Ring /\ at \in 0 .. Ring - 1
  <2>1. write_at % Ring = typed % Ring
    BY <1>2 DEF Positions
  <2>2. write_at % Ring = IF write_at >= Ring THEN 0 ELSE write_at
    BY <1>3, SlotOf
  <2>3. typed % Ring \in 0 .. Ring - 1
    BY <1>3, Euclid
  <2> QED BY <2>1, <2>2, <2>3 DEF Top
<1> HIDE DEF at
<1>5. write_at' % Ring = typed' % Ring
  BY <1>1, <1>3, <1>4, NextSlot
<1>6. TypeOK'
  <2>1. stdin_buf' \in [0 .. Ring - 1 -> 0 .. MaxKeys]
    BY <1>1, <1>2, <1>3, <1>4, StdinAssumption DEF TypeOK
  <2>2. write_at' \in 0 .. Ring /\ typed' \in 0 .. MaxKeys
    BY <1>1, <1>3, <1>4, StdinAssumption
  <2>3. stdin_buf_size' \in 0 .. MaxKeys
    BY <1>1, <1>2, <1>3, StdinAssumption DEF Counting
  <2> QED BY <1>1, <1>2, <2>1, <2>2, <2>3 DEF TypeOK
<1>7. Unread' = Unread + 1
  BY <1>1, <1>3 DEF Unread
<1>8. InOrder'
  BY <1>1 DEF RInv, InOrder
<1>9. NeverOvercounted'
  <2>1. regs.size \in Nat /\ Unread \in Int
    BY <1>2, Numbers
  <2> QED BY <1>1, <1>2, <1>3, <1>7, <2>1, SMTT(30) DEF NeverOvercounted
<1>10. RingInPlace'
  <2> SUFFICES ASSUME NEW k \in Len(got) + 1 .. typed + 1
               PROVE  stdin_buf'[(k - 1) % Ring] = k
    BY <1>1 DEF RingInPlace
  <2>1. k - 1 \in Nat /\ (k - 1) % Ring \in 0 .. Ring - 1
    <3>1. k - 1 \in Nat /\ Ring \in Nat \ {0}
      BY <1>3
    <3> QED BY <3>1, Euclid, Zenon
  <2>2. CASE k = typed + 1
    <3>1. k - 1 = typed
      BY <1>3, <2>2
    <3>2. (k - 1) % Ring = at
      BY <1>4, <3>1
    <3> QED BY <1>1, <1>2, <1>4, <2>2, <3>2 DEF TypeOK
  <2>3. CASE k \in Len(got) + 1 .. typed
    <3>1. k - 1 < typed /\ typed <= (k - 1) + Ring /\ typed # (k - 1) + Ring
      BY <1>1, <1>3, <2>3
    <3>2. (k - 1) % Ring # at
      BY <1>3, <1>4, <2>1, <3>1, SameSlot
    <3>3. stdin_buf[(k - 1) % Ring] = k
      BY <2>3 DEF RInv, RingInPlace
    <3> QED BY <1>1, <1>2, <2>1, <3>2, <3>3 DEF TypeOK
  <2> QED BY <1>3, <2>2, <2>3
<1>11. Positions'
  BY <1>1, <1>2, <1>3, <1>5, <1>7 DEF Positions
<1>12. Counting'
  BY <1>1, <1>2, <1>3 DEF Counting
<1>13. pc' \in {"pop", "fetch", "store"} => \E t \in Nat : Snapshot(t)'
  <2> SUFFICES ASSUME pc \in {"pop", "fetch", "store"}
               PROVE  \E t \in Nat : Snapshot(t)'
    BY <1>1
  <2>1. PICK t \in Nat : Snapshot(t)
    BY DEF RInv
  <2>2. Snapshot(t)'
    BY <1>1, <1>3, <2>1 DEF Snapshot, Owed
  <2> QED BY <2>2
<1> QED BY <1>6, <1>8, <1>9, <1>10, <1>11, <1>12, <1>13 DEF RInv

\* In the loop there is always a character to read: PopAt is its slot.
LEMMA AtPop ==
  ASSUME RInv, pc = "pop", read < size
  PROVE  /\ Unread >= 1 /\ PopAt = Len(got) % Ring /\ PopAt \in 0 .. Ring - 1
         /\ stdin_buf[PopAt] = Len(got) + 1 /\ Len(got) + 1 <= typed
<1>1. TypeOK /\ Positions /\ Counting /\ NeverOvercounted
  BY DEF RInv
<1>2. /\ Ring \in Nat \ {0} /\ typed \in Nat /\ Len(got) \in Nat
      /\ size \in Nat /\ read \in Nat
      /\ regs.read_at \in 0 .. Ring /\ Unread = typed - Len(got)
  BY <1>1, Numbers
<1>3. Unread >= 1
  BY <1>1, <1>2 DEF NeverOvercounted
<1>4. PopAt = Len(got) % Ring /\ PopAt \in 0 .. Ring - 1
  <2>1. regs.read_at % Ring = Len(got) % Ring
    BY <1>1 DEF Positions
  <2> QED BY <1>2, <2>1, SlotOf DEF PopAt
<1>5. Len(got) + 1 \in Len(got) + 1 .. typed /\ (Len(got) + 1) - 1 = Len(got)
  BY <1>2, <1>3
<1>6. stdin_buf[((Len(got) + 1) - 1) % Ring] = Len(got) + 1
  BY <1>5 DEF RInv, RingInPlace
<1> QED BY <1>2, <1>3, <1>4, <1>5, <1>6

\* A character that read_stdin misses is one of a full ring.
LEMMA MissedWhenFull ==
  ASSUME RInv, PopNothing
  PROVE  PopAt = regs.write_at /\ Unread = Ring
<1>1. pc = "pop" /\ read < size
  BY DEF PopNothing
<1>2. /\ PopAt = Len(got) % Ring /\ PopAt \in 0 .. Ring - 1
      /\ stdin_buf[PopAt] = Len(got) + 1 /\ TypeOK /\ Positions
  BY <1>1, AtPop DEF RInv
<1>3. /\ Ring \in Nat \ {0} /\ typed \in Nat /\ Len(got) \in Nat
      /\ size \in Nat /\ read \in Nat /\ Unread = typed - Len(got)
      /\ regs.write_at \in 0 .. Ring
  BY <1>2, Numbers
<1>4. PopAt = regs.write_at
  BY <1>2, <1>3 DEF PopNothing
<1>5. PICK t \in Nat : Snapshot(t)
  BY <1>1 DEF RInv
<1>6. t % Ring = Len(got) % Ring
  <2>1. regs.write_at % Ring = regs.write_at
    <3>1. regs.write_at % Ring = IF regs.write_at >= Ring THEN 0 ELSE regs.write_at
      BY <1>3, SlotOf
    <3>2. regs.write_at < Ring
      BY <1>2, <1>3, <1>4
    <3> QED BY <1>3, <3>1, <3>2
  <2> QED BY <1>2, <1>4, <1>5, <2>1 DEF Snapshot
<1>7. Len(got) < t /\ t <= typed /\ typed <= Len(got) + Ring
  BY <1>1, <1>2, <1>3, <1>5 DEF Snapshot, Owed, Positions
<1>8. t = Len(got) + Ring
  <2>1. t <= Len(got) + Ring
    BY <1>3, <1>7
  <2> QED BY <1>3, <1>6, <1>7, <2>1, SameSlot
<1> QED BY <1>3, <1>4, <1>7, <1>8

\* A step of the loop that takes nothing out of the full ring.
LEMMA MissStep ==
  ASSUME RInv, PopNothing
  PROVE  RInv'
<1>1. /\ pc = "pop" /\ read < size /\ PopAt = regs.write_at
      /\ PopAt = Len(got) % Ring /\ PopAt \in 0 .. Ring - 1
  BY AtPop, MissedWhenFull DEF PopNothing
<1>2. /\ regs' = [regs EXCEPT !.read_at = PopAt]
      /\ unset' = unset + 1 /\ read' = read + 1
      /\ UNCHANGED <<stdin_buf, write_at, typed, read_at, stdin_buf_size, got, pc, size>>
  BY <1>1 DEF PopNothing, buffer
<1>3. TypeOK /\ Positions /\ Counting /\ NeverOvercounted
  BY DEF RInv
<1>4. /\ Ring \in Nat \ {0} /\ typed \in Nat /\ Len(got) \in Nat
      /\ stdin_buf_size \in Nat /\ size \in Nat /\ read \in Nat /\ unset \in Nat
      /\ Unread = typed - Len(got)
  BY <1>3, Numbers
<1>5. regs' \in [read_at : 0 .. Ring, write_at : 0 .. Ring, size : 0 .. MaxKeys]
      /\ regs'.read_at = PopAt /\ regs'.write_at = regs.write_at /\ regs'.size = regs.size
  BY <1>1, <1>2, <1>3, <1>4 DEF TypeOK
<1>6. TypeOK'
  <2>1. size <= MaxRead /\ MaxRead \in Nat /\ unset <= read
    BY <1>3, StdinAssumption DEF TypeOK, Counting
  <2>2. read' \in 0 .. MaxRead /\ unset' \in 0 .. MaxRead
    <3>1. read + 1 <= size /\ unset + 1 <= read + 1
      BY <1>1, <1>4, <2>1
    <3> QED BY <1>2, <1>4, <2>1, <3>1
  <2> QED BY <1>2, <1>3, <1>5, <2>2 DEF TypeOK
<1>7. Unread' = Unread
  BY <1>2 DEF Unread
<1>8. InOrder' /\ RingInPlace'
  BY <1>2 DEF RInv, InOrder, RingInPlace
<1>9. NeverOvercounted'
  BY <1>1, <1>2, <1>3, <1>4, <1>7 DEF NeverOvercounted
<1>10. Positions'
  <2>1. PopAt % Ring = Len(got) % Ring
    <3>1. PopAt % Ring = IF PopAt >= Ring THEN 0 ELSE PopAt
      BY <1>1, <1>4, SlotOf
    <3>2. PopAt < Ring
      BY <1>1, <1>4
    <3> QED BY <1>1, <1>4, <3>1, <3>2
  <2> QED BY <1>1, <1>2, <1>3, <1>5, <1>7, <2>1 DEF Positions
<1>11. Counting'
  BY <1>1, <1>2, <1>3, <1>4 DEF Counting
<1>12. \E t \in Nat : Snapshot(t)'
  <2>1. PICK t \in Nat : Snapshot(t)
    BY <1>1 DEF RInv
  <2>2. (t % Ring = regs.write_at % Ring)' /\ (t <= typed)'
    BY <1>2, <1>5, <2>1 DEF Snapshot
  <2>3. Owed = 0 /\ Owed' = 0
    BY <1>1, <1>2 DEF Owed
  <2>4. size - read <= t - Len(got) + Owed
    BY <2>1 DEF Snapshot
  <2>5. size - (read + 1) <= t - Len(got) + 0
    BY <1>4, <2>3, <2>4
  <2>6. (size - read <= t - Len(got) + Owed)'
    BY <1>2, <2>3, <2>5
  <2> QED BY <2>2, <2>6 DEF Snapshot
<1> QED BY <1>6, <1>8, <1>9, <1>10, <1>11, <1>12 DEF RInv

\* A step of the loop that takes the next character.
LEMMA PopStep ==
  ASSUME RInv, pop_stdin
  PROVE  RInv'
<1>1. /\ pc = "pop" /\ read < size /\ Unread >= 1
      /\ PopAt = Len(got) % Ring /\ PopAt \in 0 .. Ring - 1
      /\ stdin_buf[PopAt] = Len(got) + 1 /\ Len(got) + 1 <= typed
  BY AtPop DEF pop_stdin
<1>2. /\ pc' = "fetch" /\ regs' = [regs EXCEPT !.read_at = PopAt + 1]
      /\ got' = Append(got, Len(got) + 1)
      /\ UNCHANGED <<stdin_buf, write_at, typed, read_at, stdin_buf_size, unset, size, read>>
  BY <1>1 DEF pop_stdin, buffer, Goto
<1>3. TypeOK /\ Positions /\ Counting /\ NeverOvercounted
  BY DEF RInv
<1>4. /\ Ring \in Nat \ {0} /\ typed \in Nat /\ Len(got) \in Nat
      /\ stdin_buf_size \in Nat /\ size \in Nat /\ read \in Nat /\ unset \in Nat
      /\ Unread = typed - Len(got) /\ got \in Seq(1 .. MaxKeys) /\ typed <= MaxKeys
      /\ MaxKeys \in Nat
  BY <1>3, Numbers, StdinAssumption DEF TypeOK
<1>5. regs' \in [read_at : 0 .. Ring, write_at : 0 .. Ring, size : 0 .. MaxKeys]
      /\ regs'.read_at = PopAt + 1 /\ regs'.write_at = regs.write_at
      /\ regs'.size = regs.size
  <2>1. PopAt + 1 \in 0 .. Ring
    BY <1>1, <1>4
  <2>2. regs \in [read_at : 0 .. Ring, write_at : 0 .. Ring, size : 0 .. MaxKeys]
    BY <1>3 DEF TypeOK
  <2> QED BY <1>2, <2>1, <2>2
<1>6. /\ got' \in Seq(1 .. MaxKeys) /\ Len(got') = Len(got) + 1
      /\ \A i \in 1 .. Len(got) : got'[i] = got[i]
      /\ got'[Len(got) + 1] = Len(got) + 1
  <2>1. Len(got) + 1 \in 1 .. MaxKeys
    BY <1>1, <1>4
  <2> QED BY <1>2, <1>4, <2>1
<1>7. TypeOK'
  BY <1>2, <1>3, <1>5, <1>6 DEF TypeOK
<1>8. Unread' = Unread - 1
  BY <1>2, <1>4, <1>6 DEF Unread
<1>9. InOrder'
  <2>1. DOMAIN got' = 1 .. Len(got) + 1 /\ DOMAIN got = 1 .. Len(got)
    BY <1>4, <1>6
  <2>2. \A i \in 1 .. Len(got) : got[i] = i
    BY <2>1 DEF RInv, InOrder
  <2> QED BY <1>4, <1>6, <2>1, <2>2 DEF InOrder
<1>10. RingInPlace'
  BY <1>2, <1>4, <1>6 DEF RInv, RingInPlace
<1>11. NeverOvercounted'
  BY <1>1, <1>2, <1>3, <1>4, <1>8 DEF NeverOvercounted
<1>12. Positions'
  <2>1. (PopAt + 1) % Ring = (Len(got) + 1) % Ring
    BY <1>1, <1>4, NextSlot
  <2> QED BY <1>1, <1>2, <1>3, <1>4, <1>5, <1>6, <1>8, <2>1, SMTT(30) DEF Positions
<1>13. Counting'
  BY <1>1, <1>2, <1>3, <1>4, <1>6 DEF Counting
<1>14. \E t \in Nat : Snapshot(t)'
  <2>1. PICK t \in Nat : Snapshot(t)
    BY <1>1 DEF RInv
  <2>2. Snapshot(t)'
    BY <1>1, <1>2, <1>4, <1>5, <1>6, <2>1 DEF Snapshot, Owed
  <2> QED BY <2>2
<1> QED BY <1>7, <1>9, <1>10, <1>11, <1>12, <1>13, <1>14 DEF RInv

\* The steps of read_stdin around the loop, and the two halves of its
\* stdin_buf_size--.
LEMMA OtherReaderSteps ==
  ASSUME RInv, \/ \E n \in 1 .. MaxRead : read_stdin(n)
               \/ Wait \/ Load \/ Fetch \/ Store \/ Return
  PROVE  RInv'
<1>1. TypeOK /\ Positions /\ Counting /\ NeverOvercounted
  BY DEF RInv
<1>2. /\ Ring \in Nat \ {0} /\ typed \in Nat /\ Len(got) \in Nat
      /\ stdin_buf_size \in Nat /\ size \in Nat /\ read \in Nat /\ unset \in Nat
      /\ regs.size \in Nat /\ Unread = typed - Len(got) /\ Unread \in Int
      /\ MaxRead \in Nat
  BY <1>1, Numbers, StdinAssumption
<1>3. ASSUME NEW n \in 1 .. MaxRead, read_stdin(n) PROVE RInv'
  <2>1. /\ pc = "user" /\ pc' = "wait" /\ size' = n /\ read' = 0 /\ unset' = 0
        /\ UNCHANGED <<stdin_buf, write_at, typed, read_at, stdin_buf_size, got, regs>>
    BY <1>3 DEF read_stdin, Goto, buffer
  <2>2. TypeOK'
    BY <1>1, <1>2, <2>1 DEF TypeOK
  <2>3. Unread' = Unread /\ InOrder' /\ RingInPlace'
    BY <2>1 DEF RInv, InOrder, RingInPlace, Unread
  <2>4. NeverOvercounted' /\ Counting'
    BY <1>1, <1>2, <2>1, <2>3 DEF NeverOvercounted, Counting
  <2>5. Positions'
    BY <1>1, <2>1, <2>3 DEF Positions
  <2> QED BY <2>1, <2>2, <2>3, <2>4, <2>5 DEF RInv
<1>4. CASE Wait
  <2>1. /\ pc = "wait" /\ pc' = "load" /\ stdin_buf_size >= size
        /\ UNCHANGED <<stdin_buf, write_at, typed, read_at, stdin_buf_size, got,
                       unset, size, read, regs>>
    BY <1>4 DEF Wait, Goto, buffer, caller, Enough
  <2>2. TypeOK'
    BY <1>1, <2>1 DEF TypeOK
  <2>3. Unread' = Unread /\ InOrder' /\ RingInPlace'
    BY <2>1 DEF RInv, InOrder, RingInPlace, Unread
  <2>4. NeverOvercounted' /\ Counting'
    BY <1>1, <1>2, <2>1, <2>3 DEF NeverOvercounted, Counting
  <2>5. Positions'
    BY <1>1, <2>1, <2>3 DEF Positions
  <2> QED BY <2>1, <2>2, <2>3, <2>4, <2>5 DEF RInv
<1>5. CASE Load
  <2>1. /\ pc = "load" /\ pc' = "pop"
        /\ regs' = [regs EXCEPT !.read_at = read_at, !.write_at = write_at]
        /\ UNCHANGED <<stdin_buf, write_at, typed, read_at, stdin_buf_size, got,
                       unset, size, read>>
    BY <1>5 DEF Load, Goto, buffer, caller
  <2>2. /\ regs' \in [read_at : 0 .. Ring, write_at : 0 .. Ring, size : 0 .. MaxKeys]
        /\ regs'.read_at = read_at /\ regs'.write_at = write_at
    BY <1>1, <2>1 DEF TypeOK
  <2>3. TypeOK'
    BY <1>1, <2>1, <2>2 DEF TypeOK
  <2>4. Unread' = Unread /\ InOrder' /\ RingInPlace'
    BY <2>1 DEF RInv, InOrder, RingInPlace, Unread
  <2>5. NeverOvercounted' /\ Counting'
    BY <1>1, <1>2, <2>1, <2>4 DEF NeverOvercounted, Counting
  <2>6. Positions'
    BY <1>1, <2>1, <2>2, <2>4 DEF Positions
  <2>7. Snapshot(typed)'
    BY <1>1, <1>2, <2>1, <2>2 DEF Snapshot, Owed, Positions, NeverOvercounted
  <2>8. \E t \in Nat : Snapshot(t)'
    BY <1>2, <2>1, <2>7
  <2> QED BY <2>3, <2>4, <2>5, <2>6, <2>8 DEF RInv
<1>6. CASE Fetch
  <2>1. /\ pc = "fetch" /\ pc' = "store" /\ regs' = [regs EXCEPT !.size = stdin_buf_size]
        /\ UNCHANGED <<stdin_buf, write_at, typed, read_at, stdin_buf_size, got,
                       unset, size, read>>
    BY <1>6 DEF Fetch, Goto, buffer, caller
  <2>2. /\ regs' \in [read_at : 0 .. Ring, write_at : 0 .. Ring, size : 0 .. MaxKeys]
        /\ regs'.size = stdin_buf_size
        /\ regs'.read_at = regs.read_at /\ regs'.write_at = regs.write_at
    BY <1>1, <2>1 DEF TypeOK
  <2>3. TypeOK'
    BY <1>1, <2>1, <2>2 DEF TypeOK
  <2>4. Unread' = Unread /\ InOrder' /\ RingInPlace'
    BY <2>1 DEF RInv, InOrder, RingInPlace, Unread
  <2>5. NeverOvercounted' /\ Counting'
    BY <1>1, <1>2, <2>1, <2>2, <2>4 DEF NeverOvercounted, Counting
  <2>6. Positions'
    BY <1>1, <2>1, <2>2, <2>4 DEF Positions
  <2>7. \E t \in Nat : Snapshot(t)'
    <3>1. PICK t \in Nat : Snapshot(t)
      BY <2>1 DEF RInv
    <3>2. Snapshot(t)'
      BY <2>1, <2>2, <3>1 DEF Snapshot, Owed
    <3> QED BY <3>2
  <2> QED BY <2>3, <2>4, <2>5, <2>6, <2>7 DEF RInv
<1>7. CASE Store
  <2>1. /\ pc = "store" /\ pc' = "pop" /\ stdin_buf_size' = regs.size - 1
        /\ read' = read + 1
        /\ UNCHANGED <<stdin_buf, write_at, typed, read_at, got, unset, size, regs>>
    BY <1>7 DEF Store, Goto, buffer, caller, Decremented
  <2>2. TypeOK'
    <3>1. read' \in 0 .. MaxRead
      BY <1>1, <1>2, <2>1 DEF TypeOK, Counting
    <3>2. stdin_buf_size' \in 0 .. MaxKeys
      BY <1>1, <1>2, <2>1, StdinAssumption, SMTT(30) DEF TypeOK, Counting
    <3> QED BY <1>1, <2>1, <3>1, <3>2 DEF TypeOK
  <2>3. Unread' = Unread /\ InOrder' /\ RingInPlace'
    BY <2>1 DEF RInv, InOrder, RingInPlace, Unread
  <2>4. NeverOvercounted' /\ Counting'
    BY <1>1, <1>2, <2>1, <2>3 DEF NeverOvercounted, Counting
  <2>5. Positions'
    BY <1>1, <2>1, <2>3 DEF Positions
  <2>6. \E t \in Nat : Snapshot(t)'
    <3>1. PICK t \in Nat : Snapshot(t)
      BY <2>1 DEF RInv
    <3>2. Snapshot(t)'
      BY <1>2, <2>1, <3>1 DEF Snapshot, Owed
    <3> QED BY <3>2
  <2> QED BY <2>2, <2>3, <2>4, <2>5, <2>6 DEF RInv
<1>8. CASE Return
  <2>1. /\ pc = "pop" /\ pc' = "user" /\ read >= size /\ read_at' = regs.read_at
        /\ UNCHANGED <<stdin_buf, write_at, typed, stdin_buf_size, got, unset,
                       size, read, regs>>
    BY <1>8 DEF Return, Goto, buffer, caller
  <2>2. TypeOK'
    BY <1>1, <2>1 DEF TypeOK
  <2>3. Unread' = Unread /\ InOrder' /\ RingInPlace'
    BY <2>1 DEF RInv, InOrder, RingInPlace, Unread
  <2>4. NeverOvercounted' /\ Counting'
    BY <1>1, <1>2, <2>1, <2>3 DEF NeverOvercounted, Counting
  <2>5. Positions'
    BY <1>1, <2>1, <2>3 DEF Positions
  <2> QED BY <2>1, <2>2, <2>3, <2>4, <2>5 DEF RInv
<1> QED BY <1>3, <1>4, <1>5, <1>6, <1>7, <1>8

\* Every step keeps the invariant while typing stays within a ring of reading.
LEMMA RInvStep == RInv /\ [Next]_vars /\ Within' => RInv'
<1> SUFFICES ASSUME RInv, [Next]_vars, Within' PROVE RInv'
  OBVIOUS
<1>1. CASE UNCHANGED vars
  BY <1>1 DEF vars, RInv, TypeOK, InOrder, NeverOvercounted, RingInPlace,
              Positions, Counting, Snapshot, Owed, Unread
<1>2. CASE KeyDropped \/ Spin
  BY <1>1, <1>2 DEF KeyDropped, Spin
<1>3. CASE KeyPushed
  BY <1>3, KeyStep
<1>4. CASE PopNothing
  BY <1>4, MissStep
<1>5. CASE pop_stdin
  BY <1>5, PopStep
<1>6. CASE \/ \E n \in 1 .. MaxRead : read_stdin(n)
           \/ Wait \/ Load \/ Fetch \/ Store \/ Return
  BY <1>6, OtherReaderSteps
<1> QED BY <1>1, <1>2, <1>3, <1>4, <1>5, <1>6 DEF Next, Reader

\* A reader gets the characters in the order typed, the count of stdin.c
\* never promises one that is not there, and the unread ones lie where
\* read_stdin will look, wherever between its instructions the keyboard
\* interrupts it: for every size of the ring and of the reads.
THEOREM RingCorrect == Spec /\ []Within => []RingSound
<1>1. Init /\ [][Next]_vars /\ []Within => []RInv
  BY RInvInit, RInvStep, PTL
<1>2. RInv => RingSound
  BY DEF RInv, RingSound
<1> QED BY <1>1, <1>2, PTL DEF Spec

\* read_stdin reports a byte it has not filled only when the ring is full and
\* looks empty: the registers it took before the loop hide nothing else.
THEOREM MissesOnlyWhenFull == Spec /\ []Within => UnsetOnlyWhenFull
<1>1. Init /\ [][Next]_vars /\ []Within => []RInv
  BY RInvInit, RInvStep, PTL
<1>2. RInv /\ [Next]_vars => [unset' > unset => Unread = Ring]_vars
  <2> SUFFICES ASSUME RInv, Next, unset' > unset PROVE Unread = Ring
    BY Zenon
  <2>1. unset \in Int
    BY Numbers DEF RInv
  <2>2. unset' # unset /\ unset' # 0
    BY <2>1, Numbers DEF RInv
  <2>3. PopNothing
    BY <2>2 DEF Next, Reader, KeyDropped, KeyPushed, Spin, read_stdin, Wait, Load,
                pop_stdin, Fetch, Store, Return, vars, caller
  <2> QED BY <2>3, MissedWhenFull
<1> QED BY <1>1, <1>2, PTL DEF Spec, UnsetOnlyWhenFull

----------------------------------------------------------------------------
(***************************************************************************)
(* Keyboard                                                                *)
(***************************************************************************)

(* What a byte makes of the driver's state: kb_handler without the wire.   *)

Codes == Nat \X Nat

Step(s, c) ==
  IF Partial(s.tempfl, c) # {}
  THEN [flags |-> s.flags \cup Released(c), tempfl |-> s.tempfl \cup Partial(s.tempfl, c),
        packets |-> s.packets]
  ELSE [flags |-> NewFlags(s.flags, s.tempfl, c) \ {"RELEASE"}, tempfl |-> {},
        packets |-> IF c < 128 \/ keycode(s.flags, s.tempfl, c) = \h6B
                    THEN Append(s.packets, <<keycode(s.flags, s.tempfl, c),
                                             Char(s.flags, s.tempfl, c)>>)
                    ELSE s.packets]

Driver == [flags |-> flags, tempfl |-> tempfl, packets |-> packets]

IsFront(a, b) == Len(a) <= Len(b) /\ \A i \in 1 .. Len(a) : a[i] = b[i]

(* q are the states the driver goes through from s while it reads w; the   *)
(* last one is e, and all of them have decoded a part of what e has.       *)
Path(q, s, w, e) ==
  /\ q[1] = s /\ q[Len(w) + 1] = e
  /\ \A i \in 1 .. Len(w) : q[i + 1] = Step(q[i], w[i])
  /\ \A i \in 1 .. Len(w) + 1 : q[i].packets \in Seq(Codes) /\ IsFront(q[i].packets, e.packets)

Leads(s, w, e) == w \in Seq(Nat) /\ \E q : Path(q, s, w, e)

\* Nothing to read leaves the driver as it is.
LEMMA LeadsNone ==
  ASSUME NEW s, s.packets \in Seq(Codes)
  PROVE  Leads(s, <<>>, s)
<1> DEFINE q == [i \in {1} |-> s]
<1>1. Path(q, s, <<>>, s)
  BY DEF Path, IsFront
<1>2. <<>> \in Seq(Nat)
  OBVIOUS
<1> QED
  BY <1>1, <1>2 DEF Leads

\* What the driver has decoded is the front of what it will have decoded;
\* with nothing left to read it is the state the wire leads to.
LEMMA LeadsFront ==
  ASSUME NEW s, NEW w, NEW e, Leads(s, w, e)
  PROVE  /\ s.packets \in Seq(Codes) /\ e.packets \in Seq(Codes)
         /\ IsFront(s.packets, e.packets)
         /\ w = <<>> => s = e
<1>1. w \in Seq(Nat)
  BY DEF Leads
<1>2. PICK q : Path(q, s, w, e)
  BY DEF Leads
<1>3. Len(w) \in Nat
  BY <1>1
<1>4. 1 \in 1 .. Len(w) + 1 /\ Len(w) + 1 \in 1 .. Len(w) + 1
  BY <1>3
<1>5. w = <<>> => Len(w) + 1 = 1
  BY <1>1
<1> QED
  BY <1>2, <1>4, <1>5 DEF Path

\* The driver reads a byte: the rest of the wire leads where all of it led.
LEMMA LeadsTail ==
  ASSUME NEW s, NEW w, NEW e, Leads(s, w, e), w # <<>>
  PROVE  Leads(Step(s, Head(w)), Tail(w), e)
<1>1. w \in Seq(Nat)
  BY DEF Leads
<1>2. PICK q : Path(q, s, w, e)
  BY DEF Leads
<1>3. Len(w) \in Nat /\ Len(w) >= 1 /\ Tail(w) \in Seq(Nat) /\ Len(Tail(w)) = Len(w) - 1
      /\ Head(w) = w[1] /\ \A i \in 1 .. Len(w) - 1 : Tail(w)[i] = w[i + 1]
  BY <1>1, HeadTailProperties, EmptySeq
<1> DEFINE t == Tail(w)
           n == Len(w)
           r == [i \in 1 .. n |-> q[i + 1]]
<1>4. r[1] = Step(s, Head(w)) /\ r[n] = e
  <2>1. 1 \in 1 .. n /\ n \in 1 .. n
    BY <1>3
  <2>2. q[1 + 1] = Step(q[1], w[1])
    BY <1>2, <2>1 DEF Path
  <2> QED
    BY <1>2, <1>3, <2>1, <2>2 DEF Path
<1>5. \A i \in 1 .. n - 1 : r[i + 1] = Step(r[i], t[i])
  <2> TAKE i \in 1 .. n - 1
  <2>1. i \in 1 .. n /\ i + 1 \in 1 .. n
    BY <1>3
  <2>2. q[(i + 1) + 1] = Step(q[i + 1], w[i + 1])
    BY <1>2, <2>1 DEF Path
  <2> QED
    BY <1>3, <2>1, <2>2
<1>6. \A i \in 1 .. n : r[i].packets \in Seq(Codes) /\ IsFront(r[i].packets, e.packets)
  <2> TAKE i \in 1 .. n
  <2>1. i + 1 \in 1 .. n + 1
    BY <1>3
  <2> QED
    BY <1>2, <2>1 DEF Path
<1>7. Len(t) = n - 1 /\ (n - 1) + 1 = n
  BY <1>3
<1>8. Path(r, Step(s, Head(w)), t, e)
  <2> HIDE DEF r, t, n
  <2> QED
    BY <1>4, <1>5, <1>6, <1>7 DEF Path
<1> QED
  BY <1>3, <1>8 DEF Leads

\* The keyboard sends a byte: the wire leads one step further.
LEMMA LeadsOn ==
  ASSUME NEW s, NEW w, NEW e, Leads(s, w, e), NEW c \in Nat,
         Step(e, c).packets \in Seq(Codes), IsFront(e.packets, Step(e, c).packets)
  PROVE  Leads(s, Append(w, c), Step(e, c))
<1>1. w \in Seq(Nat)
  BY DEF Leads
<1>2. PICK q : Path(q, s, w, e)
  BY DEF Leads
<1>3. Len(w) \in Nat
  BY <1>1
<1> DEFINE n == Len(w)
           v == Append(w, c)
           d == Step(e, c)
           r == [i \in 1 .. n + 2 |-> IF i = n + 2 THEN d ELSE q[i]]
<1>4. v \in Seq(Nat) /\ Len(v) = n + 1 /\ v[n + 1] = c /\ \A i \in 1 .. n : v[i] = w[i]
  BY <1>1, AppendProperties
<1>5. r[1] = s /\ r[(n + 1) + 1] = d
  <2>1. 1 \in 1 .. n + 2 /\ n + 2 \in 1 .. n + 2 /\ 1 # n + 2 /\ (n + 1) + 1 = n + 2
    BY <1>3
  <2> QED
    BY <1>2, <2>1 DEF Path
<1>6. \A i \in 1 .. n + 1 : r[i + 1] = Step(r[i], v[i])
  <2> TAKE i \in 1 .. n + 1
  <2>1. i \in 1 .. n + 2 /\ i + 1 \in 1 .. n + 2 /\ i # n + 2
    BY <1>3
  <2>2. CASE i = n + 1
    <3>1. q[i] = e
      BY <1>2, <2>2 DEF Path
    <3>2. r[i] = e /\ r[i + 1] = d /\ v[i] = c
      BY <1>3, <1>4, <2>1, <2>2, <3>1
    <3> QED
      BY <3>2
  <2>3. CASE i # n + 1
    <3>1. i \in 1 .. n /\ i + 1 # n + 2
      BY <1>3, <2>3
    <3>2. q[i + 1] = Step(q[i], w[i])
      BY <1>2, <3>1 DEF Path
    <3>3. r[i + 1] = q[i + 1] /\ r[i] = q[i] /\ v[i] = w[i]
      BY <1>4, <2>1, <3>1
    <3> QED
      BY <3>2, <3>3
  <2> QED
    BY <2>2, <2>3
<1>7. \A i \in 1 .. (n + 1) + 1 : r[i].packets \in Seq(Codes) /\ IsFront(r[i].packets, d.packets)
  <2> TAKE i \in 1 .. (n + 1) + 1
  <2>1. i \in 1 .. n + 2
    BY <1>3
  <2>2. CASE i = n + 2
    <3>1. r[i] = d
      BY <2>1, <2>2
    <3>2. IsFront(d.packets, d.packets)
      BY DEF IsFront
    <3> QED
      BY <3>1, <3>2
  <2>3. CASE i # n + 2
    <3>1. r[i] = q[i] /\ i \in 1 .. n + 1
      BY <1>3, <2>1, <2>3
    <3>2. q[i].packets \in Seq(Codes) /\ IsFront(q[i].packets, e.packets)
      BY <1>2, <3>1 DEF Path
    <3>3. Len(q[i].packets) \in Nat
      BY <3>2
    <3>4. n + 1 \in 1 .. n + 1
      BY <1>3
    <3>5. e.packets \in Seq(Codes)
      BY <1>2, <3>4 DEF Path
    <3>6. Len(e.packets) \in Nat /\ Len(d.packets) \in Nat
      BY <3>5
    <3>7. IsFront(e.packets, d.packets)
      OBVIOUS
    <3>8. IsFront(q[i].packets, d.packets)
      <4> HIDE DEF d
      <4> QED
        BY <3>2, <3>3, <3>6, <3>7 DEF IsFront
    <3> QED
      BY <3>1, <3>2, <3>8
  <2> QED
    BY <2>2, <2>3
<1>8. Path(r, s, v, d)
  <2> HIDE DEF r, v, d, n
  <2> QED
    BY <1>4, <1>5, <1>6, <1>7 DEF Path
<1> QED
  BY <1>4, <1>8 DEF Leads

----------------------------------------------------------------------------
(* The steps on a state that is known. *)

(* The flags after a byte. *)
Becomes(f, t, c, g) == NewFlags(f, t, c) \ {"RELEASE"} = g

St(f, t, p) == [flags |-> f, tempfl |-> t, packets |-> p]

\* A byte that the handler keeps and waits for more.
LEMMA ReadsPart ==
  ASSUME NEW s, NEW w, NEW f, NEW t, NEW p, Leads(s, w, St(f, t, p)),
         NEW c \in Nat, NEW u, Partial(t, c) = u, u # {}, Released(c) \subseteq {"RELEASE"}
  PROVE  Leads(s, Append(w, c), St(f \cup Released(c), t \cup u, p))
<1>1. Step(St(f, t, p), c) = St(f \cup Released(c), t \cup u, p)
  BY DEF Step, St
<1>2. p \in Seq(Codes)
  BY LeadsFront DEF St
<1>3. IsFront(p, p)
  BY DEF IsFront
<1> QED
  BY <1>1, <1>2, <1>3, LeadsOn DEF St

\* The last byte of a press: keycode x, character y, the flags are then g.
Strike(f, t, c, x, y, g) ==
  /\ Partial(t, c) = {} /\ (c < 128 \/ x = \h6B)
  /\ keycode(f, t, c) = x /\ Char(f, t, c) = y /\ Becomes(f, t, c, g)

\* A byte that decodes a key leads to a packet more.
LEMMA ReadsStrike ==
  ASSUME NEW s, NEW w, NEW f, NEW t, NEW p, Leads(s, w, St(f, t, p)),
         NEW c \in Nat, NEW x \in Nat, NEW y \in Nat, NEW g, Strike(f, t, c, x, y, g)
  PROVE  Leads(s, Append(w, c), St(g, {}, Append(p, <<x, y>>)))
<1>1. Step(St(f, t, p), c) = St(g, {}, Append(p, <<x, y>>))
  BY DEF Step, St, Strike, Becomes
<1>2. p \in Seq(Codes)
  BY LeadsFront DEF St
<1>3. <<x, y>> \in Codes
  BY DEF Codes
<1>4. Append(p, <<x, y>>) \in Seq(Codes) /\ IsFront(p, Append(p, <<x, y>>))
  BY <1>2, <1>3, AppendProperties DEF IsFront
<1>5. Step(St(f, t, p), c).packets = Append(p, <<x, y>>) /\ St(f, t, p).packets = p
  BY <1>1 DEF St
<1>6. Leads(s, Append(w, c), Step(St(f, t, p), c))
  <2>1. /\ Step(St(f, t, p), c).packets \in Seq(Codes)
        /\ IsFront(St(f, t, p).packets, Step(St(f, t, p), c).packets)
    BY <1>4, <1>5
  <2> QED
    BY <2>1, LeadsOn
<1> QED
  BY <1>1, <1>6

\* The last byte of a release.
Lift(f, t, c, g) ==
  /\ Partial(t, c) = {} /\ ~(c < 128)
  /\ keycode(f, t, c) # \h6B /\ Becomes(f, t, c, g)

\* A byte of a key that is let go of changes the flags and no more.
LEMMA ReadsLift ==
  ASSUME NEW s, NEW w, NEW f, NEW t, NEW p, Leads(s, w, St(f, t, p)),
         NEW c \in Nat, NEW g, Lift(f, t, c, g)
  PROVE  Leads(s, Append(w, c), St(g, {}, p))
<1>1. Step(St(f, t, p), c) = St(g, {}, p)
  BY DEF Step, St, Lift, Becomes
<1>2. p \in Seq(Codes)
  BY LeadsFront DEF St
<1>3. IsFront(p, p)
  BY DEF IsFront
<1> QED
  BY <1>1, <1>2, <1>3, LeadsOn DEF St

\* Bytes are sent one by one.
LEMMA OneByOne ==
  ASSUME NEW w \in Seq(Nat), NEW a \in Nat, NEW b \in Nat
  PROVE  /\ w \o <<>> = w
         /\ w \o <<a>> = Append(w, a)
         /\ w \o <<a, b>> = Append(Append(w, a), b)
<1>1. w \o <<>> = w
  BY ConcatEmptySeq
<1>2. w \o <<a>> = Append(w, a)
  BY AppendIsConcat
<1>3. w \o <<a, b>> = Append(Append(w, a), b)
  <2>1. <<a, b>> = Append(<<a>>, b)
    OBVIOUS
  <2>2. <<a>> \in Seq(Nat) /\ <<b>> \in Seq(Nat) /\ <<a>> \o <<b>> = <<a, b>>
    <3>1. <<a>> \in Seq(Nat) /\ <<b>> \in Seq(Nat)
      OBVIOUS
    <3>2. Append(<<a>>, b) = <<a>> \o <<b>>
      BY <3>1, AppendIsConcat
    <3> QED
      BY <2>1, <3>1, <3>2
  <2>3. w \o (<<a>> \o <<b>>) = (w \o <<a>>) \o <<b>>
    BY <2>2, ConcatAssociative
  <2>4. Append(w, a) \in Seq(Nat)
    BY AppendProperties
  <2>5. Append(w, a) \o <<b>> = Append(Append(w, a), b)
    BY <2>4, AppendIsConcat
  <2> QED
    BY <1>2, <2>2, <2>3, <2>5
<1> QED
  BY <1>1, <1>2, <1>3

\* The prefix E0 is kept.
LEMMA ReadsE0 ==
  ASSUME NEW s, NEW w, NEW f, NEW p, Leads(s, w, St(f, {}, p))
  PROVE  Leads(s, Append(w, \hE0), St(f, {"E0"}, p))
<1>1. Partial({}, \hE0) = {"E0"} /\ Released(\hE0) = {}
  BY DEF Partial, Released
<1>2. \hE0 \in Nat /\ {"E0"} # {}
  OBVIOUS
<1>3. f \cup Released(\hE0) = f /\ {} \cup {"E0"} = {"E0"}
  BY <1>1
<1>4. Released(\hE0) \subseteq {"RELEASE"}
  BY <1>1
<1>5. Leads(s, Append(w, \hE0), St(f \cup Released(\hE0), {} \cup {"E0"}, p))
  BY <1>1, <1>2, <1>4, ReadsPart
<1> QED
  BY <1>3, <1>5

Before(pre) == IF pre = 0 THEN {} ELSE {"E0"}

\* The bytes of a press, with or without E0 in front.
LEMMA ReadsPress ==
  ASSUME NEW s, NEW w, NEW f, NEW p, Leads(s, w, St(f, {}, p)), NEW pre \in {0, \hE0},
         NEW c \in Nat, NEW x \in Nat, NEW y \in Nat, NEW g, Strike(f, Before(pre), c, x, y, g)
  PROVE  Leads(s, w \o ScanBytes(pre, c), St(g, {}, Append(p, <<x, y>>)))
<1>0. w \in Seq(Nat)
  BY DEF Leads
<1>1. CASE pre = \hE0
  <2>1. w \o ScanBytes(pre, c) = Append(Append(w, \hE0), c)
    BY <1>0, <1>1, OneByOne DEF ScanBytes
  <2>2. Leads(s, Append(w, \hE0), St(f, {"E0"}, p))
    BY ReadsE0
  <2>3. Strike(f, {"E0"}, c, x, y, g)
    BY <1>1 DEF Before
  <2> QED
    BY <2>1, <2>2, <2>3, ReadsStrike
<1>2. CASE pre = 0
  <2>1. w \o ScanBytes(pre, c) = Append(w, c)
    BY <1>0, <1>2, OneByOne DEF ScanBytes
  <2>2. Strike(f, {}, c, x, y, g)
    BY <1>2 DEF Before
  <2> QED
    BY <2>1, <2>2, ReadsStrike
<1> QED
  BY <1>1, <1>2

\* The bytes of a release.
LEMMA ReadsRelease ==
  ASSUME NEW s, NEW w, NEW f, NEW p, Leads(s, w, St(f, {}, p)), NEW pre \in {0, \hE0},
         NEW c \in Nat, NEW g, Lift(f, Before(pre), c, g)
  PROVE  Leads(s, w \o ScanBytes(pre, c), St(g, {}, p))
<1>0. w \in Seq(Nat)
  BY DEF Leads
<1>1. CASE pre = \hE0
  <2>1. w \o ScanBytes(pre, c) = Append(Append(w, \hE0), c)
    BY <1>0, <1>1, OneByOne DEF ScanBytes
  <2>2. Leads(s, Append(w, \hE0), St(f, {"E0"}, p))
    BY ReadsE0
  <2>3. Lift(f, {"E0"}, c, g)
    BY <1>1 DEF Before
  <2> QED
    BY <2>1, <2>2, <2>3, ReadsLift
<1>2. CASE pre = 0
  <2>1. w \o ScanBytes(pre, c) = Append(w, c)
    BY <1>0, <1>2, OneByOne DEF ScanBytes
  <2>2. Lift(f, {}, c, g)
    BY <1>2 DEF Before
  <2> QED
    BY <2>1, <2>2, ReadsLift
<1> QED
  BY <1>1, <1>2

----------------------------------------------------------------------------
(* The flags. *)

ModNames  == {"LSHIFT", "RSHIFT", "LCONTROL", "RCONTROL", "LALT", "RALT"}
LockNames == {"CAPS_LOCK", "NUM_LOCK", "SCROLL_LOCK"}
Paired(f) == \A g \in DOMAIN Sides : g \in f <=> Sides[g] \cap f # {}

(* No release is being decoded, and the flag of a pair says if either key   *)
(* of it is down.                                                          *)
Ready(f) == "RELEASE" \notin f /\ Paired(f)

\* The flags of the pairs, one by one.
LEMMA PairedIs ==
  ASSUME NEW f
  PROVE  /\ Paired(f) <=> /\ "SHIFT" \in f <=> "LSHIFT" \in f \/ "RSHIFT" \in f
                          /\ "ALT" \in f <=> "LALT" \in f \/ "RALT" \in f
                          /\ "CONTROL" \in f <=> "LCONTROL" \in f \/ "RCONTROL" \in f
         /\ Rest(f) = f \cup (IF "LSHIFT" \in f \/ "RSHIFT" \in f THEN {"SHIFT"} ELSE {})
                        \cup (IF "LALT" \in f \/ "RALT" \in f THEN {"ALT"} ELSE {})
                        \cup (IF "LCONTROL" \in f \/ "RCONTROL" \in f THEN {"CONTROL"} ELSE {})
<1>1. DOMAIN Sides = {"SHIFT", "ALT", "CONTROL"}
  BY DEF Sides
<1>2. /\ Sides["SHIFT"] = {"LSHIFT", "RSHIFT"} /\ Sides["ALT"] = {"LALT", "RALT"}
      /\ Sides["CONTROL"] = {"LCONTROL", "RCONTROL"}
  BY DEF Sides
<1>3. /\ Sides["SHIFT"] \cap f # {} <=> "LSHIFT" \in f \/ "RSHIFT" \in f
      /\ Sides["ALT"] \cap f # {} <=> "LALT" \in f \/ "RALT" \in f
      /\ Sides["CONTROL"] \cap f # {} <=> "LCONTROL" \in f \/ "RCONTROL" \in f
  BY <1>2
<1> QED
  BY <1>1, <1>3 DEF Paired, Rest

\* The pair each of the six modifier keys belongs to.
LEMMA BothIs ==
  /\ Both("LSHIFT") = {"SHIFT"} /\ Both("RSHIFT") = {"SHIFT"}
  /\ Both("LALT") = {"ALT"} /\ Both("RALT") = {"ALT"}
  /\ Both("LCONTROL") = {"CONTROL"} /\ Both("RCONTROL") = {"CONTROL"}
<1>1. DOMAIN Sides = {"SHIFT", "ALT", "CONTROL"}
  BY DEF Sides
<1>2. /\ Sides["SHIFT"] = {"LSHIFT", "RSHIFT"} /\ Sides["ALT"] = {"LALT", "RALT"}
      /\ Sides["CONTROL"] = {"LCONTROL", "RCONTROL"}
  BY DEF Sides
<1> QED
  BY <1>1, <1>2 DEF Both

\* Rest adds nothing that it would add again, and leaves the other flags.
LEMMA RestIs ==
  ASSUME NEW f
  PROVE  /\ \A n : n \notin {"SHIFT", "ALT", "CONTROL"} => (n \in Rest(f) <=> n \in f)
         /\ f \subseteq Rest(f)
         /\ ("SHIFT" \in f => "LSHIFT" \in f \/ "RSHIFT" \in f)
            /\ ("ALT" \in f => "LALT" \in f \/ "RALT" \in f)
            /\ ("CONTROL" \in f => "LCONTROL" \in f \/ "RCONTROL" \in f) => Paired(Rest(f))
<1>1. \A n : n \notin {"SHIFT", "ALT", "CONTROL"} => (n \in Rest(f) <=> n \in f)
  BY PairedIs
<1>2. f \subseteq Rest(f)
  BY PairedIs
<1>3. ASSUME "SHIFT" \in f => "LSHIFT" \in f \/ "RSHIFT" \in f,
             "ALT" \in f => "LALT" \in f \/ "RALT" \in f,
             "CONTROL" \in f => "LCONTROL" \in f \/ "RCONTROL" \in f
      PROVE  Paired(Rest(f))
  <2>1. /\ "SHIFT" \in Rest(f) <=> "LSHIFT" \in f \/ "RSHIFT" \in f
        /\ "ALT" \in Rest(f) <=> "LALT" \in f \/ "RALT" \in f
        /\ "CONTROL" \in Rest(f) <=> "LCONTROL" \in f \/ "RCONTROL" \in f
    BY <1>3, PairedIs
  <2>2. \A n \in ModNames : n \in Rest(f) <=> n \in f
    BY <1>1 DEF ModNames
  <2> DEFINE r == Rest(f)
  <2>3. Paired(r) <=> /\ "SHIFT" \in r <=> "LSHIFT" \in r \/ "RSHIFT" \in r
                      /\ "ALT" \in r <=> "LALT" \in r \/ "RALT" \in r
                      /\ "CONTROL" \in r <=> "LCONTROL" \in r \/ "RCONTROL" \in r
    <3> HIDE DEF r
    <3> QED
      BY PairedIs
  <2> QED
    BY <2>1, <2>2, <2>3 DEF ModNames
<1> QED
  BY <1>1, <1>2, <1>3

\* Only the break codes say RELEASE.
LEMMA ReleasedIs ==
  ASSUME NEW c \in Nat
  PROVE  /\ Released(c) \subseteq {"RELEASE"}
         /\ c < 128 => Released(c) = {}
BY DEF Released

\* A byte that is not of a modifier leaves the flags as they are.
LEMMA FlagsStay ==
  ASSUME NEW f, NEW t, NEW c \in Nat, Ready(f), Modifier(t, c) = "none", Lock(c) = "none"
  PROVE  /\ Becomes(f, t, c, f)
         /\ c < 128 => NewFlags(f, t, c) = f
<1>1. Switched(f, t, c) = f
  BY DEF Switched
<1>2. PICK r : r = f \cup Released(c)
  OBVIOUS
<1>3. \A n : n # "RELEASE" => (n \in r <=> n \in f)
  BY <1>2, ReleasedIs
<1>4. Rest(r) = r
  BY <1>3, PairedIs DEF Ready
<1>5. NewFlags(f, t, c) = r
  BY <1>1, <1>2, <1>4 DEF NewFlags
<1>6. c < 128 => r = f
  BY <1>2, ReleasedIs
<1> QED
  BY <1>2, <1>3, <1>5, <1>6 DEF Ready, Becomes

\* A modifier goes down.
LEMMA FlagsDown ==
  ASSUME NEW f, NEW t, NEW c \in Nat, NEW m \in ModNames, Ready(f), Modifier(t, c) = m, c < 128
  PROVE  \E g : /\ Becomes(f, t, c, g) /\ Ready(g)
                /\ \A n \in ModNames \cup LockNames : n \in g <=> n \in f \/ n = m
<1>0. m # "none"
  BY DEF ModNames
<1>1. Switched(f, t, c) = f \cup {m}
  BY <1>0 DEF Switched
<1>2. NewFlags(f, t, c) = Rest(f \cup {m})
  <2>1. Released(c) = {}
    BY ReleasedIs
  <2>2. (f \cup {m}) \cup {} = f \cup {m}
    OBVIOUS
  <2> QED
    BY <1>1, <2>1, <2>2 DEF NewFlags
<1>3. PICK r : r = f \cup {m}
  OBVIOUS
<1>4. Paired(Rest(r)) /\ "RELEASE" \notin Rest(r)
  BY <1>3, RestIs, PairedIs DEF Ready, ModNames
<1>5. \A n \in ModNames \cup LockNames : n \in Rest(r) <=> n \in f \/ n = m
  BY <1>3, RestIs DEF ModNames, LockNames
<1>6. Becomes(f, t, c, Rest(r))
  BY <1>2, <1>3, <1>4 DEF Becomes
<1> QED
  BY <1>4, <1>5, <1>6 DEF Ready

\* A modifier goes up.
LEMMA FlagsUp ==
  ASSUME NEW f, NEW t, NEW c \in Nat, NEW m \in ModNames, Ready(f), Modifier(t, c) = m,
         ~(c < 128)
  PROVE  \E g : /\ Becomes(f, t, c, g) /\ Ready(g)
                /\ \A n \in ModNames \cup LockNames : n \in g <=> n \in f /\ n # m
<1> DEFINE g == Rest((f \ ({m} \cup Both(m))) \cup Released(c)) \ {"RELEASE"}
<1>1. Becomes(f, t, c, g)
  <2>1. m # "none"
    BY DEF ModNames
  <2>2. Switched(f, t, c) = f \ ({m} \cup Both(m))
    BY <2>1 DEF Switched
  <2> QED
    BY <2>2 DEF NewFlags, Becomes
<1>2. PICK r : r = (f \ ({m} \cup Both(m))) \cup Released(c)
  OBVIOUS
<1>3. Both(m) \subseteq {"SHIFT", "ALT", "CONTROL"}
  BY BothIs DEF ModNames
<1>4. \A n \in ModNames \cup LockNames : n \in r <=> n \in f /\ n # m
  BY <1>2, <1>3, ReleasedIs DEF ModNames, LockNames
<1>5. /\ "SHIFT" \in r => "LSHIFT" \in r \/ "RSHIFT" \in r
      /\ "ALT" \in r => "LALT" \in r \/ "RALT" \in r
      /\ "CONTROL" \in r => "LCONTROL" \in r \/ "RCONTROL" \in r
  BY <1>2, BothIs, ReleasedIs, PairedIs DEF ModNames, Ready
<1>6. Paired(Rest(r))
  BY <1>5, RestIs
<1>7. PICK h : h = Rest(r) \ {"RELEASE"}
  OBVIOUS
<1>8. Ready(h)
  <2>1. \A n : n # "RELEASE" => (n \in h <=> n \in Rest(r))
    BY <1>7
  <2>2. PICK x : x = Rest(r)
    OBVIOUS
  <2>3. Paired(h)
    BY <1>6, <2>1, <2>2, PairedIs
  <2> QED
    BY <1>7, <2>3 DEF Ready
<1>9. \A n \in ModNames \cup LockNames : n \in h <=> n \in f /\ n # m
  BY <1>4, <1>7, RestIs DEF ModNames, LockNames
<1>10. h = g
  BY <1>2, <1>7
<1> QED
  BY <1>1, <1>8, <1>9, <1>10

\* A lock is struck.
LEMMA FlagsLock ==
  ASSUME NEW f, NEW t, NEW c \in Nat, NEW m \in LockNames, Ready(f), Modifier(t, c) = "none",
         Lock(c) = m, c < 128
  PROVE  \E g : /\ Becomes(f, t, c, g) /\ Ready(g)
                /\ g \cap LockNames = Toggle(f \cap LockNames, m)
                /\ \A n \in ModNames : n \in g <=> n \in f
<1>1. PICK r : r = Toggle(f, m)
  OBVIOUS
<1>2. \A n : n \notin LockNames => (n \in r <=> n \in f)
  BY <1>1 DEF Toggle
<1>3. Switched(f, t, c) \cup Released(c) = r
  BY <1>1, ReleasedIs DEF Switched, LockNames
<1>4. Rest(r) = r /\ Paired(r) /\ "RELEASE" \notin r
  BY <1>2, PairedIs DEF Ready, LockNames
<1>5. Becomes(f, t, c, r)
  BY <1>3, <1>4 DEF NewFlags, Becomes
<1>6. r \cap LockNames = Toggle(f \cap LockNames, m)
  BY <1>1 DEF Toggle
<1>7. \A n \in ModNames : n \in r <=> n \in f
  BY <1>2 DEF ModNames, LockNames
<1> QED
  BY <1>1, <1>4, <1>5, <1>6, <1>7 DEF Ready

----------------------------------------------------------------------------
(* What the keys of the table make the handler do. *)

\* The highest bit and the rest of a byte.
LEMMA Small ==
  ASSUME NEW c \in 0 .. 127
  PROVE  c % 128 = c /\ (c + 128) % 128 = c
OBVIOUS

\* Characters that neither shift nor caps lock changes.
LEMMA MatchedIs ==
  ASSUME NEW c \in Nat, NEW f, NEW pad \in BOOLEAN,
         c < 39 \/ c = 127 \/ (pad /\ c < 65)
  PROVE  Matched(c, f, pad) = c
BY DEF Matched, islower, isupper

\* What the handler makes of the last byte of a modifier.
LEMMA ModBytes ==
  ASSUME NEW f, NEW m \in Mods
  PROVE  /\ m[1] \in Nat /\ m[2] \in {0, \hE0} /\ m[3] \in 0 .. 127 /\ m[4] \in ModNames
         /\ Partial(Before(m[2]), m[3]) = {} /\ Partial(Before(m[2]), m[3] + 128) = {}
         /\ Modifier(Before(m[2]), m[3]) = m[4] /\ Modifier(Before(m[2]), m[3] + 128) = m[4]
         /\ keycode(f, Before(m[2]), m[3]) = m[1] /\ keycode(f, Before(m[2]), m[3] + 128) = m[1]
         /\ m[1] # \h6B
         /\ ascii(f, Before(m[2]), m[3]) = 0
<1>1. m[1] \in Nat /\ m[2] \in {0, \hE0} /\ m[3] \in 0 .. 127 /\ m[4] \in ModNames /\ m[1] # \h6B
  BY DEF Mods, ModNames
<1>2. Partial(Before(m[2]), m[3]) = {} /\ Partial(Before(m[2]), m[3] + 128) = {}
  BY DEF Mods, Before, Partial
<1>3. Modifier(Before(m[2]), m[3]) = m[4] /\ Modifier(Before(m[2]), m[3] + 128) = m[4]
  BY DEF Mods, Before, Modifier
<1>4. keycode(f, Before(m[2]), m[3]) = m[1] /\ keycode(f, Before(m[2]), m[3] + 128) = m[1]
  BY DEF Mods, Before, keycode, OnPad
<1>5. ascii(f, Before(m[2]), m[3]) = 0
  BY DEF Mods, Before, ascii, Modifier, OnPad
<1> QED
  BY <1>1, <1>2, <1>3, <1>4, <1>5

\* The locks.
LEMMA LockBytes ==
  ASSUME NEW f, NEW m \in Locks
  PROVE  /\ m[1] \in 0 .. 88 /\ m[2] \in LockNames
         /\ Partial({}, m[1]) = {}
         /\ Modifier({}, m[1]) = "none" /\ Lock(m[1]) = m[2]
         /\ keycode(f, {}, m[1]) = m[1] /\ ascii(f, {}, m[1]) = 0
<1>1. CASE m = <<\h3A, "CAPS_LOCK">>
  BY <1>1 DEF Partial, Modifier, Lock, keycode, ascii, LockNames, AsPad, OnPad, Always
<1>2. CASE m = <<\h45, "NUM_LOCK">>
  BY <1>2 DEF Partial, Modifier, Lock, keycode, ascii, LockNames, AsPad, OnPad, Always
<1>3. CASE m = <<\h46, "SCROLL_LOCK">>
  BY <1>3 DEF Partial, Modifier, Lock, keycode, ascii, LockNames, AsPad, OnPad, Always
<1> QED
  BY <1>1, <1>2, <1>3 DEF Locks

(* A byte that is neither a prefix nor of a modifier or a lock. *)
Common(c) == c \in 1 .. 88 /\ c \notin {\h1D, \h2A, \h36, \h38, \h3A, \h45, \h46}

\* Such a byte changes no flag, going down or up.
LEMMA CommonBytes ==
  ASSUME NEW c, Common(c), NEW t, t \in {{}, {"E0"}}, NEW f
  PROVE  /\ Partial(t, c) = {} /\ Partial(t, c + 128) = {}
         /\ Modifier(t, c) = "none" /\ Modifier(t, c + 128) = "none"
         /\ Lock(c) = "none" /\ Lock(c + 128) = "none"
         /\ keycode(f, t, c + 128) # \h6B
<1>1. c \in 0 .. 127 /\ c \in 1 .. 88 /\ c # \h1D /\ c # \h2A /\ c # \h36 /\ c # \h38
      /\ c # \h3A /\ c # \h45 /\ c # \h46
  BY DEF Common
<1>2. c % 128 = c /\ (c + 128) % 128 = c
  BY <1>1, Small
<1>3. "E1" \notin t
  OBVIOUS
<1>4. Partial(t, c) = {} /\ Partial(t, c + 128) = {}
  BY <1>1, <1>3 DEF Partial
<1>5. Modifier(t, c) = "none" /\ Modifier(t, c + 128) = "none"
  BY <1>1, <1>2 DEF Modifier
<1>6. Lock(c) = "none" /\ Lock(c + 128) = "none"
  BY <1>1 DEF Lock
<1>7. keycode(f, t, c + 128) # \h6B
  BY <1>1, <1>2, <1>3 DEF keycode, OnPad
<1> QED
  BY <1>4, <1>5, <1>6, <1>7

\* A press and a release of such a key change no flag.
LEMMA CommonStrike ==
  ASSUME NEW c, Common(c), NEW pre \in {0, \hE0}, NEW f, Ready(f), NEW x, NEW y,
         keycode(f, Before(pre), c) = x,
         Matched(ascii(f, Before(pre), c), f, NUMPAD(f, Before(pre), c)) = y
  PROVE  Strike(f, Before(pre), c, x, y, f) /\ Lift(f, Before(pre), c + 128, f)
<1>1. PICK t : t = Before(pre)
  OBVIOUS
<1>2. t \in {{}, {"E0"}}
  BY <1>1 DEF Before
<1>3. c \in Nat /\ c + 128 \in Nat /\ c < 128 /\ ~(c + 128 < 128)
  BY DEF Common
<1>4. /\ Partial(t, c) = {} /\ Partial(t, c + 128) = {}
      /\ Modifier(t, c) = "none" /\ Modifier(t, c + 128) = "none"
      /\ Lock(c) = "none" /\ Lock(c + 128) = "none"
      /\ keycode(f, t, c + 128) # \h6B
  BY <1>2, CommonBytes
<1>5. NewFlags(f, t, c) = f /\ Becomes(f, t, c, f)
  BY <1>3, <1>4, FlagsStay
<1>6. Becomes(f, t, c + 128, f)
  BY <1>3, <1>4, FlagsStay
<1>7. Char(f, t, c) = y
  BY <1>1, <1>5 DEF Char
<1> QED
  BY <1>1, <1>3, <1>4, <1>5, <1>6, <1>7 DEF Strike, Lift

\* The tables agree with the legends.
LEMMA Legends ==
  ASSUME NEW m \in Chars
  PROVE  /\ Common(m[1]) /\ m[1] <= 53 /\ m[1] # \h1C
         /\ m[2] \in 39 .. 122 /\ m[3] \in 33 .. 126 /\ ~isupper(m[2])
         /\ IF m[2] \in Letters THEN m[3] = m[2] - 32 ELSE ~islower(m[3]) /\ ~isupper(m[3])
         /\ sc_to_ascii[m[1] + 1] = m[2]
         /\ shift_lookup[m[2] - 38] = m[3]
<1>1. /\ Common(m[1]) /\ m[1] <= 53 /\ m[1] # \h1C
      /\ m[2] \in 39 .. 122 /\ m[3] \in 33 .. 126 /\ ~isupper(m[2])
      /\ IF m[2] \in Letters THEN m[3] = m[2] - 32 ELSE ~islower(m[3]) /\ ~isupper(m[3])
  BY DEF Chars, Common, Letters, islower, isupper
<1>2. sc_to_ascii[m[1] + 1] = m[2]
  BY DEF Chars, sc_to_ascii
<1>3. shift_lookup[m[2] - 38] = m[3]
  BY DEF Chars, shift_lookup
<1> QED
  BY <1>1, <1>2, <1>3

\* The character of a key with legends x and y, as the flags have it.
Legend(f, x, y) ==
  IF x \in Letters THEN IF "SHIFT" \in f <=> "CAPS_LOCK" \in f THEN x ELSE y
  ELSE IF "SHIFT" \in f THEN y ELSE x

\* A character key gives its keycode and the legend the flags select.
LEMMA CharIs ==
  ASSUME NEW f, NEW m \in Chars
  PROVE  /\ keycode(f, {}, m[1]) = m[1]
         /\ Matched(ascii(f, {}, m[1]), f, NUMPAD(f, {}, m[1])) = Legend(f, m[2], m[3])
<1>1. PICK c, x, y : c = m[1] /\ x = m[2] /\ y = m[3]
  OBVIOUS
<1>2. /\ Common(c) /\ c <= 53 /\ c # \h1C
      /\ x \in 39 .. 122 /\ y \in 33 .. 126 /\ ~isupper(x)
      /\ IF x \in Letters THEN y = x - 32 ELSE ~islower(y) /\ ~isupper(y)
      /\ sc_to_ascii[c + 1] = x
      /\ shift_lookup[x - 38] = y
  BY <1>1, Legends
<1>3. c \in 1 .. 53 /\ c # \h1D /\ c # \h2A /\ c # \h36 /\ c # \h38
  BY <1>2 DEF Common
<1>4. c % 128 = c
  BY <1>3, Small
<1>5. "E0" \notin {}
  OBVIOUS
<1>6. keycode(f, {}, c) = c
  BY <1>2, <1>3, <1>4, <1>5 DEF keycode, OnPad
<1>7. Modifier({}, c) = "none"
  BY <1>3, <1>4 DEF Modifier
<1>8. ascii(f, {}, c) = x
  BY <1>2, <1>3, <1>7 DEF ascii, OnPad
<1>9. NUMPAD(f, {}, c) = FALSE
  BY <1>3, <1>5 DEF NUMPAD, AsPad, OnPad, Always
<1>10. Matched(x, f, FALSE) = Legend(f, x, y)
  <2>1. CASE "SHIFT" \in f
    BY <1>2, <2>1 DEF Matched, Legend, Letters, islower, isupper
  <2>2. CASE "SHIFT" \notin f
    BY <1>2, <2>2 DEF Matched, Legend, Letters, islower, isupper
  <2> QED
    BY <2>1, <2>2
<1>11. Matched(ascii(f, {}, c), f, NUMPAD(f, {}, c)) = Legend(f, x, y)
  BY <1>8, <1>9, <1>10
<1> QED
  BY <1>1, <1>6, <1>11

\* The keypad.
LEMMA PadIs ==
  ASSUME NEW f, NEW m \in Pads
  PROVE  /\ Common(m[1]) /\ m[2] \in Nat /\ m[3] \in Nat /\ m[4] \in Nat
         /\ keycode(f, {}, m[1]) = IF "NUM_LOCK" \notin f THEN m[4] ELSE m[1]
         /\ Matched(ascii(f, {}, m[1]), f, NUMPAD(f, {}, m[1]))
            = IF "NUM_LOCK" \in f THEN m[2] ELSE m[3]
<1>1. PICK c, x, y, z : c = m[1] /\ x = m[2] /\ y = m[3] /\ z = m[4]
  OBVIOUS
<1>2. /\ Common(c) /\ x \in 39 .. 64 /\ y \in {0, 127} /\ z \in Nat
      /\ c \in \h47 .. \h53 /\ c \notin {\h4A, \h4C, \h4E}
      /\ y = IF c = \h53 THEN 127 ELSE 0
  BY <1>1 DEF Pads, Common
<1>3. Digits[c - \h46] = x /\ Cursor[c - \h46] = z
  BY <1>1 DEF Pads, Digits, Cursor
<1>4. c % 128 = c
  BY <1>2, Small
<1>5. AsPad(f, {}, c) <=> "NUM_LOCK" \in f
  BY <1>2 DEF AsPad, OnPad, Always
<1>6. keycode(f, {}, c) = IF "NUM_LOCK" \notin f THEN z ELSE c
  BY <1>2, <1>3, <1>4, <1>5 DEF keycode, OnPad
<1>7. ascii(f, {}, c) = IF "NUM_LOCK" \in f THEN x ELSE y
  BY <1>2, <1>3, <1>5 DEF ascii, OnPad
<1>8. NUMPAD(f, {}, c) \in BOOLEAN /\ ("NUM_LOCK" \in f => NUMPAD(f, {}, c))
  BY <1>5 DEF NUMPAD
<1>9. Matched(ascii(f, {}, c), f, NUMPAD(f, {}, c)) = IF "NUM_LOCK" \in f THEN x ELSE y
  <2>1. PICK p \in BOOLEAN : p = NUMPAD(f, {}, c)
    BY <1>8
  <2>2. CASE "NUM_LOCK" \in f
    <3>1. x \in Nat /\ x < 65 /\ p
      BY <1>2, <1>8, <2>1, <2>2
    <3>2. Matched(x, f, p) = x
      BY <3>1, MatchedIs
    <3> QED
      BY <1>7, <2>1, <2>2, <3>2
  <2>3. CASE "NUM_LOCK" \notin f
    <3>1. y \in Nat /\ (y < 39 \/ y = 127)
      BY <1>2
    <3>2. Matched(y, f, p) = y
      BY <3>1, MatchedIs
    <3> QED
      BY <1>7, <2>1, <2>3, <3>2
  <2> QED
    BY <2>2, <2>3
<1> QED
  BY <1>1, <1>2, <1>6, <1>9

\* Keys that type the same character always, or none.
LEMMA FixedIs ==
  ASSUME NEW f, NEW m \in Fixed
  PROVE  /\ m[1] \in Nat /\ m[2] \in {0, \hE0} /\ Common(m[3]) /\ m[4] \in Nat
         /\ keycode(f, Before(m[2]), m[3]) = m[1]
         /\ Matched(ascii(f, Before(m[2]), m[3]), f, NUMPAD(f, Before(m[2]), m[3])) = m[4]
<1>1. m[1] \in Nat /\ m[2] \in {0, \hE0} /\ Common(m[3]) /\ m[4] \in Nat
  BY DEF Fixed, Common
<1>2. keycode(f, Before(m[2]), m[3]) = m[1]
  BY DEF Fixed, keycode, Before, OnPad, AsPad, Always, NUMPAD, Cursor
<1>3. ascii(f, Before(m[2]), m[3]) = m[4]
  BY DEF Fixed, ascii, Modifier, Before, OnPad, AsPad, Always, NUMPAD, Digits, sc_to_ascii
<1>4. m[4] < 39 \/ m[4] = 127 \/ (m[4] < 65 /\ NUMPAD(f, Before(m[2]), m[3]))
  BY DEF Fixed, Before, OnPad, AsPad, Always, NUMPAD
<1>5. PICK p \in BOOLEAN : p = NUMPAD(f, Before(m[2]), m[3])
  BY DEF NUMPAD
<1>6. Matched(m[4], f, p) = m[4]
  BY <1>1, <1>4, <1>5, MatchedIs
<1> QED
  BY <1>1, <1>2, <1>3, <1>5, <1>6

\* A key without a legend gives its keycode and no character.
LEMMA MuteIs ==
  ASSUME NEW f, NEW m \in Mute
  PROVE  /\ m[1] \in Nat /\ m[2] \in {0, \hE0} /\ Common(m[3])
         /\ keycode(f, Before(m[2]), m[3]) = m[1]
         /\ Matched(ascii(f, Before(m[2]), m[3]), f, NUMPAD(f, Before(m[2]), m[3])) = 0
<1>1. m[1] \in Nat /\ m[2] \in {0, \hE0} /\ Common(m[3])
  BY DEF Mute, Common
<1>2. keycode(f, Before(m[2]), m[3]) = m[1]
  BY DEF Mute, keycode, Before, OnPad, AsPad, Always, NUMPAD, Cursor
<1>3. ascii(f, Before(m[2]), m[3]) = 0
  BY DEF Mute, ascii, Modifier, Before, OnPad, AsPad, Always, NUMPAD, Digits, sc_to_ascii
<1>4. PICK p \in BOOLEAN : p = NUMPAD(f, Before(m[2]), m[3])
  BY DEF NUMPAD
<1>5. Matched(0, f, p) = 0
  BY MatchedIs
<1> QED
  BY <1>1, <1>2, <1>3, <1>4, <1>5

\* A modifier goes down and up.
LEMMA ModStrike ==
  ASSUME NEW f, Ready(f), NEW m \in Mods
  PROVE  /\ \E g : /\ Strike(f, Before(m[2]), m[3], m[1], 0, g) /\ Ready(g)
                   /\ \A n \in ModNames \cup LockNames : n \in g <=> n \in f \/ n = m[4]
         /\ \E g : /\ Lift(f, Before(m[2]), m[3] + 128, g) /\ Ready(g)
                   /\ \A n \in ModNames \cup LockNames : n \in g <=> n \in f /\ n # m[4]
<1> DEFINE t == Before(m[2])
           c == m[3]
           x == m[1]
           n == m[4]
<1>2. /\ x \in Nat /\ x # \h6B /\ c \in 0 .. 127 /\ n \in ModNames
      /\ Partial(t, c) = {} /\ Partial(t, c + 128) = {}
      /\ Modifier(t, c) = n /\ Modifier(t, c + 128) = n
      /\ keycode(f, t, c) = x /\ keycode(f, t, c + 128) = x
      /\ ascii(f, t, c) = 0
  BY ModBytes
<1> HIDE DEF t, c, x, n
<1>3. c \in Nat /\ c + 128 \in Nat /\ c < 128 /\ ~(c + 128 < 128)
  BY <1>2
<1>4. PICK p \in BOOLEAN : p = NUMPAD(f, t, c)
  BY DEF NUMPAD
<1>5. Matched(0, NewFlags(f, t, c), p) = 0
  BY MatchedIs
<1>6. Char(f, t, c) = 0
  BY <1>2, <1>4, <1>5 DEF Char
<1>7. PICK h : /\ Becomes(f, t, c, h) /\ Ready(h)
               /\ \A k \in ModNames \cup LockNames : k \in h <=> k \in f \/ k = n
  BY <1>2, <1>3, FlagsDown
<1>8. Strike(f, t, c, x, 0, h)
  BY <1>2, <1>3, <1>6, <1>7 DEF Strike
<1>9. PICK g : /\ Becomes(f, t, c + 128, g) /\ Ready(g)
               /\ \A k \in ModNames \cup LockNames : k \in g <=> k \in f /\ k # n
  BY <1>2, <1>3, FlagsUp
<1>10. Lift(f, t, c + 128, g)
  BY <1>2, <1>3, <1>9 DEF Lift
<1> QED
  BY <1>7, <1>8, <1>9, <1>10 DEF t, c, x, n

\* A lock is struck and let go.
LEMMA LockStrike ==
  ASSUME NEW f, Ready(f), NEW m \in Locks
  PROVE  /\ \E g : /\ Strike(f, Before(0), m[1], m[1], 0, g) /\ Ready(g)
                   /\ g \cap LockNames = Toggle(f \cap LockNames, m[2])
                   /\ \A n \in ModNames : n \in g <=> n \in f
         /\ Lift(f, Before(0), m[1] + 128, f)
<1>1. PICK c, n : c = m[1] /\ n = m[2]
  OBVIOUS
<1>2. /\ c \in 0 .. 88 /\ n \in LockNames /\ Partial({}, c) = {}
      /\ Modifier({}, c) = "none" /\ Lock(c) = n
      /\ keycode(f, {}, c) = c /\ ascii(f, {}, c) = 0
  BY <1>1, LockBytes
<1>3. c \in Nat /\ c + 128 \in Nat /\ c < 128 /\ ~(c + 128 < 128)
  BY <1>2
<1>4. PICK p \in BOOLEAN : p = NUMPAD(f, {}, c)
  BY DEF NUMPAD
<1>5. Matched(0, NewFlags(f, {}, c), p) = 0
  BY MatchedIs
<1>6. Char(f, {}, c) = 0
  BY <1>2, <1>4, <1>5 DEF Char
<1>7. PICK g : /\ Becomes(f, {}, c, g) /\ Ready(g)
               /\ g \cap LockNames = Toggle(f \cap LockNames, n)
               /\ \A k \in ModNames : k \in g <=> k \in f
  BY <1>2, <1>3, FlagsLock
<1>8. Strike(f, {}, c, c, 0, g)
  BY <1>2, <1>3, <1>6, <1>7 DEF Strike
<1>9. /\ Partial({}, c + 128) = {} /\ Modifier({}, c + 128) = "none"
      /\ Lock(c + 128) = "none" /\ keycode(f, {}, c + 128) # \h6B
  <2>1. c \in {\h3A, \h45, \h46}
    BY <1>1 DEF Locks
  <2> QED
    BY <2>1 DEF Partial, Modifier, Lock, keycode, OnPad
<1>10. Becomes(f, {}, c + 128, f)
  BY <1>3, <1>9, FlagsStay
<1>11. Lift(f, {}, c + 128, f)
  BY <1>3, <1>9, <1>10 DEF Lift
<1>12. Before(0) = {}
  BY DEF Before
<1> QED
  BY <1>1, <1>7, <1>8, <1>11, <1>12

\* Four bytes, and six.
LEMMA Further ==
  ASSUME NEW w \in Seq(Nat), NEW v \in Seq(Nat), NEW b \in Nat
  PROVE  w \o Append(v, b) = Append(w \o v, b)
<1>1. Append(v, b) = v \o <<b>> /\ <<b>> \in Seq(Nat)
  BY AppendIsConcat
<1>2. w \o (v \o <<b>>) = (w \o v) \o <<b>>
  BY <1>1, ConcatAssociative
<1>3. w \o v \in Seq(Nat)
  BY ConcatProperties
<1>4. Append(w \o v, b) = (w \o v) \o <<b>>
  BY <1>3, AppendIsConcat
<1> QED
  BY <1>1, <1>2, <1>4

FourSent(w, a, b, c, d) == w \o <<a, b, c, d>> = Append(Append(Append(Append(w, a), b), c), d)

\* Four bytes sent together are four bytes sent one by one.
LEMMA FourBytes ==
  ASSUME NEW w \in Seq(Nat), NEW a \in Nat, NEW b \in Nat, NEW c \in Nat, NEW d \in Nat
  PROVE  FourSent(w, a, b, c, d)
<1>1. <<a, b>> \in Seq(Nat) /\ <<a, b, c>> \in Seq(Nat)
  OBVIOUS
<1>2. <<a, b, c>> = Append(<<a, b>>, c) /\ <<a, b, c, d>> = Append(<<a, b, c>>, d)
  OBVIOUS
<1>3. w \o <<a, b>> = Append(Append(w, a), b)
  BY OneByOne
<1>4. w \o Append(<<a, b>>, c) = Append(w \o <<a, b>>, c)
  BY <1>1, Further
<1>5. w \o Append(<<a, b, c>>, d) = Append(w \o <<a, b, c>>, d)
  BY <1>1, Further
<1> QED
  BY <1>2, <1>3, <1>4, <1>5 DEF FourSent

SixSent(w, a, b, c, d, x, y) ==
  w \o <<a, b, c, d, x, y>> = Append(Append(Append(Append(Append(Append(w, a), b), c), d), x), y)

\* So are six.
LEMMA SixBytes ==
  ASSUME NEW w \in Seq(Nat), NEW a \in Nat, NEW b \in Nat, NEW c \in Nat, NEW d \in Nat,
         NEW x \in Nat, NEW y \in Nat
  PROVE  SixSent(w, a, b, c, d, x, y)
<1>1. <<a, b, c, d>> \in Seq(Nat) /\ <<a, b, c, d, x>> \in Seq(Nat)
  OBVIOUS
<1>2. /\ <<a, b, c, d, x>> = Append(<<a, b, c, d>>, x)
      /\ <<a, b, c, d, x, y>> = Append(<<a, b, c, d, x>>, y)
  OBVIOUS
<1>3. w \o <<a, b, c, d>> = Append(Append(Append(Append(w, a), b), c), d)
  <2>1. FourSent(w, a, b, c, d)
    BY FourBytes
  <2> QED
    BY <2>1 DEF FourSent
<1>4. w \o Append(<<a, b, c, d>>, x) = Append(w \o <<a, b, c, d>>, x)
  BY <1>1, Further
<1>5. w \o Append(<<a, b, c, d, x>>, y) = Append(w \o <<a, b, c, d, x>>, y)
  BY <1>1, Further
<1> QED
  BY <1>2, <1>3, <1>4, <1>5 DEF SixSent

\* Print screen goes down.
LEMMA PrintScreenDown ==
  ASSUME NEW s, NEW w, NEW f, NEW p, Ready(f), Leads(s, w, St(f, {}, p))
  PROVE  Leads(s, w \o <<\hE0, \h2A, \hE0, \h37>>, St(f, {}, Append(p, <<\h6A, 0>>)))
<1>1. Leads(s, Append(w, \hE0), St(f, {"E0"}, p))
  BY ReadsE0
<1>2. PICK v : v = Append(w, \hE0)
  OBVIOUS
<1>3. Leads(s, v, St(f, {"E0"}, p))
  BY <1>1, <1>2
<1>4. Leads(s, Append(v, \h2A), St(f \cup Released(\h2A), {"E0"} \cup {"2A"}, p))
  <2>1. Partial({"E0"}, \h2A) = {"2A"} /\ {"2A"} # {} /\ \h2A \in Nat
    BY DEF Partial
  <2>2. Released(\h2A) \subseteq {"RELEASE"}
    BY DEF Released
  <2> QED
    BY <1>3, <2>1, <2>2, ReadsPart
<1>5. f \cup Released(\h2A) = f
  BY DEF Released
<1>6. PICK t : t = {"E0"} \cup {"2A"}
  OBVIOUS
<1>7. PICK u : u = Append(v, \h2A)
  OBVIOUS
<1>8. Leads(s, u, St(f, t, p))
  BY <1>4, <1>5, <1>6, <1>7, Zenon
<1>9. Leads(s, Append(u, \hE0), St(f \cup Released(\hE0), t \cup {"E0"}, p))
  <2>1. Partial(t, \hE0) = {"E0"} /\ {"E0"} # {} /\ \hE0 \in Nat
    BY DEF Partial
  <2>2. Released(\hE0) \subseteq {"RELEASE"}
    BY DEF Released
  <2> QED
    BY <1>8, <2>1, <2>2, ReadsPart
<1>10. f \cup Released(\hE0) = f /\ t \cup {"E0"} = t
  BY <1>6 DEF Released
<1>11. Leads(s, Append(u, \hE0), St(f, t, p))
  BY <1>9, <1>10, Zenon
<1>12. Strike(f, t, \h37, \h6A, 0, f)
  <2>1. "E0" \in t /\ "2A" \in t /\ "E1" \notin t /\ {"E0", "2A"} \subseteq t
    BY <1>6
  <2>2. Partial(t, \h37) = {}
    BY <2>1 DEF Partial
  <2>3. NUMPAD(f, t, \h37) = FALSE
    BY <2>1 DEF NUMPAD, AsPad, OnPad, Always
  <2>4. keycode(f, t, \h37) = \h6A
    BY <2>3 DEF keycode, OnPad
  <2>5. ascii(f, t, \h37) = 0
    BY <2>3 DEF ascii, OnPad
  <2>6. Modifier(t, \h37) = "none" /\ Lock(\h37) = "none"
    BY DEF Modifier, Lock
  <2>7. \h37 \in Nat /\ \h37 < 128
    OBVIOUS
  <2>8. Becomes(f, t, \h37, f)
    BY <2>6, <2>7, FlagsStay
  <2>9. PICK pad \in BOOLEAN : pad = NUMPAD(f, t, \h37)
    BY DEF NUMPAD
  <2>10. Char(f, t, \h37) = 0
    <3>1. Matched(0, NewFlags(f, t, \h37), pad) = 0
      BY MatchedIs
    <3> QED
      BY <2>5, <2>9, <3>1 DEF Char
  <2> QED
    BY <2>2, <2>4, <2>7, <2>8, <2>10 DEF Strike
<1>13. Leads(s, Append(Append(u, \hE0), \h37), St(f, {}, Append(p, <<\h6A, 0>>)))
  <2>1. \h37 \in Nat /\ \h6A \in Nat /\ 0 \in Nat
    OBVIOUS
  <2> QED
    BY <1>11, <1>12, <2>1, ReadsStrike
<1>14. w \o <<\hE0, \h2A, \hE0, \h37>> = Append(Append(u, \hE0), \h37)
  <2>1. w \in Seq(Nat) /\ \hE0 \in Nat /\ \h2A \in Nat /\ \h37 \in Nat
    BY DEF Leads
  <2>2. FourSent(w, \hE0, \h2A, \hE0, \h37)
    BY <2>1, FourBytes
  <2> QED
    BY <1>2, <1>7, <2>2 DEF FourSent
<1> QED
  BY <1>13, <1>14, Zenon

\* Print screen goes up, and lets go of the left shift.
LEMMA PrintScreenUp ==
  ASSUME NEW s, NEW w, NEW f, NEW p, Ready(f), Leads(s, w, St(f, {}, p))
  PROVE  \E g : /\ Leads(s, w \o <<\hE0, \hB7, \hE0, \hAA>>, St(g, {}, p)) /\ Ready(g)
                /\ \A n \in ModNames \cup LockNames : n \in g <=> n \in f /\ n # "LSHIFT"
<1>1. Leads(s, Append(w, \hE0), St(f, {"E0"}, p))
  BY ReadsE0
<1>2. Lift(f, {"E0"}, \hB7, f)
  <2>1. Partial({"E0"}, \hB7) = {} /\ Modifier({"E0"}, \hB7) = "none" /\ Lock(\hB7) = "none"
    BY DEF Partial, Modifier, Lock
  <2>2. keycode(f, {"E0"}, \hB7) # \h6B
    BY DEF keycode, OnPad
  <2>3. \hB7 \in Nat /\ ~(\hB7 < 128)
    OBVIOUS
  <2>4. Becomes(f, {"E0"}, \hB7, f)
    BY <2>1, <2>3, FlagsStay
  <2> QED
    BY <2>1, <2>2, <2>3, <2>4 DEF Lift
<1>3. PICK v : v = Append(Append(w, \hE0), \hB7)
  OBVIOUS
<1>4. Leads(s, v, St(f, {}, p))
  <2>1. \hB7 \in Nat
    OBVIOUS
  <2> QED
    BY <1>1, <1>2, <1>3, <2>1, ReadsLift
<1>5. Leads(s, Append(v, \hE0), St(f, {"E0"}, p))
  BY <1>4, ReadsE0
<1>6. PICK g : /\ Lift(f, {"E0"}, \hAA, g) /\ Ready(g)
               /\ \A n \in ModNames \cup LockNames : n \in g <=> n \in f /\ n # "LSHIFT"
  <2>1. Partial({"E0"}, \hAA) = {} /\ Modifier({"E0"}, \hAA) = "LSHIFT"
    BY DEF Partial, Modifier
  <2>2. keycode(f, {"E0"}, \hAA) # \h6B
    BY DEF keycode, OnPad
  <2>3. \hAA \in Nat /\ ~(\hAA < 128) /\ "LSHIFT" \in ModNames
    BY DEF ModNames
  <2>4. PICK g : /\ Becomes(f, {"E0"}, \hAA, g) /\ Ready(g)
                 /\ \A n \in ModNames \cup LockNames : n \in g <=> n \in f /\ n # "LSHIFT"
    BY <2>1, <2>3, FlagsUp
  <2> QED
    BY <2>1, <2>2, <2>3, <2>4 DEF Lift
<1>7. Leads(s, Append(Append(v, \hE0), \hAA), St(g, {}, p))
  <2>1. \hAA \in Nat
    OBVIOUS
  <2> QED
    BY <1>5, <1>6, <2>1, ReadsLift
<1>8. w \o <<\hE0, \hB7, \hE0, \hAA>> = Append(Append(v, \hE0), \hAA)
  <2>1. w \in Seq(Nat) /\ \hE0 \in Nat /\ \hB7 \in Nat /\ \hAA \in Nat
    BY DEF Leads
  <2>2. FourSent(w, \hE0, \hB7, \hE0, \hAA)
    BY <2>1, FourBytes
  <2> QED
    BY <1>3, <2>2 DEF FourSent
<1>9. Leads(s, w \o <<\hE0, \hB7, \hE0, \hAA>>, St(g, {}, p))
  BY <1>7, <1>8, Zenon
<1> QED
  BY <1>6, <1>9

\* A byte of pause is kept.
Keeps(t, c, n) == Partial(t, c) = {n}
Same(g, f)     == \A x : x # "RELEASE" => (x \in g <=> x \in f)
Adds(u, t, n)  == \A x : x \in u <=> x \in t \/ x = n
Waits(s, w, p, f, t, n) == \E g, u : Leads(s, w, St(g, u, p)) /\ Adds(u, t, n) /\ Same(g, f)

\* Each byte of pause but the last is kept in tempfl.
LEMMA PausePart ==
  ASSUME NEW s, NEW w, NEW f, NEW t, NEW p, Leads(s, w, St(f, t, p)), NEW c \in Nat, NEW n,
         Keeps(t, c, n)
  PROVE  Waits(s, Append(w, c), p, f, t, n)
<1>1. {n} # {} /\ Released(c) \subseteq {"RELEASE"} /\ Partial(t, c) = {n}
  BY ReleasedIs DEF Keeps
<1>2. Leads(s, Append(w, c), St(f \cup Released(c), t \cup {n}, p))
  BY <1>1, ReadsPart
<1>3. PICK g, u : g = f \cup Released(c) /\ u = t \cup {n}
  OBVIOUS
<1>4. Leads(s, Append(w, c), St(g, u, p))
  BY <1>2, <1>3, Zenon
<1>5. Adds(u, t, n)
  BY <1>3 DEF Adds
<1>6. Same(g, f)
  BY <1>1, <1>3 DEF Same
<1> QED
  BY <1>4, <1>5, <1>6 DEF Waits

\* The pause key.
LEMMA PauseDown ==
  ASSUME NEW s, NEW w, NEW f, NEW p, Ready(f), Leads(s, w, St(f, {}, p))
  PROVE  Leads(s, w \o <<\hE1, \h1D, \h45, \hE1, \h9D, \hC5>>, St(f, {}, Append(p, <<\h6B, 0>>)))
<1>1. PICK w1, g1, t1 : /\ w1 = Append(w, \hE1) /\ Leads(s, w1, St(g1, t1, p))
                        /\ Same(g1, f) /\ Adds(t1, {}, "E1")
  <2>1. Keeps({}, \hE1, "E1") /\ \hE1 \in Nat
    BY DEF Keeps, Partial, Adds
  <2>2. Waits(s, Append(w, \hE1), p, f, {}, "E1")
    BY <2>1, PausePart
  <2> QED
    BY <2>2 DEF Waits
<1>2. PICK w2, g2, t2 : /\ w2 = Append(w1, \h1D) /\ Leads(s, w2, St(g2, t2, p))
                        /\ Same(g2, g1) /\ Adds(t2, t1, "1D")
  <2>1. Keeps(t1, \h1D, "1D") /\ \h1D \in Nat
    BY <1>1 DEF Keeps, Partial, Adds
  <2>2. Waits(s, Append(w1, \h1D), p, g1, t1, "1D")
    BY <1>1, <2>1, PausePart
  <2> QED
    BY <2>2 DEF Waits
<1>3. PICK w3, g3, t3 : /\ w3 = Append(w2, \h45) /\ Leads(s, w3, St(g3, t3, p))
                        /\ Same(g3, g2) /\ Adds(t3, t2, "45")
  <2>1. Keeps(t2, \h45, "45") /\ \h45 \in Nat
    BY <1>1, <1>2 DEF Keeps, Partial, Adds
  <2>2. Waits(s, Append(w2, \h45), p, g2, t2, "45")
    BY <1>2, <2>1, PausePart
  <2> QED
    BY <2>2 DEF Waits
<1>4. PICK w4, g4, t4 : /\ w4 = Append(w3, \hE1) /\ Leads(s, w4, St(g4, t4, p))
                        /\ Same(g4, g3) /\ Adds(t4, t3, "E1")
  <2>1. Keeps(t3, \hE1, "E1") /\ \hE1 \in Nat
    BY DEF Keeps, Partial, Adds
  <2>2. Waits(s, Append(w3, \hE1), p, g3, t3, "E1")
    BY <1>3, <2>1, PausePart
  <2> QED
    BY <2>2 DEF Waits
<1>5. PICK w5, g5, t5 : /\ w5 = Append(w4, \h9D) /\ Leads(s, w5, St(g5, t5, p))
                        /\ Same(g5, g4) /\ Adds(t5, t4, "9D")
  <2>1. Keeps(t4, \h9D, "9D") /\ \h9D \in Nat
    BY <1>1, <1>2, <1>3, <1>4 DEF Keeps, Partial, Adds
  <2>2. Waits(s, Append(w4, \h9D), p, g4, t4, "9D")
    BY <1>4, <2>1, PausePart
  <2> QED
    BY <2>2 DEF Waits
<1>6. Strike(g5, t5, \hC5, \h6B, 0, f)
  <2>1. {"E1", "1D", "45", "9D"} \subseteq t5
    BY <1>1, <1>2, <1>3, <1>4, <1>5 DEF Adds
  <2>2. Partial(t5, \hC5) = {} /\ Modifier(t5, \hC5) = "none" /\ Lock(\hC5) = "none"
    BY DEF Partial, Modifier, Lock
  <2>3. keycode(g5, t5, \hC5) = \h6B
    BY <2>1 DEF keycode, OnPad
  <2>4. ascii(g5, t5, \hC5) = 0
    BY DEF ascii, OnPad
  <2>5. PICK pad \in BOOLEAN : pad = NUMPAD(g5, t5, \hC5)
    BY DEF NUMPAD
  <2>6. Matched(0, NewFlags(g5, t5, \hC5), pad) = 0
    BY MatchedIs
  <2>7. Char(g5, t5, \hC5) = 0
    BY <2>4, <2>5, <2>6 DEF Char
  <2>8. Becomes(g5, t5, \hC5, f)
    <3>1. Switched(g5, t5, \hC5) = g5
      BY <2>2 DEF Switched
    <3>2. PICK r : r = g5 \cup Released(\hC5)
      OBVIOUS
    <3>3. \A x : x # "RELEASE" => (x \in r <=> x \in f)
      BY <1>1, <1>2, <1>3, <1>4, <1>5, <3>2 DEF Released, Same
    <3>4. Rest(r) = r
      BY <3>3, PairedIs, SMTT(30) DEF Ready
    <3>5. NewFlags(g5, t5, \hC5) = r
      BY <3>1, <3>2, <3>4 DEF NewFlags
    <3>6. r \ {"RELEASE"} = f
      BY <3>3 DEF Ready
    <3> QED
      BY <3>5, <3>6 DEF Becomes
  <2> QED
    BY <2>2, <2>3, <2>7, <2>8 DEF Strike
<1>7. Leads(s, Append(w5, \hC5), St(f, {}, Append(p, <<\h6B, 0>>)))
  <2>1. \hC5 \in Nat /\ \h6B \in Nat /\ 0 \in Nat
    OBVIOUS
  <2> QED
    BY <1>5, <1>6, <2>1, ReadsStrike
<1>8. w \o <<\hE1, \h1D, \h45, \hE1, \h9D, \hC5>> = Append(w5, \hC5)
  <2>1. w \in Seq(Nat) /\ \hE1 \in Nat /\ \h1D \in Nat /\ \h45 \in Nat /\ \h9D \in Nat /\ \hC5 \in Nat
    BY DEF Leads
  <2>2. SixSent(w, \hE1, \h1D, \h45, \hE1, \h9D, \hC5)
    BY <2>1, SixBytes
  <2> QED
    BY <1>1, <1>2, <1>3, <1>4, <1>5, <2>2 DEF SixSent
<1> QED
  BY <1>7, <1>8, Zenon

----------------------------------------------------------------------------
(* Every key. *)

ModKey(m)   == Key(m[1], "mod", m[2], m[3], 0, 0, 0, m[4])
LockKey(m)  == Key(m[1], "lock", 0, m[1], 0, 0, 0, m[2])
CharKey(m)  == Key(m[1], IF m[2] \in Letters THEN "letter" ELSE "symbol", 0, m[1], m[2], m[3], 0,
                   "none")
PadKey(m)   == Key(m[1], "keypad", 0, m[1], m[2], m[3], m[4], "none")
FixedKey(m) == Key(m[1], "fixed", m[2], m[3], m[4], 0, 0, "none")
MuteKey(m)  == Key(m[1], "none", m[2], m[3], 0, 0, 0, "none")

\* A key of the table is of one of the families.
LEMMA Families ==
  ASSUME NEW k \in KeyTable
  PROVE  \/ \E m \in Mods : k = ModKey(m)
         \/ \E m \in Locks : k = LockKey(m)
         \/ \E m \in Chars : k = CharKey(m)
         \/ \E m \in Pads : k = PadKey(m)
         \/ \E m \in Fixed : k = FixedKey(m)
         \/ \E m \in Mute : k = MuteKey(m)
         \/ k = PrintScreen
         \/ k = Pause
BY DEF KeyTable, ModKey, LockKey, CharKey, PadKey, FixedKey, MuteKey

\* What a press means and types under flags f.
MeansIn(f, k) == IF k.kind = "keypad" /\ "NUM_LOCK" \notin f THEN k.nav ELSE k.code
TypesIn(f, k) ==
  CASE k.kind = "letter" -> IF "SHIFT" \in f <=> "CAPS_LOCK" \in f THEN k.plain ELSE k.shift
    [] k.kind = "symbol" -> IF "SHIFT" \in f THEN k.shift ELSE k.plain
    [] k.kind = "keypad" -> IF "NUM_LOCK" \in f THEN k.plain ELSE k.shift
    [] k.kind = "fixed"  -> k.plain
    [] OTHER -> 0

\* What a press and a release of k make of the flags f.
Made(f, g, k) ==
  /\ Ready(g)
  /\ \A n \in ModNames : n \in g <=> n \in f \/ (k.kind = "mod" /\ n = k.flag)
  /\ g \cap LockNames = IF k.kind = "lock" THEN Toggle(f \cap LockNames, k.flag)
                        ELSE f \cap LockNames

LetGo(f, g, k) ==
  /\ Ready(g)
  /\ \A n \in ModNames : n \in g <=> /\ n \in f /\ ~(k.kind = "mod" /\ n = k.flag)
                                     /\ ~(k.code = PRSCR_KEY /\ n = "LSHIFT")
  /\ g \cap LockNames = f \cap LockNames

Makes(s, w, f, p, k) ==
  \E g : Leads(s, w \o k.make, St(g, {}, Append(p, <<MeansIn(f, k), TypesIn(f, k)>>)))
         /\ Made(f, g, k)
Breaks(s, w, f, p, k) == \E g : Leads(s, w \o k.break, St(g, {}, p)) /\ LetGo(f, g, k)

\* A key that is no modifier and no lock leaves the flags as they are.
LEMMA KeepsAll ==
  ASSUME NEW f, NEW k, Ready(f), k.kind \notin {"mod", "lock"}
  PROVE  Made(f, f, k) /\ (k.code # PRSCR_KEY => LetGo(f, f, k))
BY DEF Made, LetGo

\* The modifier keys set their flag and clear it.
LEMMA MakesMod ==
  ASSUME NEW s, NEW w, NEW f, NEW p, Ready(f), Leads(s, w, St(f, {}, p)), NEW m \in Mods
  PROVE  Makes(s, w, f, p, ModKey(m)) /\ Breaks(s, w, f, p, ModKey(m))
<1> DEFINE k == ModKey(m)
<1>1. /\ k.make = ScanBytes(m[2], m[3]) /\ k.break = ScanBytes(m[2], m[3] + 128)
      /\ k.kind = "mod" /\ k.code = m[1] /\ k.flag = m[4]
  BY DEF ModKey, Key
<1>2. m[1] \in Nat /\ m[2] \in {0, \hE0} /\ m[3] \in 0 .. 127 /\ m[4] \in ModNames
  BY ModBytes
<1>3. m[3] \in Nat /\ m[3] + 128 \in Nat /\ 0 \in Nat
  BY <1>2
<1>4. PICK h : /\ Strike(f, Before(m[2]), m[3], m[1], 0, h) /\ Ready(h)
               /\ \A n \in ModNames \cup LockNames : n \in h <=> n \in f \/ n = m[4]
  BY ModStrike
<1>5. PICK g : /\ Lift(f, Before(m[2]), m[3] + 128, g) /\ Ready(g)
               /\ \A n \in ModNames \cup LockNames : n \in g <=> n \in f /\ n # m[4]
  BY ModStrike
<1> HIDE DEF k
<1>6. Makes(s, w, f, p, k)
  <2>3. Leads(s, w \o ScanBytes(m[2], m[3]), St(h, {}, Append(p, <<m[1], 0>>)))
    BY <1>2, <1>3, <1>4, ReadsPress
  <2>4. MeansIn(f, k) = m[1] /\ TypesIn(f, k) = 0
    BY <1>1 DEF MeansIn, TypesIn
  <2>5. Leads(s, w \o k.make, St(h, {}, Append(p, <<MeansIn(f, k), TypesIn(f, k)>>)))
    BY <1>1, <2>3, <2>4, Zenon
  <2>7. \A n \in LockNames : n # m[4]
    BY <1>2 DEF ModNames, LockNames
  <2>8. Made(f, h, k)
    BY <1>1, <1>4, <2>7 DEF Made
  <2> QED
    BY <2>5, <2>8 DEF Makes
<1>7. Breaks(s, w, f, p, k)
  <2>1. Leads(s, w \o ScanBytes(m[2], m[3] + 128), St(g, {}, p))
    BY <1>2, <1>3, <1>5, ReadsRelease
  <2>2. Leads(s, w \o k.break, St(g, {}, p))
    BY <1>1, <2>1, Zenon
  <2>3. \A n \in LockNames : n # m[4]
    BY <1>2 DEF ModNames, LockNames
  <2>4. m[1] # PRSCR_KEY
    BY DEF Mods, PRSCR_KEY
  <2>5. LetGo(f, g, k)
    BY <1>1, <1>5, <2>3, <2>4 DEF LetGo
  <2> QED
    BY <2>2, <2>5 DEF Breaks
<1> QED
  BY <1>6, <1>7 DEF k

\* The locks toggle when they are struck.
LEMMA MakesLock ==
  ASSUME NEW s, NEW w, NEW f, NEW p, Ready(f), Leads(s, w, St(f, {}, p)), NEW m \in Locks
  PROVE  Makes(s, w, f, p, LockKey(m)) /\ Breaks(s, w, f, p, LockKey(m))
<1> DEFINE k == LockKey(m)
<1>1. /\ k.make = ScanBytes(0, m[1]) /\ k.break = ScanBytes(0, m[1] + 128)
      /\ k.kind = "lock" /\ k.code = m[1] /\ k.flag = m[2]
  BY DEF LockKey, Key
<1>2. m[1] \in 0 .. 88 /\ m[2] \in LockNames /\ Modifier({}, m[1]) = "none" /\ Lock(m[1]) = m[2]
  BY LockBytes
<1>3. m[1] \in Nat /\ m[1] + 128 \in Nat /\ 0 \in Nat /\ 0 \in {0, \hE0} /\ m[1] < 128
  BY <1>2
<1>4. PICK h : /\ Strike(f, Before(0), m[1], m[1], 0, h) /\ Ready(h)
               /\ h \cap LockNames = Toggle(f \cap LockNames, m[2])
               /\ \A n \in ModNames : n \in h <=> n \in f
  BY LockStrike
<1> HIDE DEF k
<1>5. Makes(s, w, f, p, k)
  <2>3. Leads(s, w \o ScanBytes(0, m[1]), St(h, {}, Append(p, <<m[1], 0>>)))
    BY <1>3, <1>4, ReadsPress
  <2>4. MeansIn(f, k) = m[1] /\ TypesIn(f, k) = 0
    BY <1>1 DEF MeansIn, TypesIn
  <2>5. Leads(s, w \o k.make, St(h, {}, Append(p, <<MeansIn(f, k), TypesIn(f, k)>>)))
    BY <1>1, <2>3, <2>4, Zenon
  <2>8. Made(f, h, k)
    BY <1>1, <1>4 DEF Made
  <2> QED
    BY <2>5, <2>8 DEF Makes
<1>6. Breaks(s, w, f, p, k)
  <2>1. Leads(s, w \o ScanBytes(0, m[1] + 128), St(f, {}, p))
    BY <1>3, LockStrike, ReadsRelease, ZenonT(60)
  <2>2. Leads(s, w \o k.break, St(f, {}, p))
    BY <1>1, <2>1, Zenon
  <2>3. m[1] # PRSCR_KEY
    BY <1>2 DEF PRSCR_KEY
  <2>4. LetGo(f, f, k)
    BY <1>1, <2>3 DEF LetGo
  <2> QED
    BY <2>2, <2>4 DEF Breaks
<1> QED
  BY <1>5, <1>6 DEF k

\* The other keys of one byte, or of one byte after E0.
LEMMA MakesCommon ==
  ASSUME NEW s, NEW w, NEW f, NEW p, Ready(f), Leads(s, w, St(f, {}, p)), NEW k,
         NEW pre \in {0, \hE0}, NEW c, Common(c), k.make = ScanBytes(pre, c),
         k.break = ScanBytes(pre, c + 128), k.kind \notin {"mod", "lock"}, k.code # PRSCR_KEY,
         MeansIn(f, k) \in Nat, TypesIn(f, k) \in Nat,
         keycode(f, Before(pre), c) = MeansIn(f, k),
         Matched(ascii(f, Before(pre), c), f, NUMPAD(f, Before(pre), c)) = TypesIn(f, k)
  PROVE  Makes(s, w, f, p, k) /\ Breaks(s, w, f, p, k)
<1>1. PICK x \in Nat, y \in Nat : x = MeansIn(f, k) /\ y = TypesIn(f, k)
  OBVIOUS
<1>2. Strike(f, Before(pre), c, x, y, f) /\ Lift(f, Before(pre), c + 128, f)
  BY <1>1, CommonStrike
<1>3. c \in Nat /\ c + 128 \in Nat
  BY DEF Common
<1>4. Leads(s, w \o ScanBytes(pre, c), St(f, {}, Append(p, <<x, y>>)))
  BY <1>2, <1>3, ReadsPress
<1>5. Leads(s, w \o ScanBytes(pre, c + 128), St(f, {}, p))
  BY <1>2, <1>3, ReadsRelease
<1>6. Leads(s, w \o k.make, St(f, {}, Append(p, <<MeansIn(f, k), TypesIn(f, k)>>)))
  BY <1>1, <1>4, Zenon
<1>7. Leads(s, w \o k.break, St(f, {}, p))
  BY <1>5, Zenon
<1>8. Made(f, f, k) /\ LetGo(f, f, k)
  BY KeepsAll
<1> QED
  BY <1>6, <1>7, <1>8 DEF Makes, Breaks

\* The character keys type their legend.
LEMMA MakesChar ==
  ASSUME NEW s, NEW w, NEW f, NEW p, Ready(f), Leads(s, w, St(f, {}, p)), NEW m \in Chars
  PROVE  Makes(s, w, f, p, CharKey(m)) /\ Breaks(s, w, f, p, CharKey(m))
<1> DEFINE k == CharKey(m)
<1>1. /\ k.make = ScanBytes(0, m[1]) /\ k.break = ScanBytes(0, m[1] + 128)
      /\ k.kind = (IF m[2] \in Letters THEN "letter" ELSE "symbol")
      /\ k.code = m[1] /\ k.plain = m[2] /\ k.shift = m[3]
  BY DEF CharKey, Key
<1>2. Common(m[1]) /\ m[1] <= 53 /\ m[2] \in Nat /\ m[3] \in Nat
  BY Legends
<1> HIDE DEF k
<1>3. k.kind \notin {"mod", "lock"} /\ k.code # PRSCR_KEY /\ 0 \in {0, \hE0} /\ m[1] \in Nat
  BY <1>1, <1>2 DEF PRSCR_KEY, Common
<1>4. MeansIn(f, k) = m[1] /\ TypesIn(f, k) = Legend(f, m[2], m[3])
  <2>1. CASE m[2] \in Letters
    BY <1>1, <2>1 DEF MeansIn, TypesIn, Legend
  <2>2. CASE m[2] \notin Letters
    BY <1>1, <2>2 DEF MeansIn, TypesIn, Legend
  <2> QED
    BY <2>1, <2>2
<1>5. MeansIn(f, k) \in Nat /\ TypesIn(f, k) \in Nat
  BY <1>2, <1>3, <1>4 DEF Legend
<1>6. Before(0) = {}
  BY DEF Before
<1>7. /\ keycode(f, Before(0), m[1]) = MeansIn(f, k)
      /\ Matched(ascii(f, Before(0), m[1]), f, NUMPAD(f, Before(0), m[1])) = TypesIn(f, k)
  BY <1>4, <1>6, CharIs, Zenon
<1> QED
  BY <1>1, <1>2, <1>3, <1>5, <1>7, MakesCommon DEF k

\* The keypad types digits, or stands for the cursor keys.
LEMMA MakesPad ==
  ASSUME NEW s, NEW w, NEW f, NEW p, Ready(f), Leads(s, w, St(f, {}, p)), NEW m \in Pads
  PROVE  Makes(s, w, f, p, PadKey(m)) /\ Breaks(s, w, f, p, PadKey(m))
<1> DEFINE k == PadKey(m)
<1>1. /\ k.make = ScanBytes(0, m[1]) /\ k.break = ScanBytes(0, m[1] + 128) /\ k.kind = "keypad"
      /\ k.code = m[1] /\ k.plain = m[2] /\ k.shift = m[3] /\ k.nav = m[4]
  BY DEF PadKey, Key
<1>2. Common(m[1]) /\ m[2] \in Nat /\ m[3] \in Nat /\ m[4] \in Nat
  BY PadIs
<1> HIDE DEF k
<1>3. k.kind \notin {"mod", "lock"} /\ k.code # PRSCR_KEY /\ 0 \in {0, \hE0} /\ m[1] \in Nat
  BY <1>1, <1>2 DEF PRSCR_KEY, Common
<1>4. /\ MeansIn(f, k) = IF "NUM_LOCK" \notin f THEN m[4] ELSE m[1]
      /\ TypesIn(f, k) = IF "NUM_LOCK" \in f THEN m[2] ELSE m[3]
  BY <1>1 DEF MeansIn, TypesIn
<1>5. MeansIn(f, k) \in Nat /\ TypesIn(f, k) \in Nat
  BY <1>2, <1>3, <1>4
<1>6. Before(0) = {}
  BY DEF Before
<1>7. /\ keycode(f, {}, m[1]) = MeansIn(f, k)
      /\ Matched(ascii(f, {}, m[1]), f, NUMPAD(f, {}, m[1])) = TypesIn(f, k)
  BY <1>4, PadIs
<1>8. /\ keycode(f, Before(0), m[1]) = MeansIn(f, k)
      /\ Matched(ascii(f, Before(0), m[1]), f, NUMPAD(f, Before(0), m[1])) = TypesIn(f, k)
  BY <1>6, <1>7, Zenon
<1> QED
  BY <1>1, <1>2, <1>3, <1>5, <1>8, MakesCommon DEF k

\* The keys with one legend type it.
LEMMA MakesFixed ==
  ASSUME NEW s, NEW w, NEW f, NEW p, Ready(f), Leads(s, w, St(f, {}, p)), NEW m \in Fixed
  PROVE  Makes(s, w, f, p, FixedKey(m)) /\ Breaks(s, w, f, p, FixedKey(m))
<1> DEFINE k == FixedKey(m)
<1>1. /\ k.make = ScanBytes(m[2], m[3]) /\ k.break = ScanBytes(m[2], m[3] + 128) /\ k.kind = "fixed"
      /\ k.code = m[1] /\ k.plain = m[4]
  BY DEF FixedKey, Key
<1>2. m[1] \in Nat /\ m[2] \in {0, \hE0} /\ Common(m[3]) /\ m[4] \in Nat
  BY FixedIs
<1> HIDE DEF k
<1>3. m[1] # PRSCR_KEY
  BY DEF Fixed, PRSCR_KEY
<1>4. k.kind \notin {"mod", "lock"} /\ k.code # PRSCR_KEY
  BY <1>1, <1>3
<1>5. MeansIn(f, k) = m[1] /\ TypesIn(f, k) = m[4]
  BY <1>1 DEF MeansIn, TypesIn
<1>6. MeansIn(f, k) \in Nat /\ TypesIn(f, k) \in Nat
  BY <1>2, <1>5
<1>7. /\ keycode(f, Before(m[2]), m[3]) = MeansIn(f, k)
      /\ Matched(ascii(f, Before(m[2]), m[3]), f, NUMPAD(f, Before(m[2]), m[3])) = TypesIn(f, k)
  BY <1>5, FixedIs
<1> QED
  BY <1>1, <1>2, <1>4, <1>6, <1>7, MakesCommon DEF k

\* The keys without a legend give their keycode.
LEMMA MakesMute ==
  ASSUME NEW s, NEW w, NEW f, NEW p, Ready(f), Leads(s, w, St(f, {}, p)), NEW m \in Mute
  PROVE  Makes(s, w, f, p, MuteKey(m)) /\ Breaks(s, w, f, p, MuteKey(m))
<1> DEFINE k == MuteKey(m)
<1>1. /\ k.make = ScanBytes(m[2], m[3]) /\ k.break = ScanBytes(m[2], m[3] + 128) /\ k.kind = "none"
      /\ k.code = m[1]
  BY DEF MuteKey, Key
<1>2. m[1] \in Nat /\ m[2] \in {0, \hE0} /\ Common(m[3])
  BY MuteIs
<1> HIDE DEF k
<1>3. m[1] # PRSCR_KEY
  BY DEF Mute, PRSCR_KEY
<1>4. k.kind \notin {"mod", "lock"} /\ k.code # PRSCR_KEY
  BY <1>1, <1>3
<1>5. MeansIn(f, k) = m[1] /\ TypesIn(f, k) = 0
  BY <1>1 DEF MeansIn, TypesIn
<1>6. MeansIn(f, k) \in Nat /\ TypesIn(f, k) \in Nat
  BY <1>2, <1>5
<1>7. /\ keycode(f, Before(m[2]), m[3]) = MeansIn(f, k)
      /\ Matched(ascii(f, Before(m[2]), m[3]), f, NUMPAD(f, Before(m[2]), m[3])) = TypesIn(f, k)
  BY <1>5, MuteIs
<1> QED
  BY <1>1, <1>2, <1>4, <1>6, <1>7, MakesCommon DEF k

\* Print screen, with the E0 AA of its release that lets go of the left shift.
LEMMA MakesPrintScreen ==
  ASSUME NEW s, NEW w, NEW f, NEW p, Ready(f), Leads(s, w, St(f, {}, p))
  PROVE  Makes(s, w, f, p, PrintScreen) /\ Breaks(s, w, f, p, PrintScreen)
<1> DEFINE k == PrintScreen
<1>1. /\ k.make = <<\hE0, \h2A, \hE0, \h37>> /\ k.break = <<\hE0, \hB7, \hE0, \hAA>>
      /\ k.kind = "none" /\ k.code = \h6A
  BY DEF PrintScreen, Key
<1> HIDE DEF k
<1>2. MeansIn(f, k) = \h6A /\ TypesIn(f, k) = 0
  BY <1>1 DEF MeansIn, TypesIn
<1>3. Leads(s, w \o k.make, St(f, {}, Append(p, <<MeansIn(f, k), TypesIn(f, k)>>)))
  <2>1. Leads(s, w \o <<\hE0, \h2A, \hE0, \h37>>, St(f, {}, Append(p, <<\h6A, 0>>)))
    BY PrintScreenDown
  <2> QED
    BY <1>1, <1>2, <2>1, Zenon
<1>4. Made(f, f, k)
  BY <1>1, KeepsAll
<1>5. PICK g : /\ Leads(s, w \o <<\hE0, \hB7, \hE0, \hAA>>, St(g, {}, p)) /\ Ready(g)
               /\ \A n \in ModNames \cup LockNames : n \in g <=> n \in f /\ n # "LSHIFT"
  BY PrintScreenUp
<1>6. Leads(s, w \o k.break, St(g, {}, p))
  BY <1>1, <1>5, Zenon
<1>7. LetGo(f, g, k)
  BY <1>1, <1>5 DEF LetGo, PRSCR_KEY, ModNames, LockNames
<1> QED
  BY <1>3, <1>4, <1>6, <1>7 DEF k, Makes, Breaks

\* Pause, six bytes and no release.
LEMMA MakesPause ==
  ASSUME NEW s, NEW w, NEW f, NEW p, Ready(f), Leads(s, w, St(f, {}, p))
  PROVE  Makes(s, w, f, p, Pause) /\ Breaks(s, w, f, p, Pause)
<1> DEFINE k == Pause
<1>1. /\ k.make = <<\hE1, \h1D, \h45, \hE1, \h9D, \hC5>> /\ k.break = <<>>
      /\ k.kind = "none" /\ k.code = \h6B
  BY DEF Pause, Key
<1> HIDE DEF k
<1>2. MeansIn(f, k) = \h6B /\ TypesIn(f, k) = 0
  BY <1>1 DEF MeansIn, TypesIn
<1>3. Leads(s, w \o k.make, St(f, {}, Append(p, <<MeansIn(f, k), TypesIn(f, k)>>)))
  <2>1. Leads(s, w \o <<\hE1, \h1D, \h45, \hE1, \h9D, \hC5>>, St(f, {}, Append(p, <<\h6B, 0>>)))
    BY PauseDown
  <2> QED
    BY <1>1, <1>2, <2>1, Zenon
<1>4. Made(f, f, k) /\ LetGo(f, f, k)
  BY <1>1, KeepsAll DEF PRSCR_KEY
<1>5. w \o k.break = w
  <2>1. w \in Seq(Nat)
    BY DEF Leads
  <2> QED
    BY <1>1, <2>1, ConcatEmptySeq
<1>6. Leads(s, w \o k.break, St(f, {}, p))
  BY <1>5, Zenon
<1> QED
  BY <1>3, <1>4, <1>6 DEF k, Makes, Breaks

\* A key does to the driver what its legends say, whatever lies on the wire.
LEMMA EveryKey ==
  ASSUME NEW s, NEW w, NEW f, NEW p, Ready(f), Leads(s, w, St(f, {}, p)), NEW k \in KeyTable
  PROVE  Makes(s, w, f, p, k) /\ Breaks(s, w, f, p, k)
<1>1. CASE \E m \in Mods : k = ModKey(m)
  BY <1>1, MakesMod
<1>2. CASE \E m \in Locks : k = LockKey(m)
  BY <1>2, MakesLock
<1>3. CASE \E m \in Chars : k = CharKey(m)
  BY <1>3, MakesChar
<1>4. CASE \E m \in Pads : k = PadKey(m)
  BY <1>4, MakesPad
<1>5. CASE \E m \in Fixed : k = FixedKey(m)
  BY <1>5, MakesFixed
<1>6. CASE \E m \in Mute : k = MuteKey(m)
  BY <1>6, MakesMute
<1>7. CASE k = PrintScreen
  BY <1>7, MakesPrintScreen
<1>8. CASE k = Pause
  BY <1>8, MakesPause
<1> QED
  BY <1>1, <1>2, <1>3, <1>4, <1>5, <1>6, <1>7, <1>8, Families

----------------------------------------------------------------------------
(* The inductive invariant: the bytes on the wire lead the driver to all   *)
(* that was typed, with no prefix left over and the flags of the keys that *)
(* are down.                                                               *)

DownIn(h, c) == \E k \in h : k.code = c

Agrees(f, h, u, l) ==
  /\ \A m \in Mods : m[4] \in f <=> DownIn(h, m[1]) /\ ~(u /\ m[1] = LSHIFT_KEY)
  /\ f \cap LockNames = l

KbInv ==
  /\ held \subseteq KeyTable /\ unshifted \in BOOLEAN
  /\ \E f : /\ Leads(Driver, wire, St(f, {}, strokes)) /\ Ready(f)
            /\ Agrees(f, held, unshifted, locks)

\* A keycode of a modifier is of that key alone, and so is its flag.
LEMMA CodeIs ==
  ASSUME NEW k \in KeyTable, NEW m \in Mods
  PROVE  /\ k.code = m[1] <=> k = ModKey(m)
         /\ (k.kind = "mod" /\ m[4] = k.flag) <=> k = ModKey(m)
         /\ m[4] = "LSHIFT" <=> m[1] = LSHIFT_KEY
         /\ m[4] \in ModNames
         /\ k.code = PRSCR_KEY => k.code # m[1]
<1>0. /\ ModKey(m).code = m[1] /\ ModKey(m).kind = "mod" /\ ModKey(m).flag = m[4]
  BY DEF ModKey, Key
<1>1. (m[4] = "LSHIFT" <=> m[1] = LSHIFT_KEY) /\ m[4] \in ModNames /\ m[1] # PRSCR_KEY
  BY DEF Mods, LSHIFT_KEY, PRSCR_KEY, ModNames
<1>2. CASE \E n \in Mods : k = ModKey(n)
  <2>1. PICK n \in Mods : k = ModKey(n)
    BY <1>2
  <2>2. k.code = n[1] /\ k.kind = "mod" /\ k.flag = n[4]
    BY <2>1 DEF ModKey, Key
  <2>3. (n[1] = m[1] => n = m) /\ (n[4] = m[4] => n = m)
    BY DEF Mods
  <2> QED
    BY <1>0, <1>1, <2>1, <2>2, <2>3
<1>3. CASE k.kind # "mod" /\ k.code \notin {\h2A, \h36, \h1D, \h5A, \h38, \h5C}
  <2>1. m[1] \in {\h2A, \h36, \h1D, \h5A, \h38, \h5C}
    BY DEF Mods
  <2> QED
    BY <1>0, <1>1, <1>3, <2>1
<1>4. CASE \E n \in Locks : k = LockKey(n)
  BY <1>3, <1>4 DEF LockKey, Key, Locks
<1>5. CASE \E n \in Chars : k = CharKey(n)
  <2>1. PICK n \in Chars : k = CharKey(n)
    BY <1>5
  <2>2. k.code = n[1] /\ k.kind \in {"letter", "symbol"}
    BY <2>1 DEF CharKey, Key
  <2>3. Common(n[1]) /\ n[1] <= 53
    BY Legends
  <2> QED
    BY <1>3, <2>2, <2>3 DEF Common
<1>6. CASE \E n \in Pads : k = PadKey(n)
  BY <1>3, <1>6 DEF PadKey, Key, Pads
<1>7. CASE \E n \in Fixed : k = FixedKey(n)
  BY <1>3, <1>7 DEF FixedKey, Key, Fixed
<1>8. CASE \E n \in Mute : k = MuteKey(n)
  BY <1>3, <1>8 DEF MuteKey, Key, Mute
<1>9. CASE k = PrintScreen
  <2>1. k.code = \h6A /\ k.kind = "none"
    BY <1>9 DEF PrintScreen, Key
  <2> QED
    BY <1>3, <2>1
<1>10. CASE k = Pause
  <2>1. k.code = \h6B /\ k.kind = "none"
    BY <1>10 DEF Pause, Key
  <2> QED
    BY <1>3, <2>1
<1> QED
  BY <1>2, <1>4, <1>5, <1>6, <1>7, <1>8, <1>9, <1>10, Families

\* What the flags make of a press is what the keys that are down make of it.
LEMMA SameMeaning ==
  ASSUME NEW f, Ready(f), Agrees(f, held, unshifted, locks), NEW k
  PROVE  MeansIn(f, k) = Means(k) /\ TypesIn(f, k) = Types(k)
<1>1. "NUM_LOCK" \in f <=> "NUM_LOCK" \in locks
  BY DEF Agrees, LockNames
<1>2. "CAPS_LOCK" \in f <=> "CAPS_LOCK" \in locks
  BY DEF Agrees, LockNames
<1>3. "LSHIFT" \in f <=> Down(LSHIFT_KEY) /\ ~unshifted
  <2>1. PICK m : m = <<\h2A, 0, \h2A, "LSHIFT">>
    OBVIOUS
  <2>2. m \in Mods /\ m[1] = LSHIFT_KEY /\ m[4] = "LSHIFT"
    BY <2>1 DEF Mods, LSHIFT_KEY
  <2>3. m[4] \in f <=> DownIn(held, m[1]) /\ ~(unshifted /\ m[1] = LSHIFT_KEY)
    BY <2>2 DEF Agrees
  <2> QED
    BY <2>2, <2>3 DEF DownIn, Down
<1>4. "RSHIFT" \in f <=> Down(RSHIFT_KEY)
  <2>1. PICK m : m = <<\h36, 0, \h36, "RSHIFT">>
    OBVIOUS
  <2>2. m \in Mods /\ m[1] = RSHIFT_KEY /\ m[4] = "RSHIFT" /\ m[1] # LSHIFT_KEY
    BY <2>1 DEF Mods, LSHIFT_KEY, RSHIFT_KEY
  <2>3. m[4] \in f <=> DownIn(held, m[1]) /\ ~(unshifted /\ m[1] = LSHIFT_KEY)
    BY <2>2 DEF Agrees
  <2> QED
    BY <2>2, <2>3 DEF DownIn, Down
<1>5. "SHIFT" \in f <=> Shifted
  BY <1>3, <1>4, PairedIs DEF Ready, Shifted
<1>6. MeansIn(f, k) = Means(k)
  BY <1>1 DEF MeansIn, Means
<1>7. ("SHIFT" \in f <=> "CAPS_LOCK" \in f) <=> (Shifted <=> "CAPS_LOCK" \in locks)
  BY <1>2, <1>5
<1>8. TypesIn(f, k) = Types(k)
  BY <1>1, <1>5, <1>7 DEF TypesIn, Types
<1> QED
  BY <1>6, <1>8

\* Nothing is typed and nothing on the wire.
LEMMA KbStart == KbInit => KbInv
<1> SUFFICES ASSUME KbInit PROVE KbInv
  OBVIOUS
<1>1. Driver = St({}, {}, strokes) /\ wire = <<>>
  BY DEF KbInit, Driver, St
<1>2. strokes \in Seq(Codes)
  BY DEF KbInit
<1>3. St({}, {}, strokes).packets \in Seq(Codes)
  BY <1>2 DEF St
<1>4. Leads(Driver, wire, St({}, {}, strokes))
  BY <1>1, <1>3, LeadsNone
<1>5. Ready({})
  BY PairedIs DEF Ready
<1>6. Agrees({}, held, unshifted, locks)
  BY DEF KbInit, Agrees, DownIn
<1> QED
  BY <1>4, <1>5, <1>6 DEF KbInv, KbInit

\* A key is struck, for the first time or again.
LEMMA KbStruck ==
  ASSUME KbInv, NEW k \in Keys, Struck(k), held' = held \cup {k}
  PROVE  KbInv'
<1>1. k \in KeyTable
  BY KeyboardAssumption
<1>2. PICK f : Leads(Driver, wire, St(f, {}, strokes)) /\ Ready(f) /\ Agrees(f, held, unshifted, locks)
  BY DEF KbInv
<1>3. Makes(Driver, wire, f, strokes, k)
  BY <1>1, <1>2, EveryKey
<1>4. PICK g : /\ Leads(Driver, wire \o k.make,
                        St(g, {}, Append(strokes, <<MeansIn(f, k), TypesIn(f, k)>>)))
               /\ Made(f, g, k)
  BY <1>3 DEF Makes
<1>5. MeansIn(f, k) = Means(k) /\ TypesIn(f, k) = Types(k)
  BY <1>2, SameMeaning
<1>6. wire' = wire \o k.make /\ strokes' = Append(strokes, <<Means(k), Types(k)>>)
  BY DEF Struck, Send
<1>7. Driver' = Driver
  BY DEF Struck, Driver
<1>8. Leads(Driver', wire', St(g, {}, strokes'))
  BY <1>4, <1>5, <1>6, <1>7, Zenon
<1>9. unshifted' = (unshifted /\ k.code # LSHIFT_KEY) /\ unshifted' \in BOOLEAN
  BY DEF Struck
<1>10. Agrees(g, held', unshifted', locks')
  <2>1. ASSUME NEW m \in Mods
        PROVE  m[4] \in g <=> DownIn(held', m[1]) /\ ~(unshifted' /\ m[1] = LSHIFT_KEY)
    <3>1. DownIn(held', m[1]) <=> DownIn(held, m[1]) \/ k.code = m[1]
      BY DEF DownIn
    <3>2. m[4] \in f <=> DownIn(held, m[1]) /\ ~(unshifted /\ m[1] = LSHIFT_KEY)
      BY <1>2 DEF Agrees
    <3>3. (k.kind = "mod" /\ m[4] = k.flag <=> k.code = m[1]) /\ m[4] \in ModNames
      BY <1>1, CodeIs
    <3>4. m[4] \in g <=> m[4] \in f \/ k.code = m[1]
      BY <1>4, <3>3 DEF Made
    <3> QED
      BY <1>9, <3>1, <3>2, <3>4
  <2>2. g \cap LockNames = locks'
    BY <1>2, <1>4 DEF Made, Agrees, Struck
  <2> QED
    BY <2>1, <2>2 DEF Agrees
<1>11. held' \subseteq KeyTable
  BY <1>1 DEF KbInv
<1>12. Ready(g)
  BY <1>4 DEF Made
<1> QED
  BY <1>8, <1>9, <1>10, <1>11, <1>12 DEF KbInv

\* A key let go of keeps the invariant.
LEMMA KbRelease ==
  ASSUME KbInv, NEW k \in Keys, Release(k)
  PROVE  KbInv'
<1>1. k \in KeyTable
  BY KeyboardAssumption
<1>2. PICK f : Leads(Driver, wire, St(f, {}, strokes)) /\ Ready(f) /\ Agrees(f, held, unshifted, locks)
  BY DEF KbInv
<1>3. Breaks(Driver, wire, f, strokes, k)
  BY <1>1, <1>2, EveryKey
<1>4. PICK g : Leads(Driver, wire \o k.break, St(g, {}, strokes)) /\ LetGo(f, g, k)
  BY <1>3 DEF Breaks
<1>5. wire' = wire \o k.break /\ strokes' = strokes /\ locks' = locks
  BY DEF Release, Send
<1>6. Driver' = Driver
  BY DEF Release, Driver
<1>7. Leads(Driver', wire', St(g, {}, strokes'))
  BY <1>4, <1>5, <1>6, Zenon
<1>8. held' = held \ {k} /\ k \in held
  BY DEF Release
<1>9. unshifted' = (unshifted \/ (k.code = PRSCR_KEY /\ DownIn(held, LSHIFT_KEY)))
      /\ unshifted' \in BOOLEAN
  BY DEF Release, Down, DownIn
<1>10. Agrees(g, held', unshifted', locks')
  <2>1. ASSUME NEW m \in Mods
        PROVE  m[4] \in g <=> DownIn(held', m[1]) /\ ~(unshifted' /\ m[1] = LSHIFT_KEY)
    <3>1. DownIn(held', m[1]) <=> DownIn(held, m[1]) /\ k.code # m[1]
      <4>1. \A h \in held : h.code = m[1] /\ k.code = m[1] => h = k
        BY <1>1, CodeIs DEF KbInv
      <4> QED
        BY <1>8, <4>1 DEF DownIn
    <3>2. m[4] \in f <=> DownIn(held, m[1]) /\ ~(unshifted /\ m[1] = LSHIFT_KEY)
      BY <1>2 DEF Agrees
    <3>3. /\ k.kind = "mod" /\ m[4] = k.flag <=> k.code = m[1]
          /\ m[4] \in ModNames /\ (m[4] = "LSHIFT" <=> m[1] = LSHIFT_KEY)
          /\ k.code = PRSCR_KEY => k.code # m[1]
      BY <1>1, CodeIs
    <3>4. m[4] \in g <=> /\ m[4] \in f /\ k.code # m[1]
                         /\ ~(k.code = PRSCR_KEY /\ m[1] = LSHIFT_KEY)
      BY <1>4, <3>3 DEF LetGo
    <3> QED
      BY <1>9, <3>1, <3>2, <3>3, <3>4
  <2>2. g \cap LockNames = locks'
    BY <1>2, <1>4, <1>5 DEF LetGo, Agrees
  <2> QED
    BY <2>1, <2>2 DEF Agrees
<1>11. held' \subseteq KeyTable
  BY <1>8 DEF KbInv
<1>12. Ready(g)
  BY <1>4 DEF LetGo
<1> QED
  BY <1>7, <1>9, <1>10, <1>11, <1>12 DEF KbInv

\* The driver takes the step that the wire foresaw.
LEMMA KbReads ==
  ASSUME KbInv, kb_handler
  PROVE  KbInv'
<1>1. wire # <<>> /\ wire' = Tail(wire)
  BY DEF kb_handler
<1>2. Driver' = Step(Driver, Head(wire))
  <2>1. CASE Prefix(Head(wire))
    BY <2>1 DEF Prefix, Step, Driver
  <2>2. CASE Decode(Head(wire))
    BY <2>2 DEF Decode, Step, Driver
  <2> QED
    BY <2>1, <2>2 DEF kb_handler
<1>3. PICK f : Leads(Driver, wire, St(f, {}, strokes)) /\ Ready(f) /\ Agrees(f, held, unshifted, locks)
  BY DEF KbInv
<1>4. Leads(Step(Driver, Head(wire)), Tail(wire), St(f, {}, strokes))
  BY <1>1, <1>3, LeadsTail
<1>5. held' = held /\ unshifted' = unshifted /\ locks' = locks /\ strokes' = strokes
  BY DEF kb_handler
<1>6. Leads(Driver', wire', St(f, {}, strokes'))
  BY <1>1, <1>2, <1>4, <1>5, Zenon
<1>7. Agrees(f, held', unshifted', locks')
  BY <1>3, <1>5, Zenon
<1> QED
  BY <1>3, <1>5, <1>6, <1>7 DEF KbInv

\* Every step keeps the invariant.
LEMMA KbStep == KbInv /\ [KbNext]_kbVars => KbInv'
<1> SUFFICES ASSUME KbInv, [KbNext]_kbVars PROVE KbInv'
  OBVIOUS
<1>1. CASE kb_handler
  BY <1>1, KbReads
<1>2. ASSUME NEW k \in Keys, Press(k)
      PROVE  KbInv'
  BY <1>2, KbStruck DEF Press
<1>3. ASSUME NEW k \in Keys, Repeat(k)
      PROVE  KbInv'
  <2>1. held' = held \cup {k} /\ Struck(k)
    BY <1>3 DEF Repeat
  <2> QED
    BY <2>1, KbStruck
<1>4. ASSUME NEW k \in Keys, Release(k)
      PROVE  KbInv'
  BY <1>4, KbRelease
<1>5. CASE UNCHANGED kbVars
  <2>1. /\ held' = held /\ unshifted' = unshifted /\ locks' = locks /\ strokes' = strokes
        /\ wire' = wire /\ Driver' = Driver
    BY <1>5 DEF kbVars, Driver
  <2>2. PICK f : /\ Leads(Driver, wire, St(f, {}, strokes)) /\ Ready(f)
                 /\ Agrees(f, held, unshifted, locks)
    BY DEF KbInv
  <2>3. Leads(Driver', wire', St(f, {}, strokes')) /\ Agrees(f, held', unshifted', locks')
    BY <2>1, <2>2, Zenon
  <2> QED
    BY <2>1, <2>2, <2>3 DEF KbInv
<1> QED
  BY <1>1, <1>2, <1>3, <1>4, <1>5 DEF KbNext

\* The invariant holds throughout.
LEMMA KbHolds == KbSpec => []KbInv
BY KbStart, KbStep, PTL DEF KbSpec

\* kb_handler understands every key of the table: what it decodes is what was
\* struck, in that order, with the shift and the locks of the moment.
THEOREM KeysUnderstood == KbSpec => []Decoded
<1>1. KbInv => Decoded
  <2> SUFFICES ASSUME KbInv PROVE Decoded
    OBVIOUS
  <2>1. PICK f : Leads(Driver, wire, St(f, {}, strokes))
    BY DEF KbInv
  <2>2. /\ Driver.packets = packets /\ St(f, {}, strokes).packets = strokes
    BY DEF Driver, St
  <2>3. /\ packets \in Seq(Codes) /\ strokes \in Seq(Codes) /\ IsFront(packets, strokes)
        /\ wire = <<>> => Driver = St(f, {}, strokes)
    BY <2>1, <2>2, LeadsFront
  <2>4. IsPrefix(packets, strokes)
    <3>1. Len(packets) \in Nat /\ Len(strokes) \in Nat /\ Len(packets) <= Len(strokes)
      BY <2>3 DEF IsFront
    <3>2. SubSeq(packets, 1, Len(packets)) = packets
      BY <2>3, SubSeqProperties
    <3>3. SubSeq(strokes, 1, Len(packets)) = packets
      <4>1. /\ SubSeq(strokes, 1, Len(packets)) \in Seq(Codes)
            /\ Len(SubSeq(strokes, 1, Len(packets))) = Len(packets)
            /\ \A i \in 1 .. Len(packets) : SubSeq(strokes, 1, Len(packets))[i] = strokes[i]
        BY <2>3, <3>1, SubSeqProperties
      <4> QED
        BY <2>3, <4>1, SeqEqual DEF IsFront
    <3> QED
      BY <3>1, <3>2, <3>3 DEF IsPrefix
  <2> QED
    BY <2>2, <2>3, <2>4 DEF Decoded
<1> QED
  BY <1>1, KbHolds, PTL

\* No modifier hangs, whatever keys were held together and however far the
\* keyboard was ahead.
THEOREM ModifiersStayTracked == KbSpec => []ModifiersTracked
<1>1. KbInv => ModifiersTracked
  <2> SUFFICES ASSUME KbInv, wire = <<>>
               PROVE  /\ tempfl = {}
                      /\ \A k \in Keys : k.kind = "mod" =>
                           (k.flag \in flags <=> k \in held /\ ~(unshifted /\ k.code = LSHIFT_KEY))
                      /\ \A g \in DOMAIN Sides : g \in flags <=> Sides[g] \cap flags # {}
                      /\ flags \cap {"CAPS_LOCK", "NUM_LOCK", "SCROLL_LOCK"} = locks
    BY DEF ModifiersTracked
  <2>1. PICK f : /\ Leads(Driver, wire, St(f, {}, strokes)) /\ Ready(f)
                 /\ Agrees(f, held, unshifted, locks)
    BY DEF KbInv
  <2>2. Driver = St(f, {}, strokes)
    BY <2>1, LeadsFront
  <2>3. flags = f /\ tempfl = {}
    <3>1. Driver.flags = flags /\ Driver.tempfl = tempfl
      BY DEF Driver
    <3>2. St(f, {}, strokes).flags = f /\ St(f, {}, strokes).tempfl = {}
      BY DEF St
    <3> QED
      BY <2>2, <3>1, <3>2, Zenon
  <2>4. ASSUME NEW k \in Keys, k.kind = "mod"
        PROVE  k.flag \in f <=> k \in held /\ ~(unshifted /\ k.code = LSHIFT_KEY)
    <3>1. k \in KeyTable
      BY KeyboardAssumption
    <3>2. PICK m \in Mods : k = ModKey(m)
      <4>1. /\ \A m : LockKey(m).kind # "mod" /\ PadKey(m).kind # "mod"
            /\ \A m : FixedKey(m).kind # "mod" /\ MuteKey(m).kind # "mod"
        BY DEF LockKey, PadKey, FixedKey, MuteKey, Key
      <4>2. \A m : CharKey(m).kind # "mod"
        BY DEF CharKey, Key
      <4>3. PrintScreen.kind # "mod" /\ Pause.kind # "mod"
        BY DEF PrintScreen, Pause, Key
      <4> QED
        BY <2>4, <3>1, <4>1, <4>2, <4>3, Families
    <3>3. k.code = m[1] /\ k.flag = m[4]
      BY <3>2 DEF ModKey, Key
    <3>4. DownIn(held, m[1]) <=> k \in held
      BY <3>2, <3>3, CodeIs DEF DownIn, KbInv
    <3> QED
      BY <2>1, <3>3, <3>4 DEF Agrees
  <2>5. \A g \in DOMAIN Sides : g \in f <=> Sides[g] \cap f # {}
    BY <2>1 DEF Ready, Paired
  <2>6. f \cap {"CAPS_LOCK", "NUM_LOCK", "SCROLL_LOCK"} = locks
    BY <2>1 DEF Agrees, LockNames
  <2> QED
    BY <2>3, <2>4, <2>5, <2>6
<1> QED
  BY <1>1, KbHolds, PTL

----------------------------------------------------------------------------
(***************************************************************************)
(* Files                                                                   *)
(***************************************************************************)

(* The types of the nodes, the blocks and the descriptors. *)
AnyName == Names \cup {"cut", "stdin", "stdout", "stderr"}
           \cup UNION {{disk[i].name : i \in DOMAIN disk} : disk \in Disks}
NodeT   == [name : AnyName, type : {"reg", "fifo", "raw", "std"}, size : Nat]
Blk     == [0 .. Block - 1 -> Nat]
Flags   == {"RD", "WR", "CREAT", "EXCL", "CLOEXEC"}
FileT   == [node : Nat, at : Int, oflag : SUBSET Flags]

\* Block and place in it, and where a block begins.
Quo(k)  == k \div Block
Rem(k)  == k % Block
Base(q) == Block * q

\* The blocks hold the bytes of w, each where the two divisions by the size
\* of a block put it.
Holds(blocks, w) ==
  /\ Len(blocks) >= 1
  /\ Len(w) > 0 => Len(blocks) >= Quo(Len(w) - 1) + 1
  /\ \A k \in 0 .. Len(w) - 1 : blocks[Quo(k) + 1][Rem(k)] = w[k + 1]

\* A file written from its start to its end has its bytes in its blocks, and
\* its size is their number.
StoreOk(ns, ds, ws, sn) ==
  /\ ns \in Seq(NodeT) /\ ds \in Seq(Seq(Blk)) /\ ws \in Seq(Seq(Nat)) /\ sn \in Seq(BOOLEAN)
  /\ Len(ds) = Len(ns) /\ Len(ws) = Len(ns) /\ Len(sn) = Len(ns)
  /\ \A i \in 1 .. Len(ns) : ns[i].type = "reg" /\ sn[i] =>
       ns[i].size = Len(ws[i]) /\ Holds(ds[i], ws[i])

\* While nothing risky was done, every node is set up and every file has a
\* block behind its last byte.
SafeOk(ns, ds) ==
  \A i \in 1 .. Len(ns) :
    /\ ns[i].type # "raw"
    /\ ns[i].type = "reg" => Len(ds[i]) >= Quo(ns[i].size) + 1

\* A descriptor is of a node, and without risk it stands in its file.
FileOk(f, ns, rk) ==
  f # Closed => /\ f.node \in 1 .. Len(ns)
                /\ ~rk => f.at \in 0 .. ns[f.node].size

FilesOk(fs, ns, rk) == fs \in [Fds -> FileT] /\ \A fd \in Fds : FileOk(fs[fd], ns, rk)

(* The inductive invariant. *)
FsInv ==
  /\ StoreOk(nodes, data, want, sane)
  /\ ~risky => SafeOk(nodes, data)
  /\ FilesOk(files, nodes, risky)
  /\ calls \in Nat /\ risky \in BOOLEAN
  /\ mode # "run" => risky
----------------------------------------------------------------------------
(* Numbers *)

\* A block is at least two bytes: the code divides by its size less one.
LEMMA Constants == Block \in Nat \ {0} /\ Block - 1 \in Nat \ {0}
  BY VfsAssumption

\* Multiplication is monotone and distributes.
LEMMA Times ==
  ASSUME NEW d \in Nat, NEW j \in Nat, NEW k \in Nat
  PROVE  /\ d * j \in Nat
         /\ d * (j + k) = d * j + d * k
         /\ j <= k => d * j <= d * k
  BY SMT

\* Quotient and rest are determined by what they add up to.
LEMMA Unique ==
  ASSUME NEW d \in Nat \ {0}, NEW q \in Nat, NEW r \in 0 .. d - 1,
         NEW n \in Nat, n = d * q + r
  PROVE  n \div d = q /\ n % d = r
<1> DEFINE p == n \div d
           s == n % d
<1>1. p \in Nat /\ s \in 0 .. d - 1 /\ n = d * p + s
  BY Euclid
<1> HIDE DEF p, s
<1>2. d * 1 = d
  OBVIOUS
<1>3. CASE p = q
  <2>1. d * p = d * q /\ d * q \in Nat
    BY <1>3, Times
  <2> QED BY <2>1, <1>1, <1>3 DEF p, s
<1>4. CASE p + 1 <= q
  <2>1. d * (p + 1) <= d * q /\ d * (p + 1) = d * p + d * 1 /\ d * p \in Nat /\ d * q \in Nat
    BY <1>1, <1>4, Times
  <2> QED BY <2>1, <1>1, <1>2
<1>5. CASE q + 1 <= p
  <2>1. d * (q + 1) <= d * p /\ d * (q + 1) = d * q + d * 1 /\ d * p \in Nat /\ d * q \in Nat
    BY <1>1, <1>5, Times
  <2> QED BY <2>1, <1>1, <1>2
<1> QED BY <1>1, <1>3, <1>4, <1>5

\* Division is monotone.
LEMMA DivMono ==
  ASSUME NEW d \in Nat \ {0}, NEW m \in Nat, NEW n \in Nat, m <= n
  PROVE  m \div d <= n \div d
<1> DEFINE p == m \div d
           q == n \div d
           r == m % d
           s == n % d
<1>1. /\ p \in Nat /\ r \in 0 .. d - 1 /\ m = d * p + r
      /\ q \in Nat /\ s \in 0 .. d - 1 /\ n = d * q + s
  BY Euclid
<1> HIDE DEF p, q, r, s
<1>2. CASE q + 1 <= p
  <2>1. d * (q + 1) <= d * p /\ d * (q + 1) = d * q + d * 1 /\ d * p \in Nat /\ d * q \in Nat
    BY <1>1, <1>2, Times
  <2>2. d * 1 = d
    OBVIOUS
  <2> QED BY <2>1, <2>2, <1>1
<1>3. CASE p <= q
  BY <1>3 DEF p, q
<1> QED BY <1>1, <1>2, <1>3

\* From n, j places on.
LEMMA Onward ==
  ASSUME NEW d \in Nat \ {0}, NEW n \in Nat, NEW j \in Nat
  PROVE  /\ (n \div d) + (((n % d) + j) \div d) = (n + j) \div d
         /\ ((n % d) + j) % d = (n + j) % d
<1> DEFINE p == n \div d
           r == n % d
           q == (r + j) \div d
           s == (r + j) % d
<1>1. p \in Nat /\ r \in 0 .. d - 1 /\ n = d * p + r
  BY Euclid
<1> HIDE DEF p, r
<1>2. r + j \in Nat
  BY <1>1
<1>3. q \in Nat /\ s \in 0 .. d - 1 /\ r + j = d * q + s
  BY <1>2, Euclid
<1> HIDE DEF q, s
<1>4. d * (p + q) = d * p + d * q /\ d * p \in Nat /\ d * q \in Nat /\ p + q \in Nat
  BY <1>1, <1>3, Times
<1>5. n + j = d * (p + q) + s /\ n + j \in Nat
  BY <1>1, <1>2, <1>3, <1>4
<1>6. (n + j) \div d = p + q /\ (n + j) % d = s
  <2> DEFINE u == p + q
             v == n + j
  <2>1. u \in Nat /\ v \in Nat /\ v = d * u + s
    BY <1>4, <1>5
  <2> HIDE DEF u, v
  <2>2. v \div d = u /\ v % d = s
    BY <2>1, <1>3, Unique
  <2> QED BY <2>2 DEF u, v
<1> QED BY <1>6 DEF p, q, r, s

\* The quotient grows by at most one at a time, and is 0 in the first block.
LEMMA DivNext ==
  ASSUME NEW d \in Nat \ {0}, NEW n \in Nat
  PROVE  /\ (n + 1) \div d <= (n \div d) + 1 /\ 0 \div d = 0 /\ 0 % d = 0
         /\ \A k \in 0 .. d - 1 : k \div d = 0 /\ k % d = k
<1>1. ASSUME NEW k \in 0 .. d - 1 PROVE k \div d = 0 /\ k % d = k
  <2>1. k = d * 0 + k /\ k \in Nat
    OBVIOUS
  <2> QED BY <2>1, Unique
<1>2. (n + 1) \div d <= (n \div d) + 1
  <2>1. n + 1 <= n + d /\ n + d \in Nat /\ n + 1 \in Nat
    OBVIOUS
  <2>2. (n + 1) \div d <= (n + d) \div d
    BY <2>1, DivMono
  <2> DEFINE p == n \div d
             r == n % d
  <2>3. p \in Nat /\ r \in 0 .. d - 1 /\ n = d * p + r
    BY Euclid
  <2> HIDE DEF p, r
  <2>4. d * (p + 1) = d * p + d * 1 /\ d * p \in Nat /\ d * 1 = d
    BY <2>3, Times
  <2>5. n + d = d * (p + 1) + r
    BY <2>3, <2>4
  <2>6. (n + d) \div d = p + 1
    BY <2>1, <2>3, <2>5, Unique
  <2> QED BY <2>2, <2>6 DEF p
<1> QED BY <1>1, <1>2

\* The same of blocks.
LEMMA Quos ==
  ASSUME NEW n \in Nat, NEW j \in Nat
  PROVE  /\ Quo(n) \in Nat /\ Rem(n) \in 0 .. Block - 1 /\ n = Base(Quo(n)) + Rem(n)
         /\ n <= j => Quo(n) <= Quo(j)
         /\ Quo(n) + Quo(Rem(n) + j) = Quo(n + j) /\ Rem(Rem(n) + j) = Rem(n + j)
         /\ Quo(n + 1) <= Quo(n) + 1 /\ Quo(0) = 0 /\ Rem(0) = 0
  BY Constants, Euclid, DivMono, Onward, DivNext, ZenonT(60) DEF Quo, Rem, Base

\* Where blocks begin.
LEMMA Bases ==
  ASSUME NEW p \in Nat, NEW q \in Nat
  PROVE  Base(p) \in Nat /\ Base(p + q) = Base(p) + Base(q) /\ Base(0) = 0
<1>1. Block * 0 = 0 /\ Block \in Nat
  BY Constants
<1> QED BY <1>1, Times DEF Base

\* The least of a set of numbers.
LEMMA LeastOf ==
  ASSUME NEW S \in SUBSET Nat, S # {}
  PROVE  /\ Min(S) \in S
         /\ \A y \in S : Min(S) <= y
         /\ \A x \in S : (\A y \in S : x <= y) => Min(S) = x
<1> DEFINE R == {r \in Nat \X Nat : r[1] < r[2]}
<1>1. IsWellFoundedOn(R, Nat)
  BY NatLessThanWellFounded DEF OpToRel
<1> HIDE DEF R
<1>2. PICK x \in S : \A y \in S : <<y, x>> \notin R
  BY <1>1, WFMin
<1>3. ASSUME NEW y \in S, y < x PROVE FALSE
  BY <1>2, <1>3 DEF R
<1>4. \A y \in S : x <= y
  BY <1>3
<1>5. Min(S) \in S /\ \A y \in S : Min(S) <= y
  BY <1>4 DEF Min
<1>6. ASSUME NEW z \in S, \A y \in S : z <= y PROVE Min(S) = z
  <2>1. z <= Min(S) /\ Min(S) <= z /\ z \in Nat /\ Min(S) \in Nat
    BY <1>5, <1>6
  <2> QED BY <2>1
<1> QED BY <1>5, <1>6

----------------------------------------------------------------------------
(* Writing *)

Last0(at, bytes) == Quo(offset(at) + Len(bytes) - 1)

\* new is what a write of bytes at at makes of blocks, with or without the
\* block linked behind.
WrittenOk(new, blocks, at, bytes) ==
  /\ new \in Seq(Blk)
  /\ Len(new) \in {start_node(at) + Last0(at, bytes) + 1, start_node(at) + Last0(at, bytes) + 2}
  /\ \A b \in 1 .. start_node(at) : new[b] = blocks[b]
  /\ \A b \in 0 .. Last0(at, bytes), k \in 0 .. Block - 1 :
       new[start_node(at) + b + 1][k] =
         IF Base(b) + k - offset(at) + 1 \in 1 .. Len(bytes)
         THEN bytes[Base(b) + k - offset(at) + 1]
         ELSE IF b = 0 THEN blocks[start_node(at) + 1][k] ELSE 0

\* The two divisions of ramfs.c give a block and a place in a block.
LEMMA Places ==
  ASSUME NEW at \in Nat
  PROVE  start_node(at) \in Nat /\ offset(at) \in 0 .. Block - 1
  BY Constants, Euclid DEF start_node, offset

\* The empty block.
LEMMA ZeroIs == Zero \in Blk /\ <<Zero>> \in Seq(Blk) /\ Len(<<Zero>>) = 1
<1>1. Zero \in Blk
  BY DEF Zero, Blk
<1> QED BY <1>1

\* What a write leaves of the blocks, byte by byte.
LEMMA WrittenIs ==
  ASSUME NEW blocks \in Seq(Blk), NEW at \in Nat, NEW bytes \in Seq(Nat),
         Len(bytes) > 0, start_node(at) + 1 <= Len(blocks)
  PROVE  /\ WrittenOk(Written(blocks, at, bytes), blocks, at, bytes)
         /\ Len(Written(blocks, at, bytes)) = start_node(at) + Last0(at, bytes) + 2
         /\ Last0(at, bytes) \in Nat
<1> DEFINE s == start_node(at)
           o == offset(at)
           endb == (o + Len(bytes) - 1) \div Block
           Bt(b, k) == LET j == (b - 1) * Block + k - o + 1
                       IN  IF j \in DOMAIN bytes THEN bytes[j]
                           ELSE IF b = 1 THEN blocks[s + 1][k] ELSE 0
           Mid == [b \in 1 .. endb + 1 |-> [k \in 0 .. Block - 1 |-> Bt(b, k)]]
           Kept == SubSeq(blocks, 1, s)
           new == (Kept \o Mid) \o <<Zero>>
<1>1. Written(blocks, at, bytes) = new
  BY DEF Written
<1>2. s \in Nat /\ o \in 0 .. Block - 1 /\ Block \in Nat \ {0} /\ Len(bytes) \in Nat
      /\ DOMAIN bytes = 1 .. Len(bytes) /\ Len(blocks) \in Nat
  BY Places, Constants, LenProperties
<1>3. endb \in Nat
  <2>1. o + Len(bytes) - 1 \in Nat
    BY <1>2
  <2> QED BY <2>1, <1>2, Euclid
<1>4. Last0(at, bytes) = endb
  BY DEF Last0, Quo
<1> HIDE DEF endb
<1>5. blocks[s + 1] \in Blk /\ \A b \in 1 .. s : blocks[b] \in Blk
  <2>1. s + 1 \in 1 .. Len(blocks) /\ \A b \in 1 .. s : b \in 1 .. Len(blocks)
    BY <1>2
  <2> QED BY <2>1, ElementOfSeq
<1> HIDE DEF s, o
<1>6. ASSUME NEW b \in 1 .. endb + 1, NEW k \in 0 .. Block - 1
      PROVE  Bt(b, k) \in Nat
  <2> DEFINE j == (b - 1) * Block + k - o + 1
  <2>1. CASE j \in DOMAIN bytes
    <3>1. bytes[j] \in Nat
      BY <2>1, <1>2, ElementOfSeq
    <3> QED BY <3>1, <2>1
  <2>2. CASE j \notin DOMAIN bytes
    <3>1. blocks[s + 1][k] \in Nat
      BY <1>5 DEF Blk
    <3> QED BY <3>1, <2>2
  <2> QED BY <2>1, <2>2
<1> HIDE DEF Bt
<1>7. Mid \in Seq(Blk) /\ Len(Mid) = endb + 1
  <2>1. \A b \in 1 .. endb + 1 : Mid[b] \in Blk
    BY <1>6 DEF Blk
  <2>2. endb + 1 \in Nat /\ Mid \in [1 .. endb + 1 -> Blk]
    BY <2>1, <1>3
  <2> HIDE DEF Mid
  <2> QED BY <2>2
<1>8. Kept \in Seq(Blk) /\ Len(Kept) = s /\ \A b \in 1 .. s : Kept[b] = blocks[b]
  <2>1. \A i \in 1 .. s : blocks[i] \in Blk
    BY <1>5
  <2>2. /\ Kept \in Seq(Blk)
        /\ Len(Kept) = IF 1 <= s THEN s - 1 + 1 ELSE 0
        /\ \A i \in 1 .. s - 1 + 1 : Kept[i] = blocks[1 + i - 1]
    BY <2>1, <1>2, SubSeqProperties
  <2> HIDE DEF Kept
  <2> QED BY <2>2, <1>2
<1>9. \A b \in 0 .. endb, k \in 0 .. Block - 1 : Mid[b + 1][k] = Bt(b + 1, k)
  BY <1>3
<1> HIDE DEF Mid, Kept
<1>10. /\ Kept \o Mid \in Seq(Blk) /\ Len(Kept \o Mid) = s + endb + 1
       /\ \A i \in 1 .. s + endb + 1 :
            (Kept \o Mid)[i] = IF i <= s THEN Kept[i] ELSE Mid[i - s]
  <2>1. /\ Kept \o Mid \in Seq(Blk) /\ Len(Kept \o Mid) = Len(Kept) + Len(Mid)
        /\ \A i \in 1 .. Len(Kept) + Len(Mid) :
             (Kept \o Mid)[i] = IF i <= Len(Kept) THEN Kept[i] ELSE Mid[i - Len(Kept)]
    <3>1. Kept \in Seq(Blk) /\ Mid \in Seq(Blk)
      BY <1>7, <1>8
    <3> QED BY <3>1, ConcatProperties
  <2>2. Len(Kept) = s /\ Len(Kept) + Len(Mid) = s + endb + 1
    BY <1>2, <1>3, <1>7, <1>8
  <2> QED BY <2>1, <2>2
<1> DEFINE both == Kept \o Mid
<1> HIDE DEF both
<1>11. /\ both \o <<Zero>> \in Seq(Blk) /\ Len(both \o <<Zero>>) = s + endb + 2
       /\ \A i \in 1 .. s + endb + 1 : (both \o <<Zero>>)[i] = both[i]
  <2>1. both \in Seq(Blk) /\ Len(both) = s + endb + 1
    BY <1>10 DEF both
  <2>2. /\ both \o <<Zero>> \in Seq(Blk)
        /\ Len(both \o <<Zero>>) = Len(both) + Len(<<Zero>>)
        /\ \A i \in 1 .. Len(both) + Len(<<Zero>>) :
             (both \o <<Zero>>)[i] = IF i <= Len(both) THEN both[i]
                                    ELSE <<Zero>>[i - Len(both)]
    BY <2>1, ZeroIs, ConcatProperties
  <2>3. s + endb + 1 \in Nat /\ Len(<<Zero>>) = 1
    BY <1>2, <1>3, ZeroIs
  <2>4. \A i \in 1 .. s + endb + 1 :
          i \in 1 .. Len(both) + Len(<<Zero>>) /\ i <= Len(both)
    BY <2>1, <2>3
  <2>5. Len(both) + Len(<<Zero>>) = s + endb + 2
    BY <2>1, <2>3, <1>2, <1>3
  <2> QED BY <2>2, <2>4, <2>5
<1>12. new \in Seq(Blk) /\ Len(new) = s + endb + 2
       /\ \A i \in 1 .. s + endb + 1 : new[i] = IF i <= s THEN Kept[i] ELSE Mid[i - s]
  BY <1>10, <1>11 DEF both
<1> HIDE DEF new
<1>13. \A b \in 1 .. s : new[b] = blocks[b]
  BY <1>12, <1>8, <1>2, <1>3
<1>14. ASSUME NEW b \in 0 .. endb, NEW k \in 0 .. Block - 1
       PROVE  new[s + b + 1][k] = Bt(b + 1, k)
  <2>1. s + b + 1 \in 1 .. s + endb + 1 /\ ~(s + b + 1 <= s) /\ (s + b + 1) - s = b + 1
    BY <1>2, <1>3
  <2>2. new[s + b + 1] = Mid[b + 1]
    BY <2>1, <1>12
  <2> QED BY <2>2, <1>9
<1>15. ASSUME NEW b \in 0 .. endb, NEW k \in 0 .. Block - 1
       PROVE  Bt(b + 1, k) = IF Base(b) + k - o + 1 \in 1 .. Len(bytes)
                             THEN bytes[Base(b) + k - o + 1]
                             ELSE IF b = 0 THEN blocks[s + 1][k] ELSE 0
  <2>1. (b + 1) - 1 = b /\ (b + 1 = 1 <=> b = 0) /\ Base(b) = b * Block
    BY <1>2, <1>3 DEF Base
  <2> QED BY <2>1, <1>2 DEF Bt
<1>16. WrittenOk(new, blocks, at, bytes)
  BY <1>4, <1>12, <1>13, <1>14, <1>15 DEF WrittenOk, s, o
<1> QED BY <1>1, <1>3, <1>4, <1>12, <1>16 DEF s

\* Without the block linked behind it is still what was written.
LEMMA FrontToo ==
  ASSUME NEW blocks, NEW at \in Nat, NEW bytes, NEW new,
         WrittenOk(new, blocks, at, bytes), Last0(at, bytes) \in Nat,
         Len(new) = start_node(at) + Last0(at, bytes) + 2
  PROVE  WrittenOk(Front(new), blocks, at, bytes)
<1> DEFINE s == start_node(at)
           endb == Last0(at, bytes)
<1>1. s \in Nat /\ endb \in Nat /\ new \in Seq(Blk) /\ Len(new) - 1 = s + endb + 1
  <2>1. s \in Nat /\ endb \in Nat
    BY Places
  <2>2. new \in Seq(Blk)
    BY DEF WrittenOk
  <2>3. Len(new) = s + endb + 2
    OBVIOUS
  <2> HIDE DEF s, endb
  <2> QED BY <2>1, <2>2, <2>3
<1>2. \A i \in 1 .. s + endb + 1 : new[i] \in Blk
  <2>1. \A i \in 1 .. s + endb + 1 : i \in 1 .. Len(new)
    BY <1>1
  <2> QED BY <2>1, <1>1, ElementOfSeq
<1>3. Front(new) = SubSeq(new, 1, s + endb + 1)
  BY <1>1 DEF Front
<1> DEFINE f == SubSeq(new, 1, s + endb + 1)
<1>4. /\ f \in Seq(Blk) /\ Len(f) = s + endb + 1
      /\ \A i \in 1 .. s + endb + 1 : f[i] = new[i]
  <2> DEFINE n == s + endb + 1
  <2>1. n \in Nat /\ 1 <= n
    BY <1>1
  <2>2. /\ SubSeq(new, 1, n) \in Seq(Blk)
        /\ Len(SubSeq(new, 1, n)) = IF 1 <= n THEN n - 1 + 1 ELSE 0
        /\ \A i \in 1 .. n - 1 + 1 : SubSeq(new, 1, n)[i] = new[1 + i - 1]
    <3> HIDE DEF n
    <3> QED BY <2>1, <1>2, SubSeqProperties DEF n
  <2> HIDE DEF n
  <2>3. n - 1 + 1 = n /\ \A i \in 1 .. n : 1 + i - 1 = i
    BY <2>1
  <2> QED BY <2>1, <2>2, <2>3 DEF n
<1> HIDE DEF f
<1>5. \A b \in 1 .. s : f[b] = new[b]
  BY <1>1, <1>4
<1>6. \A b \in 0 .. endb : f[s + b + 1] = new[s + b + 1]
  <2>1. \A b \in 0 .. endb : s + b + 1 \in 1 .. s + endb + 1
    BY <1>1
  <2> QED BY <2>1, <1>4
<1>7. /\ \A b \in 1 .. s : f[b] = blocks[b]
      /\ \A b \in 0 .. endb, k \in 0 .. Block - 1 :
           f[s + b + 1][k] = IF Base(b) + k - offset(at) + 1 \in 1 .. Len(bytes)
                             THEN bytes[Base(b) + k - offset(at) + 1]
                             ELSE IF b = 0 THEN blocks[s + 1][k] ELSE 0
  BY <1>5, <1>6 DEF WrittenOk
<1>8. WrittenOk(f, blocks, at, bytes)
  BY <1>4, <1>7 DEF WrittenOk
<1> QED BY <1>3, <1>8 DEF f

\* A write at the end keeps what the blocks held and puts the new bytes
\* behind it.
LEMMA AtTheEnd ==
  ASSUME NEW blocks, NEW w \in Seq(Nat), NEW bytes \in Seq(Nat), NEW new,
         Agree(Len(w)), Len(bytes) > 0, Holds(blocks, w),
         WrittenOk(new, blocks, Len(w), bytes)
  PROVE  Holds(new, w \o bytes)
<1> DEFINE at == Len(w)
           s == Quo(at)
           o == Rem(at)
           n == Len(bytes)
           endb == Quo(o + n - 1)
           wb == w \o bytes
<1>1. at \in Nat /\ n \in Nat \ {0} /\ Block \in Nat \ {0} /\ n - 1 \in Nat
  BY Constants
<1>2. s \in Nat /\ o \in 0 .. Block - 1 /\ at = Base(s) + o
  BY <1>1, Quos
<1>3. start_node(at) = s /\ offset(at) = o /\ Last0(at, bytes) = endb
  BY DEF Agree, offset, Last0, Quo, Rem
<1>4. endb \in Nat /\ s + endb = Quo(at + n - 1)
  <2>1. o + n - 1 = o + (n - 1) /\ at + n - 1 = at + (n - 1) /\ o + (n - 1) \in Nat
    BY <1>1, <1>2
  <2>2. endb \in Nat
    BY <2>1, Quos
  <2>3. Quo(at) + Quo(Rem(at) + (n - 1)) = Quo(at + (n - 1))
    BY <1>1, Quos
  <2> QED BY <2>1, <2>2, <2>3
<1>5. /\ new \in Seq(Blk) /\ Len(new) >= s + endb + 1
      /\ \A b \in 1 .. s : new[b] = blocks[b]
      /\ \A b \in 0 .. endb, k \in 0 .. Block - 1 :
           new[s + b + 1][k] =
             IF Base(b) + k - o + 1 \in 1 .. n THEN bytes[Base(b) + k - o + 1]
             ELSE IF b = 0 THEN blocks[s + 1][k] ELSE 0
  <2>1. Len(new) \in {s + endb + 1, s + endb + 2}
    BY <1>3 DEF WrittenOk
  <2>2. Len(new) >= s + endb + 1
    BY <2>1, <1>2, <1>4
  <2> QED BY <2>2, <1>3 DEF WrittenOk
<1>6. Len(wb) = at + n /\ \A k \in 1 .. at + n :
        wb[k] = IF k <= at THEN w[k] ELSE bytes[k - at]
  BY ConcatProperties DEF wb
<1> HIDE DEF at, s, o, n, endb, wb
<1>7. ASSUME NEW k \in 0 .. at + n - 1
      PROVE  new[Quo(k) + 1][Rem(k)] = wb[k + 1]
  <2> DEFINE b == Quo(k)
             r == Rem(k)
  <2>0. k \in Nat /\ k <= at + n - 1 /\ k + 1 \in 1 .. at + n
    BY <1>1
  <2>1. b \in Nat /\ r \in 0 .. Block - 1 /\ k = Base(b) + r
    BY <2>0, Quos
  <2>2. b <= s + endb
    <3>1. at + n - 1 \in Nat
      BY <1>1
    <3>2. b <= Quo(at + n - 1)
      BY <2>0, <3>1, Quos
    <3> QED BY <3>2, <1>4
  <2>3. CASE k < at
    <3>1. b <= s
      BY <2>3, <2>0, <1>1, Quos DEF s
    <3>2. blocks[b + 1][r] = w[k + 1]
      <4>1. k \in 0 .. Len(w) - 1
        BY <2>3, <2>0, <1>1 DEF at
      <4>2. \A i \in 0 .. Len(w) - 1 : blocks[Quo(i) + 1][Rem(i)] = w[i + 1]
        BY DEF Holds
      <4> QED BY <4>1, <4>2
    <3>3. wb[k + 1] = w[k + 1]
      BY <2>3, <2>0, <1>1, <1>6
    <3> HIDE DEF b, r
    <3>4. CASE b < s
      <4>1. b + 1 \in 1 .. s
        BY <3>4, <2>1, <1>2
      <4>2. new[b + 1] = blocks[b + 1]
        BY <4>1, <1>5
      <4> QED BY <4>2, <3>2, <3>3 DEF b, r
    <3>5. CASE b = s
      <4>1. Base(b) = Base(s) /\ Base(s) \in Nat /\ Base(0) = 0
        BY <3>5, <1>2, Bases
      <4>2. r < o
        BY <4>1, <2>1, <2>3, <1>2, <1>1
      <4>3. Base(0) + r - o + 1 \notin 1 .. n
        BY <4>1, <4>2, <2>1, <1>1, <1>2
      <4>4. new[s + 0 + 1][r] = blocks[s + 1][r]
        BY <4>3, <1>4, <1>5, <2>1
      <4>5. s + 0 + 1 = b + 1 /\ s + 1 = b + 1
        BY <3>5, <1>2
      <4> QED BY <4>4, <4>5, <3>2, <3>3 DEF b, r
    <3> QED BY <3>1, <3>4, <3>5, <2>1, <1>2
  <2>4. CASE k >= at
    <3>1. s <= b
      BY <2>4, <2>0, <1>1, Quos DEF s
    <3>2. wb[k + 1] = bytes[(k + 1) - at] /\ (k + 1) - at \in 1 .. n
      <4> DEFINE l == k + 1
      <4>1. l \in 1 .. at + n /\ ~(l <= at) /\ l - at \in 1 .. n
        BY <2>4, <2>0, <1>1
      <4> HIDE DEF l
      <4>2. wb[l] = bytes[l - at]
        BY <4>1, <1>6
      <4> QED BY <4>1, <4>2 DEF l
    <3> HIDE DEF b, r
    <3> DEFINE c == b - s
    <3>3. c \in Nat /\ b = s + c /\ c \in 0 .. endb /\ s + c + 1 = b + 1
      BY <3>1, <2>1, <2>2, <1>2, <1>4
    <3> HIDE DEF c
    <3>4. Base(b) = Base(s) + Base(c) /\ Base(s) \in Nat /\ Base(c) \in Nat
      BY <3>3, <1>2, Bases
    <3>5. Base(c) + r - o + 1 = (k + 1) - at
      <4>1. k = Base(s) + Base(c) + r /\ at = Base(s) + o /\ r \in Nat /\ o \in Nat
        BY <3>4, <2>1, <1>2, <1>1
      <4>2. k + 1 - at = Base(c) + r - o + 1
        <5> DEFINE x == Base(s)
                   y == Base(c)
        <5>1. x \in Nat /\ y \in Nat /\ k = x + y + r /\ at = x + o
          BY <4>1, <3>4
        <5> HIDE DEF x, y
        <5>2. k + 1 - at = y + r - o + 1
          BY <5>1, <4>1
        <5> QED BY <5>2 DEF y
      <4> QED BY <4>2, <2>0, <1>1
    <3>6. new[s + c + 1][r] = bytes[(k + 1) - at]
      BY <3>2, <3>3, <3>5, <1>5, <2>1
    <3> QED BY <3>2, <3>3, <3>6 DEF b, r
  <2> QED BY <2>0, <2>3, <2>4, <1>1
<1>8. Len(new) >= Quo(at + n - 1) + 1 /\ Len(new) >= 1
  <2>1. Len(new) >= s + endb + 1 /\ Len(new) \in Nat
    BY <1>5
  <2> QED BY <2>1, <1>4, <1>2
<1>9. Len(wb) - 1 = at + n - 1 /\ Len(wb) = at + n /\ at + n \in Nat
  BY <1>1, <1>6
<1>10. Holds(new, wb)
  BY <1>7, <1>8, <1>9 DEF Holds
<1> QED BY <1>10 DEF wb

----------------------------------------------------------------------------
(* The initial RAM disk *)

FileR == [name : STRING, bytes : Seq(Nat)]

First(disk) == [offset |-> Len(disk) + 1, bytes |-> [k \in 1 .. Len(disk) + 1 |-> 0]]
More(e, f)  == [offset |-> e.offset + Len(f.bytes), bytes |-> e.bytes \o f.bytes]

\* The recursive function Laid exists.
LEMMA LaidIs ==
  ASSUME NEW disk \in Seq(FileR)
  PROVE  /\ Laid(disk)[0] = First(disk)
         /\ \A i \in 1 .. Len(disk) : Laid(disk)[i] = More(Laid(disk)[i - 1], disk[i])
<1> DEFINE n == Len(disk)
           Is(f, k) == f = [i \in 0 .. k |-> IF i = 0 THEN First(disk) ELSE More(f[i - 1], disk[i])]
           B == {k \in Nat : ~ \E f : Is(f, k)}
<1>1. n \in Nat
  OBVIOUS
<1> HIDE DEF n
<1>2. B = {}
  <2>1. SUFFICES ASSUME B # {} PROVE FALSE
    OBVIOUS
  <2>2. PICK k \in B : \A j \in B : k <= j
    <3>1. B \in SUBSET Nat
      OBVIOUS
    <3> HIDE DEF B
    <3> QED BY <2>1, <3>1, LeastOf
  <2>3. k # 0
    <3> DEFINE f == [i \in 0 .. 0 |-> First(disk)]
    <3>1. Is(f, 0)
      OBVIOUS
    <3> QED BY <3>1, <2>2
  <2>4. k \in Nat /\ k - 1 \in Nat /\ k - 1 \notin B
    <3>1. k \in Nat
      BY DEF B
    <3> HIDE DEF B
    <3> QED BY <3>1, <2>2, <2>3
  <2>5. PICK f : Is(f, k - 1)
    BY <2>4
  <2> DEFINE g == [i \in 0 .. k |-> IF i < k THEN f[i] ELSE More(f[i - 1], disk[i])]
  <2>6. ASSUME NEW i \in 0 .. k
        PROVE  g[i] = IF i = 0 THEN First(disk) ELSE More(g[i - 1], disk[i])
    <3>1. CASE i = 0
      BY <3>1, <2>3, <2>4, <2>5
    <3>2. CASE i # 0 /\ i < k
      <4>1. f[i] = More(f[i - 1], disk[i])
        BY <3>2, <2>4, <2>5
      <4> QED BY <4>1, <3>2, <2>4
    <3>3. CASE i # 0 /\ i = k
      BY <3>3, <2>4
    <3> QED BY <3>1, <3>2, <3>3
  <2>7. Is(g, k)
    <3>1. g = [i \in 0 .. k |-> g[i]]
      OBVIOUS
    <3> HIDE DEF g
    <3> QED BY <3>1, <2>6
  <2>8. ~ \E h : Is(h, k)
    BY DEF B
  <2> HIDE DEF Is, g
  <2> QED BY <2>7, <2>8
<1>3. \E f : Is(f, n)
  BY <1>1, <1>2
<1>4. Laid(disk) = CHOOSE f : Is(f, n)
  BY DEF Laid, First, More, n
<1>5. Is(Laid(disk), n)
  <2> HIDE DEF Is
  <2> QED BY <1>3, <1>4
<1> DEFINE e == Laid(disk)
<1>6. e = [i \in 0 .. n |-> IF i = 0 THEN First(disk) ELSE More(e[i - 1], disk[i])]
  BY <1>5
<1> HIDE DEF e, Is
<1>7. e[0] = First(disk)
  BY <1>6, <1>1
<1>8. \A i \in 1 .. n : e[i] = More(e[i - 1], disk[i])
  BY <1>6, <1>1
<1> QED BY <1>7, <1>8 DEF e, n

\* Of the first j files: where each begins the sum says, and there its bytes are.
LaidFine(disk, e, j) ==
  /\ e[j].offset \in Nat /\ e[j].bytes \in Seq(Nat) /\ Len(e[j].bytes) = e[j].offset
  /\ \A i \in 1 .. j :
       /\ e[i - 1].offset \in Nat
       /\ e[i - 1].offset + Len(disk[i].bytes) <= e[j].offset
       /\ \A k \in 1 .. Len(disk[i].bytes) :
            e[j].bytes[e[i - 1].offset + k] = disk[i].bytes[k]

\* mk-initrd goes on by a file.
LEMMA MoreIs ==
  ASSUME NEW e, NEW f
  PROVE  More(e, f).offset = e.offset + Len(f.bytes) /\ More(e, f).bytes = e.bytes \o f.bytes
  BY Zenon DEF More

\* The image stays well laid out with a file more.
LEMMA LaidNext ==
  ASSUME NEW disk \in Seq(FileR), NEW e, NEW j \in 1 .. Len(disk),
         e[j] = More(e[j - 1], disk[j]), LaidFine(disk, e, j - 1)
  PROVE  LaidFine(disk, e, j)
<1> DEFINE b == disk[j].bytes
           old == e[j - 1].bytes
           at == e[j - 1].offset
           n == Len(b)
<1>1. disk[j] \in FileR
  BY ElementOfSeq
<1>2. b \in Seq(Nat) /\ n \in Nat
  BY <1>1 DEF FileR
<1>3. at \in Nat /\ old \in Seq(Nat) /\ Len(old) = at
  BY DEF LaidFine
<1>4. e[j].offset = at + n /\ e[j].bytes = old \o b
  BY MoreIs, ZenonT(40)
<1>5. /\ old \o b \in Seq(Nat) /\ Len(old \o b) = at + n
      /\ \A k \in 1 .. at + n : (old \o b)[k] = IF k <= at THEN old[k] ELSE b[k - at]
  <2> HIDE DEF old, b
  <2>1. /\ old \o b \in Seq(Nat) /\ Len(old \o b) = Len(old) + Len(b)
        /\ \A k \in 1 .. Len(old) + Len(b) :
             (old \o b)[k] = IF k <= Len(old) THEN old[k] ELSE b[k - Len(old)]
    <3>1. old \in Seq(Nat) /\ b \in Seq(Nat)
      BY <1>2, <1>3
    <3> QED BY <3>1, ConcatProperties
  <2> QED BY <2>1, <1>3
<1>6. ASSUME NEW i \in 1 .. j - 1
      PROVE  /\ e[i - 1].offset \in Nat
             /\ e[i - 1].offset + Len(disk[i].bytes) <= at
             /\ \A k \in 1 .. Len(disk[i].bytes) :
                  old[e[i - 1].offset + k] = disk[i].bytes[k]
  BY DEF LaidFine
<1> DEFINE new == old \o b
<1> HIDE DEF b, old, at, n, new
<1>7. new \in Seq(Nat) /\ Len(new) = at + n /\ at + n \in Nat
      /\ \A k \in 1 .. at + n : new[k] = IF k <= at THEN old[k] ELSE b[k - at]
  BY <1>5, <1>2, <1>3 DEF new
<1>8. ASSUME NEW i \in 1 .. j, i # j
      PROVE  /\ e[i - 1].offset \in Nat
             /\ e[i - 1].offset + Len(disk[i].bytes) <= at + n
             /\ \A k \in 1 .. Len(disk[i].bytes) :
                  new[e[i - 1].offset + k] = disk[i].bytes[k]
  <2>1. i \in 1 .. j - 1 /\ i \in 1 .. Len(disk)
    BY <1>8
  <2> DEFINE m == Len(disk[i].bytes)
             a == e[i - 1].offset
  <2>2. m \in Nat
    <3>1. disk[i] \in FileR
      BY <2>1, ElementOfSeq
    <3> QED BY <3>1 DEF FileR
  <2>3. a \in Nat /\ a + m <= at /\ \A k \in 1 .. m : old[a + k] = disk[i].bytes[k]
    BY <2>1, <1>6
  <2> HIDE DEF a, m
  <2>4. ASSUME NEW k \in 1 .. m PROVE new[a + k] = disk[i].bytes[k]
    <3>1. a + k \in 1 .. at + n /\ a + k <= at
      BY <2>2, <2>3, <1>2, <1>3
    <3>2. new[a + k] = old[a + k]
      BY <3>1, <1>7
    <3> QED BY <3>2, <2>3
  <2>5. a + m <= at + n
    BY <2>2, <2>3, <1>2, <1>3
  <2> QED BY <2>3, <2>4, <2>5 DEF a, m
<1>9. ASSUME NEW k \in 1 .. n PROVE new[at + k] = b[k]
  <2>1. at + k \in 1 .. at + n /\ ~(at + k <= at) /\ (at + k) - at = k
    BY <1>2, <1>3
  <2> QED BY <2>1, <1>7
<1>10. ASSUME NEW i \in 1 .. j
       PROVE  /\ e[i - 1].offset \in Nat
              /\ e[i - 1].offset + Len(disk[i].bytes) <= at + n
              /\ \A k \in 1 .. Len(disk[i].bytes) :
                   new[e[i - 1].offset + k] = disk[i].bytes[k]
  <2>1. CASE i # j
    BY <2>1, <1>8
  <2>2. CASE i = j
    <3>1. e[i - 1].offset = at /\ disk[i].bytes = b /\ Len(disk[i].bytes) = n
      BY <2>2 DEF at, b, n
    <3>2. at \in Nat /\ at + n <= at + n
      BY <1>2, <1>3
    <3> QED BY <3>1, <3>2, <1>9
  <2> QED BY <2>1, <2>2
<1>11. e[j].offset = at + n /\ e[j].bytes = new
  BY <1>4 DEF new
<1> QED BY <1>7, <1>10, <1>11 DEF LaidFine

\* mk-initrd lays every disk out well.
LEMMA LaidGood ==
  ASSUME NEW disk \in Seq(FileR)
  PROVE  LaidFine(disk, Laid(disk), Len(disk))
<1> DEFINE e == Laid(disk)
           n == Len(disk)
           B == {j \in 0 .. n : ~LaidFine(disk, e, j)}
<1>1. n \in Nat
  OBVIOUS
<1>2. LaidFine(disk, e, 0)
  <2>1. e[0] = First(disk)
    BY LaidIs
  <2>2. e[0].offset = n + 1 /\ e[0].bytes = [k \in 1 .. n + 1 |-> 0]
    BY <2>1 DEF First
  <2> DEFINE z == [k \in 1 .. n + 1 |-> 0]
  <2>3. n + 1 \in Nat /\ z \in [1 .. n + 1 -> Nat]
    BY <1>1
  <2> HIDE DEF z, n
  <2>4. z \in Seq(Nat) /\ Len(z) = n + 1
    BY <2>3
  <2>5. e[0].offset \in Nat /\ e[0].bytes \in Seq(Nat) /\ Len(e[0].bytes) = e[0].offset
    BY <2>2, <2>3, <2>4 DEF z
  <2>6. \A i \in 1 .. 0 : FALSE
    OBVIOUS
  <2> HIDE DEF e
  <2> QED BY <2>5, <2>6 DEF LaidFine
<1>3. B = {}
  <2>1. SUFFICES ASSUME B # {} PROVE FALSE
    OBVIOUS
  <2>2. PICK k \in B : \A j \in B : k <= j
    <3>1. B \in SUBSET Nat
      BY <1>1
    <3> HIDE DEF B
    <3> QED BY <2>1, <3>1, LeastOf
  <2>3. k \in 0 .. n /\ ~LaidFine(disk, e, k) /\ \A j \in 0 .. n : j < k => LaidFine(disk, e, j)
    <3> HIDE DEF e, n
    <3>1. k \in 0 .. n /\ ~LaidFine(disk, e, k)
      BY <2>2
    <3>2. \A j \in 0 .. n : j < k => j \notin B
      <4> HIDE DEF B
      <4> QED BY <3>1, <1>1, <2>2
    <3> QED BY <3>1, <3>2
  <2> HIDE DEF B
  <2>4. k # 0
    BY <2>3, <1>2
  <2>5. k \in 1 .. n /\ k - 1 \in 0 .. n /\ k - 1 < k
    BY <1>1, <2>3, <2>4
  <2>6. e[k] = More(e[k - 1], disk[k])
    BY <2>5, LaidIs
  <2>7. LaidFine(disk, e, k - 1)
    BY <2>3, <2>5
  <2> HIDE DEF e
  <2>8. LaidFine(disk, e, k)
    BY <2>5, <2>6, <2>7, LaidNext
  <2> QED BY <2>3, <2>8
<1>4. n \in 0 .. n
  BY <1>1
<1> QED BY <1>3, <1>4

\* What init_initrd finds is what mk-initrd was given.
LEMMA LoadedIs ==
  ASSUME NEW disk \in Seq(FileR), NEW i \in 1 .. Len(disk)
  PROVE  Loaded(mk_initrd(disk), i) = disk[i].bytes
<1> DEFINE e == Laid(disk)
           n == Len(disk)
           b == disk[i].bytes
           m == Len(b)
           at == e[i - 1].offset
           all == e[n].bytes
<1>1. LaidFine(disk, e, n)
  BY LaidGood
<1>2. b \in Seq(Nat) /\ m \in Nat
  <2>1. disk[i] \in FileR
    BY ElementOfSeq
  <2> QED BY <2>1 DEF FileR
<1>3. /\ at \in Nat /\ at + m <= Len(all) /\ all \in Seq(Nat)
      /\ \A k \in 1 .. m : all[at + k] = b[k]
  BY <1>1 DEF LaidFine
<1>4. Loaded(mk_initrd(disk), i) = SubSeq(all, at + 1, at + m)
  <2>1. DOMAIN disk = 1 .. n
    OBVIOUS
  <2>2. /\ mk_initrd(disk).offset[i] = at /\ mk_initrd(disk).size[i] = m
        /\ mk_initrd(disk).bytes = all
    BY <2>1 DEF mk_initrd
  <2> HIDE DEF at, m, all
  <2> QED BY <2>2 DEF Loaded
<1> HIDE DEF at, m, all, b
<1>5. \A k \in at + 1 .. at + m : all[k] \in Nat
  <2>1. \A k \in at + 1 .. at + m : k \in 1 .. Len(all)
    BY <1>2, <1>3
  <2> QED BY <2>1, <1>3, ElementOfSeq
<1> DEFINE p == at + 1
           q == at + m
           s == SubSeq(all, p, q)
<1>6. p \in Int /\ q \in Int /\ q - p + 1 = m /\ (~(p <= q) => m = 0)
      /\ \A k \in 1 .. m : p + k - 1 = at + k
  BY <1>2, <1>3
<1>7. \A k \in p .. q : all[k] \in Nat
  BY <1>5
<1> HIDE DEF p, q
<1>8. /\ SubSeq(all, p, q) \in Seq(Nat)
      /\ Len(SubSeq(all, p, q)) = IF p <= q THEN q - p + 1 ELSE 0
      /\ \A k \in 1 .. q - p + 1 : SubSeq(all, p, q)[k] = all[p + k - 1]
  BY <1>6, <1>7, SubSeqProperties
<1> HIDE DEF s
<1>9. s \in Seq(Nat) /\ Len(s) = m /\ \A k \in 1 .. m : s[k] = all[at + k]
  BY <1>6, <1>8 DEF s
<1>10. s = b
  <2>1. Len(s) = Len(b) /\ \A k \in 1 .. Len(s) : s[k] = b[k]
    BY <1>9, <1>3 DEF m
  <2> QED BY <2>1, <1>9, <1>2, SeqEqual
<1> QED BY <1>4, <1>10 DEF s, p, q, b

----------------------------------------------------------------------------
(* Reading *)

\* Where the divisions agree, byte j of a transfer is byte at + j of the file.
LEMMA PlaceIs ==
  ASSUME NEW at \in Nat, Agree(at), NEW j \in Nat
  PROVE  start_node(at) = Quo(at) /\ Place(at, j) = <<Quo(at + j) + 1, Rem(at + j)>>
<1>1. start_node(at) = Quo(at) /\ offset(at) = Rem(at)
  BY DEF Agree, offset, Quo, Rem
<1>2. Quo(at) + Quo(Rem(at) + j) = Quo(at + j) /\ Rem(Rem(at) + j) = Rem(at + j)
      /\ Quo(at) \in Nat /\ Rem(at) \in Nat
  <2>1. Rem(at) \in 0 .. Block - 1 /\ Quo(at) \in Nat
    BY Quos
  <2>2. Rem(at) \in Nat
    BY <2>1, Constants
  <2> QED BY <2>1, <2>2, Quos
<1>3. Rem(at) + j \in Nat
  BY <1>2
<1>4. Quo(Rem(at) + j) \in Nat
  BY <1>3, Quos
<1>5. Place(at, j) = <<Quo(at) + 1 + Quo(Rem(at) + j), Rem(Rem(at) + j)>>
  BY <1>1 DEF Place, Quo, Rem
<1>6. Quo(at) + 1 + Quo(Rem(at) + j) = Quo(at + j) + 1
  BY <1>2, <1>4
<1> QED BY <1>1, <1>2, <1>5, <1>6

\* A read inside the file stays inside it.
LEMMA ReadableIs ==
  ASSUME NEW i, nodes[i].size \in Nat, NEW at \in Int, NEW n \in Nat
  PROVE  /\ Readable(i, at, n) \in Nat
         /\ at <= nodes[i].size => at + Readable(i, at, n) <= nodes[i].size
         /\ Len(read_ramfs(i, at, n)) = Readable(i, at, n)
<1>1. Readable(i, at, n) \in Nat
  BY DEF Readable
<1>2. at <= nodes[i].size => at + Readable(i, at, n) <= nodes[i].size
  BY DEF Readable
<1>3. Len(read_ramfs(i, at, n)) = Readable(i, at, n)
  <2> DEFINE r == Readable(i, at, n)
             f == [j \in 1 .. r |-> ByteAt(data[i], at, j - 1)]
             S == {f[j] : j \in 1 .. r}
  <2>1. f \in [1 .. r -> S] /\ r \in Nat
    BY <1>1
  <2>2. read_ramfs(i, at, n) = f
    BY DEF read_ramfs
  <2> HIDE DEF f, S, r
  <2>3. Len(f) = r
    BY <2>1
  <2> QED BY <2>2, <2>3 DEF r
<1> QED BY <1>1, <1>2, <1>3

\* No chain is left where the blocks reach as far as the file.
LEMMA ReadStays ==
  ASSUME NEW i, nodes[i].size \in Nat, Len(data[i]) \in Nat,
         NEW at \in 0 .. nodes[i].size, NEW n \in Nat, Agree(at),
         Len(data[i]) >= Quo(at),
         nodes[i].size > 0 => Len(data[i]) >= Quo(nodes[i].size - 1) + 1
  PROVE  ~ReadFaults(i, at, n)
<1> DEFINE r == Readable(i, at, n)
           fsize == nodes[i].size
<1>1. at \in Nat /\ at <= fsize /\ fsize \in Nat
  OBVIOUS
<1>2. r \in Nat /\ at + r <= fsize
  BY <1>1, ReadableIs
<1>3. start_node(at) = Quo(at) /\ Quo(at) \in Nat
  <2>1. 0 \in Nat
    OBVIOUS
  <2> QED BY <2>1, <1>1, PlaceIs, Quos
<1> HIDE DEF r
<1>4. ASSUME r > 0 PROVE Place(at, r - 1)[1] <= Len(data[i])
  <2>1. r - 1 \in Nat /\ at + (r - 1) \in Nat /\ fsize - 1 \in Nat /\ at + (r - 1) <= fsize - 1
        /\ fsize > 0
    BY <1>1, <1>2, <1>4
  <2>2. Place(at, r - 1) = <<Quo(at + (r - 1)) + 1, Rem(at + (r - 1))>>
    BY <2>1, <1>1, PlaceIs
  <2>3. Quo(at + (r - 1)) <= Quo(fsize - 1) /\ Quo(at + (r - 1)) \in Nat /\ Quo(fsize - 1) \in Nat
    <3> DEFINE x == at + (r - 1)
               y == fsize - 1
    <3> HIDE DEF x, y
    <3> QED BY <2>1, Quos DEF x, y
  <2>4. Place(at, r - 1)[1] = Quo(at + (r - 1)) + 1
    BY <2>2
  <2> QED BY <2>1, <2>3, <2>4
<1>5. ~(start_node(at) > Len(data[i]))
  BY <1>3
<1>6. r > 0 => ~(Place(at, r - 1)[1] > Len(data[i]))
  <2>1. ASSUME r > 0 PROVE Place(at, r - 1)[1] \in Int
    <3>1. r - 1 \in Nat /\ at + (r - 1) \in Nat
      BY <1>1, <1>2, <2>1
    <3>2. Place(at, r - 1) = <<Quo(at + (r - 1)) + 1, Rem(at + (r - 1))>>
      BY <3>1, <1>1, PlaceIs
    <3>3. Quo(at + (r - 1)) \in Nat
      BY <3>1, Quos
    <3> QED BY <3>2, <3>3
  <2> QED BY <1>4, <2>1
<1> QED BY <1>1, <1>5, <1>6 DEF ReadFaults, r

\* The bytes read are those of their place.
LEMMA ReadIs ==
  ASSUME NEW i, NEW w \in Seq(Nat), Holds(data[i], w), nodes[i].size = Len(w),
         NEW at \in 0 .. Len(w), NEW n \in Nat, Agree(at)
  PROVE  read_ramfs(i, at, n) = SubSeq(w, at + 1, at + Readable(i, at, n))
<1> DEFINE r == Readable(i, at, n)
           f == [j \in 1 .. r |-> ByteAt(data[i], at, j - 1)]
           p == at + 1
           q == at + r
<1>1. at \in Nat /\ at <= Len(w) /\ Len(w) \in Nat
  OBVIOUS
<1>2. r \in Nat /\ at + r <= Len(w)
  BY <1>1, ReadableIs
<1> HIDE DEF r
<1>3. ASSUME NEW j \in 1 .. r PROVE ByteAt(data[i], at, j - 1) = w[at + j] /\ w[at + j] \in Nat
  <2> DEFINE k == at + (j - 1)
  <2>1. k \in 0 .. Len(w) - 1 /\ k + 1 = at + j /\ j - 1 \in Nat /\ k + 1 \in 1 .. Len(w)
    BY <1>1, <1>2
  <2>2. Place(at, j - 1) = <<Quo(k) + 1, Rem(k)>>
    BY <2>1, <1>1, PlaceIs
  <2> HIDE DEF k
  <2>3. Place(at, j - 1)[1] = Quo(k) + 1 /\ Place(at, j - 1)[2] = Rem(k)
    BY <2>2
  <2>4. data[i][Quo(k) + 1][Rem(k)] = w[k + 1]
    BY <2>1 DEF Holds
  <2>5. w[k + 1] \in Nat
    BY <2>1, ElementOfSeq
  <2> QED BY <2>1, <2>3, <2>4, <2>5 DEF ByteAt
<1>4. f \in [1 .. r -> Nat] /\ \A j \in 1 .. r : f[j] = w[at + j]
  BY <1>3
<1> HIDE DEF f
<1>5. f \in Seq(Nat) /\ Len(f) = r
  BY <1>2, <1>4
<1>6. p \in Int /\ q \in Int /\ q - p + 1 = r /\ (~(p <= q) => r = 0)
      /\ (\A k \in 1 .. r : p + k - 1 = at + k) /\ \A k \in p .. q : k \in 1 .. Len(w)
  BY <1>1, <1>2
<1> HIDE DEF p, q
<1>7. \A k \in p .. q : w[k] \in Nat
  BY <1>6, ElementOfSeq
<1>8. /\ SubSeq(w, p, q) \in Seq(Nat)
      /\ Len(SubSeq(w, p, q)) = IF p <= q THEN q - p + 1 ELSE 0
      /\ \A k \in 1 .. q - p + 1 : SubSeq(w, p, q)[k] = w[p + k - 1]
  BY <1>6, <1>7, SubSeqProperties
<1> DEFINE s == SubSeq(w, p, q)
<1> HIDE DEF s
<1>9. s \in Seq(Nat) /\ Len(s) = r /\ \A k \in 1 .. r : s[k] = w[at + k]
  BY <1>6, <1>8 DEF s
<1>10. s = f
  <2>1. Len(s) = Len(f) /\ \A k \in 1 .. Len(s) : s[k] = f[k]
    BY <1>9, <1>4, <1>5
  <2> QED BY <2>1, <1>9, <1>5, SeqEqual
<1> QED BY <1>10 DEF s, p, q, f, r, read_ramfs

\* The invariant says that reads give what was written.
LEMMA FsInPlace == FsInv => InPlace
<1> SUFFICES ASSUME FsInv, NEW i \in DOMAIN nodes, nodes[i].type = "reg", sane[i]
             PROVE  /\ nodes[i].size = Len(want[i])
                    /\ \A at \in 0 .. nodes[i].size, n \in Sizes : Agree(at) =>
                         /\ ~ReadFaults(i, at, n)
                         /\ read_ramfs(i, at, n) = SubSeq(want[i], at + 1, at + Readable(i, at, n))
  BY DEF InPlace
<1> DEFINE w == want[i]
<1>1. i \in 1 .. Len(nodes) /\ w \in Seq(Nat) /\ data[i] \in Seq(Blk) /\ nodes[i].size = Len(w)
      /\ Holds(data[i], w)
  <2>1. i \in 1 .. Len(nodes) /\ i \in 1 .. Len(want) /\ i \in 1 .. Len(data)
    BY DEF FsInv, StoreOk
  <2>2. want \in Seq(Seq(Nat)) /\ data \in Seq(Seq(Blk))
    BY DEF FsInv, StoreOk
  <2>3. want[i] \in Seq(Nat) /\ data[i] \in Seq(Blk)
    BY <2>1, <2>2, ElementOfSeq
  <2> QED BY <2>1, <2>3 DEF FsInv, StoreOk
<1> HIDE DEF w
<1>2. ASSUME NEW at \in 0 .. nodes[i].size, NEW n \in Sizes, Agree(at)
      PROVE  /\ ~ReadFaults(i, at, n)
             /\ read_ramfs(i, at, n) = SubSeq(w, at + 1, at + Readable(i, at, n))
  <2>1. n \in Nat /\ nodes[i].size \in Nat /\ at \in Nat /\ Len(data[i]) \in Nat /\ at \in 0 .. Len(w)
    BY <1>1, VfsAssumption
  <2> DEFINE fsize == nodes[i].size
             m == Len(data[i])
  <2>2. m >= 1 /\ (fsize > 0 => m >= Quo(fsize - 1) + 1)
    BY <1>1 DEF Holds
  <2> HIDE DEF fsize, m
  <2>3. m >= Quo(at)
    <3>1. fsize \in Nat /\ at <= fsize /\ m \in Nat
      BY <2>1 DEF fsize, m
    <3>2. Quo(at) <= Quo(fsize) /\ Quo(at) \in Nat /\ Quo(fsize) \in Nat /\ Quo(0) = 0
      BY <3>1, <2>1, Quos
    <3>3. CASE fsize = 0
      BY <3>1, <3>2, <3>3, <2>2
    <3>4. CASE fsize > 0
      <4> DEFINE y == fsize - 1
      <4>1. y \in Nat /\ fsize = y + 1
        BY <3>1, <3>4
      <4>2. m >= Quo(y) + 1
        BY <3>4, <2>2
      <4> HIDE DEF y
      <4>3. Quo(y + 1) <= Quo(y) + 1 /\ Quo(y) \in Nat
        BY <4>1, Quos
      <4> QED BY <4>1, <4>2, <4>3, <3>1, <3>2
    <3> QED BY <3>1, <3>3, <3>4
  <2>4. Len(data[i]) >= Quo(at) /\ (nodes[i].size > 0 => Len(data[i]) >= Quo(nodes[i].size - 1) + 1)
    BY <2>2, <2>3 DEF fsize, m
  <2>5. ~ReadFaults(i, at, n)
    BY <1>2, <2>1, <2>4, ReadStays
  <2>6. read_ramfs(i, at, n) = SubSeq(w, at + 1, at + Readable(i, at, n))
    BY <1>1, <1>2, <2>1, ReadIs
  <2> QED BY <2>5, <2>6
<1> QED BY <1>1, <1>2 DEF w

----------------------------------------------------------------------------
(* What the steps do to the parts of the invariant. *)

\* More nodes, or larger files, and more risk: the descriptors are still good.
Grown(ns, ms) ==
  /\ Len(ns) \in Nat /\ Len(ms) \in Nat /\ Len(ns) <= Len(ms)
  /\ \A i \in 1 .. Len(ns) : /\ ns[i].size \in Nat /\ ms[i].size \in Nat
                             /\ ns[i].size <= ms[i].size

\* Descriptors stay good while files only grow.
LEMMA StillOk ==
  ASSUME NEW fs, NEW ns, NEW ms, NEW rk \in BOOLEAN, NEW rk2 \in BOOLEAN,
         FilesOk(fs, ns, rk), Grown(ns, ms), rk => rk2
  PROVE  FilesOk(fs, ms, rk2)
<1>1. ASSUME NEW fd \in Fds PROVE FileOk(fs[fd], ms, rk2)
  <2>1. FileOk(fs[fd], ns, rk) /\ fs[fd].at \in Int
    BY DEF FilesOk, FileT
  <2>2. ASSUME fs[fd] # Closed
        PROVE  fs[fd].node \in 1 .. Len(ms) /\ (~rk2 => fs[fd].at \in 0 .. ms[fs[fd].node].size)
    <3>1. fs[fd].node \in 1 .. Len(ns) /\ (~rk => fs[fd].at \in 0 .. ns[fs[fd].node].size)
      BY <2>1, <2>2 DEF FileOk
    <3>2. fs[fd].node \in 1 .. Len(ms)
      BY <3>1 DEF Grown
    <3>3. ns[fs[fd].node].size \in Nat /\ ms[fs[fd].node].size \in Nat
          /\ ns[fs[fd].node].size <= ms[fs[fd].node].size
      BY <3>1 DEF Grown
    <3> QED BY <3>1, <3>2, <3>3, <2>1
  <2> QED BY <2>2 DEF FileOk
<1> QED BY <1>1 DEF FilesOk

\* A list of nodes is as long as itself.
LEMMA SameGrown ==
  ASSUME NEW ns \in Seq(NodeT)
  PROVE  Grown(ns, ns)
<1>1. \A i \in 1 .. Len(ns) : ns[i] \in NodeT
  BY ElementOfSeq
<1>2. \A i \in 1 .. Len(ns) : ns[i].size \in Nat
  BY <1>1 DEF NodeT
<1> QED BY <1>2 DEF Grown

\* A good descriptor can be put anywhere.
LEMMA PutFile ==
  ASSUME NEW fs, NEW ns, NEW rk, FilesOk(fs, ns, rk), NEW x,
         NEW f \in FileT, FileOk(f, ns, rk)
  PROVE  FilesOk([fs EXCEPT ![x] = f], ns, rk)
<1>1. fs \in [Fds -> FileT] /\ \A fd \in Fds : FileOk(fs[fd], ns, rk)
  BY DEF FilesOk
<1>2. [fs EXCEPT ![x] = f] \in [Fds -> FileT]
  BY <1>1
<1>3. \A fd \in Fds : [fs EXCEPT ![x] = f][fd] = IF fd = x THEN f ELSE fs[fd]
  BY <1>1
<1> DEFINE g == [fs EXCEPT ![x] = f]
<1> HIDE DEF g
<1>4. \A fd \in Fds : g[fd] = f \/ g[fd] = fs[fd]
  BY <1>3 DEF g
<1>5. \A fd \in Fds : FileOk(g[fd], ns, rk)
  BY <1>1, <1>4
<1> QED BY <1>2, <1>5 DEF FilesOk, g

\* A file of the table, where it is open.
LEMMA OpenFile ==
  ASSUME FsInv, NEW fd \in Fds
  PROVE  /\ files[fd] \in FileT /\ files[fd].node \in Nat /\ files[fd].at \in Int
         /\ files[fd].oflag \in SUBSET Flags
         /\ files[fd] # Closed =>
              /\ files[fd].node \in 1 .. Len(nodes)
              /\ nodes[files[fd].node] \in NodeT /\ nodes[files[fd].node].size \in Nat
              /\ data[files[fd].node] \in Seq(Blk) /\ want[files[fd].node] \in Seq(Nat)
              /\ sane[files[fd].node] \in BOOLEAN
              /\ ~risky => files[fd].at \in 0 .. nodes[files[fd].node].size
<1>1. files[fd] \in FileT /\ FileOk(files[fd], nodes, risky)
  BY DEF FsInv, FilesOk
<1>2. files[fd].node \in Nat /\ files[fd].at \in Int /\ files[fd].oflag \in SUBSET Flags
  BY <1>1 DEF FileT
<1>3. ASSUME NEW i \in 1 .. Len(nodes)
      PROVE  /\ nodes[i] \in NodeT /\ data[i] \in Seq(Blk) /\ want[i] \in Seq(Nat)
             /\ sane[i] \in BOOLEAN
  <2>1. i \in 1 .. Len(data) /\ i \in 1 .. Len(want) /\ i \in 1 .. Len(sane)
    BY DEF FsInv, StoreOk
  <2>2. nodes \in Seq(NodeT) /\ data \in Seq(Seq(Blk)) /\ want \in Seq(Seq(Nat))
        /\ sane \in Seq(BOOLEAN)
    BY DEF FsInv, StoreOk
  <2>3. nodes[i] \in NodeT
    BY <2>2, ElementOfSeq
  <2>4. data[i] \in Seq(Blk)
    BY <2>1, <2>2, ElementOfSeq
  <2>5. want[i] \in Seq(Nat)
    BY <2>1, <2>2, ElementOfSeq
  <2>6. sane[i] \in BOOLEAN
    BY <2>1, <2>2, ElementOfSeq
  <2> QED BY <2>3, <2>4, <2>5, <2>6
<1>4. \A i \in 1 .. Len(nodes) : nodes[i].size \in Nat
  BY <1>3 DEF NodeT
<1>5. files[fd] # Closed => /\ files[fd].node \in 1 .. Len(nodes)
                            /\ ~risky => files[fd].at \in 0 .. nodes[files[fd].node].size
  BY <1>1 DEF FileOk
<1> QED BY <1>1, <1>2, <1>3, <1>4, <1>5

\* A call that leaves the files alone, and the descriptors as good as they were.
LEMMA Quiet ==
  ASSUME FsInv, UNCHANGED store, calls' = calls + 1, risky' \in BOOLEAN, risky => risky',
         FilesOk(files', nodes, risky'), mode' # "run" => risky'
  PROVE  FsInv'
<1>1. nodes' = nodes /\ data' = data /\ want' = want /\ sane' = sane
  BY DEF store
<1>2. StoreOk(nodes', data', want', sane')
  BY <1>1 DEF FsInv
<1>3. ~risky' => SafeOk(nodes', data')
  BY <1>1 DEF FsInv
<1>4. FilesOk(files', nodes', risky') /\ calls' \in Nat
  BY <1>1 DEF FsInv
<1> QED BY <1>2, <1>3, <1>4 DEF FsInv

\* A call that changes neither file nor descriptor.
LEMMA SameFiles ==
  ASSUME FsInv, UNCHANGED <<store, files>>, calls' = calls + 1, risky' \in BOOLEAN,
         risky => risky', mode' # "run" => risky'
  PROVE  FsInv'
<1>1. nodes \in Seq(NodeT) /\ FilesOk(files, nodes, risky) /\ risky \in BOOLEAN
  BY DEF FsInv, StoreOk
<1>2. Grown(nodes, nodes)
  BY <1>1, SameGrown
<1>3. FilesOk(files', nodes, risky')
  BY <1>1, <1>2, StillOk
<1> QED BY <1>3, Quiet

\* A call that changes one descriptor.
LEMMA OneFile ==
  ASSUME FsInv, UNCHANGED store, calls' = calls + 1, risky' \in BOOLEAN, risky => risky',
         NEW x, NEW f \in FileT, FileOk(f, nodes, risky'), files' = [files EXCEPT ![x] = f],
         mode' # "run" => risky'
  PROVE  FsInv'
<1>1. nodes \in Seq(NodeT) /\ FilesOk(files, nodes, risky) /\ risky \in BOOLEAN
  BY DEF FsInv, StoreOk
<1>2. Grown(nodes, nodes)
  BY <1>1, SameGrown
<1>3. FilesOk(files, nodes, risky')
  BY <1>1, <1>2, StillOk
<1>4. FilesOk(files', nodes, risky')
  BY <1>3, PutFile
<1> QED BY <1>4, Quiet

\* A closed descriptor is a good one.
LEMMA ClosedIs ==
  /\ Closed \in FileT /\ \A ns, rk : FileOk(Closed, ns, rk)
  BY DEF Closed, FileT, FileOk

\* A call is made while the kernel runs.
LEMMA Running ==
  ASSUME FsInv, Runs
  PROVE  /\ mode = "run" /\ calls' = calls + 1 /\ calls \in Nat /\ risky \in BOOLEAN
         /\ (mode' = mode => mode' = "run")
  BY DEF FsInv, Runs

\* close_vfs keeps the invariant.
LEMMA CloseKeeps ==
  ASSUME FsInv, NEW fd \in Fds, close_vfs(fd)
  PROVE  FsInv'
<1>1. Runs /\ files' = [files EXCEPT ![fd] = Closed] /\ UNCHANGED <<store, risky, mode>>
  BY DEF close_vfs
<1>2. risky' = risky /\ risky \in BOOLEAN /\ calls' = calls + 1 /\ mode' = "run" /\ UNCHANGED store
  BY <1>1, Running
<1>3. /\ risky' \in BOOLEAN /\ (risky => risky') /\ FileOk(Closed, nodes, risky')
      /\ Closed \in FileT /\ files' = [files EXCEPT ![fd] = Closed] /\ (mode' # "run" => risky')
  BY <1>1, <1>2, ClosedIs
<1> QED BY <1>2, <1>3, OneFile

\* Other flags leave a descriptor good.
LEMMA DupIs ==
  ASSUME FsInv, NEW fd \in Fds, files[fd] # Closed, NEW ofl \in SUBSET Flags
  PROVE  LET f == [files[fd] EXCEPT !.oflag = ofl]
         IN  f \in FileT /\ FileOk(f, nodes, risky)
<1> DEFINE f == [files[fd] EXCEPT !.oflag = ofl]
<1>1. files[fd] \in FileT /\ FileOk(files[fd], nodes, risky)
  BY DEF FsInv, FilesOk
<1>2. f \in FileT /\ f.node = files[fd].node /\ f.at = files[fd].at
  BY <1>1 DEF FileT
<1> HIDE DEF f
<1>3. FileOk(f, nodes, risky)
  BY <1>1, <1>2 DEF FileOk
<1> QED BY <1>2, <1>3 DEF f

\* fcntl with F_DUPFD keeps it.
LEMMA DupKeeps ==
  ASSUME FsInv, NEW fd \in Fds, NEW from \in Froms, fcntl_dup(fd, from)
  PROVE  FsInv'
<1> DEFINE x == get_free_fd(from)
           ofl == files[fd].oflag \ {"CLOEXEC"}
           f == [files[fd] EXCEPT !.oflag = ofl]
<1>1. Runs /\ files[fd] # Closed /\ files' = [files EXCEPT ![x] = f]
      /\ UNCHANGED <<store, risky, mode>>
  BY DEF fcntl_dup, Dup
<1>2. risky' = risky /\ risky \in BOOLEAN /\ calls' = calls + 1 /\ mode' = "run" /\ UNCHANGED store
  BY <1>1, Running
<1>3. ofl \in SUBSET Flags
  BY OpenFile
<1> HIDE DEF x, ofl
<1>4. f \in FileT /\ FileOk(f, nodes, risky')
  BY <1>1, <1>2, <1>3, DupIs
<1> HIDE DEF f
<1>5. risky' \in BOOLEAN /\ (risky => risky') /\ files' = [files EXCEPT ![x] = f]
      /\ (mode' # "run" => risky')
  BY <1>1, <1>2
<1> QED BY <1>2, <1>4, <1>5, OneFile

\* fcntl with F_SETFD keeps it.
LEMMA SetKeeps ==
  ASSUME FsInv, NEW fd \in Fds, fcntl_set(fd, {"CLOEXEC"}, {"CLOEXEC"})
  PROVE  FsInv'
<1> DEFINE ofl == (files[fd].oflag \ {"CLOEXEC"}) \cup ({"CLOEXEC"} \cap {"CLOEXEC"})
           f == [files[fd] EXCEPT !.oflag = ofl]
<1>1. Runs /\ files[fd] # Closed /\ files' = [files EXCEPT ![fd].oflag = ofl]
      /\ UNCHANGED <<store, risky, mode>>
  BY DEF fcntl_set
<1>2. risky' = risky /\ risky \in BOOLEAN /\ calls' = calls + 1 /\ mode' = "run" /\ UNCHANGED store
  BY <1>1, Running
<1>3. ofl \in SUBSET Flags
  <2>1. "CLOEXEC" \in Flags
    BY DEF Flags
  <2>2. files[fd].oflag \in SUBSET Flags
    BY OpenFile
  <2> QED BY <2>1, <2>2
<1> HIDE DEF ofl
<1>4. f \in FileT /\ FileOk(f, nodes, risky')
  BY <1>1, <1>2, <1>3, DupIs
<1>5. files' = [files EXCEPT ![fd] = f]
  BY <1>1
<1> HIDE DEF f
<1> QED BY <1>2, <1>4, <1>5, OneFile

\* dup2 keeps it.
LEMMA Dup2Keeps ==
  ASSUME FsInv, NEW fd \in Fds, NEW fd2 \in Fds, dup2(fd, fd2)
  PROVE  FsInv'
<1> DEFINE left == [files EXCEPT ![fd2] = Closed]
           ofl == files[fd].oflag \ {"CLOEXEC"}
           f == [files[fd] EXCEPT !.oflag = ofl]
<1>1. Runs /\ UNCHANGED <<store, risky, mode>>
      /\ files' = IF left[fd] = Closed THEN left ELSE [left EXCEPT ![fd2] = f]
  BY DEF dup2, Dup
<1>2. risky' = risky /\ risky \in BOOLEAN /\ calls' = calls + 1 /\ mode' = "run" /\ UNCHANGED store
  BY <1>1, Running
<1>3. FilesOk(files, nodes, risky) /\ files \in [Fds -> FileT]
  BY DEF FsInv, FilesOk
<1>4. FilesOk(left, nodes, risky)
  BY <1>3, ClosedIs, PutFile
<1>5. CASE left[fd] = Closed
  <2>1. files' = left
    BY <1>1, <1>5
  <2> HIDE DEF left
  <2> QED BY <2>1, <1>2, <1>4, Quiet
<1>6. CASE left[fd] # Closed
  <2>1. files[fd] # Closed
    BY <1>3, <1>6
  <2>2. ofl \in SUBSET Flags
    BY OpenFile
  <2>3. files' = [left EXCEPT ![fd2] = f]
    BY <1>1, <1>6
  <2> HIDE DEF left, ofl
  <2>4. f \in FileT /\ FileOk(f, nodes, risky)
    BY <2>1, <2>2, DupIs
  <2> HIDE DEF f
  <2>5. FilesOk(files', nodes, risky)
    BY <1>4, <2>3, <2>4, PutFile
  <2> QED BY <2>5, <1>2, Quiet
<1> QED BY <1>5, <1>6

\* lseek_vfs keeps it: a place out of the file is risky.
LEMMA SeekKeeps ==
  ASSUME FsInv, NEW fd \in Fds, NEW off \in Offsets, NEW whence \in {"SET", "CUR", "END"},
         lseek_vfs(fd, off, whence)
  PROVE  FsInv'
<1> DEFINE o == files[fd]
           fsize == nodes[o.node].size
           to == CASE whence = "SET" -> off
                   [] whence = "CUR" -> o.at + off
                   [] whence = "END" -> fsize + off
           f == [o EXCEPT !.at = to]
<1>1. Runs /\ o # Closed /\ UNCHANGED <<store, mode>>
      /\ files' = [files EXCEPT ![fd].at = to] /\ risky' = (risky \/ to \notin 0 .. fsize)
  BY DEF lseek_vfs
<1>2. risky \in BOOLEAN /\ calls' = calls + 1 /\ mode' = "run" /\ UNCHANGED store
  BY <1>1, Running
<1>3. risky' \in BOOLEAN /\ (risky => risky') /\ (~risky' => to \in 0 .. fsize)
  BY <1>1, <1>2
<1>4. o \in FileT /\ o.node \in 1 .. Len(nodes) /\ o.at \in Int /\ fsize \in Nat
  BY <1>1, OpenFile
<1>5. to \in Int
  <2>1. off \in Int
    BY VfsAssumption
  <2> HIDE DEF o, fsize
  <2>2. CASE whence = "SET"
    BY <2>1, <2>2
  <2>3. CASE whence = "CUR"
    BY <2>1, <2>3, <1>4
  <2>4. CASE whence = "END"
    BY <2>1, <2>4, <1>4
  <2> QED BY <2>2, <2>3, <2>4
<1>6. files' = [files EXCEPT ![fd] = f]
  BY <1>1
<1> HIDE DEF to
<1>7. f \in FileT /\ f.node = o.node /\ f.at = to
  BY <1>4, <1>5 DEF FileT
<1> HIDE DEF f
<1>8. FileOk(f, nodes, risky')
  BY <1>3, <1>4, <1>7 DEF FileOk
<1> QED BY <1>2, <1>3, <1>6, <1>7, <1>8, OneFile

\* fstat keeps it.
LEMMA FstatKeeps ==
  ASSUME FsInv, NEW fd \in Fds, fstat(fd)
  PROVE  FsInv'
<1>1. Runs /\ mode' = (IF files[fd] = Closed THEN "fault" ELSE mode)
      /\ risky' = (risky \/ files[fd] = Closed) /\ UNCHANGED <<store, files>>
  BY DEF fstat
<1>2. risky \in BOOLEAN /\ calls' = calls + 1 /\ mode = "run"
  BY <1>1, Running
<1>3. risky' \in BOOLEAN /\ (risky => risky') /\ (mode' # "run" => risky')
  BY <1>1, <1>2
<1> QED BY <1>1, <1>2, <1>3, SameFiles

\* What is found is in the list.
LEMMA Found ==
  ASSUME nodes \in Seq(NodeT), NEW name
  PROVE  Lookup(name) = 0 \/ (Lookup(name) \in 1 .. Len(nodes) /\ nodes[Lookup(name)].name = name)
<1> DEFINE at == {i \in DOMAIN nodes : nodes[i].name = name}
<1>1. at \in SUBSET Nat /\ DOMAIN nodes = 1 .. Len(nodes)
  OBVIOUS
<1>2. Lookup(name) = IF at = {} THEN 0 ELSE Min(at)
  BY DEF Lookup
<1>3. ASSUME at # {} PROVE Min(at) \in at
  <2> HIDE DEF at
  <2> QED BY <1>1, <1>3, LeastOf
<1> QED BY <1>1, <1>2, <1>3

\* A node whose pointers were never set is only found after a risky call.
LEMMA NoneRaw ==
  ASSUME FsInv, NEW name, Lookup(name) # 0, nodes[Lookup(name)].type = "raw"
  PROVE  risky
<1>1. nodes \in Seq(NodeT)
  BY DEF FsInv, StoreOk
<1>2. Lookup(name) \in 1 .. Len(nodes)
  BY <1>1, Found
<1> QED BY <1>2 DEF FsInv, SafeOk

\* stat keeps it.
LEMMA StatKeeps ==
  ASSUME FsInv, NEW name, stat(name)
  PROVE  FsInv'
<1> DEFINE i == Lookup(name)
<1>1. Runs /\ mode' = (IF i # 0 /\ nodes[i].type = "raw" THEN "wild" ELSE mode)
      /\ UNCHANGED <<store, files, risky>>
  BY DEF stat
<1>2. risky \in BOOLEAN /\ calls' = calls + 1 /\ mode = "run"
  BY <1>1, Running
<1>3. mode' # "run" => risky'
  BY <1>1, <1>2, NoneRaw
<1> QED BY <1>1, <1>2, <1>3, SameFiles

\* read_vfs keeps it, and without risk it does not fault.
LEMMA ReadKeeps ==
  ASSUME FsInv, NEW fd \in Fds, NEW n \in Sizes, read_vfs(fd, n)
  PROVE  FsInv'
<1> DEFINE o == files[fd]
           i == o.node
           at == o.at
           r == Len(read_ramfs(i, at, n))
           f == [o EXCEPT !.at = at + r]
           fsize == nodes[i].size
<1>1. /\ Runs /\ o # Closed /\ nodes[i].type = "reg" /\ UNCHANGED store
      /\ risky' = (risky \/ ~Agree(at))
      /\ \/ ReadFaults(i, at, n) /\ mode' = "fault" /\ UNCHANGED files
         \/ ~ReadFaults(i, at, n) /\ files' = [files EXCEPT ![fd].at = at + r] /\ UNCHANGED mode
  BY DEF read_vfs, IsReg
<1>2. risky \in BOOLEAN /\ calls' = calls + 1 /\ mode = "run"
  BY <1>1, Running
<1>3. risky' \in BOOLEAN /\ (risky => risky') /\ (~risky' => ~risky /\ Agree(at))
  BY <1>1, <1>2
<1>4. o \in FileT /\ i \in 1 .. Len(nodes) /\ at \in Int /\ fsize \in Nat
      /\ data[i] \in Seq(Blk) /\ (~risky => at \in 0 .. fsize)
  BY <1>1, OpenFile
<1>5. n \in Nat
  BY VfsAssumption
<1>6. r \in Nat /\ (at <= fsize => at + r <= fsize)
  BY <1>4, <1>5, ReadableIs
<1>7. CASE ReadFaults(i, at, n) /\ mode' = "fault" /\ UNCHANGED files
  <2>1. ASSUME ~risky' PROVE FALSE
    <3>1. ~risky /\ Agree(at) /\ at \in 0 .. fsize
      BY <2>1, <1>3, <1>4
    <3>2. Len(data[i]) >= Quo(fsize) + 1 /\ Len(data[i]) \in Nat
      BY <3>1, <1>1, <1>4 DEF FsInv, SafeOk
    <3> HIDE DEF i, at, fsize
    <3>3. at \in Nat /\ Quo(at) \in Nat /\ Quo(fsize) \in Nat /\ Quo(at) <= Quo(fsize)
      <4>1. at \in Nat /\ fsize \in Nat /\ at <= fsize
        BY <3>1, <1>4
      <4> QED BY <4>1, Quos
    <3>4. Len(data[i]) >= Quo(at)
      BY <3>2, <3>3
    <3>5. ASSUME fsize > 0 PROVE Len(data[i]) >= Quo(fsize - 1) + 1
      <4> DEFINE y == fsize - 1
      <4>1. y \in Nat /\ y <= fsize
        BY <3>5, <1>4
      <4> HIDE DEF y
      <4>2. Quo(y) \in Nat /\ Quo(y) <= Quo(fsize)
        BY <4>1, <1>4, Quos
      <4>3. Len(data[i]) >= Quo(y) + 1
        BY <3>2, <3>3, <4>2
      <4> QED BY <4>3 DEF y
    <3>6. ~ReadFaults(i, at, n)
      BY <3>1, <3>2, <3>4, <3>5, <1>4, <1>5, ReadStays DEF fsize
    <3> QED BY <3>6, <1>7
  <2> QED BY <2>1, <1>1, <1>2, <1>3, <1>7, SameFiles
<1>8. CASE ~ReadFaults(i, at, n) /\ files' = [files EXCEPT ![fd].at = at + r] /\ UNCHANGED mode
  <2>1. files' = [files EXCEPT ![fd] = f]
    BY <1>8
  <2> HIDE DEF r
  <2>2. at + r \in Int
    BY <1>4, <1>6
  <2>3. f \in FileT /\ f.node = i /\ f.at = at + r
    BY <1>4, <2>2 DEF FileT
  <2>4. ~risky' => at + r \in 0 .. fsize
    <3> HIDE DEF at, fsize
    <3> QED BY <1>3, <1>4, <1>6
  <2> HIDE DEF f
  <2>5. FileOk(f, nodes, risky')
    BY <2>3, <2>4, <1>4 DEF FileOk
  <2>6. mode' # "run" => risky'
    BY <1>2, <1>8
  <2> QED BY <2>1, <2>3, <2>5, <2>6, <1>1, <1>2, <1>3, OneFile
<1> QED BY <1>1, <1>7, <1>8

----------------------------------------------------------------------------
(* A node is added. *)

\* One empty block holds an empty file.
LEMMA EmptyHeld == Holds(<<Zero>>, <<>>)
  BY ZeroIs DEF Holds

\* What a new node does to the list.
LEMMA AddIs ==
  ASSUME FsInv, NEW name \in Names, NEW type \in {"reg", "fifo", "raw"},
         NEW blocks \in {<<>>, <<Zero>>}, Add(name, type, blocks)
  PROVE  /\ StoreOk(nodes', data', want', sane') /\ Grown(nodes, nodes')
         /\ Len(nodes') = Len(nodes) + 1 /\ nodes'[Len(nodes) + 1].size = 0
         /\ type # "raw" /\ blocks = <<Zero>> /\ SafeOk(nodes, data) => SafeOk(nodes', data')
<1> DEFINE n == Len(nodes)
           sn == (blocks # <<>>)
<1>1. PICK s \in Stored(name) : nodes' = Append(nodes, File(s, type, 0))
  BY DEF Add
<1>2. data' = Append(data, blocks) /\ want' = Append(want, <<>>) /\ sane' = Append(sane, sn)
  BY DEF Add
<1> DEFINE e == File(s, type, 0)
<1>3. e \in NodeT /\ e.type = type /\ e.size = 0
  <2>1. s = "cut" \/ s = name
    BY DEF Stored
  <2>2. "cut" \in AnyName /\ name \in AnyName
    BY DEF AnyName
  <2>3. s \in AnyName
    BY <2>1, <2>2
  <2> QED BY <2>3 DEF File, NodeT
<1>4. blocks \in Seq(Blk)
  <2>1. <<>> \in Seq(Blk)
    OBVIOUS
  <2>2. blocks = <<>> \/ blocks = <<Zero>>
    OBVIOUS
  <2> QED BY <2>1, <2>2, ZeroIs
<1>5. sn \in BOOLEAN /\ <<>> \in Seq(Nat) /\ Len(<<>>) = 0
  OBVIOUS
<1>6. /\ nodes \in Seq(NodeT) /\ data \in Seq(Seq(Blk)) /\ want \in Seq(Seq(Nat))
      /\ sane \in Seq(BOOLEAN) /\ Len(data) = n /\ Len(want) = n /\ Len(sane) = n /\ n \in Nat
  BY DEF FsInv, StoreOk
<1> HIDE DEF e, sn
<1>7. /\ nodes' \in Seq(NodeT) /\ Len(nodes') = n + 1 /\ nodes'[n + 1] = e
      /\ \A i \in 1 .. n : nodes'[i] = nodes[i]
  BY <1>1, <1>3, <1>6, AppendProperties DEF e
<1>8. /\ data' \in Seq(Seq(Blk)) /\ Len(data') = n + 1 /\ data'[n + 1] = blocks
      /\ \A i \in 1 .. n : data'[i] = data[i]
  BY <1>2, <1>4, <1>6, AppendProperties
<1>9. /\ want' \in Seq(Seq(Nat)) /\ Len(want') = n + 1 /\ want'[n + 1] = <<>>
      /\ \A i \in 1 .. n : want'[i] = want[i]
  BY <1>2, <1>5, <1>6, AppendProperties
<1>10. /\ sane' \in Seq(BOOLEAN) /\ Len(sane') = n + 1 /\ sane'[n + 1] = sn
       /\ \A i \in 1 .. n : sane'[i] = sane[i]
  BY <1>2, <1>5, <1>6, AppendProperties
<1>11. \A i \in 1 .. n : nodes[i].type = "reg" /\ sane[i] =>
         nodes[i].size = Len(want[i]) /\ Holds(data[i], want[i])
  BY DEF FsInv, StoreOk
<1> HIDE DEF n
<1>12. ASSUME NEW i \in 1 .. n + 1, nodes'[i].type = "reg", sane'[i]
       PROVE  nodes'[i].size = Len(want'[i]) /\ Holds(data'[i], want'[i])
  <2>1. CASE i = n + 1
    <3>1. blocks = <<Zero>>
      BY <2>1, <1>10, <1>12 DEF sn
    <3>2. nodes'[i] = e /\ want'[i] = <<>> /\ data'[i] = <<Zero>>
      BY <2>1, <3>1, <1>7, <1>8, <1>9
    <3> QED BY <3>2, <1>3, <1>5, EmptyHeld
  <2>2. CASE i # n + 1
    <3>1. i \in 1 .. n
      BY <2>2, <1>6
    <3>2. nodes'[i] = nodes[i] /\ want'[i] = want[i] /\ data'[i] = data[i] /\ sane'[i] = sane[i]
      BY <3>1, <1>7, <1>8, <1>9, <1>10
    <3> QED BY <3>1, <3>2, <1>11, <1>12
  <2> QED BY <2>1, <2>2
<1>13. StoreOk(nodes', data', want', sane')
  BY <1>7, <1>8, <1>9, <1>10, <1>12 DEF StoreOk
<1>14. Grown(nodes, nodes')
  <2>1. \A i \in 1 .. n : nodes[i].size \in Nat
    <3>1. \A i \in 1 .. n : nodes[i] \in NodeT
      BY <1>6, ElementOfSeq DEF n
    <3> QED BY <3>1 DEF NodeT
  <2> QED BY <2>1, <1>6, <1>7 DEF Grown, n
<1>15. ASSUME type # "raw", blocks = <<Zero>>, SafeOk(nodes, data) PROVE SafeOk(nodes', data')
  <2>1. ASSUME NEW i \in 1 .. n + 1
        PROVE  /\ nodes'[i].type # "raw"
               /\ nodes'[i].type = "reg" => Len(data'[i]) >= Quo(nodes'[i].size) + 1
    <3>1. CASE i = n + 1
      <4>1. nodes'[i] = e /\ data'[i] = <<Zero>>
        BY <3>1, <1>7, <1>8, <1>15
      <4>2. Quo(0) = 0
        <5>1. 0 \in Nat
          OBVIOUS
        <5> QED BY <5>1, Quos
      <4> QED BY <4>1, <4>2, <1>3, <1>15, ZeroIs
    <3>2. CASE i # n + 1
      <4>1. i \in 1 .. n
        BY <3>2, <1>6
      <4>2. nodes'[i] = nodes[i] /\ data'[i] = data[i]
        BY <4>1, <1>7, <1>8
      <4> QED BY <4>1, <4>2, <1>15 DEF SafeOk, n
    <3> QED BY <3>1, <3>2
  <2> QED BY <2>1, <1>7 DEF SafeOk
<1> QED BY <1>3, <1>7, <1>13, <1>14, <1>15 DEF n

\* creat_vfs keeps the invariant, whatever fails in it.
LEMMA CreatKeeps ==
  ASSUME FsInv, Runs, NEW name \in Names, NEW type \in {"reg", "fifo", "raw"},
         NEW oflag \in SUBSET Flags, creat_vfs(name, type, oflag), UNCHANGED mode
  PROVE  FsInv'
<1> DEFINE fd == get_free_fd(FirstFd)
           f == [node |-> Len(nodes) + 1, at |-> 0, oflag |-> oflag]
<1>1. risky \in BOOLEAN /\ calls' = calls + 1 /\ calls \in Nat /\ mode' = "run"
  BY Running
<1>2. nodes \in Seq(NodeT) /\ FilesOk(files, nodes, risky) /\ Len(nodes) \in Nat
      /\ (~risky => SafeOk(nodes, data))
  BY DEF FsInv, StoreOk
<1>3. CASE UNCHANGED <<store, files, risky>>
  BY <1>1, <1>3, SameFiles
<1>4. CASE Add(name, type, <<>>) /\ risky' = TRUE /\ UNCHANGED files
  <2>1. StoreOk(nodes', data', want', sane') /\ Grown(nodes, nodes')
    BY <1>4, AddIs
  <2>2. FilesOk(files, nodes', risky')
    BY <2>1, <1>1, <1>2, <1>4, StillOk
  <2>3. files' = files /\ risky' /\ risky' \in BOOLEAN /\ calls' \in Nat
    BY <1>1, <1>4
  <2> QED BY <2>1, <2>2, <2>3 DEF FsInv
<1>5. CASE /\ type # "raw" /\ Add(name, type, <<Zero>>) /\ UNCHANGED risky
           /\ files' = IF fd = -1 THEN files ELSE [files EXCEPT ![fd] = f]
  <2>1. /\ StoreOk(nodes', data', want', sane') /\ Grown(nodes, nodes')
        /\ Len(nodes') = Len(nodes) + 1 /\ nodes'[Len(nodes) + 1].size = 0
        /\ (SafeOk(nodes, data) => SafeOk(nodes', data'))
    BY <1>5, AddIs
  <2>2. risky' = risky /\ risky' \in BOOLEAN /\ calls' \in Nat
    BY <1>1, <1>5
  <2>3. FilesOk(files, nodes', risky')
    BY <2>1, <2>2, <1>1, <1>2, StillOk
  <2>4. f \in FileT /\ f.node = Len(nodes) + 1 /\ f.at = 0
    BY <1>2 DEF FileT
  <2> HIDE DEF f, fd
  <2>5. FileOk(f, nodes', risky')
    <3>1. f.node \in 1 .. Len(nodes') /\ nodes'[f.node].size = 0
      BY <2>1, <2>4, <1>2
    <3> QED BY <3>1, <2>4 DEF FileOk
  <2>6. FilesOk([files EXCEPT ![fd] = f], nodes', risky')
    BY <2>3, <2>4, <2>5, PutFile
  <2>7. FilesOk(files', nodes', risky')
    BY <1>5, <2>3, <2>6
  <2>8. ~risky' => SafeOk(nodes', data')
    BY <2>1, <2>2, <1>2
  <2> QED BY <2>1, <2>2, <2>7, <2>8, <1>1 DEF FsInv
<1> QED BY <1>3, <1>4, <1>5 DEF creat_vfs

\* open_vfs keeps it.
LEMMA OpenKeeps ==
  ASSUME FsInv, NEW name \in Names, NEW type \in {"reg", "fifo", "raw"},
         NEW oflag \in SUBSET Flags, open_vfs(name, oflag, type)
  PROVE  FsInv'
<1> DEFINE i == Lookup(name)
           x == OpenFd(i)
           f == [node |-> i, at |-> 0, oflag |-> oflag]
<1>1. Runs
  BY DEF open_vfs
<1>2. risky \in BOOLEAN /\ calls' = calls + 1 /\ calls \in Nat /\ mode = "run"
  BY <1>1, Running
<1>3. CASE creat_vfs(name, type, oflag) /\ UNCHANGED mode
  BY <1>1, <1>3, CreatKeeps
<1>4. CASE i # 0 /\ files' = [files EXCEPT ![x] = f] /\ UNCHANGED <<store, risky, mode>>
  <2>1. nodes \in Seq(NodeT)
    BY DEF FsInv, StoreOk
  <2>2. i \in 1 .. Len(nodes)
    BY <2>1, <1>4, Found
  <2>3. nodes[i] \in NodeT
    BY <2>1, <2>2, ElementOfSeq
  <2>4. nodes[i].size \in Nat
    BY <2>3 DEF NodeT
  <2>5. f \in FileT /\ f.node = i /\ f.at = 0
    BY <2>1, <2>2 DEF FileT
  <2>6. risky' = risky /\ risky' \in BOOLEAN /\ mode' = "run" /\ UNCHANGED store
        /\ files' = [files EXCEPT ![x] = f] /\ (mode' # "run" => risky')
    BY <1>2, <1>4
  <2> HIDE DEF f, i, x
  <2>7. FileOk(f, nodes, risky')
    <3>1. 0 \in 0 .. nodes[i].size
      BY <2>4
    <3> QED BY <2>2, <2>5, <3>1 DEF FileOk
  <2> QED BY <1>2, <2>5, <2>6, <2>7, OneFile
<1>5. CASE i # 0 /\ nodes[i].type = "raw" /\ UNCHANGED <<store, files, risky>>
  <2>1. risky' = risky /\ risky
    BY <1>5, NoneRaw
  <2> QED BY <2>1, <1>2, <1>5, SameFiles
<1> QED BY <1>3, <1>4, <1>5 DEF open_vfs

----------------------------------------------------------------------------
(* A file is written. *)

\* The bytes of a call.
LEMMA BytesAre ==
  ASSUME NEW n \in Nat, calls \in Nat, NEW m \in 1 .. n
  PROVE  /\ Bytes(n) \in Seq(Nat) /\ Len(Bytes(n)) = n
         /\ SubSeq(Bytes(n), 1, m) \in Seq(Nat) /\ Len(SubSeq(Bytes(n), 1, m)) = m
         /\ SubSeq(Bytes(n), 1, n) = Bytes(n)
<1> DEFINE b == Bytes(n)
<1>1. b \in [1 .. n -> Nat]
  BY DEF Bytes
<1> HIDE DEF b
<1>2. b \in Seq(Nat) /\ Len(b) = n
  BY <1>1
<1>3. \A i \in 1 .. m : b[i] \in Nat
  BY <1>1
<1>4. SubSeq(b, 1, m) \in Seq(Nat) /\ Len(SubSeq(b, 1, m)) = IF 1 <= m THEN m - 1 + 1 ELSE 0
  BY <1>3, SubSeqProperties
<1>5. 1 <= m /\ m - 1 + 1 = m
  OBVIOUS
<1>6. SubSeq(b, 1, Len(b)) = b
  BY <1>2, SubSeqFull
<1> QED BY <1>2, <1>4, <1>5, <1>6 DEF b

\* The chain is long enough for what is behind the end, and it is so again.
LEMMA EndReach ==
  ASSUME NEW at \in Nat, Agree(at), NEW m \in Nat \ {0}, NEW bytes, Len(bytes) = m
  PROVE  /\ start_node(at) + Last0(at, bytes) + 2 >= Quo(at + m) + 1
         /\ start_node(at) = Quo(at) /\ Quo(at) \in Nat
<1> DEFINE y == m - 1
<1>1. y \in Nat /\ m = y + 1
  OBVIOUS
<1>2. start_node(at) = Quo(at) /\ offset(at) = Rem(at)
  BY DEF Agree, offset, Quo, Rem
<1>3. Rem(at) \in Nat /\ Quo(at) \in Nat
  <2>1. Rem(at) \in 0 .. Block - 1 /\ Quo(at) \in Nat
    BY Quos
  <2> QED BY <2>1, Constants
<1>4. offset(at) + Len(bytes) - 1 = Rem(at) + y
  BY <1>2, <1>3
<1> HIDE DEF y
<1>5. Last0(at, bytes) = Quo(Rem(at) + y)
  BY <1>4 DEF Last0
<1>6. Quo(at) + Quo(Rem(at) + y) = Quo(at + y)
  BY <1>1, Quos
<1> DEFINE z == at + y
<1>7. z \in Nat /\ z + 1 = at + m
  BY <1>1
<1> HIDE DEF z
<1>8. Quo(z + 1) <= Quo(z) + 1 /\ Quo(z) \in Nat /\ Quo(z + 1) \in Nat
  <2>1. z + 1 \in Nat
    BY <1>7
  <2> QED BY <2>1, <1>7, Quos
<1>9. Quo(Rem(at) + y) \in Nat
  <2>1. Rem(at) + y \in Nat
    BY <1>1, <1>3
  <2> QED BY <2>1, Quos
<1>10. Quo(at + y) = Quo(z) /\ Quo(at + m) = Quo(z + 1)
  BY <1>7 DEF z
<1> DEFINE a == Quo(at)
           b == Quo(Rem(at) + y)
           c == Quo(z)
           e == Quo(z + 1)
<1>11. a \in Nat /\ b \in Nat /\ c \in Nat /\ e \in Nat /\ a + b = c /\ e <= c + 1
  BY <1>3, <1>6, <1>8, <1>9, <1>10
<1> HIDE DEF a, b, c, e
<1>12. a + b + 2 >= e + 1
  BY <1>11
<1> QED BY <1>2, <1>3, <1>5, <1>10, <1>12 DEF a, b, e

\* The store after one node changed.
LEMMA OneNode ==
  ASSUME FsInv, NEW i \in 1 .. Len(nodes), NEW e \in NodeT, NEW blocks \in Seq(Blk),
         NEW w \in Seq(Nat), NEW sn \in BOOLEAN,
         nodes' = [nodes EXCEPT ![i] = e], data' = [data EXCEPT ![i] = blocks],
         want' = [want EXCEPT ![i] = w], sane' = [sane EXCEPT ![i] = sn],
         e.size >= nodes[i].size, e.type = nodes[i].type,
         e.type = "reg" /\ sn => e.size = Len(w) /\ Holds(blocks, w)
  PROVE  /\ StoreOk(nodes', data', want', sane') /\ Grown(nodes, nodes')
         /\ nodes'[i] = e
         /\ SafeOk(nodes, data) /\ Len(blocks) >= Quo(e.size) + 1 => SafeOk(nodes', data')
<1> DEFINE n == Len(nodes)
<1>1. /\ nodes \in Seq(NodeT) /\ data \in Seq(Seq(Blk)) /\ want \in Seq(Seq(Nat))
      /\ sane \in Seq(BOOLEAN) /\ Len(data) = n /\ Len(want) = n /\ Len(sane) = n /\ n \in Nat
  BY DEF FsInv, StoreOk
<1>2. /\ nodes' \in Seq(NodeT) /\ Len(nodes') = n
      /\ \A j \in 1 .. n : nodes'[j] = IF j = i THEN e ELSE nodes[j]
  BY <1>1, ExceptSeq
<1>3. /\ data' \in Seq(Seq(Blk)) /\ Len(data') = n
      /\ \A j \in 1 .. n : data'[j] = IF j = i THEN blocks ELSE data[j]
  BY <1>1, ExceptSeq
<1>4. /\ want' \in Seq(Seq(Nat)) /\ Len(want') = n
      /\ \A j \in 1 .. n : want'[j] = IF j = i THEN w ELSE want[j]
  BY <1>1, ExceptSeq
<1>5. /\ sane' \in Seq(BOOLEAN) /\ Len(sane') = n
      /\ \A j \in 1 .. n : sane'[j] = IF j = i THEN sn ELSE sane[j]
  BY <1>1, ExceptSeq
<1>6. \A j \in 1 .. n : nodes[j].type = "reg" /\ sane[j] =>
         nodes[j].size = Len(want[j]) /\ Holds(data[j], want[j])
  BY DEF FsInv, StoreOk
<1>7. \A j \in 1 .. n : nodes[j].size \in Nat
  <2>1. \A j \in 1 .. n : nodes[j] \in NodeT
    BY <1>1, ElementOfSeq
  <2> QED BY <2>1 DEF NodeT
<1>8. e.size \in Nat
  BY DEF NodeT
<1> HIDE DEF n
<1>9. ASSUME NEW j \in 1 .. n, nodes'[j].type = "reg", sane'[j]
      PROVE  nodes'[j].size = Len(want'[j]) /\ Holds(data'[j], want'[j])
  <2>1. CASE j = i
    <3>1. nodes'[j] = e /\ want'[j] = w /\ data'[j] = blocks /\ sn
      BY <2>1, <1>2, <1>3, <1>4, <1>5, <1>9
    <3> QED BY <3>1, <1>9
  <2>2. CASE j # i
    <3>1. nodes'[j] = nodes[j] /\ want'[j] = want[j] /\ data'[j] = data[j] /\ sane[j]
      BY <2>2, <1>2, <1>3, <1>4, <1>5, <1>9
    <3> QED BY <3>1, <1>6, <1>9
  <2> QED BY <2>1, <2>2
<1>10. StoreOk(nodes', data', want', sane')
  BY <1>2, <1>3, <1>4, <1>5, <1>9 DEF StoreOk
<1>11. i \in 1 .. n /\ nodes'[i] = e
  BY <1>2 DEF n
<1>12. Grown(nodes, nodes')
  <2>1. ASSUME NEW j \in 1 .. n
        PROVE  nodes'[j].size \in Nat /\ nodes[j].size <= nodes'[j].size
    <3>1. CASE j = i
      BY <3>1, <1>7, <1>8, <1>11
    <3>2. CASE j # i
      <4>1. nodes'[j] = nodes[j]
        BY <3>2, <1>2
      <4> QED BY <4>1, <1>7
    <3> QED BY <3>1, <3>2
  <2> QED BY <2>1, <1>1, <1>2, <1>7 DEF Grown, n
<1>13. ASSUME SafeOk(nodes, data), Len(blocks) >= Quo(e.size) + 1 PROVE SafeOk(nodes', data')
  <2>1. ASSUME NEW j \in 1 .. n
        PROVE  /\ nodes'[j].type # "raw"
               /\ nodes'[j].type = "reg" => Len(data'[j]) >= Quo(nodes'[j].size) + 1
    <3>1. CASE j = i
      <4>1. nodes'[j] = e /\ data'[j] = blocks /\ nodes[j].type # "raw"
        BY <3>1, <1>2, <1>3, <1>13 DEF SafeOk, n
      <4> QED BY <4>1, <3>1, <1>13
    <3>2. CASE j # i
      <4>1. nodes'[j] = nodes[j] /\ data'[j] = data[j]
        BY <3>2, <1>2, <1>3
      <4> QED BY <4>1, <1>13 DEF SafeOk, n
    <3> QED BY <3>1, <3>2
  <2> QED BY <2>1, <1>2 DEF SafeOk
<1> QED BY <1>10, <1>11, <1>12, <1>13

\* write_vfs keeps it, and without risk it does not fault.
LEMMA WriteKeeps ==
  ASSUME FsInv, NEW fd \in Fds, NEW n \in Sizes, write_vfs(fd, n)
  PROVE  FsInv'
<1> DEFINE o == files[fd]
           i == o.node
           at == o.at
           fsize == nodes[i].size
<1>1. Runs /\ o # Closed /\ nodes[i].type = "reg"
  BY DEF write_vfs, IsReg
<1>2. risky \in BOOLEAN /\ calls' = calls + 1 /\ mode = "run" /\ calls \in Nat
  BY <1>1, Running
<1>3. /\ o \in FileT /\ i \in 1 .. Len(nodes) /\ at \in Int /\ fsize \in Nat
      /\ data[i] \in Seq(Blk) /\ want[i] \in Seq(Nat) /\ sane[i] \in BOOLEAN /\ nodes[i] \in NodeT
      /\ (~risky => at \in 0 .. fsize) /\ Len(data[i]) \in Nat
  BY <1>1, OpenFile
<1>4. n \in Nat \ {0}
  BY VfsAssumption
<1>5. CASE /\ WriteFaults(i, at) /\ mode' = "fault" /\ UNCHANGED <<store, files>>
           /\ risky' = (risky \/ ~Agree(at) \/ at # fsize)
  <2>1. risky' \in BOOLEAN /\ (risky => risky') /\ (~risky' => ~risky /\ Agree(at) /\ at = fsize)
    BY <1>2, <1>5
  <2>2. ASSUME ~risky' PROVE FALSE
    <3>1. ~risky /\ Agree(at) /\ at = fsize /\ at \in Nat
      BY <2>1, <2>2, <1>3
    <3>2. Len(data[i]) >= Quo(at) + 1
      BY <3>1, <1>1, <1>3 DEF FsInv, SafeOk
    <3>3. start_node(at) = Quo(at)
      BY <3>1 DEF Agree, Quo
    <3> HIDE DEF i, at
    <3>4. ~(at < 0) /\ Quo(at) \in Nat
      BY <3>1, Quos
    <3> QED BY <3>2, <3>3, <3>4, <1>3, <1>5 DEF WriteFaults
  <2> QED BY <2>1, <2>2, <1>2, <1>5, SameFiles
<1>6. ASSUME NEW m \in 1 .. n, NEW full \in BOOLEAN, ~WriteFaults(i, at),
             m = n \/ full, write_ramfs(fd, n, m, full)
      PROVE  FsInv'
  <2> DEFINE bytes == SubSeq(Bytes(n), 1, m)
             long == Written(data[i], at, bytes)
             new == IF full THEN Front(long) ELSE long
             e == [nodes[i] EXCEPT !.size = @ + m]
             sn == (sane[i] /\ Agree(at) /\ at = fsize /\ m = n)
             w == IF sn THEN want[i] \o Bytes(n) ELSE want[i]
             f == [o EXCEPT !.at = at + m]
  <2>1. /\ data' = [data EXCEPT ![i] = new] /\ nodes' = [nodes EXCEPT ![i].size = @ + m]
        /\ files' = [files EXCEPT ![fd].at = at + m]
        /\ sane' = [sane EXCEPT ![i] = @ /\ Agree(at) /\ at = fsize /\ m = n]
        /\ want' = (IF sane'[i] THEN [want EXCEPT ![i] = @ \o Bytes(n)] ELSE want)
        /\ risky' = (risky \/ ~Agree(at) \/ at # fsize \/ full) /\ mode' = mode
    BY <1>6 DEF write_ramfs
  <2>2. at \in Nat /\ start_node(at) + 1 <= Len(data[i]) /\ m \in Nat \ {0} /\ n \in Nat
    <3>1. ~(at < 0) /\ ~(start_node(at) + 1 > Len(data[i]))
      BY <1>6 DEF WriteFaults
    <3>2. at \in Nat
      BY <3>1, <1>3
    <3>3. start_node(at) \in Nat
      BY <3>2, Places
    <3> HIDE DEF i, at
    <3> QED BY <3>1, <3>2, <3>3, <1>3, <1>4
  <2>3. /\ Bytes(n) \in Seq(Nat) /\ Len(Bytes(n)) = n /\ bytes \in Seq(Nat) /\ Len(bytes) = m
        /\ (m = n => bytes = Bytes(n))
    BY <1>2, <2>2, BytesAre
  <2> HIDE DEF bytes
  <2>4. /\ WrittenOk(long, data[i], at, bytes) /\ Last0(at, bytes) \in Nat
        /\ Len(long) = start_node(at) + Last0(at, bytes) + 2
    <3> DEFINE bl == data[i]
    <3> HIDE DEF at, bl
    <3>1. bl \in Seq(Blk) /\ at \in Nat /\ bytes \in Seq(Nat) /\ Len(bytes) > 0
          /\ start_node(at) + 1 <= Len(bl)
      BY <1>3, <2>2, <2>3 DEF bl
    <3>2. /\ WrittenOk(Written(bl, at, bytes), bl, at, bytes) /\ Last0(at, bytes) \in Nat
          /\ Len(Written(bl, at, bytes)) = start_node(at) + Last0(at, bytes) + 2
      BY <3>1, WrittenIs
    <3> QED BY <3>2 DEF bl, at
  <2> HIDE DEF long
  <2>5. WrittenOk(new, data[i], at, bytes)
    BY <2>2, <2>4, FrontToo
  <2>6. new \in Seq(Blk)
    BY <2>5 DEF WrittenOk
  <2>7. e \in NodeT /\ e.size = fsize + m /\ e.type = "reg" /\ e.type = nodes[i].type
        /\ e.size >= fsize
    BY <1>1, <1>3, <2>2, SMTT(30) DEF NodeT
  <2>8. sn \in BOOLEAN /\ sane' = [sane EXCEPT ![i] = sn] /\ sane'[i] = sn
    <3>1. sane \in Seq(BOOLEAN) /\ i \in DOMAIN sane
      BY <1>3 DEF FsInv, StoreOk
    <3> QED BY <3>1, <2>1
  <2>9. w \in Seq(Nat) /\ want' = [want EXCEPT ![i] = w]
    <3>1. want \in Seq(Seq(Nat)) /\ i \in DOMAIN want
      BY <1>3 DEF FsInv, StoreOk
    <3>2. CASE sn
      <4>1. want[i] \o Bytes(n) \in Seq(Nat)
        BY <1>3, <2>3, ConcatProperties
      <4> QED BY <4>1, <3>2, <2>1, <2>8
    <3>3. CASE ~sn
      <4>1. want' = want /\ w = want[i]
        BY <3>3, <2>1, <2>8
      <4>2. [want EXCEPT ![i] = want[i]] = want
        BY <3>1
      <4> QED BY <4>1, <4>2, <1>3
    <3> QED BY <3>2, <3>3
  <2>10. nodes' = [nodes EXCEPT ![i] = e]
    BY <2>1
  <2>11. ASSUME e.type = "reg" /\ sn PROVE e.size = Len(w) /\ Holds(new, w)
    <3>1. sane[i] /\ Agree(at) /\ at = fsize /\ m = n
      BY <2>11
    <3>2. fsize = Len(want[i]) /\ Holds(data[i], want[i])
      BY <3>1, <1>1, <1>3 DEF FsInv, StoreOk
    <3>3. w = want[i] \o bytes
      BY <2>3, <2>11, <3>1
    <3>4. at = Len(want[i])
      BY <3>1, <3>2
    <3> DEFINE v == want[i]
               bl == data[i]
    <3> HIDE DEF v, bl, w, new, at
    <3>5. v \in Seq(Nat) /\ Agree(Len(v)) /\ Len(bytes) > 0 /\ Holds(bl, v)
          /\ WrittenOk(new, bl, Len(v), bytes)
      BY <1>3, <2>2, <2>3, <2>5, <3>1, <3>2, <3>4 DEF v, bl
    <3>6. Holds(new, v \o bytes)
      BY <3>5, <2>3, AtTheEnd
    <3>7. Len(v \o bytes) = Len(v) + Len(bytes)
      BY <3>5, <2>3, ConcatProperties
    <3>8. w = v \o bytes
      BY <3>3 DEF v
    <3> QED BY <3>2, <3>6, <3>7, <3>8, <2>3, <2>7 DEF v
  <2> DEFINE ok == SafeOk(nodes, data) /\ Len(new) >= Quo(e.size) + 1
  <2> HIDE DEF new, e, w, sn
  <2>12. /\ StoreOk(nodes', data', want', sane') /\ Grown(nodes, nodes') /\ nodes'[i] = e
         /\ (ok => SafeOk(nodes', data'))
    <3>1. i \in 1 .. Len(nodes) /\ e \in NodeT /\ new \in Seq(Blk) /\ w \in Seq(Nat)
          /\ sn \in BOOLEAN /\ e.size >= nodes[i].size /\ e.type = nodes[i].type
          /\ (e.type = "reg" /\ sn => e.size = Len(w) /\ Holds(new, w))
      BY <1>3, <2>6, <2>7, <2>8, <2>9, <2>11
    <3>2. /\ nodes' = [nodes EXCEPT ![i] = e] /\ data' = [data EXCEPT ![i] = new]
          /\ want' = [want EXCEPT ![i] = w] /\ sane' = [sane EXCEPT ![i] = sn]
      BY <2>1, <2>8, <2>9, <2>10
    <3> HIDE DEF i
    <3> QED BY <3>1, <3>2, OneNode
  <2>13. /\ risky' \in BOOLEAN /\ (risky => risky') /\ calls' \in Nat /\ mode' = "run"
         /\ (~risky' => ~risky /\ Agree(at) /\ at = fsize /\ ~full)
    <3>1. risky' = (risky \/ ~Agree(at) \/ at # fsize \/ full) /\ mode' = mode
      BY <2>1
    <3> HIDE DEF at, fsize
    <3>2. calls' \in Nat /\ mode' = "run"
      BY <3>1, <1>2
    <3> QED BY <3>1, <3>2, <1>2, Zenon
  <2>14. ~risky' => SafeOk(nodes', data')
    <3>1. ASSUME ~risky' PROVE ok
      <4>1. ~risky /\ Agree(at) /\ at = fsize /\ ~full
        BY <3>1, <2>13
      <4>2. start_node(at) + Last0(at, bytes) + 2 >= Quo(at + m) + 1
        BY <4>1, <2>2, <2>3, EndReach
      <4>3. new = long /\ e.size = at + m
        BY <4>1, <2>7 DEF new
      <4> QED BY <4>1, <4>2, <4>3, <2>4 DEF FsInv
    <3> QED BY <3>1, <2>12
  <2>15. FilesOk(files, nodes, risky)
    BY DEF FsInv
  <2>16. FilesOk(files, nodes', risky')
    BY <2>12, <2>13, <2>15, <1>2, StillOk
  <2>17. f \in FileT /\ f.node = i /\ f.at = at + m /\ files' = [files EXCEPT ![fd] = f]
    <3>1. at + m \in Int
      BY <2>2
    <3> QED BY <3>1, <1>3, <2>1 DEF FileT
  <2> HIDE DEF f
  <2>18. FileOk(f, nodes', risky')
    <3>1. f.node \in 1 .. Len(nodes')
      BY <2>17, <2>12, <1>3 DEF Grown
    <3>2. nodes'[f.node].size = fsize + m
      BY <2>17, <2>12, <2>7
    <3>3. ASSUME ~risky' PROVE f.at \in 0 .. fsize + m
      <4>1. at = fsize
        BY <3>3, <2>13
      <4> HIDE DEF at, fsize
      <4> QED BY <4>1, <2>2, <2>17
    <3> QED BY <3>1, <3>2, <3>3 DEF FileOk
  <2>19. FilesOk(files', nodes', risky')
    BY <2>16, <2>17, <2>18, PutFile
  <2> QED BY <2>12, <2>13, <2>14, <2>19 DEF FsInv
<1>7. CASE /\ ~WriteFaults(i, at)
           /\ \E m \in 1 .. n, full \in BOOLEAN :
                /\ m = n \/ (full /\ (offset(at) + m) % Block = 0)
                /\ write_ramfs(fd, n, m, full)
  BY <1>6, <1>7
<1> QED BY <1>5, <1>7 DEF write_vfs

----------------------------------------------------------------------------
(* Names *)

Named(ns, ms) ==
  /\ Len(ns) \in Nat /\ Len(ms) \in Nat /\ Len(ns) <= Len(ms)
  /\ \A i \in 1 .. Len(ns) : ms[i].name = ns[i].name

\* A new node goes behind the others.
LEMMA AddNamed ==
  ASSUME nodes \in Seq(NodeT), NEW name \in Names, NEW type \in {"reg", "fifo", "raw"},
         NEW blocks, Add(name, type, blocks)
  PROVE  nodes' \in Seq(NodeT) /\ Named(nodes, nodes')
<1>1. PICK s \in Stored(name) : nodes' = Append(nodes, File(s, type, 0))
  BY DEF Add
<1> DEFINE e == File(s, type, 0)
<1>2. e \in NodeT
  <2>1. s = "cut" \/ s = name
    BY DEF Stored
  <2>2. "cut" \in AnyName /\ name \in AnyName
    BY DEF AnyName
  <2>3. s \in AnyName
    BY <2>1, <2>2
  <2> QED BY <2>3 DEF File, NodeT
<1> HIDE DEF e
<1>3. /\ nodes' \in Seq(NodeT) /\ Len(nodes') = Len(nodes) + 1
      /\ \A i \in 1 .. Len(nodes) : nodes'[i] = nodes[i]
  BY <1>1, <1>2, AppendProperties DEF e
<1> QED BY <1>3 DEF Named

\* A creation gives no other node a name.
LEMMA CreatNamed ==
  ASSUME nodes \in Seq(NodeT), NEW name \in Names, NEW type \in {"reg", "fifo", "raw"},
         NEW oflag, creat_vfs(name, type, oflag)
  PROVE  nodes' \in Seq(NodeT) /\ Named(nodes, nodes')
<1>1. CASE UNCHANGED <<store, files, risky>>
  <2>1. nodes' = nodes
    BY <1>1 DEF store
  <2> QED BY <2>1 DEF Named
<1>2. CASE Add(name, type, <<>>)
  BY <1>2, AddNamed
<1>3. CASE Add(name, type, <<Zero>>)
  BY <1>3, AddNamed
<1> QED BY <1>1, <1>2, <1>3 DEF creat_vfs

\* No step gives a node another name.
LEMMA NamesStep ==
  ASSUME FsInv, [VfsNext]_vfsVars
  PROVE  nodes' \in Seq(NodeT) /\ Named(nodes, nodes')
<1>1. nodes \in Seq(NodeT)
  BY DEF FsInv, StoreOk
<1>2. CASE UNCHANGED nodes
  BY <1>1, <1>2 DEF Named
<1>3. CASE UNCHANGED store
  BY <1>2, <1>3 DEF store
<1>4. CASE UNCHANGED vfsVars
  BY <1>2, <1>4 DEF vfsVars
<1>5. ASSUME NEW name \in Names, NEW type \in {"reg", "fifo", "raw"},
             creat(name, type) \/ \E oflag \in Oflags : open_vfs(name, oflag, type)
      PROVE  nodes' \in Seq(NodeT) /\ Named(nodes, nodes')
  <2>1. CASE creat(name, type)
    BY <2>1, <1>1, CreatNamed DEF creat
  <2>2. ASSUME NEW oflag \in Oflags, open_vfs(name, oflag, type)
        PROVE  creat_vfs(name, type, oflag) \/ UNCHANGED store
    BY <2>2 DEF open_vfs
  <2> QED BY <2>1, <2>2, <1>1, <1>3, <1>5, CreatNamed
<1>6. ASSUME NEW fd \in Fds, NEW n \in Sizes, write_vfs(fd, n)
      PROVE  nodes' \in Seq(NodeT) /\ Named(nodes, nodes')
  <2> DEFINE i == files[fd].node
  <2>1. files[fd] # Closed /\ n \in Nat
    BY <1>6, VfsAssumption DEF write_vfs, IsReg
  <2>2. i \in 1 .. Len(nodes) /\ nodes[i] \in NodeT /\ nodes[i].size \in Nat
    BY <2>1, OpenFile
  <2>3. ASSUME NEW m \in 1 .. n, nodes' = [nodes EXCEPT ![i].size = @ + m]
        PROVE  nodes' \in Seq(NodeT) /\ Named(nodes, nodes')
    <3> DEFINE e == [nodes[i] EXCEPT !.size = @ + m]
    <3>1. nodes' = [nodes EXCEPT ![i] = e]
      BY <2>3
    <3>2. e \in NodeT /\ e.name = nodes[i].name
      BY <2>1, <2>2 DEF NodeT
    <3> HIDE DEF e, i
    <3>3. /\ nodes' \in Seq(NodeT) /\ Len(nodes') = Len(nodes)
          /\ \A j \in 1 .. Len(nodes) : nodes'[j] = IF j = i THEN e ELSE nodes[j]
      BY <1>1, <2>2, <3>1, <3>2, ExceptSeq
    <3> QED BY <3>2, <3>3 DEF Named
  <2>4. UNCHANGED store \/ \E m \in 1 .. n : nodes' = [nodes EXCEPT ![i].size = @ + m]
    BY <1>6 DEF write_vfs, write_ramfs
  <2> QED BY <2>3, <2>4, <1>3
<1>7. ASSUME NEW name \in Names, stat(name) PROVE UNCHANGED store
  BY <1>7 DEF stat
<1>8. ASSUME NEW fd \in Fds,
             \/ close_vfs(fd) \/ fstat(fd) \/ \E n \in Sizes : read_vfs(fd, n)
             \/ \E off \in Offsets, w \in {"SET", "CUR", "END"} : lseek_vfs(fd, off, w)
             \/ \E from \in Froms : fcntl_dup(fd, from)
             \/ \E fd2 \in Fds : dup2(fd, fd2)
             \/ fcntl_set(fd, {"CLOEXEC"}, {"CLOEXEC"})
      PROVE  UNCHANGED store
  BY <1>8 DEF close_vfs, fstat, read_vfs, lseek_vfs, fcntl_dup, dup2, fcntl_set
<1> QED BY <1>3, <1>4, <1>5, <1>6, <1>7, <1>8 DEF VfsNext, Ended

\* So the first node of a name stays the first.
LEMMA LookupStays ==
  ASSUME nodes \in Seq(NodeT), nodes' \in Seq(NodeT), Named(nodes, nodes'),
         NEW name, Lookup(name) # 0
  PROVE  Lookup(name)' = Lookup(name)
<1> DEFINE A == {i \in DOMAIN nodes : nodes[i].name = name}
           B == {i \in DOMAIN nodes' : nodes'[i].name = name}
           k == Min(A)
<1>1. DOMAIN nodes = 1 .. Len(nodes) /\ DOMAIN nodes' = 1 .. Len(nodes')
      /\ Len(nodes) \in Nat /\ Len(nodes') \in Nat
  OBVIOUS
<1>2. A # {} /\ Lookup(name) = k /\ Lookup(name)' = IF B = {} THEN 0 ELSE Min(B)
  BY DEF Lookup
<1>3. A \in SUBSET Nat /\ B \in SUBSET Nat
  BY <1>1
<1>4. k \in A /\ \A y \in A : k <= y
  <2> HIDE DEF A
  <2> QED BY <1>2, <1>3, LeastOf
<1> HIDE DEF k
<1>5. k \in 1 .. Len(nodes) /\ nodes[k].name = name
  BY <1>1, <1>4
<1>6. k \in B
  BY <1>1, <1>5 DEF Named
<1>7. ASSUME NEW y \in B PROVE k <= y
  <2>1. y \in 1 .. Len(nodes') /\ nodes'[y].name = name
    BY <1>1
  <2>2. CASE y <= Len(nodes)
    <3>1. y \in 1 .. Len(nodes)
      BY <2>1, <2>2, <1>1
    <3>2. nodes[y].name = name
      BY <3>1, <2>1 DEF Named
    <3>3. y \in A
      BY <3>1, <3>2, <1>1
    <3> QED BY <3>3, <1>4
  <2>3. CASE y > Len(nodes)
    BY <2>1, <2>3, <1>1, <1>5
  <2> QED BY <2>1, <2>2, <2>3, <1>1
<1> HIDE DEF A, B
<1>8. B # {} /\ Min(B) = k
  BY <1>3, <1>6, <1>7, LeastOf
<1> QED BY <1>2, <1>8

----------------------------------------------------------------------------
(* The invariant *)

\* init_initrd's one write holds the file, with a block to spare.
LEMMA DiskBlocks ==
  ASSUME NEW b \in Seq(Nat)
  PROVE  LET blocks == IF b = <<>> THEN <<Zero>> ELSE Written(<<Zero>>, 0, b)
         IN  blocks \in Seq(Blk) /\ Holds(blocks, b) /\ Len(blocks) >= Quo(Len(b)) + 1
<1>1. Quo(0) = 0 /\ Rem(0) = 0
  <2>1. 0 \in Nat
    OBVIOUS
  <2> QED BY <2>1, Quos
<1>2. CASE b = <<>>
  <2>1. Len(b) = 0
    BY <1>2
  <2> QED BY <1>1, <1>2, <2>1, ZeroIs, EmptyHeld
<1>3. CASE b # <<>>
  <2> DEFINE new == Written(<<Zero>>, 0, b)
             m == Len(b)
  <2>1. m \in Nat \ {0}
    BY <1>3, EmptySeq
  <2>2. start_node(0) = 0 /\ Agree(0)
    <3>1. 0 \div (Block - 1) = 0
      BY Constants, DivNext
    <3>2. 0 \div Block = 0
      BY Constants, DivNext
    <3> QED BY <3>1, <3>2 DEF start_node, Agree
  <2>3. <<Zero>> \in Seq(Blk) /\ start_node(0) + 1 <= Len(<<Zero>>)
    BY <2>2, ZeroIs
  <2> DEFINE z == <<Zero>>
             none == <<>>
  <2> HIDE DEF z, m, new
  <2>4. z \in Seq(Blk) /\ start_node(0) + 1 <= Len(z) /\ 0 \in Nat /\ Len(b) > 0
    BY <2>1, <2>3 DEF z, m
  <2>5. /\ WrittenOk(Written(z, 0, b), z, 0, b)
        /\ Len(Written(z, 0, b)) = start_node(0) + Last0(0, b) + 2
    BY <2>4, WrittenIs
  <2>6. new = Written(z, 0, b)
    BY DEF new, z
  <2>7. start_node(0) + Last0(0, b) + 2 >= Quo(0 + m) + 1
    BY <2>1, <2>2, EndReach DEF m
  <2>8. 0 + m = m
    BY <2>1
  <2>9. Holds(new, b)
    <3>1. none \in Seq(Nat) /\ Len(none) = 0 /\ none \o b = b
      BY ConcatEmptySeq
    <3>2. Holds(z, none)
      BY EmptyHeld DEF z
    <3> HIDE DEF none
    <3>3. Agree(Len(none)) /\ Holds(z, none) /\ WrittenOk(new, z, Len(none), b) /\ Len(b) > 0
      BY <2>2, <2>4, <2>5, <2>6, <3>1, <3>2
    <3>4. Holds(new, none \o b)
      BY <3>1, <3>3, AtTheEnd
    <3> QED BY <3>1, <3>4
  <2>10. new \in Seq(Blk) /\ Len(new) >= Quo(Len(b)) + 1
    BY <2>5, <2>6, <2>7, <2>8 DEF WrittenOk, m
  <2> QED BY <1>3, <2>9, <2>10 DEF new
<1> QED BY <1>2, <1>3

\* The standard nodes.
LEMMA StandardIs ==
  /\ Standard \in Seq(NodeT) /\ Len(Standard) = 3
  /\ NoData \in Seq(Seq(Blk)) /\ NoData \in Seq(Seq(Nat)) /\ Len(NoData) = 3
  /\ \A i \in 1 .. 3 : Standard[i].type = "std" /\ Standard[i].size = 0
<1> DEFINE N(name) == File(name, "std", 0)
<1>1. /\ \A name \in AnyName : N(name) \in NodeT /\ N(name).type = "std" /\ N(name).size = 0
  BY DEF NodeT, File
<1>2. "stdin" \in AnyName /\ "stdout" \in AnyName /\ "stderr" \in AnyName
  BY DEF AnyName
<1>3. Standard = <<N("stdin"), N("stdout"), N("stderr")>>
  BY DEF Standard
<1> HIDE DEF N
<1>4. N("stdin") \in NodeT /\ N("stdout") \in NodeT /\ N("stderr") \in NodeT
  BY <1>1, <1>2
<1>5. Standard \in Seq(NodeT) /\ Len(Standard) = 3
  BY <1>3, <1>4
<1>6. Standard[1] = N("stdin") /\ Standard[2] = N("stdout") /\ Standard[3] = N("stderr")
  BY <1>3
<1>7. \A i \in 1 .. 3 : Standard[i].type = "std" /\ Standard[i].size = 0
  <2> TAKE i \in 1 .. 3
  <2>1. i = 1 \/ i = 2 \/ i = 3
    OBVIOUS
  <2> QED BY <2>1, <1>1, <1>2, <1>6
<1>8. NoData \in Seq(Seq(Blk)) /\ NoData \in Seq(Seq(Nat)) /\ Len(NoData) = 3
  BY DEF NoData
<1> QED BY <1>5, <1>7, <1>8

\* Two lists of the same length, one behind the other.
Joined(S, b, a, m, c) ==
  /\ b \in Seq(S) /\ Len(b) = 3 + m
  /\ \A i \in 1 .. 3 : b[i] = a[i]
  /\ \A i \in 1 .. m : b[i + 3] = c[i]

\* What is found behind the standard nodes.
LEMMA Behind ==
  ASSUME NEW S, NEW a \in Seq(S), Len(a) = 3, NEW m \in Nat, NEW c \in [1 .. m -> S]
  PROVE  Joined(S, a \o c, a, m, c)
<1>1. c \in Seq(S) /\ Len(c) = m
  OBVIOUS
<1>2. /\ a \o c \in Seq(S) /\ Len(a \o c) = Len(a) + Len(c)
      /\ \A i \in 1 .. Len(a) + Len(c) :
           (a \o c)[i] = IF i <= Len(a) THEN a[i] ELSE c[i - Len(a)]
  BY <1>1, ConcatProperties
<1> DEFINE b == a \o c
<1> HIDE DEF b
<1>3. b \in Seq(S) /\ Len(b) = 3 + m
      /\ \A i \in 1 .. 3 + m : b[i] = IF i <= 3 THEN a[i] ELSE c[i - 3]
  BY <1>1, <1>2 DEF b
<1>4. \A i \in 1 .. 3 : b[i] = a[i]
  BY <1>3
<1>5. ASSUME NEW i \in 1 .. m PROVE b[i + 3] = c[i]
  <2>1. i + 3 \in 1 .. 3 + m /\ ~(i + 3 <= 3) /\ (i + 3) - 3 = i
    OBVIOUS
  <2> QED BY <2>1, <1>3
<1> QED BY <1>3, <1>4, <1>5 DEF b, Joined

\* What is loaded of a file of the disk is made of blocks, and all of it is
\* there if it was loaded whole.
LoadOk(l, b) ==
  /\ l.size \in Nat /\ l.blocks \in Seq(Blk) /\ l.whole \in BOOLEAN
  /\ l.whole => /\ l.size = Len(b) /\ Holds(l.blocks, b)
                /\ Len(l.blocks) >= Quo(l.size) + 1

LEMMA LoadsOk ==
  ASSUME NEW b \in Seq(Nat), NEW l \in Loads(b)
  PROVE  LoadOk(l, b)
<1> DEFINE all == IF b = <<>> THEN <<Zero>> ELSE Written(<<Zero>>, 0, b)
           part(m) == Written(<<Zero>>, 0, SubSeq(b, 1, m))
           full == [whole |-> TRUE, size |-> Len(b), blocks |-> all]
           half == [whole |-> FALSE, size |-> 0, blocks |-> <<>>]
<1>1. \/ l = full \/ l = half
      \/ \E m \in 1 .. Len(b) : l = [whole |-> FALSE, size |-> m, blocks |-> Front(part(m))]
  BY DEF Loads
<1>2. all \in Seq(Blk) /\ Holds(all, b) /\ Len(all) >= Quo(Len(b)) + 1 /\ Len(b) \in Nat
  BY DiskBlocks
<1>3. CASE l = full
  <2> HIDE DEF all
  <2> QED BY <1>2, <1>3 DEF LoadOk
<1>4. CASE l = half
  <2>1. <<>> \in Seq(Blk)
    OBVIOUS
  <2> QED BY <1>4, <2>1 DEF LoadOk
<1>5. ASSUME NEW m \in 1 .. Len(b), l = [whole |-> FALSE, size |-> m, blocks |-> Front(part(m))]
      PROVE  LoadOk(l, b)
  <2> DEFINE c == SubSeq(b, 1, m)
  <2>1. c \in Seq(Nat) /\ Len(c) = m /\ m \in Nat \ {0}
    OBVIOUS
  <2> HIDE DEF c
  <2>2. c # <<>>
    BY <2>1, EmptySeq
  <2>3. part(m) = Written(<<Zero>>, 0, c)
    BY DEF c
  <2>4. part(m) \in Seq(Blk) /\ Len(part(m)) >= Quo(Len(c)) + 1
    BY <2>1, <2>2, <2>3, DiskBlocks
  <2>5. Quo(Len(c)) \in Nat
    BY <2>1, Constants, Euclid DEF Quo
  <2> DEFINE p == part(m)
  <2> HIDE DEF p, part
  <2>6. p \in Seq(Blk) /\ Len(p) \in Nat \ {0}
    BY <2>4, <2>5 DEF p
  <2>7. SubSeq(p, 1, Len(p) - 1) \in Seq(Blk)
    BY <2>6
  <2>8. Front(p) \in Seq(Blk)
    BY <2>7 DEF Front
  <2> QED BY <1>5, <2>1, <2>8 DEF LoadOk, p
<1> QED BY <1>1, <1>3, <1>4, <1>5

\* The invariant holds once the initial RAM disk is loaded.
LEMMA FsInit == VfsInit => FsInv
<1> SUFFICES ASSUME VfsInit PROVE FsInv
  OBVIOUS
<1> DEFINE Some(d, i) == Boots(d[i], Loaded(mk_initrd(d), i))
           N(d, b) == [i \in DOMAIN d |-> File(b[i].name, "reg", b[i].load.size)]
           D(d, b) == [i \in DOMAIN d |-> b[i].load.blocks]
           W(d, b) == [i \in DOMAIN d |-> b[i].load.whole]
<1>1. PICK disk \in Disks :
        \E b \in [DOMAIN disk -> UNION {Some(disk, i) : i \in DOMAIN disk}] :
          /\ \A i \in DOMAIN disk : b[i] \in Some(disk, i)
          /\ nodes = Standard \o N(disk, b) /\ data = NoData \o D(disk, b)
          /\ want = NoData \o Contents(disk)
          /\ sane = <<TRUE, TRUE, TRUE>> \o W(disk, b)
          /\ risky = (\E i \in DOMAIN disk : ~b[i].load.whole)
  BY DEF VfsInit
<1>1a. PICK boot :
          /\ \A i \in DOMAIN disk : boot[i] \in Some(disk, i)
          /\ nodes = Standard \o N(disk, boot) /\ data = NoData \o D(disk, boot)
          /\ want = NoData \o Contents(disk)
          /\ sane = <<TRUE, TRUE, TRUE>> \o W(disk, boot)
          /\ risky = (\E i \in DOMAIN disk : ~boot[i].load.whole)
  BY <1>1
<1>2. /\ files = [fd \in Fds |-> IF fd \in 0 .. 2 THEN init_stdio[fd] ELSE Closed]
      /\ calls = 0 /\ mode = "run"
  BY DEF VfsInit
<1>2a. risky \in BOOLEAN
  BY <1>1a
<1> DEFINE m == Len(disk)
           C == Contents(disk)
<1>3. disk \in Seq(FileR) /\ m \in Nat /\ DOMAIN disk = 1 .. m
  BY VfsAssumption DEF FileR
<1>4. \A i \in 1 .. m : disk[i] \in FileR
  BY <1>3, ElementOfSeq
<1>5. C = [i \in 1 .. m |-> disk[i].bytes] /\ C \in [1 .. m -> Seq(Nat)]
  BY <1>3, <1>4 DEF Contents, FileR
<1>6. \A i \in 1 .. m : Loaded(mk_initrd(disk), i) = C[i]
  BY <1>3, <1>5, LoadedIs
<1> HIDE DEF C, m
<1>7. ASSUME NEW i \in 1 .. m
      PROVE  LoadOk(boot[i].load, C[i]) /\ boot[i].name \in AnyName
  <2>1. boot[i] \in Boots(disk[i], C[i])
    BY <1>1a, <1>3, <1>6
  <2>2. PICK s \in Stored(disk[i].name), l \in Loads(C[i]) : boot[i] = [name |-> s, load |-> l]
    BY <2>1 DEF Boots
  <2>3. C[i] \in Seq(Nat)
    BY <1>5
  <2>4. LoadOk(l, C[i])
    BY <2>3, LoadsOk
  <2>5. s \in AnyName
    BY <1>3 DEF Stored, AnyName
  <2> QED BY <2>2, <2>4, <2>5
<1>8. /\ D(disk, boot) \in [1 .. m -> Seq(Blk)]
      /\ \A i \in 1 .. m : D(disk, boot)[i] = boot[i].load.blocks
  BY <1>3, <1>7 DEF LoadOk
<1>9. ASSUME NEW i \in 1 .. m
      PROVE  /\ N(disk, boot)[i] \in NodeT /\ N(disk, boot)[i].type = "reg"
             /\ N(disk, boot)[i].size = boot[i].load.size
  <2>1. N(disk, boot)[i] = File(boot[i].name, "reg", boot[i].load.size)
    BY <1>3
  <2>2. boot[i].load.size \in Nat /\ boot[i].name \in AnyName
    BY <1>7 DEF LoadOk
  <2> HIDE DEF N
  <2> QED BY <2>1, <2>2 DEF File, NodeT
<1>10. N(disk, boot) \in [1 .. m -> NodeT]
  <2>1. N(disk, boot) = [i \in 1 .. m |-> N(disk, boot)[i]]
    BY <1>3
  <2> HIDE DEF N
  <2> QED BY <2>1, <1>9
<1>10a. /\ W(disk, boot) \in [1 .. m -> BOOLEAN]
        /\ \A i \in 1 .. m : W(disk, boot)[i] = boot[i].load.whole
  BY <1>3, <1>7 DEF LoadOk
<1> DEFINE NN == N(disk, boot)
           DD == D(disk, boot)
           WW == W(disk, boot)
<1> HIDE DEF N, D, W, NN, DD, WW
<1>11. /\ nodes \in Seq(NodeT) /\ Len(nodes) = 3 + m
       /\ \A i \in 1 .. 3 : nodes[i] = Standard[i]
       /\ \A i \in 1 .. m : nodes[i + 3] = NN[i]
  <2>1. Standard \in Seq(NodeT) /\ Len(Standard) = 3 /\ NN \in [1 .. m -> NodeT]
        /\ nodes = Standard \o NN
    BY <1>1a, <1>10, StandardIs DEF NN
  <2>2. Joined(NodeT, Standard \o NN, Standard, m, NN)
    BY <2>1, <1>3, Behind
  <2>3. Joined(NodeT, nodes, Standard, m, NN)
    BY <2>1, <2>2, Zenon
  <2> QED BY <2>3 DEF Joined
<1>12. /\ data \in Seq(Seq(Blk)) /\ Len(data) = 3 + m
       /\ \A i \in 1 .. m : data[i + 3] = DD[i]
  <2>1. NoData \in Seq(Seq(Blk)) /\ Len(NoData) = 3 /\ DD \in [1 .. m -> Seq(Blk)]
        /\ data = NoData \o DD
    BY <1>1a, <1>8, StandardIs DEF DD
  <2>2. Joined(Seq(Blk), NoData \o DD, NoData, m, DD)
    BY <2>1, <1>3, Behind
  <2>3. Joined(Seq(Blk), data, NoData, m, DD)
    BY <2>1, <2>2, Zenon
  <2> QED BY <2>3 DEF Joined
<1>13. /\ want \in Seq(Seq(Nat)) /\ Len(want) = 3 + m
       /\ \A i \in 1 .. m : want[i + 3] = C[i]
  <2>1. NoData \in Seq(Seq(Nat)) /\ Len(NoData) = 3 /\ C \in [1 .. m -> Seq(Nat)]
        /\ want = NoData \o C
    BY <1>1a, <1>5, StandardIs DEF C
  <2>2. Joined(Seq(Nat), NoData \o C, NoData, m, C)
    BY <2>1, <1>3, Behind
  <2>3. Joined(Seq(Nat), want, NoData, m, C)
    BY <2>1, <2>2, Zenon
  <2> QED BY <2>3 DEF Joined
<1>14. /\ sane \in Seq(BOOLEAN) /\ Len(sane) = 3 + m
       /\ \A i \in 1 .. m : sane[i + 3] = WW[i]
  <2> DEFINE t == <<TRUE, TRUE, TRUE>>
  <2>1. t \in Seq(BOOLEAN) /\ Len(t) = 3
    OBVIOUS
  <2>2. sane = t \o WW /\ WW \in [1 .. m -> BOOLEAN]
    BY <1>1a, <1>10a DEF WW
  <2> HIDE DEF t
  <2>3. Joined(BOOLEAN, t \o WW, t, m, WW)
    BY <2>1, <2>2, <1>3, Behind
  <2>4. Joined(BOOLEAN, sane, t, m, WW)
    BY <2>2, <2>3, Zenon
  <2> QED BY <2>4 DEF Joined
<1>15. ASSUME NEW i \in 1 .. 3 + m
       PROVE  /\ nodes[i].type # "raw" /\ nodes[i].size \in Nat
              /\ nodes[i].type = "reg" /\ sane[i] =>
                   nodes[i].size = Len(want[i]) /\ Holds(data[i], want[i])
              /\ nodes[i].type = "reg" /\ ~risky => Len(data[i]) >= Quo(nodes[i].size) + 1
  <2>1. CASE i \in 1 .. 3
    <3>1. nodes[i] = Standard[i]
      BY <2>1, <1>11
    <3>2. Standard[i].type = "std" /\ Standard[i].size = 0
      BY <2>1, StandardIs
    <3> QED BY <3>1, <3>2
  <2>2. CASE i \notin 1 .. 3
    <3> DEFINE j == i - 3
    <3>1. j \in 1 .. m /\ i = j + 3
      BY <2>2, <1>3
    <3> HIDE DEF j
    <3> DEFINE l == boot[j].load
    <3>2. nodes[i] = NN[j] /\ data[i] = DD[j] /\ want[i] = C[j] /\ sane[i] = WW[j]
      BY <3>1, <1>11, <1>12, <1>13, <1>14
    <3>3. NN[j].type = "reg" /\ NN[j].size = l.size
      BY <3>1, <1>9 DEF NN
    <3>4. DD[j] = l.blocks /\ WW[j] = l.whole
      BY <3>1, <1>8, <1>10a DEF DD, WW
    <3>5. LoadOk(l, C[j])
      BY <3>1, <1>7
    <3>6. ~risky => l.whole
      BY <1>1a, <1>3, <3>1
    <3> HIDE DEF l
    <3> QED BY <3>2, <3>3, <3>4, <3>5, <3>6 DEF LoadOk
  <2> QED BY <2>1, <2>2
<1>16. StoreOk(nodes, data, want, sane) /\ (~risky => SafeOk(nodes, data))
  BY <1>11, <1>12, <1>13, <1>14, <1>15 DEF StoreOk, SafeOk
<1>17. FilesOk(files, nodes, risky)
  <2>1. ASSUME NEW fd \in 0 .. 2
        PROVE  /\ init_stdio[fd] \in FileT /\ init_stdio[fd].node = fd + 1 /\ init_stdio[fd].at = 0
    <3>1. {"RD", "WR"} \in SUBSET Flags /\ {"WR"} \in SUBSET Flags
      BY DEF Flags
    <3> DEFINE fl == IF fd = 0 THEN {"RD", "WR"} ELSE {"WR"}
    <3>2. fl \in SUBSET Flags
      BY <3>1
    <3>3. init_stdio[fd] = [node |-> fd + 1, at |-> 0, oflag |-> fl]
      BY DEF init_stdio
    <3> HIDE DEF fl
    <3> QED BY <3>2, <3>3 DEF FileT
  <2>2. ASSUME NEW fd \in 0 .. 2 PROVE FileOk(init_stdio[fd], nodes, risky)
    <3>1. fd + 1 \in 1 .. 3 + m /\ fd + 1 \in 1 .. Len(nodes)
      BY <1>3, <1>11
    <3>2. nodes[fd + 1].size \in Nat
      BY <3>1, <1>15
    <3>3. 0 \in 0 .. nodes[fd + 1].size
      BY <3>2
    <3> QED BY <2>1, <3>1, <3>3 DEF FileOk
  <2>3. ASSUME NEW fd \in Fds PROVE files[fd] \in FileT /\ FileOk(files[fd], nodes, risky)
    <3>1. files[fd] = IF fd \in 0 .. 2 THEN init_stdio[fd] ELSE Closed
      BY <1>2
    <3> QED BY <3>1, <2>1, <2>2, ClosedIs
  <2>4. files = [fd \in Fds |-> files[fd]]
    BY <1>2
  <2> QED BY <2>3, <2>4 DEF FilesOk
<1> QED BY <1>2, <1>2a, <1>16, <1>17 DEF FsInv

\* The flags of the calls are flags.
LEMMA OflagsAre == \A oflag \in Oflags : oflag \in SUBSET Flags
  BY DEF Oflags, Flags

\* Every step keeps the invariant.
LEMMA FsNext == FsInv /\ [VfsNext]_vfsVars => FsInv'
<1> SUFFICES ASSUME FsInv, [VfsNext]_vfsVars PROVE FsInv'
  OBVIOUS
<1>1. ASSUME NEW name \in Names, stat(name) PROVE FsInv'
  BY <1>1, StatKeeps
<1>2. ASSUME NEW name \in Names, NEW type \in {"reg", "fifo", "raw"}, creat(name, type)
      PROVE  FsInv'
  <2>1. {"WR"} \in SUBSET Flags
    BY DEF Flags
  <2> QED BY <1>2, <2>1, CreatKeeps DEF creat
<1>3. ASSUME NEW name \in Names, NEW type \in {"reg", "fifo", "raw"}, NEW oflag \in Oflags,
             open_vfs(name, oflag, type)
      PROVE  FsInv'
  BY <1>3, OflagsAre, OpenKeeps
<1>4. ASSUME NEW fd \in Fds, close_vfs(fd) \/ fstat(fd) PROVE FsInv'
  BY <1>4, CloseKeeps, FstatKeeps
<1>5. ASSUME NEW fd \in Fds, NEW n \in Sizes, read_vfs(fd, n) \/ write_vfs(fd, n) PROVE FsInv'
  BY <1>5, ReadKeeps, WriteKeeps
<1>6. ASSUME NEW fd \in Fds, NEW off \in Offsets, NEW w \in {"SET", "CUR", "END"},
             lseek_vfs(fd, off, w)
      PROVE  FsInv'
  BY <1>6, SeekKeeps
<1>7. ASSUME NEW fd \in Fds, NEW from \in Froms, fcntl_dup(fd, from) PROVE FsInv'
  BY <1>7, DupKeeps
<1>8. ASSUME NEW fd \in Fds, NEW fd2 \in Fds, dup2(fd, fd2) PROVE FsInv'
  BY <1>8, Dup2Keeps
<1>9. ASSUME NEW fd \in Fds, fcntl_set(fd, {"CLOEXEC"}, {"CLOEXEC"}) PROVE FsInv'
  BY <1>9, SetKeeps
<1>10. CASE UNCHANGED vfsVars
  BY <1>10 DEF vfsVars, FsInv, StoreOk, SafeOk, FilesOk, FileOk
<1> QED BY <1>1, <1>2, <1>3, <1>4, <1>5, <1>6, <1>7, <1>8, <1>9, <1>10 DEF VfsNext, Ended

\* The invariant holds throughout.
LEMMA FsHolds == VfsSpec => []FsInv
  BY FsInit, FsNext, PTL DEF VfsSpec

\* From every file that was written from its start to its end, whatever the
\* size of a block, of the disk and of the calls, reads give what was written.
THEOREM ReadsInPlace == VfsSpec => []InPlace
  BY FsHolds, FsInPlace, PTL

\* Plain use of files never makes the kernel follow a chain to where there is
\* no block, nor call a pointer that was never set.
THEOREM PlainCallsStaySafe == VfsSpec => []PlainCallsSafe
<1>1. FsInv => PlainCallsSafe
  BY DEF FsInv, PlainCallsSafe
<1> QED BY <1>1, FsHolds, PTL

\* No call puts another file behind a name that was found.
THEOREM NamesStayStable == VfsSpec => NamesStable
<1>1. FsInv /\ [VfsNext]_vfsVars =>
        [\A name \in Names : Lookup(name) # 0 => Lookup(name)' = Lookup(name)]_vfsVars
  <2> SUFFICES ASSUME FsInv, [VfsNext]_vfsVars, NEW name \in Names, Lookup(name) # 0
               PROVE  Lookup(name)' = Lookup(name)
    OBVIOUS
  <2>1. nodes \in Seq(NodeT)
    BY DEF FsInv, StoreOk
  <2> QED BY <2>1, NamesStep, LookupStays
<1> QED BY <1>1, FsHolds, PTL DEF VfsSpec, NamesStable

=============================================================================
