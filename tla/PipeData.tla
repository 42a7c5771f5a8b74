------------------------------ MODULE PipeData ------------------------------
(***************************************************************************)
(* The bytes of one pipe (fs/pipe.c): the list of blocks that write_pipe   *)
(* fills and read_pipe empties, and the arithmetic on write_at and read_at *)
(* that finds a position in it.  The k-th byte ever written is the number  *)
(* k, so that a byte out of place shows.                                   *)
(*                                                                         *)
(* Both functions run without giving up the processor once they touch a    *)
(* block: a reader that waited for data still starts at hdr->data, which   *)
(* nobody ever changes, so each call is one step.  The two ends and the    *)
(* waiting are in Term and Fifo.                                           *)
(***************************************************************************)
EXTENDS Integers, Sequences, FiniteSetsExt

CONSTANTS Blk,       \* bytes in a block, 256 in the code
          MaxTotal   \* bound on the bytes ever written

ASSUME DataAssumption ==
  /\ Blk \in Nat /\ Blk > 1
  /\ MaxTotal \in Nat

VARIABLES
  blocks,    \* blocks[b]: the b-th block allocated.  blocks[1] is hdr->data
  write_at,  \* hdr->write_at
  read_at,   \* hdr->read_at
  st_size,   \* node->status.st_size
  sent,      \* number of bytes that calls of write_pipe reported as written
  got,       \* the bytes that calls of read_pipe delivered
  mode       \* "run"; "gone" once deleted; "fault": NULL dereferenced;
             \* "uaf": freed memory used; "wild": an uninitialised pointer

vars == <<blocks, write_at, read_at, st_size, sent, got, mode>>

NULL   == 0
Uninit == -1       \* what kmalloc leaves in a pointer
Junk   == 0        \* ... and in a byte
Offs   == 0 .. Blk - 1

NewBlock(next) == [data |-> [o \in Offs |-> Junk], next |-> next, live |-> TRUE]

(* creat_pipe: the next pointer of the first block is not set. *)
Init ==
  /\ blocks = <<NewBlock(Uninit)>>
  /\ write_at = 0 /\ read_at = 0 /\ st_size = 0
  /\ sent = 0 /\ got = <<>>
  /\ mode = "run"

(* The walk curnode = curnode->next, i times from hdr->data.  Walk is the  *)
(* block reached, or the first pointer that cannot be followed.            *)
Usable(b) == b \in DOMAIN blocks /\ blocks[b].live
Walk(i) ==
  LET w[k \in 0 .. i] == IF k = 0 THEN 1
                         ELSE IF Usable(w[k - 1]) THEN blocks[w[k - 1]].next
                         ELSE w[k - 1]
  IN  w[i]

\* A pointer that cannot be dereferenced, and what dereferencing it does.
Crash(b) ==
  /\ ~Usable(b)
  /\ mode' = CASE b = NULL -> "fault" [] b = Uninit -> "wild" [] OTHER -> "uaf"
  /\ UNCHANGED <<blocks, write_at, read_at, st_size, sent, got>>

\* Mutant: the next block one byte too early.
StartNode_Early(at) == (at + 1) \div (Blk - 1)

StartNode(at) == at \div (Blk - 1)
OffsetOf(at)  == at % Blk

(* How many of n bytes are written, from offset off of a block on, when m  *)
(* calls of kmalloc succeed.                                               *)
Fits(n, off, m) == Min({n, (m + 1) * Blk - off})

(* One kmalloc per block touched, whether it is full or not. *)
Allocs(n, off) == (off + n - 1) \div Blk + 1

(* write_pipe of n bytes, of which m calls of kmalloc succeed.  At(i) is   *)
(* the block of the i-th turn of the outer loop; its next is overwritten   *)
(* with a new block, or with NULL when there is no memory.                 *)
write_pipe(n, m) ==
  LET off   == OffsetOf(write_at)
      first == Walk(StartNode(write_at))
      w     == Fits(n, off, m)
      old   == Len(blocks)
      At(i) == IF i = 0 THEN first ELSE old + i
      Was(b) == IF b <= old THEN blocks[b] ELSE NewBlock(NULL)
      Pos(b, o) == {j \in 0 .. w - 1 : /\ At((off + j) \div Blk) = b
                                       /\ (off + j) % Blk = o}
      Data(b, o) == IF Pos(b, o) = {} THEN Was(b).data[o]
                    ELSE sent + 1 + Max(Pos(b, o))
      NextOf(b) == CASE b = first /\ m > 0           -> old + 1
                     [] b > old /\ b < old + m       -> b + 1
                     [] b = At(m)                    -> NULL
                     [] OTHER                        -> Was(b).next
  IN  /\ mode = "run"
      /\ m <= Allocs(n, off)
      /\ sent + n <= MaxTotal
      /\ \/ Crash(first)
         \/ /\ Usable(first)
            /\ blocks' = [b \in 1 .. old + m |->
                            [data |-> [o \in Offs |-> Data(b, o)],
                             next |-> NextOf(b),
                             live |-> Was(b).live]]
            /\ write_at' = write_at + w
            /\ st_size' = st_size + w
            /\ sent' = sent + w
            /\ UNCHANGED <<read_at, got, mode>>

\* Mutant: a block is freed before its last byte was read.
FreedBy_Early(off, r) == (off + r + 1) \div Blk

Take(n)         == Min({n, st_size})
FreedBy(off, r) == (off + r) \div Blk

(* read_pipe of up to n bytes, when there are some.  Every block read to   *)
(* its end is freed; hdr->data still points to the first.                  *)
read_pipe(n) ==
  LET off   == OffsetOf(read_at)
      r     == Take(n)
      freed == {Walk(i) : i \in 0 .. FreedBy(off, r) - 1}
      last  == Walk((off + r - 1) \div Blk)
  IN  /\ mode = "run"
      /\ st_size > 0
      /\ \/ Crash(last)
         \/ /\ Usable(last)
            /\ got' = got \o [j \in 1 .. r |->
                 blocks[Walk((off + j - 1) \div Blk)].data[(off + j - 1) % Blk]]
            /\ blocks' = [b \in DOMAIN blocks |->
                            [blocks[b] EXCEPT !.live = @ /\ b \notin freed]]
            /\ read_at' = read_at + r
            /\ st_size' = st_size - r
            /\ write_at' = write_at - Blk * FreedBy(off, r)
            /\ UNCHANGED <<sent, mode>>

(* The end of close_pipe: the blocks are freed along the list.  A pipe     *)
(* that was never written to has no end of list: what the walk finds is    *)
(* whatever kmalloc left there.                                            *)
delete ==
  LET reach == {Walk(i) : i \in 0 .. Len(blocks)}
  IN  /\ mode = "run"
      /\ \/ \E b \in reach : b # NULL /\ Crash(b)
         \/ /\ \A b \in reach : b \in {NULL, Uninit} \/ Usable(b)
            /\ blocks' = [b \in DOMAIN blocks |->
                            [blocks[b] EXCEPT !.live = @ /\ b \notin reach]]
            /\ mode' = "gone"
            /\ UNCHANGED <<write_at, read_at, st_size, sent, got>>

Ended == mode # "run" /\ UNCHANGED vars

Sizes == 1 .. MaxTotal

Next ==
  \/ \E n \in Sizes : read_pipe(n)
  \/ \E n \in Sizes, m \in 0 .. MaxTotal : write_pipe(n, m)
  \/ delete
  \/ Ended

Spec == Init /\ [][Next]_vars

----------------------------------------------------------------------------
(* Properties *)

TypeOK ==
  /\ \A b \in DOMAIN blocks :
       /\ blocks[b].data \in [Offs -> 0 .. MaxTotal]
       /\ blocks[b].next \in {NULL, Uninit} \cup DOMAIN blocks
       /\ blocks[b].live \in BOOLEAN
  /\ write_at \in 0 .. MaxTotal /\ read_at \in 0 .. MaxTotal
  /\ st_size \in 0 .. MaxTotal /\ sent \in 0 .. MaxTotal
  /\ got \in Seq(0 .. MaxTotal)
  /\ mode \in {"run", "gone", "fault", "uaf", "wild"}

\* No byte is lost to the counts, however many blocks the bytes take and
\* however often kmalloc fails: what was read and what is left is what
\* write_pipe reported.  And the bytes below the last of the first block come
\* out in order, each once, whatever is written behind them.  For the bytes
\* from there on the code does not keep the order: see BytesInOrder.
InOrder ==
  /\ \A i \in DOMAIN got : i < Blk => got[i] = i
  /\ Len(got) + st_size = sent

\* What makes those reads right: until read_pipe has passed the first block,
\* nobody has freed it, and no later write_pipe, whose walk may end anywhere,
\* has changed a byte of it that is still to come.
PendingInPlace ==
  mode = "run" /\ Len(got) < Blk =>
    /\ blocks[1].live /\ write_at = sent
    /\ \A k \in Len(got) + 1 .. sent : k < Blk => blocks[1].data[k - 1] = k

\* What write_pipe says: "Find the location where we can start writing".
\* Violated from the last byte of a block on: write_at / 0xFF and
\* write_at % 0x100 disagree, and the reader finds a byte never written, or a
\* byte of a block that is freed.
BytesInOrder == \A i \in DOMAIN got : got[i] = i

=============================================================================
