------------------------------- MODULE Stdin -------------------------------
(***************************************************************************)
(* The keyboard's ring buffer (fs/stdin.c) between its two users: the      *)
(* keyboard interrupt, which runs push_stdin in one piece at any time, and *)
(* read_stdin, which runs with interrupts on and is modelled one memory    *)
(* access at a time.  The scheduler is halted during the read, so there is *)
(* one reader.                                                             *)
(*                                                                         *)
(* read_at and write_at are plain variables that the interrupt shares with *)
(* the loop of read_stdin.  The build keeps both in registers during the   *)
(* loop and stores read_at behind it; the volatile stdin_buf_size is       *)
(* loaded, decremented and stored for every character.                     *)
(*                                                                         *)
(* The k-th character the ring accepted is the number k; 0 is '\0'.        *)
(***************************************************************************)
EXTENDS Integers, Sequences

CONSTANTS Ring,       \* size of stdin_buf, 1024 in the code
          MaxRead,    \* largest read
          MaxAhead,   \* how far typing may be ahead of reading
          MaxKeys     \* bound on the characters accepted

ASSUME StdinAssumption ==
  /\ Ring \in Nat \ {0}
  /\ MaxRead \in Nat \ {0} /\ MaxAhead \in Nat /\ MaxKeys \in Nat

VARIABLES
  stdin_buf, read_at, write_at, stdin_buf_size,
  typed,    \* characters accepted by push_stdin
  got,      \* characters that read_stdin delivered
  unset,    \* bytes that the last read_stdin counted and did not fill
  pc,       \* where read_stdin is; "user" outside
  size,     \* its argument
  read,     \* its counter
  regs      \* its registers for read_at, write_at and stdin_buf_size

vars   == <<stdin_buf, read_at, write_at, stdin_buf_size, typed, got, unset,
            pc, size, read, regs>>
buffer == <<stdin_buf, write_at, typed>>
caller == <<got, unset>>

Unread == typed - Len(got)

Init ==
  /\ stdin_buf = [i \in 0 .. Ring - 1 |-> 0]
  /\ read_at = 0 /\ write_at = 0 /\ stdin_buf_size = 0
  /\ typed = 0 /\ got = <<>> /\ unset = 0
  /\ pc = "user" /\ size = 0 /\ read = 0
  /\ regs = [read_at |-> 0, write_at |-> 0, size |-> 0]

----------------------------------------------------------------------------
(* The interrupt: kb_handler writes one character to stdin. *)

Top == write_at >= Ring

(* push_stdin at the top of a ring nobody has read from: the character is  *)
(* dropped.                                                                *)
KeyDropped ==
  /\ Top /\ read_at = 0
  /\ UNCHANGED vars

(* push_stdin and the += of write_stdin.  Nothing but the test above looks *)
(* at read_at: a ring that is full is overwritten.                         *)
KeyPushed ==
  LET at == IF Top THEN 0 ELSE write_at
  IN  /\ ~(Top /\ read_at = 0)
      /\ typed < MaxKeys /\ Unread < MaxAhead
      /\ stdin_buf' = [stdin_buf EXCEPT ![at] = typed + 1]
      /\ write_at' = at + 1
      /\ stdin_buf_size' = stdin_buf_size + 1
      /\ typed' = typed + 1
      /\ UNCHANGED <<read_at, caller, pc, size, read, regs>>

----------------------------------------------------------------------------
(* read_stdin *)

Goto(label) == pc' = label

read_stdin(n) ==
  /\ pc = "user"
  /\ Goto("wait")
  /\ size' = n /\ read' = 0 /\ unset' = 0
  /\ UNCHANGED <<buffer, read_at, stdin_buf_size, got, regs>>

\* Mutants: the loop is left one character too early, or too late.
Enough_Early == stdin_buf_size + 1 >= size
Enough_Late  == stdin_buf_size > size

Enough == stdin_buf_size >= size

(* while (stdin_buf_size < size); *)
Wait ==
  /\ pc = "wait" /\ Enough
  /\ Goto("load")
  /\ UNCHANGED <<buffer, read_at, stdin_buf_size, caller, size, read, regs>>

Spin ==
  /\ pc = "wait" /\ ~Enough
  /\ UNCHANGED vars

Load ==
  /\ pc = "load"
  /\ Goto("pop")
  /\ regs' = [regs EXCEPT !.read_at = read_at, !.write_at = write_at]
  /\ UNCHANGED <<buffer, read_at, stdin_buf_size, caller, size, read>>

\* Mutant: the reader steps over the end of the ring.
PopAt_Skip == IF regs.read_at >= Ring THEN 1 ELSE regs.read_at

PopAt == IF regs.read_at >= Ring THEN 0 ELSE regs.read_at

(* pop_stdin that finds the ring empty, or a slot never written: the       *)
(* character is counted as read all the same.                              *)
PopNothing ==
  /\ pc = "pop" /\ read < size
  /\ PopAt = regs.write_at \/ stdin_buf[PopAt] = 0
  /\ regs' = [regs EXCEPT !.read_at =
                IF PopAt = regs.write_at THEN PopAt ELSE PopAt + 1]
  /\ unset' = unset + 1
  /\ read' = read + 1
  /\ UNCHANGED <<buffer, read_at, stdin_buf_size, got, pc, size>>

pop_stdin ==
  /\ pc = "pop" /\ read < size
  /\ PopAt # regs.write_at /\ stdin_buf[PopAt] # 0
  /\ Goto("fetch")
  /\ regs' = [regs EXCEPT !.read_at = PopAt + 1]
  /\ got' = Append(got, stdin_buf[PopAt])
  /\ UNCHANGED <<buffer, read_at, stdin_buf_size, unset, size, read>>

(* stdin_buf_size--: a load ... *)
Fetch ==
  /\ pc = "fetch"
  /\ Goto("store")
  /\ regs' = [regs EXCEPT !.size = stdin_buf_size]
  /\ UNCHANGED <<buffer, read_at, stdin_buf_size, caller, size, read>>

Decremented(n) == n - 1

(* ... and a store, which forgets the keys pressed in between. *)
Store ==
  /\ pc = "store"
  /\ Goto("pop")
  /\ stdin_buf_size' = Decremented(regs.size)
  /\ read' = read + 1
  /\ UNCHANGED <<buffer, read_at, caller, size, regs>>

(* The loop is over: read_at is stored, the scheduler goes on. *)
Return ==
  /\ pc = "pop" /\ read >= size
  /\ Goto("user")
  /\ read_at' = regs.read_at
  /\ UNCHANGED <<buffer, stdin_buf_size, caller, size, read, regs>>

Reader == Wait \/ Load \/ PopNothing \/ pop_stdin \/ Fetch \/ Store \/ Return

Next ==
  \/ KeyDropped \/ KeyPushed \/ Spin
  \/ \E n \in 1 .. MaxRead : read_stdin(n)
  \/ Reader

(* The reader is the only task that runs, and interrupts return to it. *)
Spec == Init /\ [][Next]_vars /\ WF_vars(Reader)

----------------------------------------------------------------------------
(* Properties *)

TypeOK ==
  /\ stdin_buf \in [0 .. Ring - 1 -> 0 .. MaxKeys]
  /\ read_at \in 0 .. Ring /\ write_at \in 0 .. Ring
  /\ stdin_buf_size \in 0 .. MaxKeys
  /\ typed \in 0 .. MaxKeys /\ got \in Seq(1 .. MaxKeys) /\ unset \in 0 .. MaxRead
  /\ pc \in {"user", "wait", "load", "pop", "fetch", "store"}
  /\ size \in 0 .. MaxRead /\ read \in 0 .. MaxRead
  /\ regs \in [read_at : 0 .. Ring, write_at : 0 .. Ring, size : 0 .. MaxKeys]

\* A reader gets the characters in the order they were typed, each once and
\* none skipped, wherever in the loop of read_stdin the keys arrive.
InOrder == \A i \in DOMAIN got : got[i] = i

\* read_stdin reports a byte it has not filled only where a full ring looks
\* empty: short of that, the registers it took before the loop never make
\* characters that are there look missing.
UnsetOnlyWhenFull == [][unset' > unset => Unread = Ring]_vars

\* The count may be too low (see CountExact) but never promises a character
\* that is not there, which the loop behind the wait relies on.
NeverOvercounted ==
  /\ stdin_buf_size <= Unread + (IF pc \in {"fetch", "store"} THEN 1 ELSE 0)
  /\ pc = "store" => regs.size <= stdin_buf_size
  /\ pc \in {"load", "pop", "fetch", "store"} =>
       size - read <= Unread + (IF pc \in {"fetch", "store"} THEN 1 ELSE 0)

\* The unread characters are where the reader will look for them.
RingInPlace ==
  \A k \in Len(got) + 1 .. typed : stdin_buf[(k - 1) % Ring] = k

\* The invariant of the ring: order, count and place of the unread characters
\* agree between any two instructions of read_stdin and the interrupt.
RingSound == TypeOK /\ InOrder /\ NeverOvercounted /\ RingInPlace

\* A read whose characters have been counted comes back, whatever the
\* keyboard does in the meantime.
ReadReturns == (pc = "wait" /\ stdin_buf_size >= size) ~> (pc = "user")

\* What read_stdin says of the time it waits: "Now we can catch kb inputs".
\* Violated: a key between the load and the store of stdin_buf_size-- is in
\* the ring but never counted, and the next read waits for one key more.
CountExact == pc = "user" => stdin_buf_size = Unread

=============================================================================
