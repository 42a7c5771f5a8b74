-------------------------------- MODULE Fifo --------------------------------
(***************************************************************************)
(* A named FIFO, fs/fifofs.c: its ends in the descriptor tables of several *)
(* processes, the counters of open ends, opens that wait for the other     *)
(* end, and reads that wait for data.                                      *)
(*                                                                         *)
(* A system call runs in one piece but for sched_switch in the three wait  *)
(* loops; pc[p] says in which one p gave up its turn.  Of the data only    *)
(* the amounts and the life of the first block are kept: the layout of     *)
(* bytes in blocks is that of pipes, module PipeData.                      *)
(***************************************************************************)
EXTENDS Integers, FiniteSets, FiniteSetsExt

CONSTANTS
  Procs,      \* processes
  Creator,    \* the one that calls mkfifo
  Fds,        \* descriptors that get_free_fd(3) looks at
  Block,      \* bytes of a block, 256 in the code
  MaxBytes,   \* bound on the bytes written
  Garbage,    \* values an uninitialized counter may have
  MaxOpens    \* bound on the opens and copies of a behaviour

ASSUME FifoAssumption ==
  /\ Creator \in Procs /\ Fds \subseteq Nat /\ IsFiniteSet(Fds)
  /\ Block \in Nat \ {0} /\ MaxBytes \in Nat /\ Garbage \subseteq Int
  /\ MaxOpens \in Nat

VARIABLES
  files,      \* files[p][fd]: Free, or an open end
  alive,      \* processes that exist
  fifo,       \* "none"; "live"; or a node in the file list whose entry in
              \* fifofs_nodes is NULL, "broken", or a freed header, "dangling"
  readers, writers,             \* hdr->readers, hdr->writers, ints
  st_size, read_at, write_at,   \* node->status.st_size, hdr->read_at, hdr->write_at
  pc,         \* where each process is
  freed,      \* the block hdr->data points to has been freed
  clean,      \* history: every end was opened and closed as counted
  opens,      \* number of opens and copies so far
  mode        \* "run"; "fault": NULL is used; "uaf": freed memory is used

vars    == <<files, alive, fifo, readers, writers, st_size, read_at, write_at,
             pc, freed, clean, opens, mode>>
counts  == <<readers, writers>>
amounts == <<st_size, read_at, write_at, freed>>

Modes    == {"r", "w", "rw"}     \* O_RDONLY, O_WRONLY, O_RDWR
Free     == [acc |-> "free", nb |-> FALSE]
End(acc, nb) == [acc |-> acc, nb |-> nb]
User     == [at |-> "user", acc |-> "r", fd |-> 0, n |-> 0]

Calls(p)   == mode = "run" /\ p \in alive /\ pc[p].at = "user"
FreeFds(p) == {fd \in Fds : files[p][fd] = Free}

\* Open descriptors for reading (O_RDWR counts as that) and for writing, and
\* the processes waiting in open.
Reading == {x \in alive \X Fds : files[x[1]][x[2]].acc \in {"r", "rw"}}
Writing == {x \in alive \X Fds : files[x[1]][x[2]].acc = "w"}
Waiting(s) == {p \in alive : pc[p].at = "open" /\ pc[p].acc \in s}

Init ==
  /\ files = [p \in Procs |-> [fd \in Fds |-> Free]]
  /\ alive = {Creator} /\ fifo = "none"
  /\ readers = 0 /\ writers = 0
  /\ st_size = 0 /\ read_at = 0 /\ write_at = 0
  /\ pc = [p \in Procs |-> User] /\ freed = FALSE
  /\ clean = TRUE /\ opens = 0 /\ mode = "run"

Counted == opens < MaxOpens /\ opens' = opens + 1

Clamp(n) == IF n < 0 THEN 0 ELSE n

----------------------------------------------------------------------------
(* creat_fifofs and mkfifo *)

(* The counters are never set.  mkfifo closes its descriptor, which creat   *)
(* opened as a write end that nobody counted.                              *)
mkfifo(p) ==
  /\ Calls(p) /\ fifo = "none"
  /\ \/ /\ fifo' \in {"broken",            \* no memory for the header
                      "dangling"}          \* ... or for the first block
        /\ UNCHANGED <<counts, clean>>
     \/ /\ fifo' = "live"
        /\ \E r, w \in Garbage :
             /\ readers' = r
             /\ writers' = IF FreeFds(p) # {} THEN Clamp(w - 1) ELSE w
             /\ clean' = (r = 0 /\ writers' = 0)
  /\ UNCHANGED <<files, alive, amounts, pc, mode, opens>>

----------------------------------------------------------------------------
(* open_fifofs *)

\* Mutant: the end waits for a second one on the other side.
MayOpen_Two(acc) == IF acc = "w" THEN readers > 1 ELSE writers > 1

(* The conditions of the two wait loops. *)
MayOpen(acc) == IF acc = "w" THEN readers >= 1 ELSE writers >= 1

(* get_free_fd and the rest of open_vfs.  With no descriptor left the open *)
(* fails and the end stays counted.                                        *)
Opened(p, acc, nb) ==
  /\ files' = IF FreeFds(p) = {} THEN files
              ELSE [files EXCEPT ![p][Min(FreeFds(p))] = End(acc, nb)]
  /\ clean' = (clean /\ FreeFds(p) # {})
  /\ pc' = [pc EXCEPT ![p] = User]

open_fifofs(p, acc, nb) ==
  /\ Calls(p) /\ fifo = "live"
  /\ Counted
  /\ readers' = IF acc = "w" THEN readers ELSE readers + 1
  /\ writers' = IF acc = "w" THEN writers + 1 ELSE writers
  /\ CASE MayOpen(acc) \/ (nb /\ acc # "w") -> Opened(p, acc, nb)
       [] nb /\ acc = "w" /\ ~MayOpen(acc) ->          \* ENXIO
            clean' = FALSE /\ UNCHANGED <<files, pc>>
       [] OTHER ->
            /\ pc' = [pc EXCEPT ![p] = [User EXCEPT !.at = "open", !.acc = acc]]
            /\ UNCHANGED <<files, clean>>
  /\ UNCHANGED <<alive, fifo, amounts, mode>>

(* Back from sched_switch. *)
open_resumes(p) ==
  /\ mode = "run" /\ p \in alive /\ pc[p].at = "open"
  /\ MayOpen(pc[p].acc)
  /\ Opened(p, pc[p].acc, FALSE)
  /\ UNCHANGED <<alive, fifo, counts, amounts, mode, opens>>

(* fifofs_nodes[ino] is NULL, or a header that creat_fifofs has freed. *)
open_faults(p) ==
  /\ Calls(p) /\ fifo \in {"broken", "dangling"}
  /\ mode' = IF fifo = "broken" THEN "fault" ELSE "uaf"
  /\ UNCHANGED <<files, alive, fifo, counts, amounts, pc, clean, opens>>

\* Mutant: O_RDWR is closed as a write end.
ClosesReader_Strict(acc) == acc = "r"

ClosesReader(acc) == acc \in {"r", "rw"}

(* close_vfs and close_fifofs *)
close(p, fd) ==
  LET acc == files[p][fd].acc
  IN  /\ Calls(p) /\ files[p][fd] # Free
      /\ readers' = IF ClosesReader(acc) THEN Clamp(readers - 1) ELSE readers
      /\ writers' = IF ClosesReader(acc) THEN writers ELSE Clamp(writers - 1)
      /\ files' = [files EXCEPT ![p][fd] = Free]
      /\ UNCHANGED <<alive, fifo, amounts, pc, clean, mode, opens>>

(* fcntl(fd, F_DUPFD): a copy that is not counted. *)
dup(p, fd) ==
  /\ Calls(p) /\ files[p][fd] # Free /\ FreeFds(p) # {} /\ Counted
  /\ files' = [files EXCEPT ![p][Min(FreeFds(p))] = files[p][fd]]
  /\ clean' = FALSE
  /\ UNCHANGED <<alive, fifo, counts, amounts, pc, mode>>

(* The child has copies of the parent's descriptors, and exit closes none. *)
fork(p, c) ==
  /\ Calls(p) /\ c \notin alive /\ Counted
  /\ alive' = alive \cup {c}
  /\ files' = [files EXCEPT ![c] = files[p]]
  /\ clean' = (clean /\ FreeFds(p) = Fds)
  /\ UNCHANGED <<fifo, counts, amounts, pc, mode>>

exit(p) ==
  /\ Calls(p) /\ p # Creator
  /\ alive' = alive \ {p}
  /\ files' = [files EXCEPT ![p] = [fd \in Fds |-> Free]]
  /\ clean' = (clean /\ FreeFds(p) = Fds)
  /\ UNCHANGED <<fifo, counts, amounts, pc, mode, opens>>

----------------------------------------------------------------------------
(* read_fifofs and write_fifofs *)

(* Whole blocks are freed behind the read; hdr->data keeps pointing to the  *)
(* first one.                                                              *)
Transfer(n) ==
  LET m      == IF n > st_size THEN st_size ELSE n
      blocks == ((read_at % Block) + m) \div Block
  IN  /\ mode' = IF freed THEN "uaf" ELSE mode
      /\ st_size' = st_size - m
      /\ read_at' = read_at + m
      /\ write_at' = write_at - blocks * Block
      /\ freed' = (freed \/ blocks > 0)

\* Mutant: the loop waits for data only.
MayRead_Data == st_size > 0

(* The wait loop ends with data or without a writer. *)
MayRead == st_size > 0 \/ writers = 0

Read(p, n) ==
  /\ IF st_size = 0 THEN UNCHANGED <<amounts, mode>> ELSE Transfer(n)
  /\ pc' = [pc EXCEPT ![p] = User]

read_fifofs(p, fd, n) ==
  /\ Calls(p) /\ files[p][fd].acc \in {"r", "rw"}
  /\ CASE MayRead -> Read(p, n)
       [] ~MayRead /\ files[p][fd].nb -> UNCHANGED <<amounts, pc, mode>>  \* EAGAIN
       [] OTHER ->
            /\ pc' = [pc EXCEPT ![p] = [User EXCEPT !.at = "read", !.fd = fd, !.n = n]]
            /\ UNCHANGED <<amounts, mode>>
  /\ UNCHANGED <<files, alive, fifo, counts, clean, opens>>

read_resumes(p) ==
  /\ mode = "run" /\ p \in alive /\ pc[p].at = "read"
  /\ MayRead
  /\ Read(p, pc[p].n)
  /\ UNCHANGED <<files, alive, fifo, counts, clean, opens>>

(* m < n when no memory is left for the next block. *)
write_fifofs(p, fd, n) ==
  /\ Calls(p) /\ files[p][fd].acc \in {"w", "rw"}
  /\ readers # 0                                         \* else EPIPE
  /\ \E m \in 1 .. n :
       /\ m = n \/ (write_at + m) % Block = 0
       /\ read_at + st_size + m <= MaxBytes
       /\ IF freed THEN mode' = "uaf" /\ UNCHANGED amounts
          ELSE /\ st_size' = st_size + m /\ write_at' = write_at + m
               /\ UNCHANGED <<read_at, freed, mode>>
  /\ UNCHANGED <<files, alive, fifo, counts, pc, clean, opens>>

Idle == UNCHANGED vars     \* user programs may do other things for ever

Next ==
  \/ \E p \in Procs :
       \/ mkfifo(p) \/ open_faults(p) \/ exit(p) \/ open_resumes(p) \/ read_resumes(p)
       \/ \E acc \in Modes, nb \in BOOLEAN : open_fifofs(p, acc, nb)
       \/ \E c \in Procs : fork(p, c)
       \/ \E fd \in Fds :
            \/ close(p, fd) \/ dup(p, fd)
            \/ \E n \in 1 .. MaxBytes : read_fifofs(p, fd, n) \/ write_fifofs(p, fd, n)
  \/ Idle

Spec == Init /\ [][Next]_vars

(* sched_switch is round robin: a waiting process looks at its condition   *)
(* again and again.                                                        *)
FairSpec == /\ Spec
            /\ \A p \in Procs : WF_vars(open_resumes(p)) /\ WF_vars(read_resumes(p))

----------------------------------------------------------------------------
(* Properties *)

\* hdr->readers and hdr->writers are the open ends and the processes that
\* wait in open, over all processes, as long as the header's memory came as
\* zeros, no open failed half way and no descriptor was copied or left to
\* exit.  O_RDWR is one reader, from open to close.
CountersExact ==
  fifo = "live" /\ clean =>
    /\ readers = Cardinality(Reading) + Cardinality(Waiting({"r", "rw"}))
    /\ writers = Cardinality(Writing) + Cardinality(Waiting({"w"}))

\* No open waits for an end that is there: while another process has the other
\* side open, or waits in open_fifofs for this one, a process in the wait loop
\* gets its descriptor.  In particular a reader and a writer that both wait
\* find each other.  Stated over the processes, not over the counters the loop
\* looks at; as above, until a counter is off.
OpensMeet ==
  \A p \in Procs :
    /\ p \in Waiting({"w"}) /\ clean /\ (Reading # {} \/ Waiting({"r", "rw"}) # {})
         ~> \/ p \notin Waiting({"w"}) \/ ~clean \/ mode # "run"
            \/ (Reading = {} /\ Waiting({"r", "rw"}) = {})
    /\ p \in Waiting({"r", "rw"}) /\ clean /\ (Writing # {} \/ Waiting({"w"}) # {})
         ~> \/ p \notin Waiting({"r", "rw"}) \/ ~clean \/ mode # "run"
            \/ (Writing = {} /\ Waiting({"w"}) = {})

\* A reader in an empty FIFO learns of its end: once the last writer has
\* closed, the blocked read comes back, unless somebody comes to write or a
\* counter is off for one of the reasons above.
ReadEnds ==
  \A p \in Procs :
    /\ p \in alive /\ pc[p].at = "read" /\ clean
    /\ Writing = {} /\ Waiting({"w"}) = {}
    ~> \/ pc[p].at # "read" \/ ~clean \/ mode # "run"
       \/ Writing # {} \/ Waiting({"w"}) # {}

\* "The whole node is read, free it and go on to the next node": the header
\* goes on as well.  Violated: hdr->data still points to the freed node.
HeaderKept == mode # "uaf"

=============================================================================
