-------------------------------- MODULE Term --------------------------------
(***************************************************************************)
(* The terminal, rlibc/term.c: a pipe (kernel/src/fs/pipe.c) carries what  *)
(* is typed from the terminal to the shell it forks.  The child closes     *)
(* descriptor 0 and its write end, duplicates the read end to 0 and runs   *)
(* rash, whose commands inherit both copies; the terminal closes its read  *)
(* end and writes.  Only creat_pipe and close_pipe count: not fork, not    *)
(* F_DUPFD, not exit, which closes nothing.  A fork that fails is a panic  *)
(* of the kernel, after which nothing follows.                             *)
(***************************************************************************)
EXTENDS Integers

CONSTANTS Jobs,      \* the processes the shell may have at a time
          Word,      \* the number of values of size_t
          MaxTyped   \* bound on the characters in the pipe

ASSUME TermAssumption ==
  /\ Word \in Nat /\ Word > 2
  /\ MaxTyped \in Nat
  /\ "term" \notin Jobs /\ "shell" \notin Jobs

VARIABLES
  at,          \* at[p]: where process p is
  holds,       \* holds[p]: its descriptors for the pipe: "r" is fd[0], "w" is
               \* fd[1], and "in" descriptor 0 where that is a copy of fd[0]
  line,        \* the pipe: "none" before pipe(), "bad" if that failed, "live",
               \* or "gone" once it is deleted
  readers,     \* hdr->readers, a size_t
  writers,     \* hdr->writers, a size_t
  typed,       \* the characters in the pipe
  moved        \* history: a command has closed its descriptor 0

termVars == <<at, holds, line, readers, writers, typed, moved>>

Processes == {"term", "shell"} \cup Jobs
Counts == <<line, readers, writers>>

TermInit ==
  /\ at = [p \in Processes |-> IF p = "term" THEN "pipe" ELSE "none"]
  /\ holds = [p \in Processes |-> {}]
  /\ line = "none" /\ readers = 0 /\ writers = 0 /\ typed = 0 /\ moved = FALSE

Goes(p, pc) == at' = [at EXCEPT ![p] = pc]

\* Mutant: one end each, for the process that asks for them.
NewEnds_Own == 1

(* What creat_pipe sets the counters to: its caller and a child. *)
NewEnds == 2

(* pipe(fd), whose result is not looked at.  If it fails, fd holds what    *)
(* was on the stack, or the descriptors of a vfs node that has been freed. *)
makes_pipe ==
  /\ at["term"] = "pipe" /\ Goes("term", "fork")
  /\ \/ /\ line' = "live" /\ readers' = NewEnds /\ writers' = NewEnds
        /\ holds' = [holds EXCEPT !["term"] = {"r", "w"}]
     \/ line' = "bad" /\ UNCHANGED <<readers, writers, holds>>
  /\ UNCHANGED <<typed, moved>>

(* fork: the child has copies of all descriptors. *)
Copies(p, c) == holds' = [holds EXCEPT ![c] = holds[p]]

forks_shell ==
  /\ at["term"] = "fork"
  /\ at' = [at EXCEPT !["term"] = "close", !["shell"] = "close"]
  /\ Copies("term", "shell")
  /\ UNCHANGED <<Counts, typed, moved>>

(* close of a descriptor for the pipe, with close_pipe: a size_t goes      *)
(* down, and with both at 0 the pipe is deleted.                           *)
Closes(p, d) ==
  LET Down(n) == (n + Word - 1) % Word
  IN /\ line = "live" /\ d \in holds[p]
     /\ holds' = [holds EXCEPT ![p] = @ \ {d}]
     /\ readers' = IF d = "w" THEN readers ELSE Down(readers)
     /\ writers' = IF d = "w" THEN Down(writers) ELSE writers
     /\ line' = IF readers' = 0 /\ writers' = 0 THEN "gone" ELSE "live"

(* The first use of a descriptor that pipe() did not provide: what follows *)
(* is not defined.                                                         *)
goes_wild(p) ==
  /\ line = "bad" /\ at[p] = "close" /\ Goes(p, "wild")
  /\ UNCHANGED <<holds, Counts, typed, moved>>

(* The child, up to dup: close(0) makes 0 the lowest free descriptor. *)
shell_closes ==
  /\ at["shell"] = "close" /\ Goes("shell", "dup")
  /\ Closes("shell", "w")
  /\ UNCHANGED <<typed, moved>>

\* Mutant: dup2 in the place of dup, and a close of the end it came from.
shell_dups_Closes ==
  /\ at["shell"] = "dup" /\ Goes("shell", "exec") /\ line = "live"
  /\ holds' = [holds EXCEPT !["shell"] = {"in"}]
  /\ readers' = readers - 1
  /\ UNCHANGED <<line, writers, typed, moved>>

(* dup(fd[0]), which is not counted. *)
shell_dups ==
  /\ at["shell"] = "dup" /\ Goes("shell", "exec")
  /\ holds' = [holds EXCEPT !["shell"] = @ \cup {"in"}]
  /\ UNCHANGED <<Counts, typed, moved>>

(* execv("rash"): if it fails, the child goes on with the terminal's code. *)
shell_execs ==
  /\ at["shell"] = "exec"
  /\ Goes("shell", "rash") \/ Goes("shell", "stray")
  /\ UNCHANGED <<holds, Counts, typed, moved>>

(* close(fd[0]): the terminal's, and that of a child that runs its code.   *)
closes_input(p) ==
  /\ \/ p = "term" /\ at[p] = "close"
     \/ p = "shell" /\ at[p] = "stray"
  /\ Goes(p, "read") /\ Closes(p, "r")
  /\ UNCHANGED <<typed, moved>>

(* read_pipe of one character. *)
Takes == typed > 0 /\ typed' = typed - 1

(* read_char: the terminal's is from the keyboard; a child in its place    *)
(* reads the pipe, without blocking, for it has set O_NONBLOCK.            *)
reads(p) ==
  /\ p \in {"term", "shell"} /\ at[p] = "read" /\ Goes(p, "write")
  /\ \/ p = "term" /\ UNCHANGED typed
     \/ p = "shell" /\ Takes
     \/ p = "shell" /\ typed = 0 /\ UNCHANGED typed
  /\ UNCHANGED <<holds, Counts, moved>>

(* write(fd[1]): EPIPE without readers, or no room for it; EBADF for a     *)
(* child in the terminal's place.  The loop ends with an EOF.              *)
writes(p) ==
  /\ p \in {"term", "shell"} /\ at[p] = "write"
  /\ Goes(p, "read") \/ Goes(p, "wait")
  /\ \/ "w" \in holds[p] /\ readers # 0 /\ typed < MaxTyped /\ typed' = typed + 1
     \/ UNCHANGED typed
  /\ UNCHANGED <<holds, Counts, moved>>

(* return from main, or exit: the descriptors go with the task, unclosed. *)
Exits(p) ==
  /\ Goes(p, "dead") /\ holds' = [holds EXCEPT ![p] = {}]
  /\ UNCHANGED <<Counts, typed, moved>>

(* wait: the terminal's child has ended; a child in its place has none. *)
waited(p) ==
  /\ p \in {"term", "shell"} /\ at[p] = "wait"
  /\ p = "term" => at["shell"] = "dead"
  /\ Exits(p)

----------------------------------------------------------------------------
(* The shell and its commands *)

(* rash reads a character of a line, or ends. *)
rash_reads ==
  /\ at["shell"] = "rash" /\ Takes
  /\ UNCHANGED <<at, holds, Counts, moved>>

rash_exits == at["shell"] = "rash" /\ Exits("shell")

(* A line makes it fork commands, *)
rash_forks(j) ==
  /\ at["shell"] \in {"rash", "forking"} /\ at[j] = "none"
  /\ at' = [at EXCEPT !["shell"] = "forking", ![j] = "new"]
  /\ Copies("shell", j)
  /\ UNCHANGED <<Counts, typed, moved>>

(* and wait for all of them: it is not process 1, and adopts no others. *)
rash_waits ==
  /\ at["shell"] = "forking" /\ \A j \in Jobs : at[j] \in {"none", "dead"}
  /\ at' = [p \in Processes |-> IF p = "shell" THEN "rash"
                                ELSE IF p = "term" THEN at[p] ELSE "none"]
  /\ UNCHANGED <<holds, Counts, typed, moved>>

(* A command whose input is a file or a pipe of its line: dup2 closes 0. *)
job_redirected(j) ==
  /\ at[j] = "new" /\ Goes(j, "run")
  /\ Closes(j, "in") /\ moved' = TRUE
  /\ UNCHANGED typed

job_started(j) ==
  /\ at[j] = "new" /\ Goes(j, "run")
  /\ UNCHANGED <<holds, Counts, typed, moved>>

\* External: a program reads its input, and ends.
job_reads(j) ==
  /\ at[j] = "run" /\ "in" \in holds[j] /\ Takes
  /\ UNCHANGED <<at, holds, Counts, moved>>

job_ends(j) == at[j] = "run" /\ Exits(j)

TermNext ==
  \/ makes_pipe \/ forks_shell \/ shell_closes \/ shell_dups \/ shell_execs
  \/ rash_reads \/ rash_exits \/ rash_waits
  \/ \E p \in {"term", "shell"} : \/ goes_wild(p) \/ closes_input(p) \/ reads(p)
                                  \/ writes(p) \/ waited(p)
  \/ \E j \in Jobs : \/ rash_forks(j) \/ job_redirected(j) \/ job_started(j)
                     \/ job_reads(j) \/ job_ends(j)

TermSpec == TermInit /\ [][TermNext]_termVars

----------------------------------------------------------------------------
(* Properties *)

\* The pipe outlives all its users, in every order of the closes of the
\* terminal, the shell and any number of redirected commands, though these
\* close copies nobody counted and let readers go through 0 and wrap: it is
\* never deleted, and no reader meets an end of file while the terminal can
\* still write.
LineKept ==
  /\ line # "gone"
  /\ \A p \in Processes : "w" \in holds[p] => writers # 0

\* The terminal's characters are taken as long as the shell is there to read
\* them, unless a command of the shell has had its input redirected: write
\* does not fail with EPIPE.
Heard ==
  /\ line = "live" /\ ~moved /\ at["shell"] \in {"none", "close", "dup", "exec", "rash", "forking"}
  => readers # 0

=============================================================================
