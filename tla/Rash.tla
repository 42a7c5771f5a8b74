-------------------------------- MODULE Rash --------------------------------
(***************************************************************************)
(* The shell, rlibc/rash.c: a line is read, split into tokens, taken apart *)
(* into commands and run as a pipeline of processes, which set up their    *)
(* descriptors side by side with the shell.  Their pipes are those of      *)
(* kernel/src/fs/pipe.c, with the counters close_pipe keeps.  The shell is *)
(* process 1 (kmain.c), so the children a program leaves behind when it    *)
(* ends become the shell's: its wait may return one of them.  A character  *)
(* is a one-letter string; <<>> stands for NULL in a vector of strings,    *)
(* for no token is empty.                                                  *)
(***************************************************************************)
EXTENDS Integers, SequencesExt

CONSTANTS
  Inputs,     \* what may be typed: [keys, cmds, in, out], the keys and what
              \* they ask for; cmds is <<>> where they ask for nothing sensible
  Help, Exit, \* the names of the builtin commands
  Names,      \* files that can be opened
  ArgBuf,     \* argbuf, 16 in the code
  OpenMax,    \* OPEN_MAX
  FirstFd,    \* first descriptor of pipe, open and creat, 3 in the code
  MaxLines,   \* bound on the lines of a session
  MaxOrphans  \* bound on the processes the shell adopts

ASSUME RashAssumption ==
  /\ ArgBuf \in Nat \ {0} /\ MaxLines \in Nat /\ MaxOrphans \in Nat
  /\ OpenMax \in Nat /\ FirstFd \in Nat /\ FirstFd > 1 /\ FirstFd < OpenMax
  /\ \A x \in Inputs : x.keys \in Seq(STRING)

VARIABLES
  sh,        \* where the shell is
  input,     \* the member of Inputs worked on last
  lines,     \* lines read
  args,      \* the tokens
  starts,    \* commandStarts
  names,     \* [in, out]: input_name, output_name
  files,     \* descriptors of the shell
  pipefds,   \* the descriptors pipe() returned
  pipes,     \* pipes[k]: [readers, writers, live]
  kids,      \* kids[i]: the process of command i: [pc, files]
  left,      \* calls of wait still to make
  children,  \* cur_task->children: counted by fork and by wait alone
  strays,    \* children of the shell that run and are not in kids: orphans
             \* it adopted, and commands of earlier lines
  queue,     \* its wait queue: a command of this line, or 0 for a stray
  orphans    \* history: how many it has adopted

rashVars == <<sh, input, lines, args, starts, names, files, pipefds, pipes, kids, left,
              children, strays, queue, orphans>>

Fds  == 0 .. OpenMax - 1
Tty  == <<"tty", 0>>
None == <<"none", 0>>
R(k) == <<"r", k>>
W(k) == <<"w", k>>
NullString == <<>>
Pipe == <<"PIPE">>
In   == <<"IN">>
Out  == <<"OUT">>

RashInit ==
  /\ sh = "prompt" /\ input \in Inputs /\ lines = 0
  /\ args = <<>> /\ starts = <<>> /\ names = [in |-> NullString, out |-> NullString]
  /\ files = [fd \in Fds |-> IF fd < FirstFd THEN Tty ELSE None]
  /\ pipefds = <<>> /\ pipes = <<>> /\ kids = <<>> /\ left = 0
  /\ children = 0 /\ strays = 0 /\ queue = <<>> /\ orphans = 0

----------------------------------------------------------------------------
(* A line *)

(* rash_read_line: a key goes into the buffer, "BS" takes one back. *)
Keyed(buf, c) ==
  IF c # "BS" THEN Append(buf, c) ELSE IF buf = <<>> THEN buf ELSE Front(buf)

rash_read_line(keys) ==
  LET buf[i \in 0 .. Len(keys)] == IF i = 0 THEN <<>> ELSE Keyed(buf[i - 1], keys[i])
  IN buf[Len(keys)]

Special(c) == CASE c = "|" -> Pipe [] c = "<" -> In [] c = ">" -> Out

(* The word in front of a separator becomes a token. *)
Flush(t) ==
  IF t.token # <<>>
  THEN [t EXCEPT !.tokens = Append(@, t.token), !.token = <<>>] ELSE t

(* The character itself does, if it is one of |<>.  The array has grown    *)
(* only after the last character: with a word in front it may be full.     *)
AddSpecial(t, c) ==
  IF c \in {"|", "<", ">"}
  THEN [t EXCEPT !.tokens = Append(@, Special(c)),
                 !.over = @ \/ Len(t.tokens) >= t.argbuf]
  ELSE t

(* One character of rash_split_line.  The terminator counts as a separator *)
(* (strchr finds it), but in a quotation and behind a backslash as a       *)
(* character of a word that is then dropped.                               *)
Split(t, c) ==
  LET u == CASE t.state = "QUOTED" /\ c = "'" -> [t EXCEPT !.state = "DEFAULT"]
             [] t.state = "QUOTED" /\ c # "'" -> [t EXCEPT !.token = Append(@, c)]
             [] t.state = "ESCAPED" ->
                  [t EXCEPT !.token = Append(@, c), !.state = "DEFAULT"]
             [] t.state = "DEFAULT" /\ c \in {" ", "|", "<", ">", "NUL"} ->
                  AddSpecial(Flush(t), c)
             [] t.state = "DEFAULT" /\ c = "'" -> [t EXCEPT !.state = "QUOTED"]
             [] t.state = "DEFAULT" /\ c = "\\" -> [t EXCEPT !.state = "ESCAPED"]
             [] OTHER -> [t EXCEPT !.token = Append(@, c)]
  IN [u EXCEPT !.argbuf = IF Len(u.tokens) >= @ THEN 2 * @ ELSE @]

Start == [state |-> "DEFAULT", token |-> <<>>, tokens |-> <<>>, argbuf |-> ArgBuf,
          over |-> FALSE]

rash_split_line(line) ==
  LET chars == Append(line, "NUL")
      t[i \in 0 .. Len(chars)] == IF i = 0 THEN Start ELSE Split(t[i - 1], chars[i])
  IN t[Len(chars)]

(* One step of the loop of rash_launch.  A redirection takes the token     *)
(* behind it, whatever that is; at the end of the line that is NULL.       *)
Redirect(p, i, which) ==
  [p EXCEPT !.args[i] = NullString, !.skip = TRUE,
            !.wild = @ \/ i = Len(p.args),
            !.names[which] = IF i < Len(p.args) THEN p.args[i + 1] ELSE @]

Part(p, i) ==
  CASE p.skip -> [p EXCEPT !.skip = FALSE]
    [] ~p.skip /\ p.args[i] = Pipe ->
         [p EXCEPT !.args[i] = NullString, !.starts = Append(@, i + 1)]
    [] ~p.skip /\ p.args[i] = In  -> Redirect(p, i, "in")
    [] ~p.skip /\ p.args[i] = Out -> Redirect(p, i, "out")
    [] OTHER -> p

Whole(tokens) == [args |-> tokens, starts |-> <<1>>, skip |-> FALSE, wild |-> FALSE,
                  names |-> [in |-> NullString, out |-> NullString]]

Parts(tokens) ==
  LET p[i \in 0 .. Len(tokens)] == IF i = 0 THEN Whole(tokens) ELSE Part(p[i - 1], i)
  IN p[Len(tokens)]

(* The argument vector that begins at start: up to the next NULL. *)
Vector(a, start) ==
  LET ends == {i \in start .. Len(a) : a[i] = NullString}
      end == IF ends = {} THEN Len(a) ELSE Min(ends) - 1
  IN SubSeq(a, start, end)

builtin_func(name) == IF name = Exit THEN "exited" ELSE "prompt"

(* An empty line, a builtin, or rash_launch. *)
rash_execute(tokens) ==
  CASE tokens = <<>> -> "prompt"
    [] tokens # <<>> /\ tokens[1] \in {Help, Exit} -> builtin_func(tokens[1])
    [] OTHER -> "pipe"

(* The commands that have not ended. *)
Running == {i \in DOMAIN kids : kids[i].pc \notin {"dead", "reaped"}}

(* One turn of the loop, up to do_commands.  What is left of the line      *)
(* before goes on by itself: it has no end of a pipe of the new line.      *)
rash_loop ==
  LET t == rash_split_line(rash_read_line(input'.keys))
      p == Parts(t.tokens)
      next == rash_execute(t.tokens)
  IN /\ sh = "prompt" /\ lines < MaxLines /\ input' \in Inputs
     /\ lines' = lines + 1
     /\ args' = p.args /\ starts' = p.starts /\ names' = p.names
     /\ sh' = IF t.over \/ (next = "pipe" /\ p.wild) THEN "wild" ELSE next
     /\ kids' = <<>> /\ pipes' = <<>> /\ pipefds' = <<>>
     /\ strays' = strays + Cardinality(Running) /\ queue' = [j \in DOMAIN queue |-> 0]
     /\ UNCHANGED <<files, left, children, orphans>>

----------------------------------------------------------------------------
(* do_commands *)

Lines == <<input, lines, args, starts, names>>
Family == <<children, strays, queue, orphans>>

Commands == Len(starts)

get_free_fd(t, from) ==
  Min({fd \in Fds : fd >= from /\ t[fd] = None} \cup {OpenMax})

(* close_pipe, on descriptor table t: the counter of the end goes down;    *)
(* with both at 0 the pipe is deleted.  The pipe of a descriptor that is   *)
(* deleted already is a NULL pointer.                                      *)
PipeOf(o) == o[1] \in {"r", "w"}
Gone(o) == PipeOf(o) /\ ~pipes[o[2]].live

close_pipe(o) ==
  IF ~PipeOf(o) THEN pipes
  ELSE LET k == o[2]
           h == [pipes[k] EXCEPT !.readers = IF o[1] = "r" THEN @ - 1 ELSE @,
                                 !.writers = IF o[1] = "w" THEN @ - 1 ELSE @]
       IN [pipes EXCEPT ![k] =
             [h EXCEPT !.live = h.readers # 0 \/ h.writers # 0]]

(* pipe() for every bar of the line. *)
pipe ==
  LET r == get_free_fd(files, FirstFd)
      w == get_free_fd([files EXCEPT ![r] = Tty], FirstFd)
      k == Len(pipes) + 1
  IN /\ sh = "pipe" /\ Len(pipes) < Commands - 1 /\ r < OpenMax /\ w < OpenMax
     /\ files' = [files EXCEPT ![r] = R(k), ![w] = W(k)]
     /\ pipefds' = pipefds \o <<r, w>>
     /\ pipes' = Append(pipes, [readers |-> 2, writers |-> 2, live |-> TRUE])
     /\ UNCHANGED <<Lines, Family, sh, kids, left>>

(* No descriptor or no memory for a pipe: the shell exits.  fork never     *)
(* returns -1: without memory or a free pid the kernel panics.             *)
do_commands_fails ==
  /\ \/ sh = "pipe" /\ Len(pipes) < Commands - 1 /\ sh' = "exited"
     \/ sh = "fork" /\ sh' = "panic"
  /\ UNCHANGED <<Lines, Family, files, pipefds, pipes, kids, left>>

pipes_done ==
  /\ sh = "pipe" /\ Len(pipes) = Commands - 1 /\ sh' = "fork"
  /\ UNCHANGED <<Lines, Family, files, pipefds, pipes, kids, left>>

fork ==
  /\ sh = "fork"
  /\ kids' = Append(kids, [pc |-> "out", files |-> files])
  /\ sh' = IF Len(kids) + 1 = Commands THEN "close" ELSE "fork"
  /\ children' = children + 1
  /\ UNCHANGED <<Lines, files, pipefds, pipes, left, strays, queue, orphans>>

(* A process is done with a step, or one of its calls failed: it returns   *)
(* from do_commands in the child and exits.                                *)
Becomes(i, pc, t) == kids' = [kids EXCEPT ![i] = [pc |-> pc, files |-> t]]
Shell == <<Lines, sh, files, pipefds, left>>

(* task_kill: the process joins the shell's wait queue, and the children   *)
(* it leaves behind become the shell's, which does not count them.         *)
task_kill(i, n) ==
  /\ queue' = Append(queue, i)
  /\ orphans' = orphans + n /\ orphans' <= MaxOrphans
  /\ strays' = (IF i = 0 THEN strays - 1 ELSE strays) + n
  /\ UNCHANGED children

child_fails(i) ==
  /\ i \in DOMAIN kids /\ kids[i].pc \in {"out", "in", "exec"}
  /\ \/ kids[i].pc = "exec"
     \/ kids[i].pc = "out" /\ i = Commands /\ names.out # NullString
     \/ kids[i].pc = "in" /\ i = 1 /\ names.in # NullString
  /\ Becomes(i, "dead", kids[i].files) /\ task_kill(i, 0)
  /\ UNCHANGED <<Shell, pipes>>

\* Opens a file and makes it descriptor fd; it stays open at g, too.
Redirected(t, fd, o) ==
  LET g == get_free_fd(t, FirstFd) IN [t EXCEPT ![g] = o, ![fd] = o]

child_out(i) ==
  /\ i \in DOMAIN kids /\ kids[i].pc = "out"
  /\ LET t == kids[i].files
     IN \/ i < Commands /\ Becomes(i, "in", [t EXCEPT ![1] = t[pipefds[2 * i]]])
        \/ /\ i = Commands /\ names.out # NullString /\ get_free_fd(t, FirstFd) < OpenMax
           /\ Becomes(i, "in", Redirected(t, 1, <<"out", 0>>))
        \/ i = Commands /\ names.out = NullString /\ Becomes(i, "in", t)
  /\ UNCHANGED <<Shell, Family, pipes>>

\* Mutant: the read end of the pipe behind the command.
InputEnd_Own(i) == pipefds[IF 2 * i - 1 \in DOMAIN pipefds THEN 2 * i - 1
                           ELSE 2 * i - 3]

InputEnd(i) == pipefds[2 * i - 3]

child_in(i) ==
  /\ i \in DOMAIN kids /\ kids[i].pc = "in"
  /\ LET t == kids[i].files
     IN \/ i > 1 /\ Becomes(i, "close", [t EXCEPT ![0] = t[InputEnd(i)]])
        \/ /\ i = 1 /\ names.in # NullString /\ names.in \in Names
           /\ get_free_fd(t, FirstFd) < OpenMax
           /\ Becomes(i, "close", Redirected(t, 0, <<"in", 0>>))
        \/ i = 1 /\ names.in = NullString /\ Becomes(i, "close", t)
  /\ UNCHANGED <<Shell, Family, pipes>>

(* close of the next of the pipes' descriptors that is open, in the order  *)
(* of pipefds.                                                             *)
ToClose(t) == {n \in DOMAIN pipefds : t[pipefds[n]] # None}
NextOf(t) == pipefds[Min(ToClose(t))]

child_close(i) ==
  /\ i \in DOMAIN kids /\ kids[i].pc = "close"
  /\ LET t == kids[i].files
     IN \/ /\ ToClose(t) = {} /\ Becomes(i, "exec", t)
           /\ UNCHANGED <<Shell, Family, pipes>>
        \/ /\ ToClose(t) # {} /\ ~Gone(t[NextOf(t)])
           /\ Becomes(i, "close", [t EXCEPT ![NextOf(t)] = None])
           /\ pipes' = close_pipe(t[NextOf(t)])
           /\ UNCHANGED <<Shell, Family>>
        \/ /\ ToClose(t) # {} /\ Gone(t[NextOf(t)]) /\ sh' = "panic"
           /\ UNCHANGED <<Lines, Family, files, pipefds, pipes, kids, left>>

execv(i) ==
  /\ i \in DOMAIN kids /\ kids[i].pc = "exec"
  /\ Vector(args, starts[i]) # <<>>
  /\ Becomes(i, "run", kids[i].files)
  /\ UNCHANGED <<Shell, Family, pipes>>

\* External: a program runs, forks, and ends, with children of its own still
\* running or without.  exit closes no descriptor.
ends(i) ==
  /\ i \in DOMAIN kids /\ kids[i].pc = "run"
  /\ Becomes(i, "dead", kids[i].files)
  /\ \E n \in 0 .. MaxOrphans : task_kill(i, n)
  /\ UNCHANGED <<Shell, pipes>>

\* External: so does one that the shell has come by.
stray_ends ==
  /\ strays > 0
  /\ \E n \in 0 .. MaxOrphans : task_kill(0, n)
  /\ UNCHANGED <<Shell, pipes, kids>>

\* Mutant: one wait for every pipe.
Waits_Pipes == Len(pipes)

(* wait is called once for every command. *)
Waits == Len(pipes) + 1

shell_close ==
  /\ sh = "close"
  /\ \/ /\ ToClose(files) = {} /\ sh' = "wait" /\ left' = Waits
        /\ UNCHANGED <<Lines, Family, files, pipefds, pipes, kids>>
     \/ /\ ToClose(files) # {} /\ ~Gone(files[NextOf(files)])
        /\ files' = [files EXCEPT ![NextOf(files)] = None]
        /\ pipes' = close_pipe(files[NextOf(files)])
        /\ UNCHANGED <<Lines, Family, sh, pipefds, kids, left>>
     \/ /\ ToClose(files) # {} /\ Gone(files[NextOf(files)]) /\ sh' = "panic"
        /\ UNCHANGED <<Lines, Family, files, pipefds, pipes, kids, left>>

(* One of the calls of wait: the first of the wait queue is collected,     *)
(* whoever it is.  Without children, ECHILD; nobody looks at the result.   *)
wait ==
  /\ sh = "wait" /\ left > 0 /\ left' = left - 1
  /\ IF children = 0
     THEN UNCHANGED <<children, queue, kids>>
     ELSE /\ queue # <<>> /\ queue' = Tail(queue) /\ children' = children - 1
          /\ kids' = IF Head(queue) = 0 THEN kids
                     ELSE [kids EXCEPT ![Head(queue)].pc = "reaped"]
  /\ UNCHANGED <<Lines, sh, files, pipefds, pipes, strays, orphans>>

(* The rest of rash_launch and of rash_loop. *)
launched ==
  /\ sh = "wait" /\ left = 0 /\ sh' = "prompt"
  /\ UNCHANGED <<Lines, Family, files, pipefds, pipes, kids, left>>

RashNext ==
  \/ rash_loop \/ pipe \/ do_commands_fails \/ pipes_done \/ fork
  \/ shell_close \/ wait \/ launched
  \/ /\ sh # "panic"
     /\ \/ stray_ends
        \/ \E i \in DOMAIN kids :
             \/ child_fails(i) \/ child_out(i) \/ child_in(i) \/ child_close(i)
             \/ execv(i) \/ ends(i)

RashSpec == RashInit /\ [][RashNext]_rashVars

----------------------------------------------------------------------------
(* Properties *)

\* The shell takes the keys apart into what they ask for: a line that makes
\* sense has as many commands as are found in it, each with its arguments
\* where the shell looks for them, and the files named.
Understood(x) ==
  LET p == Parts(rash_split_line(rash_read_line(x.keys)).tokens)
  IN x.cmds # <<>> =>
       /\ ~p.wild /\ p.names = [in |-> x.in, out |-> x.out]
       /\ Len(p.starts) = Len(x.cmds)
       /\ \A i \in DOMAIN x.cmds : Vector(p.args, p.starts[i]) = x.cmds[i]

\* The commands of a sensible line are run as it says, with the words in
\* quotes and behind backslashes as they are.  Command i runs with its own
\* arguments, reads from the pipe of command i - 1 or the file named, writes
\* to the pipe of command i + 1 or the file named, and holds no other end of
\* any pipe.
CommandsWired ==
  \A i \in DOMAIN kids : kids[i].pc = "run" /\ input.cmds # <<>> =>
    LET t == kids[i].files
        last == Len(input.cmds)
        source == IF i > 1 THEN R(i - 1) ELSE IF input.in = NullString THEN Tty ELSE <<"in", 0>>
        sink == IF i < last THEN W(i) ELSE IF input.out = NullString THEN Tty ELSE <<"out", 0>>
    IN /\ Vector(args, starts[i]) = input.cmds[i]
       /\ names = [in |-> input.in, out |-> input.out]
       /\ t[0] = source /\ t[1] = sink
       /\ \A fd \in Fds \ {0, 1} : ~PipeOf(t[fd])

\* When the shell prompts again it has as many children, running or dead, as
\* it has adopted orphans: every orphan costs one call of wait, whose command
\* may go on running or stay uncollected, but never more than one, and never
\* an ECHILD.  Without orphans every process of the pipeline is collected.
\* The shell holds no end of a pipe, and the array of tokens was large enough
\* unless a word and a special character came together at its end.
LineDone ==
  /\ sh = "prompt" =>
       /\ children = 0 /\ strays + Len(queue) + Cardinality(Running) = orphans
       /\ orphans = 0 => \A i \in DOMAIN kids : kids[i].pc = "reaped"
       /\ Len(kids) = Len(pipes) + (IF kids = <<>> THEN 0 ELSE 1)
  /\ sh \in {"prompt", "wait"} => \A fd \in Fds : ~PipeOf(files[fd])
  /\ sh = "wild" => input.cmds = <<>> \/ Len(args) > ArgBuf

\* What the comment of rash_launch says: "Launch a program and wait for it to
\* terminate."  Violated once the shell has adopted an orphan: a call of wait
\* collects that, and the shell prompts while a command runs.
LaunchWaits == sh = "prompt" => Running = {}

\* What close_pipe says where it deletes a pipe: "No readers and writers
\* left".  Violated by every pipeline: three processes close the ends that
\* were counted for two, and a command holds its ends as copies.
PipeKept ==
  \A i \in DOMAIN kids : kids[i].pc = "run" =>
    \A fd \in {0, 1} : ~Gone(kids[i].files[fd])

=============================================================================
