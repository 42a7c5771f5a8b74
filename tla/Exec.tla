-------------------------------- MODULE Exec --------------------------------
(***************************************************************************)
(* execve from the caller's argument vectors to the new program's main:    *)
(* kernel/src/loader/exec.c, sys_execve, _start of crt0.s and init_rlibc.  *)
(* What execve does to the address space is in module Memory; here are the *)
(* kernel heap blocks and descriptors it holds, and the bytes it leaves on *)
(* the new stack, which the new program reads back.  A character is a      *)
(* number, 0 the terminator; the environment it builds is module Env's.    *)
(***************************************************************************)
EXTENDS Env

CONSTANTS
  Argvs, Envps,   \* the vectors of strings a caller may pass
  Equals,         \* the character =
  Top,            \* USTACK_END
  StackSize,      \* bytes below Top on the one page execve maps
  Junk,           \* what a byte of a new frame holds
  Fds,            \* descriptors of the process
  MaxCalls        \* bound on the calls of execve

ASSUME ExecAssumption ==
  /\ Top \in Nat /\ Top % 4 = 0 /\ Top \div 65536 < 65536
  /\ StackSize \in Nat /\ StackSize <= Top /\ Junk \in 0..255 /\ Fds \subseteq Nat

\* A string of the environment is NAME=VALUE.
ASSUME VectorAssumption ==
  /\ Argvs \subseteq Seq(Seq(1..255)) /\ Envps \subseteq Seq(Seq(1..255))
  /\ \A v \in Envps : \A i \in DOMAIN v : \E k \in 2..Len(v[i]) : v[i][k] = Equals

VARIABLES
  pc,       \* where the caller, execve or the new program is
  argv, envp, \* the vectors of this call
  calls,    \* calls so far
  blocks,   \* <<call, vector, index>> of the kernel blocks in use
  starved,  \* calls in which the copying ran out of memory
  files,    \* descriptor -> "none", "open" or "cloexec"
  before,   \* files when execve was called
  fd,       \* the program image
  stack,    \* stack[k] is the byte at Top - k
  ret,      \* [envp, argv, sp]: what execve returns
  done      \* strings of envp init_rlibc is done with

vars == <<envVars, pc, argv, envp, calls, blocks, starved, files, before, fd,
          stack, ret, done>>
kernel == <<argv, envp, calls, starved, before, envVars, done>>

Init ==
  /\ EnvInit
  /\ pc = "caller" /\ argv = <<>> /\ envp = <<>> /\ calls = 0
  /\ blocks = {} /\ starved = {}
  /\ files \in [Fds -> {"none", "open", "cloexec"}]
  /\ before = files /\ fd = -1 /\ stack = <<>> /\ done = 0
  /\ ret = [envp |-> 0, argv |-> 0, sp |-> 0]

(* execve up to the copies: count both vectors. *)
execve(a, e) ==
  /\ pc = "caller" /\ calls < MaxCalls
  /\ pc' = "args" /\ argv' = a /\ envp' = e /\ calls' = calls + 1
  /\ before' = files
  /\ UNCHANGED <<envVars, blocks, starved, files, fd, stack, ret, done>>

(* The kernel blocks of one vector: the array, 0, and its strings.  There  *)
(* are none for an empty vector.                                           *)
Copies(which, v) ==
  IF v = <<>> THEN {} ELSE {<<calls, which, i>> : i \in 0..Len(v)}
Buffer == {<<calls, "buf", 0>>}

copy(which, v, from, to) ==
  /\ pc = from /\ pc' = to
  /\ blocks' = blocks \cup Copies(which, v)
  /\ UNCHANGED <<kernel, files, fd, stack, ret>>

(* kmalloc fails for block k: execve returns with what it has. *)
copy_fails(which, v, from) ==
  /\ pc = from /\ pc' = "caller"
  /\ \E k \in 0..Len(v) :
       /\ <<calls, which, k>> \in Copies(which, v)
       /\ blocks' = blocks \cup {<<calls, which, i>> : i \in 0..k-1}
  /\ starved' = starved \cup {calls}
  /\ UNCHANGED <<envVars, argv, envp, calls, before, done, files, fd, stack, ret>>

(* kfree of every block in s.  Of a block that is not in use it leaves the *)
(* heap's list in pieces.  kfree(NULL), for the array of an empty vector,  *)
(* takes the 16 bytes above the user stack for a header: zeros do no harm, *)
(* anything else is followed and written to.                               *)
Frees(s, null, then) ==
  \/ /\ s \subseteq blocks /\ blocks' = blocks \ s /\ pc' = then
  \/ /\ ~(s \subseteq blocks) \/ null
     /\ blocks' = blocks \ s /\ pc' = "wild"

\* Mutant: the arguments are released, the environment is forgotten.
release_ArgsOnly(s, then) ==
  Frees(Copies("args", argv) \cup s, argv = <<>>, then)

\* The error paths: both copies, then what else is held.
release(s, then) ==
  Frees(Copies("args", argv) \cup Copies("env", envp) \cup s,
        argv = <<>> \/ envp = <<>>, then)

Free == {f \in Fds : files[f] = "none"}

open ==
  /\ pc = "open" /\ Free # {}
  /\ fd' = Min(Free) /\ files' = [files EXCEPT ![Min(Free)] = "open"]
  /\ pc' = "buf"
  /\ UNCHANGED <<kernel, blocks, stack, ret>>

(* No such file, or no descriptor. *)
open_fails ==
  /\ pc = "open" /\ release({}, "caller")
  /\ UNCHANGED <<kernel, files, fd, stack, ret>>

buffer ==
  /\ pc = "buf" /\ pc' = "load" /\ blocks' = blocks \cup Buffer
  /\ UNCHANGED <<kernel, files, fd, stack, ret>>

(* No memory for the image: the descriptor stays open. *)
buffer_fails ==
  /\ pc = "buf" /\ release({}, "caller")
  /\ UNCHANGED <<kernel, files, fd, stack, ret>>

(* bad: the stack page, the read or load_elf failed.  The caller's code is *)
(* gone by now: it is "lost" when execve returns to it.                    *)
load_fails ==
  /\ pc = "load" /\ release(Buffer, "lost")
  /\ files' = [files EXCEPT ![fd] = "none"]
  /\ UNCHANGED <<kernel, fd, stack, ret>>

close_on_exec ==
  [f \in Fds |-> IF f = fd \/ files[f] = "cloexec" THEN "none" ELSE files[f]]

load ==
  /\ pc = "load" /\ Frees(Buffer, FALSE, "push")
  /\ files' = close_on_exec
  /\ UNCHANGED <<kernel, fd, stack, ret>>

----------------------------------------------------------------------------
(* The new stack *)

round_down(st) == st \o [n \in 1..((4 - (Len(st) % 4)) % 4) |-> Junk]

PushString(st, s) == st \o <<0>> \o Reverse(s)

(* push of a word: its high byte first, so that it is little-endian. *)
push(st, w) ==
  st \o <<(w \div 16777216) % 256, (w \div 65536) % 256, (w \div 256) % 256, w % 256>>

(* The loops count down, so that strings and pointers are in order in      *)
(* memory: [n] is the stack with the last n of them.                       *)
PushStrings(st, v) ==
  LET f[n \in 0..Len(v)] ==
        IF n = 0 THEN st ELSE PushString(f[n - 1], v[Len(v) + 1 - n])
  IN f

PushWords(st, p) ==
  LET f[n \in 0..Len(p)] ==
        IF n = 0 THEN st ELSE push(f[n - 1], p[Len(p) + 1 - n])
  IN f

Pointers(st, v) ==
  [i \in 1..Len(v) |-> Top - Len(PushStrings(st, v)[Len(v) + 1 - i])]

\* Mutant: the loop over the pointers counts up.
PushVector_Upwards(st, v) ==
  IF v = <<>> THEN push(st, 0)
  ELSE FoldLeft(push, push(round_down(PushStrings(st, v)[Len(v)]), 0), Pointers(st, v))

PushVector(st, v) ==
  IF v = <<>> THEN push(st, 0)
  ELSE PushWords(push(round_down(PushStrings(st, v)[Len(v)]), 0),
                 Pointers(st, v))[Len(v)]

(* Both vectors and argc.  Past the page, the kernel itself faults. *)
setup_stack ==
  /\ pc = "push"
  /\ LET e == PushVector(<<>>, envp)
         a == PushVector(e, argv)
         all == push(a, Len(argv))
     IN \/ /\ Len(all) <= StackSize
           /\ Frees(Copies("env", envp) \cup Copies("args", argv), FALSE, "start")
           /\ stack' = all
           /\ ret' = [envp |-> Top - Len(e), argv |-> Top - Len(a),
                      sp |-> Top - Len(all)]
        \/ /\ Len(all) > StackSize /\ pc' = "panic"
           /\ UNCHANGED <<blocks, stack, ret>>
  /\ UNCHANGED <<kernel, files, fd>>

----------------------------------------------------------------------------
(* The new program *)

At(a) == stack[Top - a]
WordAt(a) == At(a) + 256 * At(a + 1) + 65536 * At(a + 2) + 16777216 * At(a + 3)
StringAt(a) ==
  LET n == Min({k \in 0..(Top - 1 - a) : At(a + k) = 0})
  IN [k \in 1..n |-> At(a + k - 1)]
VectorAt(a) ==
  LET n == Min({k \in 0..((Top - a) \div 4 - 1) : WordAt(a + 4 * k) = 0})
  IN [k \in 1..n |-> WordAt(a + 4 * (k - 1))]
StringsAt(a) == [k \in DOMAIN VectorAt(a) |-> StringAt(VectorAt(a)[k])]

Split(s) == Min({k \in DOMAIN s : s[k] = Equals})
NameOf(s) == SubSeq(s, 1, Split(s) - 1)
ValueOf(s) == SubSeq(s, Split(s) + 1, Len(s))

(* _start, and environ = NULL of init_rlibc. *)
_start ==
  /\ pc = "start" /\ pc' = "init" /\ environ' = <<>> /\ envCap' = 0
  /\ envMode' = "run" /\ envFailed' = FALSE
  /\ envSet' = [n \in EnvNames |-> {NoValue}] /\ done' = 0
  /\ UNCHANGED <<argv, envp, calls, blocks, starved, files, before, fd, stack, ret>>

(* One string of the loop: the = becomes a terminator on the stack.  What  *)
(* setenv returns is ignored, and the loop goes on after a wild write too. *)
init_rlibc ==
  /\ pc = "init" /\ done < Len(VectorAt(ret.envp))
  /\ LET a == VectorAt(ret.envp)[done + 1]
         s == StringAt(a)
     IN /\ \/ setenv(NameOf(s), ValueOf(s), TRUE)
           \/ envMode = "wild" /\ UNCHANGED envVars
        /\ stack' = [stack EXCEPT ![Top - (a + Split(s) - 1)] = 0]
  /\ done' = done + 1
  /\ UNCHANGED <<pc, argv, envp, calls, blocks, starved, files, before, fd, ret>>

main ==
  /\ pc = "init" /\ done = Len(VectorAt(ret.envp)) /\ envMode # "fault" /\ pc' = "main"
  /\ UNCHANGED <<kernel, blocks, files, fd, stack, ret>>

(* The program uses its environment. *)
runs ==
  /\ pc \in {"main", "running"} /\ pc' = "running" /\ EnvNext
  /\ UNCHANGED <<argv, envp, calls, blocks, starved, files, before, fd, stack,
                 ret, done>>

Next ==
  \/ \E a \in Argvs, e \in Envps : execve(a, e)
  \/ copy("args", argv, "args", "env")
  \/ copy_fails("args", argv, "args")
  \/ copy("env", envp, "env", "open")
  \/ copy_fails("env", envp, "env")
  \/ open
  \/ open_fails
  \/ buffer
  \/ buffer_fails
  \/ load
  \/ load_fails
  \/ setup_stack
  \/ _start
  \/ init_rlibc
  \/ main
  \/ runs

Spec == Init /\ [][Next]_vars

----------------------------------------------------------------------------
(* Properties *)

\* main gets the arguments the caller of execve passed, read from the bytes
\* execve pushed the way crt0 and C read them, however many there are.  With
\* them environ, as long as setenv wrote past no block: of every variable
\* that is there the last value of envp, as setenv stores it, each once and
\* nothing else, and no variable is missing unless a malloc failed.
ArgumentsArrive ==
  pc = "main" =>
    /\ WordAt(ret.sp) = Len(argv) /\ ret.sp + 4 = ret.argv
    /\ StringsAt(ret.argv) = argv
    /\ Len(VectorAt(ret.envp)) = Len(envp)
    /\ envMode = "run" =>
         LET Of(n) == {i \in DOMAIN envp : NameOf(envp[i]) = n}
             there == {environ[k][1] : k \in DOMAIN environ}
             names == {NameOf(s) : s \in Range(envp)}
         IN /\ there \subseteq names /\ (there # names => envFailed)
            /\ IsInjective([k \in DOMAIN environ |-> environ[k][1]])
            /\ \A k \in DOMAIN environ :
                 environ[k][2] \in Stored(ValueOf(envp[Max(Of(environ[k][1]))]))

\* Whichever way execve ends, it has freed each of its kernel blocks once
\* and left the descriptors alone but for the O_CLOEXEC ones of a call that
\* succeeds.  The exceptions the code has: a copy that runs out of memory
\* keeps its blocks, an image too big for the heap keeps its descriptor, and
\* an empty vector is freed as NULL on the error paths.
NothingHeld ==
  /\ pc \in {"caller", "lost", "start", "main"} =>
       {b[1] : b \in blocks} \subseteq starved
  /\ pc = "caller" =>
       \/ files = before
       \/ fd # -1 /\ before[fd] = "none" /\ files = [before EXCEPT ![fd] = "open"]
  /\ pc = "lost" => files = before
  /\ pc = "main" =>
       files = [f \in Fds |-> IF before[f] = "open" THEN "open" ELSE "none"]
  /\ pc = "wild" => argv = <<>> \/ envp = <<>>

=============================================================================
