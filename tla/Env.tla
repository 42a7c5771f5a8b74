-------------------------------- MODULE Env --------------------------------
(***************************************************************************)
(* Environment variables of a user program: rlibc/stdlib/env.c, and        *)
(* init_rlibc, which builds environ from the strings execve left on the    *)
(* stack.  A string NAME=VAL is a pair of its name and its value, which is *)
(* a sequence of characters.                                               *)
(***************************************************************************)
EXTENDS Integers, SequencesExt

CONSTANTS
  EnvNames,    \* names of variables
  EnvVals,     \* values
  Stale,       \* characters a block of the heap may still hold
  NoValue,     \* in place of a value: not set
  EnvSlots,    \* pointers in the smallest block malloc gives: 4
  Align,       \* what malloc rounds sizes up to: 16
  MaxEnv       \* bound on the entries of environ a program adds

ASSUME EnvAssumption ==
  /\ EnvNames \subseteq Seq(Nat) /\ NoValue \notin EnvVals
  /\ <<>> \in Stale /\ EnvSlots \in Nat \ {0, 1} /\ Align \in Nat \ {0} /\ MaxEnv \in Nat

VARIABLES
  environ,   \* the entries, up to the first NULL
  envCap,    \* pointers the array has room for, 0 while environ is NULL
  envSet,    \* envSet[n]: what n may be after the calls so far, see Given, Kept
  envFailed, \* a setenv since _start returned -1
  envMode    \* "run"; "fault": a NULL is read or written; "wild": setenv
             \* wrote past a block, or the NULL behind the last entry is gone

envVars == <<environ, envCap, envSet, envFailed, envMode>>

EnvInit ==
  /\ environ = <<>> /\ envCap = 0 /\ envMode = "run" /\ envFailed = FALSE
  /\ envSet = [n \in EnvNames |-> {NoValue}]

Begins(a, b) == IsPrefix(a, b)

\* Mutant: the first variable that begins with the name is rewritten.
Rewrites_Prefix(n) == {i \in DOMAIN environ : Begins(n, environ[i][1])}

(* The entry setenv looks for: the name and the = behind it match. *)
Rewrites(n) == {i \in DOMAIN environ : environ[i][1] = n}

(* getenv compares as many characters as the name has. *)
Found(n) == {i \in DOMAIN environ : Begins(n, environ[i][1])}
getenv(n) == IF Found(n) = {} THEN NoValue ELSE environ[Min(Found(n))][2]

(* strcat assigns its terminator to a pointer.  The value is therefore     *)
(* copied behind whatever follows the = in the new block, and ends where   *)
(* the block happens to hold a zero.                                       *)
Stored(v) == {a \o v \o b : a, b \in Stale}

(* What is left for value and stale characters in the block of NAME=VAL;   *)
(* more is written over the next node's header.                            *)
Room(n, v) ==
  LET asked == Len(n) + Len(v) + 1
  IN Align * ((asked + Align - 1) \div Align) - Len(n) - 1

Put(index, s) ==
  IF index \in DOMAIN environ THEN [environ EXCEPT ![index] = s] ELSE Append(environ, s)

(* A call that has stored v.  realloc is asked for one pointer per         *)
(* variable and none for the NULL behind the last: when the block is full  *)
(* that NULL is the size of the next node, which the malloc of the string  *)
(* and every later use of the heap may set.                                *)
Stores(n, v, index) ==
  \E a, b \in Stale :
    /\ environ' = Put(index, <<n, a \o v \o b>>)
    /\ envMode' \in {"run", "wild"}
    /\ envMode' = "run" => v = <<>> \/ Len(a) + Len(v) <= Room(n, v)
    /\ envMode' = "wild" => Len(a) + Len(v) > Room(n, v) \/ Len(environ') >= envCap'

(* The array setenv has before it adds a variable: a new one, or the old   *)
(* one resized to hold just one more.                                      *)
Capacity ==
  IF envCap = 0 THEN EnvSlots
  ELSE EnvSlots * ((Len(environ) + EnvSlots) \div EnvSlots)

Rewriting(n, overwrite) == overwrite /\ Rewrites(n) # {}

(* What n may be after a call that succeeded, and m after one that failed: *)
(* a failed rewriting has freed the old string and left a NULL in its      *)
(* place, which hides every variable behind it as well.                    *)
Given(n, v, overwrite) ==
  IF overwrite THEN {v} ELSE {IF x = NoValue THEN v ELSE x : x \in envSet[n]}
Kept(m, n, overwrite) ==
  IF overwrite /\ (n \in EnvNames => envSet[n] # {NoValue})
  THEN envSet[m] \cup {NoValue} ELSE envSet[m]

(* No entry is ever empty, so a variable is rewritten in place or added at *)
(* the end; the first one is added with the array.                         *)
rewrites(n, v, overwrite) ==
  /\ Rewriting(n, overwrite)
  /\ UNCHANGED envCap
  /\ Stores(n, v, Min(Rewrites(n)))

adds(n, v, overwrite) ==
  /\ ~Rewriting(n, overwrite)
  /\ envCap' = Capacity
  /\ Stores(n, v, Len(environ) + 1)

(* malloc fails: for the array, for the string of a new variable, or for   *)
(* that of a variable whose old string is already freed.                   *)
no_array == envCap = 0 /\ UNCHANGED <<environ, envCap, envMode>>
no_string(n, overwrite) ==
  /\ ~Rewriting(n, overwrite)
  /\ envCap' = Capacity /\ UNCHANGED <<environ, envMode>>
no_rewrite(n, overwrite) ==
  /\ Rewriting(n, overwrite)
  /\ environ' = SubSeq(environ, 1, Min(Rewrites(n)) - 1)
  /\ UNCHANGED <<envCap, envMode>>

(* realloc copies to what malloc returned without looking at it. *)
realloc_fails(n, overwrite) ==
  /\ ~Rewriting(n, overwrite) /\ envCap > 0 /\ Capacity > envCap
  /\ envMode' = "fault" /\ UNCHANGED <<environ, envCap, envSet, envFailed>>

setenv(n, v, overwrite) ==
  /\ envMode = "run"
  /\ \/ /\ rewrites(n, v, overwrite) \/ adds(n, v, overwrite)
        /\ envSet' = [envSet EXCEPT ![n] = Given(n, v, overwrite)]
        /\ UNCHANGED envFailed
     \/ /\ no_array \/ no_string(n, overwrite) \/ no_rewrite(n, overwrite)
        /\ envSet' = [m \in EnvNames |-> Kept(m, n, overwrite)]
        /\ envFailed' = TRUE
     \/ realloc_fails(n, overwrite)

(* The name is compared with the whole string NAME=VAL: nothing is found. *)
unsetenv(n) ==
  /\ envMode = "run"
  /\ envMode' = IF envCap = 0 THEN "fault" ELSE envMode
  /\ UNCHANGED <<environ, envCap, envSet, envFailed>>

(* The program's own malloc and free, behind a full array. *)
heap_used ==
  /\ envMode = "run" /\ envCap > 0 /\ Len(environ) >= envCap
  /\ envMode' = "wild"
  /\ UNCHANGED <<environ, envCap, envSet, envFailed>>

EnvNext ==
  \/ \E n \in EnvNames, v \in EnvVals, o \in BOOLEAN :
       Len(environ) < MaxEnv /\ setenv(n, v, o)
  \/ \E n \in EnvNames : unsetenv(n)
  \/ heap_used

EnvSpec == EnvInit /\ [][EnvNext]_envVars

----------------------------------------------------------------------------
(* Properties *)

\* Until setenv writes past one of its blocks or the NULL behind environ is
\* lost, getenv returns what setenv set last, with or without overwrite,
\* however often a variable was set and in whatever order, but for the stale
\* characters of the block around it.  A call that failed has changed nothing,
\* unless it was to overwrite a variable: then any variable may be gone, and
\* none has another's value or an older one.  A name that begins another
\* variable's name may get that one's value instead.
EnvKept ==
  envMode = "run" =>
    \A n \in EnvNames :
      (\A i \in DOMAIN environ : Begins(n, environ[i][1]) => environ[i][1] = n) =>
        \/ getenv(n) = NoValue /\ NoValue \in envSet[n]
        \/ \E x \in envSet[n] \ {NoValue} : getenv(n) \in Stored(x)

=============================================================================
