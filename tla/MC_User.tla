------------------------------ MODULE MC_User ------------------------------
(* What a user program stands on: its arguments and environment, its heap  *)
(* and the string functions.  They share no state; a behaviour exercises   *)
(* one of them.                                                            *)
EXTENDS Exec, Umalloc, Strings

CONSTANT Areas   \* the parts a run looks at

VARIABLE part

(* Characters 1 and 2, the sign = as 3.  A program sets the variables A and *)
(* AB; B only comes with execve.                                           *)
A == <<1>>
B == <<2>>
AB == <<1, 2>>
MCEnvNames == {A, AB}
MCEnvVals == {<<2>>}
MCStale == {<<>>, <<1>>}
MCArgvs == {<<>>, <<<<>>, A, AB>>}
MCEnvps == {<<>>, <<AB \o <<3, 1>>, A \o <<3>>, B \o <<3>> >>,
            <<A \o <<3, 1>>, AB \o <<3>>, A \o <<3, 2, 3>> >>}
MCDelims == {{1}, {1, 2}}

AllVars == <<vars, heapVars, strVars, part>>

One(S) == CHOOSE s \in S : TRUE

UserInit ==
  /\ part \in Areas
  /\ Init /\ HeapInit /\ StrInit
  /\ part # "exec" => files = [f \in Fds |-> "none"]
  /\ part # "strings" => strMem = [p \in Place |-> 0] /\ strDelims = One(Delims)

UserNext ==
  \/ part = "exec" /\ Next /\ UNCHANGED <<heapVars, strVars, part>>
  \/ part = "heap" /\ HeapNext /\ UNCHANGED <<vars, strVars, part>>
  \/ part = "strings" /\ StrNext /\ UNCHANGED <<vars, heapVars, part>>

UserSpec == UserInit /\ [][UserNext]_AllVars
=============================================================================
