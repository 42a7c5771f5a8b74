------------------------------ MODULE MC_Pipes ------------------------------
(* Pipes: the bytes in one, the shell's pipelines and the terminal's pipe. *)
(* They share no state here; a behaviour exercises one of them.            *)
(*                                                                         *)
(* The shell's lines have words of the letter a, of a bar and of a blank,  *)
(* in the three ways to type them; pipelines of up to three commands;      *)
(* redirections; and lines that make no sense.                             *)
EXTENDS PipeData, Rash, Term

CONSTANT Areas   \* the parts a run looks at

VARIABLE area

A == <<"a">>
Odd == <<"|", " ">>
Quoted(w) == <<"'">> \o w \o <<"'">>
Escaped(w) == FlattenSeq([i \in DOMAIN w |-> <<"\\", w[i]>>])
Mixed(w) == <<w[1]>> \o Quoted(Tail(w))
Ways(w) == IF w = Odd THEN {Quoted(w), Escaped(w)} ELSE {w, Mixed(w)}
Bl == <<" ">>
Asks(keys, cmds, in, out) == [keys |-> keys, cmds |-> cmds, in |-> in, out |-> out]

Single ==
  {Asks(w \o Bl \o Quoted(Odd) \o Bl, <<<<A, Odd>>>>, NullString, NullString) : w \in Ways(A)}
  \cup {Asks(Bl \o A \o Bl \o v, <<<<A, Odd>>>>, NullString, NullString) : v \in Ways(Odd)}
  \cup {Asks(<<"b", "BS", "BS">> \o A \o <<"<">> \o A, <<<<A>>>>, A, NullString)}
  \cup {Asks(A \o <<">">> \o v \o <<"<">> \o A, <<<<A>>>>, A, Odd) : v \in Ways(Odd)}
Double ==
  {Asks(A \o <<"|">> \o A \o Bl \o v, <<<<A>>, <<A, Odd>>>>, NullString, NullString) : v \in Ways(Odd)}
  \cup {Asks(A \o <<"<">> \o A \o Bl \o <<"|">> \o Bl \o A \o <<">">> \o A,
             <<<<A>>, <<A>>>>, A, A),
        Asks(A \o Bl \o A \o Bl \o A \o Bl \o A \o <<"|">> \o A,
             <<<<A, A, A, A>>, <<A>>>>, NullString, NullString)}
Triple ==
  {Asks(A \o <<"|">> \o A \o <<"|">> \o A, <<<<A>>, <<A>>, <<A>>>>, NullString, NullString)}
Senseless ==
  {Asks(k, <<>>, NullString, NullString) :
     k \in {<<>>, Help, Exit, A \o <<"<">>, <<"|">>, A \o <<"|">>, <<"'">> \o A,
            A \o <<"\\">>, A \o <<"<", "|">> \o A, <<"<">> \o A \o Bl \o A}}
MCInputs == Single \cup Double \cup Triple \cup Senseless
MCHelp == <<"h">>
MCExit == <<"x">>
MCNames == {A}

\* Every one of these lines is read as it is meant.
ASSUME LinesUnderstood == \A x \in Inputs : Understood(x)

AllVars == <<vars, rashVars, termVars, area>>

PipesInit ==
  /\ area \in Areas
  /\ Init /\ RashInit /\ TermInit
  /\ area # "shell" => input = CHOOSE x \in Inputs : TRUE

PipesNext ==
  \/ area = "bytes" /\ Next /\ UNCHANGED <<rashVars, termVars, area>>
  \/ area = "shell" /\ RashNext /\ UNCHANGED <<vars, termVars, area>>
  \/ area = "terminal" /\ TermNext /\ UNCHANGED <<vars, rashVars, area>>

PipesSpec == PipesInit /\ [][PipesNext]_AllVars
=============================================================================
