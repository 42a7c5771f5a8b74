------------------------------- MODULE MC_Io -------------------------------
(* The keyboard's decoder, the ring the characters go to, and the files.   *)
(* They share no state here; a behaviour exercises one of them.            *)
EXTENDS Stdin, Keyboard, Vfs

CONSTANT Areas   \* the parts a run looks at

VARIABLE area

\* The shifts, the controls, caps and num lock, a, ', the keypad's dot and /,
\* print screen, pause.
MC_Keys == {k \in KeyTable : k.code \in {\h2A, \h36, \h1D, \h5A, \h3A, \h45, \h1E, \h28,
                                         \h53, \h5B, \h6A, \h6B}}

\* The first file has a name that is cut, the second is longer than a block.
MC_Disks == {<<[name |-> "long", bytes |-> <<901>>],
               [name |-> "b", bytes |-> <<911, 912, 913, 914, 915>>]>>}
MC_Offsets == {-1, 5}

AllVars == <<vars, kbVars, vfsVars, area>>

\* The files of a behaviour that is not about them.
Idle ==
  /\ nodes = <<>> /\ data = <<>> /\ want = <<>> /\ sane = <<>> /\ files = <<>>
  /\ calls = 0 /\ risky = FALSE /\ mode = "run"

IoInit ==
  /\ area \in Areas
  /\ Init /\ KbInit
  /\ IF area = "files" THEN VfsInit ELSE Idle

IoNext ==
  \/ area = "stdin" /\ Next /\ UNCHANGED <<kbVars, vfsVars, area>>
  \/ area = "keys" /\ KbNext /\ UNCHANGED <<vars, vfsVars, area>>
  \/ area = "files" /\ VfsNext /\ UNCHANGED <<vars, kbVars, area>>

IoSpec ==
  /\ IoInit /\ [][IoNext]_AllVars
  /\ WF_AllVars(area = "stdin" /\ Reader /\ UNCHANGED <<kbVars, vfsVars, area>>)
=============================================================================
