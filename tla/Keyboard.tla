------------------------------ MODULE Keyboard ------------------------------
(***************************************************************************)
(* The keyboard driver, drivers/kb.c: kb_handler takes one byte of a scan  *)
(* code per interrupt and keeps the prefix bytes it has seen (tempfl) and  *)
(* the modifier keys (flags) between interrupts.                           *)
(*                                                                         *)
(* The keyboard in front of it is external: keys go down and up in any     *)
(* order, the last one repeats, and the bytes of refs/kb_ref.txt queue up  *)
(* on the wire, ahead of the interrupts.                                   *)
(*                                                                         *)
(* flags and tempfl are the sets of the bits' names, bytes are numbers.    *)
(***************************************************************************)
EXTENDS Integers, Sequences, SequencesExt

CONSTANTS
  Keys,       \* keys of the keyboard
  MaxWire,    \* bytes the keyboard can be ahead of the driver
  MaxEvents   \* bound on the presses of a behaviour

(* The keys of refs/kb_ref.txt: keycode, the prefix E0 or 0 for none, the  *)
(* byte that follows it, and the legends.  A key goes up with the bytes it *)
(* went down with, the last one with its highest bit set.  The GUI keys    *)
(* and the menu key are left out: kb.h has keycodes for them, the handler  *)
(* no case.                                                                *)
ScanBytes(pre, b) == IF pre = 0 THEN <<b>> ELSE <<pre, b>>
Key(code, kind, pre, b, plain, shift, nav, flag) ==
  [code |-> code, kind |-> kind, make |-> ScanBytes(pre, b), break |-> ScanBytes(pre, b + 128),
   plain |-> plain, shift |-> shift, nav |-> nav, flag |-> flag]

Mods == {<<\h2A, 0, \h2A, "LSHIFT">>, <<\h36, 0, \h36, "RSHIFT">>,
         <<\h1D, 0, \h1D, "LCONTROL">>, <<\h5A, \hE0, \h1D, "RCONTROL">>,
         <<\h38, 0, \h38, "LALT">>, <<\h5C, \hE0, \h38, "RALT">>}
Locks == {<<\h3A, "CAPS_LOCK">>, <<\h45, "NUM_LOCK">>, <<\h46, "SCROLL_LOCK">>}

\* Keycode, and the character without and with shift.
Chars == {
  <<\h02, 49, 33>>, <<\h03, 50, 64>>, <<\h04, 51, 35>>, <<\h05, 52, 36>>, <<\h06, 53, 37>>,
  <<\h07, 54, 94>>, <<\h08, 55, 38>>, <<\h09, 56, 42>>, <<\h0A, 57, 40>>, <<\h0B, 48, 41>>,
  <<\h0C, 45, 95>>, <<\h0D, 61, 43>>, <<\h1A, 91, 123>>, <<\h1B, 93, 125>>, <<\h27, 59, 58>>,
  <<\h28, 39, 34>>, <<\h29, 96, 126>>, <<\h2B, 92, 124>>, <<\h33, 44, 60>>, <<\h34, 46, 62>>,
  <<\h35, 47, 63>>,
  <<\h10, 113, 81>>, <<\h11, 119, 87>>, <<\h12, 101, 69>>, <<\h13, 114, 82>>, <<\h14, 116, 84>>,
  <<\h15, 121, 89>>, <<\h16, 117, 85>>, <<\h17, 105, 73>>, <<\h18, 111, 79>>, <<\h19, 112, 80>>,
  <<\h1E, 97, 65>>, <<\h1F, 115, 83>>, <<\h20, 100, 68>>, <<\h21, 102, 70>>, <<\h22, 103, 71>>,
  <<\h23, 104, 72>>, <<\h24, 106, 74>>, <<\h25, 107, 75>>, <<\h26, 108, 76>>, <<\h2C, 122, 90>>,
  <<\h2D, 120, 88>>, <<\h2E, 99, 67>>, <<\h2F, 118, 86>>, <<\h30, 98, 66>>, <<\h31, 110, 78>>,
  <<\h32, 109, 77>>}
Letters == 97 .. 122

\* The keypad with num lock and without, and the cursor key of its place.
Pads == {<<\h47, 55, 0, \h5D>>, <<\h48, 56, 0, \h5E>>, <<\h49, 57, 0, \h5F>>,
         <<\h4B, 52, 0, \h60>>, <<\h4D, 54, 0, \h61>>, <<\h4F, 49, 0, \h62>>,
         <<\h50, 50, 0, \h63>>, <<\h51, 51, 0, \h64>>, <<\h52, 48, 0, \h65>>,
         <<\h53, 46, 127, \h66>>}

\* Backspace, tab, enter, space, the rest of the keypad, delete; then escape,
\* the function keys and the cursor keys, that type nothing.
Fixed == {<<\h0E, 0, \h0E, 8>>, <<\h0F, 0, \h0F, 9>>, <<\h1C, 0, \h1C, 10>>,
          <<\h39, 0, \h39, 32>>, <<\h37, 0, \h37, 42>>, <<\h4A, 0, \h4A, 45>>,
          <<\h4C, 0, \h4C, 53>>, <<\h4E, 0, \h4E, 43>>, <<\h59, \hE0, \h1C, 10>>,
          <<\h5B, \hE0, \h35, 47>>, <<\h66, \hE0, \h53, 127>>}
Mute  == {<<c, 0, c>> : c \in {\h01, \h57, \h58} \cup \h3B .. \h44}
         \cup {<<\h5D, \hE0, \h47>>, <<\h5E, \hE0, \h48>>, <<\h5F, \hE0, \h49>>,
               <<\h60, \hE0, \h4B>>, <<\h61, \hE0, \h4D>>, <<\h62, \hE0, \h4F>>,
               <<\h63, \hE0, \h50>>, <<\h64, \hE0, \h51>>, <<\h65, \hE0, \h52>>}

PrintScreen == [Key(\h6A, "none", \hE0, 0, 0, 0, 0, "none") EXCEPT
                  !.make = <<\hE0, \h2A, \hE0, \h37>>, !.break = <<\hE0, \hB7, \hE0, \hAA>>]
Pause == [Key(\h6B, "none", \hE0, 0, 0, 0, 0, "none") EXCEPT
            !.make = <<\hE1, \h1D, \h45, \hE1, \h9D, \hC5>>, !.break = <<>>]

KeyTable ==
  {Key(m[1], "mod", m[2], m[3], 0, 0, 0, m[4]) : m \in Mods}
  \cup {Key(m[1], "lock", 0, m[1], 0, 0, 0, m[2]) : m \in Locks}
  \cup {Key(m[1], IF m[2] \in Letters THEN "letter" ELSE "symbol", 0, m[1], m[2], m[3], 0,
            "none") : m \in Chars}
  \cup {Key(m[1], "keypad", 0, m[1], m[2], m[3], m[4], "none") : m \in Pads}
  \cup {Key(m[1], "fixed", m[2], m[3], m[4], 0, 0, "none") : m \in Fixed}
  \cup {Key(m[1], "none", m[2], m[3], 0, 0, 0, "none") : m \in Mute}
  \cup {PrintScreen, Pause}

ASSUME KeyboardAssumption == MaxWire \in Nat /\ MaxEvents \in Nat /\ Keys \subseteq KeyTable

VARIABLES
  flags, tempfl,  \* the static variables of kb_handler
  packets,        \* <<keycode, character>> of the presses it decoded
  wire,           \* bytes sent by the keyboard and not yet read
  held,           \* keys that are down
  last,           \* the key that repeats: <<>> or <<key>>
  locks,          \* caps, num and scroll lock as the keys were struck
  unshifted,      \* a print screen let go of the left shift for the user
  strokes         \* <<keycode, character>> of the presses made

kbVars  == <<flags, tempfl, packets, wire, held, last, locks, unshifted, strokes>>
board  == <<wire, held, last, locks, unshifted, strokes>>

KbInit ==
  /\ flags = {} /\ tempfl = {} /\ packets = <<>>
  /\ wire = <<>> /\ held = {} /\ last = <<>> /\ locks = {} /\ unshifted = FALSE
  /\ strokes = <<>>

Toggle(s, x) == IF x \in s THEN s \ {x} ELSE s \cup {x}

----------------------------------------------------------------------------
(* The keyboard. *)

Down(k) == \E h \in held : h.code = k

LSHIFT_KEY == \h2A
RSHIFT_KEY == \h36
PRSCR_KEY  == \h6A

(* What the key should type, by its legends. *)
Shifted == (Down(LSHIFT_KEY) /\ ~unshifted) \/ Down(RSHIFT_KEY)
Types(k) ==
  CASE k.kind = "letter" -> IF Shifted <=> "CAPS_LOCK" \in locks THEN k.plain ELSE k.shift
    [] k.kind = "symbol" -> IF Shifted THEN k.shift ELSE k.plain
    [] k.kind = "keypad" -> IF "NUM_LOCK" \in locks THEN k.plain ELSE k.shift
    [] k.kind = "fixed"  -> k.plain
    [] OTHER -> 0

\* A keypad key without num lock is the cursor key of its place.
Means(k) == IF k.kind = "keypad" /\ "NUM_LOCK" \notin locks THEN k.nav ELSE k.code

Send(bytes) == Len(wire) + Len(bytes) <= MaxWire /\ wire' = wire \o bytes

Struck(k) ==
  /\ Len(strokes) < MaxEvents
  /\ Send(k.make)
  /\ strokes' = Append(strokes, <<Means(k), Types(k)>>)
  /\ locks' = IF k.kind = "lock" THEN Toggle(locks, k.flag) ELSE locks
  /\ unshifted' = (unshifted /\ k.code # LSHIFT_KEY)
  /\ last' = <<k>>
  /\ UNCHANGED <<flags, tempfl, packets>>

Press(k) == k \notin held /\ Struck(k) /\ held' = held \cup {k}

Repeat(k) == k \in held /\ last = <<k>> /\ Struck(k) /\ UNCHANGED held

(* The second part of print screen's release is E0 AA.                     *)
Release(k) ==
  /\ k \in held /\ Send(k.break)
  /\ held' = held \ {k}
  /\ last' = IF last = <<k>> THEN <<>> ELSE last
  /\ unshifted' = (unshifted \/ (k.code = PRSCR_KEY /\ Down(LSHIFT_KEY)))
  /\ UNCHANGED <<flags, tempfl, packets, locks, strokes>>

----------------------------------------------------------------------------
(* kb_handler: what it makes of a byte sc, with f for flags and t for      *)
(* tempfl as they were.                                                    *)

(* Bytes after which the handler returns and waits for more: the prefixes, *)
(* the first part of print screen, all of pause but its end.               *)
Partial(t, sc) ==
  CASE sc = \hE0 -> {"E0"}
    [] sc = \hE1 -> {"E1"}
    [] sc = \h1D /\ "E1" \in t -> {"1D"}
    [] sc = \h45 /\ {"E1", "1D"} \subseteq t -> {"45"}
    [] sc = \h9D /\ {"E1", "1D", "45"} \subseteq t -> {"9D"}
    [] sc = \h2A /\ "E0" \in t -> {"2A"}
    [] OTHER -> {}

Released(sc) == IF sc >= \h80 /\ sc \notin {\hE0, \hE1} THEN {"RELEASE"} ELSE {}

\* Mutant: the release of a control or alt key does not look at the prefix.
Modifier_Left(t, sc) ==
  CASE sc % 128 = \h1D -> IF "E0" \in t /\ sc < 128 THEN "RCONTROL" ELSE "LCONTROL"
    [] sc % 128 = \h2A -> "LSHIFT"
    [] sc % 128 = \h36 -> "RSHIFT"
    [] sc % 128 = \h38 -> IF "E0" \in t /\ sc < 128 THEN "RALT" ELSE "LALT"
    [] OTHER -> "none"

(* The flag of a key that is held. *)
Modifier(t, sc) ==
  CASE sc % 128 = \h1D -> IF "E0" \in t THEN "RCONTROL" ELSE "LCONTROL"
    [] sc % 128 = \h2A -> "LSHIFT"
    [] sc % 128 = \h36 -> "RSHIFT"
    [] sc % 128 = \h38 -> IF "E0" \in t THEN "RALT" ELSE "LALT"
    [] OTHER -> "none"

(* The flags that stand for either key of a pair. *)
Sides == [SHIFT |-> {"LSHIFT", "RSHIFT"}, ALT |-> {"LALT", "RALT"},
          CONTROL |-> {"LCONTROL", "RCONTROL"}]
Both(m) == {g \in DOMAIN Sides : m \in Sides[g]}

\* The flags of keys that toggle.
Lock(sc) == CASE sc = \h3A -> "CAPS_LOCK"
              [] sc = \h45 -> "NUM_LOCK"
              [] sc = \h46 -> "SCROLL_LOCK"
              [] OTHER -> "none"

(* The switch's changes of flags. *)
Switched(f, t, sc) ==
  LET m == Modifier(t, sc)
  IN  IF m # "none" THEN IF sc < 128 THEN f \cup {m} ELSE f \ ({m} \cup Both(m))
      ELSE IF Lock(sc) # "none" THEN Toggle(f, Lock(sc)) ELSE f

(* "Set the rest of the flags." *)
Rest(f) == f \cup {g \in DOMAIN Sides : Sides[g] \cap f # {}}
NewFlags(f, t, sc) == Rest(Switched(f, t, sc) \cup Released(sc))

(* sc_to_ascii: scan codes 0 to 39h. *)
sc_to_ascii == <<
  0, 0, 49, 50, 51, 52, 53, 54, 55, 56, 57, 48, 45, 61, 8,            \* 1 .. =
  9, 113, 119, 101, 114, 116, 121, 117, 105, 111, 112, 91, 93, 10, 0, \* q .. ]
  97, 115, 100, 102, 103, 104, 106, 107, 108, 59, 39, 96, 0,          \* a .. `
  92, 122, 120, 99, 118, 98, 110, 109, 44, 46, 47, 0,                 \* \ .. /
  42, 0, 32 >>

(* shift_lookup: from 27h on, 0 where a key has no such legend. *)
shift_lookup == <<
  34, 0, 0, 0, 0, 60, 95, 62, 63,   \* ' .. /
  41, 33, 64, 35, 36, 37, 94, 38,   \* 0 .. 7
  42, 40, 0, 58, 0, 43, 0, 0,       \* 8 .. ?
  0, 0, 0, 0, 0, 0, 0, 0,           \* @ .. G
  0, 0, 0, 0, 0, 0, 0, 0,           \* H .. O
  0, 0, 0, 0, 0, 0, 0, 0,           \* P .. W
  0, 0, 0, 123, 124, 125, 0, 0,     \* X .. _
  126, 65, 66, 67, 68, 69, 70, 71,  \* ` .. g
  72, 73, 74, 75, 76, 77, 78, 79,   \* h .. o
  80, 81, 82, 83, 84, 85, 86, 87,   \* p .. w
  88, 89, 90 >>                     \* x .. z

(* The keypad: its digits, and the cursor keys it is without num lock, or  *)
(* with E0 in front.                                                       *)
Digits == << 55, 56, 57, 45, 52, 53, 54, 43, 49, 50, 51, 48, 46 >>
Cursor == << \h5D, \h5E, \h5F, 0, \h60, 0, \h61, 0, \h62, \h63, \h64, \h65, \h66 >>
OnPad(sc)  == sc \in \h47 .. \h53
Always(sc) == sc \in {\h4A, \h4C, \h4E}   \* -, 5 and +
AsPad(f, t, sc) == Always(sc) \/ (OnPad(sc) /\ "E0" \notin t /\ "NUM_LOCK" \in f)

NUMPAD(f, t, sc) ==
  \/ AsPad(f, t, sc) \/ ("E0" \in t /\ sc % 128 = \h1C) \/ ("E0" \in t /\ sc = \h35)
  \/ (sc = \h37 /\ ~({"E0", "2A"} \subseteq t))

keycode(f, t, sc) ==
  CASE sc % 128 = \h1C -> IF "E0" \in t THEN \h59 ELSE \h1C
    [] sc % 128 = \h1D -> IF "E0" \in t THEN \h5A ELSE \h1D
    [] sc % 128 = \h38 -> IF "E0" \in t THEN \h5C ELSE \h38
    [] sc \in {\hAA, \hB6} -> sc % 128
    [] sc = \h35 -> IF "E0" \in t THEN \h5B ELSE \h35
    [] sc = \h37 -> IF NUMPAD(f, t, sc) THEN \h37 ELSE \h6A
    [] sc = \hC5 -> IF {"E1", "1D", "45", "9D"} \subseteq t THEN \h6B ELSE 0
    [] OnPad(sc) -> IF AsPad(f, t, sc) THEN sc ELSE Cursor[sc - \h46]
    [] OTHER -> sc

ascii(f, t, sc) ==
  CASE OnPad(sc) -> IF AsPad(f, t, sc) THEN Digits[sc - \h46] ELSE IF sc = \h53 THEN 127 ELSE 0
    [] sc = \h37 -> IF NUMPAD(f, t, sc) THEN 42 ELSE 0
    [] sc <= \h39 /\ sc # \h37 -> IF Modifier(t, sc) # "none" THEN 0 ELSE sc_to_ascii[sc + 1]
    [] OTHER -> 0

islower(c) == c \in 97 .. 122
isupper(c) == c \in 65 .. 90

\* Mutant: caps lock makes capitals of what shift left small, and no more.
Matched_Caps(c, f, pad) ==
  LET s == IF c >= 39 /\ c < 127 /\ "SHIFT" \in f /\ ~pad THEN shift_lookup[c - 38] ELSE c
  IN  IF "CAPS_LOCK" \in f /\ islower(s) THEN s - 32 ELSE s

(* "Make ascii code to match the flags." *)
Matched(c, f, pad) ==
  LET s == IF c >= 39 /\ c < 127 /\ "SHIFT" \in f /\ ~pad THEN shift_lookup[c - 38] ELSE c
  IN  IF c = 127 \/ "CAPS_LOCK" \notin f THEN s
      ELSE CASE islower(s) -> s - 32
             [] isupper(s) -> s + 32
             [] OTHER -> s

(* What is written to stdin, if it is not 0. *)
Char(f, t, sc) == Matched(ascii(f, t, sc), NewFlags(f, t, sc), NUMPAD(f, t, sc))

Prefix(sc) ==
  /\ Partial(tempfl, sc) # {}
  /\ tempfl' = tempfl \cup Partial(tempfl, sc)
  /\ flags' = flags \cup Released(sc)
  /\ UNCHANGED packets

(* The rest of the handler. *)
Decode(sc) ==
  /\ Partial(tempfl, sc) = {}
  /\ packets' = IF sc < 128 \/ keycode(flags, tempfl, sc) = \h6B
                THEN Append(packets, <<keycode(flags, tempfl, sc), Char(flags, tempfl, sc)>>)
                ELSE packets
  /\ flags' = NewFlags(flags, tempfl, sc) \ {"RELEASE"}
  /\ tempfl' = {}

kb_handler ==
  /\ wire # <<>> /\ wire' = Tail(wire)
  /\ Prefix(Head(wire)) \/ Decode(Head(wire))
  /\ UNCHANGED <<held, last, locks, unshifted, strokes>>

KbNext == kb_handler \/ \E k \in Keys : Press(k) \/ Repeat(k) \/ Release(k)

KbSpec == KbInit /\ [][KbNext]_kbVars

----------------------------------------------------------------------------
(* Properties *)

\* The driver understands what was typed: the keys and characters it decodes
\* are those the user struck, in that order, with the shift, caps lock and
\* num lock of the moment of the stroke, however far the keyboard is ahead
\* and whatever bytes of other keys lie between the bytes of a key.
Decoded ==
  /\ IsPrefix(packets, strokes)
  /\ wire = <<>> => packets = strokes

\* No modifier hangs: when every byte is read, the flags are the modifier
\* keys that are down and the locks that are on, and no prefix is left over.
\* The left shift alone is lost to a print screen key that is let go of first.
ModifiersTracked ==
  wire = <<>> =>
    /\ tempfl = {}
    /\ \A k \in Keys : k.kind = "mod" =>
         (k.flag \in flags <=> k \in held /\ ~(unshifted /\ k.code = LSHIFT_KEY))
    /\ \A g \in DOMAIN Sides : g \in flags <=> Sides[g] \cap flags # {}
    /\ flags \cap {"CAPS_LOCK", "NUM_LOCK", "SCROLL_LOCK"} = locks

=============================================================================
