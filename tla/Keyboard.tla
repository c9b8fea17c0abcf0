------------------------------ MODULE Keyboard ------------------------------
(***************************************************************************)
(* How keyboard_handler (keyboard.rs) turns scan codes into characters:    *)
(* one byte at a time, with one flag for both shift keys and no memory of  *)
(* the prefix E0.  Console takes it from there.                            *)
(*                                                                         *)
(* The keyboard is external.  It sends a code when a key goes down, again  *)
(* while it is held, and another when it goes up.  Around the code of a    *)
(* grey key it sends a made-up release of a shift key that is down (or,    *)
(* with NumLock, a made-up press when none is), and takes it back when the *)
(* grey key goes up or before the next code of another key.  It loses      *)
(* nothing.                                                                *)
(***************************************************************************)
EXTENDS Naturals, FiniteSets, Sequences

CONSTANT MaxCodes  \* bound on codes that wait (checking only)

ASSUME MaxCodesAssumption == MaxCodes \in Nat

VARIABLES
    down,        \* the keys that are down
    numlock,     \* fixed
    fake,        \* what was made up: "none", "up" or "down"
    codes,       \* sent and not yet handled
    meant,       \* history: [shift, sure] for every letter among them
    SHIFT_HELD,
    overlapped,  \* history: both shift keys were down since none was
    mistyped     \* history: a letter got the other case

keyboardVars == <<down, numlock, fake, codes, meant, SHIFT_HELD,
                  overlapped, mistyped>>

Shifts == {"left", "right"}
ShiftDown == down \cap Shifts # {}

Press == [left |-> "2A", right |-> "36"]
Release == [left |-> "AA", right |-> "B6"]

KeyboardInit ==
    /\ down = {} /\ numlock \in BOOLEAN /\ fake = "none" /\ codes = <<>>
    /\ meant = <<>> /\ SHIFT_HELD = FALSE /\ overlapped = FALSE /\ mistyped = FALSE

-----------------------------------------------------------------------------
(* The keyboard. *)

\* What is sent to take back what was made up, for the shift key s.
Undo(s) ==
    CASE fake = "none" -> <<>>
      [] fake = "up" -> <<"E0", Press[s]>>
      [] fake = "down" -> <<"E0", Release[s]>>

\* The shift key that the made-up codes name.
Named == IF "right" \in down /\ "left" \notin down THEN "right" ELSE "left"

Sent(sequence) == codes' = codes \o sequence /\ Len(codes) <= MaxCodes

ShiftKeyDown ==
    /\ \E s \in Shifts :
         /\ down' = down \cup {s}
         /\ Sent(Undo(Named) \o <<Press[s]>>)
         /\ overlapped' = (overlapped \/ Shifts \subseteq down')
    /\ fake' = "none" /\ UNCHANGED <<numlock, meant, SHIFT_HELD, mistyped>>

ShiftKeyUp ==
    /\ \E s \in down \cap Shifts :
         /\ down' = down \ {s}
         /\ Sent(Undo(Named) \o <<Release[s]>>)
         /\ overlapped' = (overlapped /\ down' \cap Shifts # {})
    /\ fake' = "none" /\ UNCHANGED <<numlock, meant, SHIFT_HELD, mistyped>>

Letter ==
    /\ Sent(Undo(Named) \o <<"1E", "9E">>)
    /\ meant' = Append(meant, [shift |-> ShiftDown, sure |-> ~overlapped])
    /\ fake' = "none" /\ UNCHANGED <<down, numlock, SHIFT_HELD, overlapped, mistyped>>

\* An arrow, say: what it makes up undoes the shift, or with NumLock does one.
GreyDown ==
    /\ "grey" \notin down /\ down' = down \cup {"grey"}
    /\ \/ /\ ShiftDown /\ ~numlock /\ fake' = "up"
          /\ Sent(<<"E0", Release[Named], "E0", "48">>)
       \/ /\ ~ShiftDown /\ numlock /\ fake' = "down"
          /\ Sent(<<"E0", Press[Named], "E0", "48">>)
       \/ /\ ShiftDown = numlock /\ fake' = "none"
          /\ Sent(<<"E0", "48">>)
    /\ UNCHANGED <<numlock, meant, SHIFT_HELD, overlapped, mistyped>>

GreyUp ==
    /\ "grey" \in down /\ down' = down \ {"grey"}
    /\ Sent(<<"E0", "C8">> \o Undo(Named)) /\ fake' = "none"
    /\ UNCHANGED <<numlock, meant, SHIFT_HELD, overlapped, mistyped>>

-----------------------------------------------------------------------------
(* keyboard_handler. *)

\* Mutant: only the left shift key is known when it goes up.
ShiftReleased_Left(code) == code = "AA"

ShiftReleased(code) == code \in {"AA", "B6"}
ShiftPressed(code) == code \in {"2A", "36"}

IsLetter(code) == code = "1E"

\* The tables have a character for 1E, an A or an a, and none for the prefix
\* E0, 48 or a release.
KeyboardHandler ==
    /\ codes # <<>> /\ codes' = Tail(codes)
    /\ LET code == Head(codes) IN
         /\ SHIFT_HELD' = (ShiftPressed(code) \/ (SHIFT_HELD /\ ~ShiftReleased(code)))
         /\ meant' = IF IsLetter(code) THEN Tail(meant) ELSE meant
         /\ mistyped' = (mistyped
              \/ (IsLetter(code) /\ Head(meant).sure /\ SHIFT_HELD # Head(meant).shift))
    /\ UNCHANGED <<down, numlock, fake, overlapped>>

KeyboardNext ==
    ShiftKeyDown \/ ShiftKeyUp \/ Letter \/ GreyDown \/ GreyUp \/ KeyboardHandler

KeyboardSpec == KeyboardInit /\ [][KeyboardNext]_keyboardVars

-----------------------------------------------------------------------------
\* One flag and no memory of prefixes are enough as long as the two shift keys
\* are not down together: whatever the keyboard makes up around its grey keys,
\* every letter gets the case that its shift key asked for, and once all codes
\* are handled the flag is up exactly while a shift key is down.  After both
\* were down it may be down too early, but it never sticks: with no shift key
\* down the flag is down.
ShiftFollowsTheKeys ==
    /\ ~mistyped
    /\ codes = <<>> /\ fake = "none" =>
         /\ SHIFT_HELD => ShiftDown
         /\ ShiftDown /\ ~overlapped => SHIFT_HELD
=============================================================================
