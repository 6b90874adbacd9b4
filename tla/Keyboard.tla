------------------------------ MODULE Keyboard ------------------------------
(***************************************************************************)
(* The keys as a screen sees them: Button.h and Keyboard.cpp.  A key is down  *)
(* or not, and "just pressed" from the event that pressed it until the end of *)
(* the frame.  m_bIsJustReleased is left out, as nobody asks for it, and so   *)
(* are the codes of keys that the game has no name for.                      *)
(***************************************************************************)

CONSTANT Key        \* the keys that are modelled

Button == [down : BOOLEAN, justPressed : BOOLEAN]

Untouched == [down |-> FALSE, justPressed |-> FALSE]

(* Mutant: a release is overlooked while the key is down.                     *)
ButtonUpdateSticks(b, pressed) ==
    [down |-> b.down \/ pressed, justPressed |-> ~b.down /\ pressed]

(* Button::Update: the next event of the key.  The edge of an earlier event is *)
(* lost, so a press and its release, or its repetition, in one frame is none. *)
ButtonUpdate(b, pressed) ==
    [down |-> pressed, justPressed |-> ~b.down /\ pressed]

(* OnKeyDown and OnKeyUp.                                                     *)
OnKey(keys, k, pressed) == [keys EXCEPT ![k] = ButtonUpdate(@, pressed)]

(* Mutant: the edges outlive the frame.                                       *)
EdgesKept(keys) == keys

(* Keyboard::Update, at the end of every frame.                               *)
EdgesCleared(keys) == [k \in Key |-> [keys[k] EXCEPT !.justPressed = FALSE]]
=============================================================================
