------------------------------- MODULE Input -------------------------------
(***************************************************************************)
(* The state of the input devices (TenEngine-006-input): what Input's      *)
(* ProcessEvents makes of the events it takes from the application's       *)
(* queue.  The keyboard and the mouse keep the current and the previous    *)
(* state of each key or button, the touch screen a list of touches.        *)
(*                                                                         *)
(* All mouse buttons are one button to the code (MouseState.cpp:35), and   *)
(* gamepads are never polled; positions are left out.                      *)
(***************************************************************************)
EXTENDS Integers, Sequences, FiniteSets, Functions

CONSTANTS Key,      \* keys and the mouse button
          Finger    \* touchId of a touch

\* Keys and touches are different things.
ASSUME InputAssumption == Key \cap Finger = {}

VARIABLES currentKeys, previousKeys,   \* m_currentKeys, m_previousKeys
          touches                      \* m_touches

inputVars == <<currentKeys, previousKeys, touches>>

Phase == {"Begin", "Move", "End"}

InputTypeOK ==
    /\ currentKeys \subseteq Key
    /\ previousKeys \subseteq Key
    /\ touches \in Seq([finger : Finger, phase : Phase])

InputInit ==
    /\ currentKeys = {}
    /\ previousKeys = {}
    /\ touches = <<>>

\* The entries of the list that concern finger f.
Entries(f) == {i \in DOMAIN touches : touches[i].finger = f}

\* The k-th of the indices I, and what stays of a sequence at these indices.
Nth(I, k) == CHOOSE i \in I : Cardinality({j \in I : j < i}) = k - 1

Kept(s, I) == [k \in 1 .. Cardinality(I) |-> s[Nth(I, k)]]

First(S) == CHOOSE i \in S : \A j \in S : i <= j

\* A touch that ends and begins again before EndFrame takes its entry back.
TouchDown(f) ==
    LET ended == {i \in Entries(f) : touches[i].phase = "End"}
        begun == [finger |-> f, phase |-> "Begin"]
    IN  touches' = IF ended = {} THEN Append(touches, begun)
                                 ELSE [touches EXCEPT ![First(ended)] = begun]

\* TouchMove and TouchUp give the first entry of the finger its phase.
SetPhase(f, phase) ==
    touches' = IF Entries(f) = {} THEN touches
               ELSE [touches EXCEPT ![First(Entries(f))].phase = phase]

\* UpdateFromEvent of the keyboard, the mouse and the touch screen; each looks
\* at its own types of events.
UpdateFromEvent(e) ==
    /\ currentKeys' = CASE e.type = "Down" -> currentKeys \cup {e.what}
                        [] e.type = "Up" -> currentKeys \ {e.what}
                        [] OTHER -> currentKeys
    /\ CASE e.type = "TouchDown" -> TouchDown(e.what)
         [] e.type = "TouchMove" -> SetPhase(e.what, "Move")
         [] e.type = "TouchUp" -> SetPhase(e.what, "End")
         [] OTHER -> UNCHANGED touches
    /\ UNCHANGED previousKeys

\* EndFrame of each: what is current becomes previous, ended touches go.
EndFrame ==
    /\ previousKeys' = currentKeys
    /\ touches' = Kept(touches, {i \in DOMAIN touches : touches[i].phase # "End"})
    /\ UNCHANGED currentKeys

\* The fingers that GetTouch tells of.
Touching == {touches[i].finger : i \in {j \in DOMAIN touches : touches[j].phase # "End"}}
=============================================================================
