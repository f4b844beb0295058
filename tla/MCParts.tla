------------------------------ MODULE MCParts ------------------------------
(***************************************************************************)
(* Parts of the engine for TLC that are small and share nothing: in a      *)
(* behaviour one of them moves, the others stay as they began.             *)
(*                                                                         *)
(* TaskExecutor with three tasks.  SpatialIndex with two nodes in a world  *)
(* of eight by eight by eight, with a box smaller than a cell, one across  *)
(* the middle, one flat and one that reaches out of the world; rays in     *)
(* every direction, one along a side of a box.  EditorSettings with three  *)
(* actions, one of them without a key, two panels and a custom layout,     *)
(* a float with more than six digits, and texts of tools with and without  *)
(* the marks of a line, each of its objects by itself.                     *)
(***************************************************************************)
EXTENDS TaskExecutor, SpatialIndex, EditorSettings

Cube(low, high) == [d \in Axis |-> <<low, high>>]
MCBounds == Cube(0, 8)
Flat == [x |-> <<4, 6>>, y |-> <<6, 6>>, z |-> <<1, 3>>]
MCBoxes == {Cube(1, 3), Cube(2, 6), Flat, Cube(7, 10)}
MCQueryBoxes == {Cube(2, 2), Cube(3, 4), [x |-> <<5, 9>>, y |-> <<6, 8>>, z |-> <<0, 2>>],
                 Cube(8, 9)}

Vector(i, j, k) == [x |-> i, y |-> j, z |-> k]
Plane(normal, d) == [normal |-> normal, d |-> d]
MCFrusta == {{Plane(Vector(1, 0, 0), -2), Plane(Vector(-1, -1, 0), 6)},
             {Plane(Vector(0, 1, -1), -1)}}

Ray(origin, direction) == [origin |-> origin, direction |-> direction]
MCRays == {Ray(Vector(0, 0, 0), Vector(1, 1, 1)), Ray(Vector(9, 6, 2), Vector(-1, 0, 0)),
           Ray(Vector(5, 6, 0), Vector(0, 0, 1)), Ray(Vector(-1, 4, 5), Vector(1, -1, -1))}

MCActionIds == <<"copy", "open", "paste">>
MCDefaultBinding == [action \in {"copy", "open", "paste"} |->
    CASE action = "copy" -> "Ctrl+C" [] action = "open" -> "Ctrl+O" [] OTHER -> NoKey]

MCSixDigits == [v \in Number |-> IF v = 3 THEN 2 ELSE v]
MCToolText == {<<"diff">>, <<"a", "=", "b">>, <<"c", ",", "d">>}

VARIABLE unit   \* the one that moves

MCInit ==
    /\ unit \in {"executor", "index", "keys", "layouts", "preferences"}
    /\ Init
    /\ IndexInit /\ (unit # "index" => indexType = "None")
    /\ SettingsInit

Moves(which) == unit = which /\ UNCHANGED unit

besidesExecutor == <<indexVars, settingsVars>>

MCNext ==
    \/ Moves("executor") /\ Next /\ UNCHANGED besidesExecutor
    \/ Moves("index") /\ IndexNext /\ UNCHANGED <<vars, settingsVars>>
    \/ /\ \/ Moves("keys") /\ KeyNext
          \/ Moves("layouts") /\ LayoutNext
          \/ Moves("preferences") /\ PrefNext
       /\ UNCHANGED <<vars, indexVars>>

mcVars == <<vars, indexVars, settingsVars, unit>>

MCSpec ==
    /\ MCInit /\ [][MCNext]_mcVars
    /\ WF_mcVars(Moves("executor") /\ Worker /\ UNCHANGED besidesExecutor)
=============================================================================
