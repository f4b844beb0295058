------------------------------ MODULE MCUnits ------------------------------
(***************************************************************************)
(* Five components for TLC that are small and share nothing: in a          *)
(* behaviour one of them moves, the others stay as they began.             *)
(*                                                                         *)
(* ConditionVariable with three waiters and two setters.  FrameGraph with  *)
(* three passes, so that a pass can be behind a cycle of the two others,   *)
(* two resources and five uses.  ResourceCache with a material, whose      *)
(* GUID is that of its file, and a texture, which generates one; three     *)
(* instances, so that one file can be loaded, given back and loaded again  *)
(* beside the other, or twice at a time; both clients load both.           *)
(* Serializers with TestStruct, the type of the tests, CompileOptions and  *)
(* ShaderAssetDesc of the shader module with fewer words, and what else a  *)
(* client of the library may register: typed words before a GUID, and an   *)
(* array.  EditorSession with three addresses for entities, two for worlds *)
(* and one file, which describes a node with a child; a session plays and  *)
(* edits, or copies and disables.                                          *)
(***************************************************************************)
EXTENDS ConditionVariable, FrameGraph, ResourceCache, Serializers, EditorSession, TLC

CONSTANTS a, b, e1, e2, e3
MCPair == {a, b}           \* setters, resources, clients, or worlds
MCTriple == {e1, e2, e3}   \* waiters, or nodes
MCSymmetry == Permutations(MCPair) \cup Permutations(MCTriple)

CONSTANTS material, texture
MCPath == {material, texture}
JustTexture == {texture}

Prop(name, of, size) == [name |-> name, of |-> of, size |-> size]

MCProperties ==
    ("TestStruct" :> <<Prop("value", "none", 4), Prop("fvalue", "none", 4)>>) @@
    ("CompileOptions" :> <<Prop("stage", "none", 4), Prop("generateDebugInfo", "none", 1),
                           Prop("entryPoint", "none", 64)>>) @@
    ("ShaderAssetDesc" :> <<Prop("guid", "none", 16), Prop("compileOptions", "CompileOptions", 96),
                            Prop("sourceFormat", "none", 4)>>) @@
    ("GUID" :> <<>>) @@ ("Word" :> <<>>) @@
    ("Link" :> <<Prop("value", "Word", 4), Prop("guid", "GUID", 16)>>) @@
    ("Grid" :> <<Prop("cells", "Word", 8), Prop("value", "none", 4)>>)

MCBytes ==
    ("TestStruct" :> 8) @@ ("CompileOptions" :> 96) @@ ("ShaderAssetDesc" :> 116) @@
    ("GUID" :> 16) @@ ("Word" :> 4) @@ ("Link" :> 20) @@ ("Grid" :> 12)

MCLate == {"CompileOptions"}

CONSTANTS p1, n1, v1, v2
MCLevelPath == {p1}
MCName == {n1}
MCValue == {v1, v2}
MCDesc == {<<[name |-> n1, up |-> 0], [name |-> n1, up |-> 1]>>}
PlaysAndEdits == {"play", "edit"}
MCHandlerSets == {PlaysAndEdits, {"clipboard", "disable"}}

VARIABLE unit   \* the one that moves

MCInit ==
    /\ VariableInit /\ GraphInit /\ Init /\ ObjectInit /\ SessionInit
    /\ unit \in {"variable", "graph", "cache", "objects", "session"}
    /\ unit # "session" => uses = PlaysAndEdits

Moves(which) == unit = which /\ UNCHANGED unit

besidesSession == <<variableVars, graphVars, vars, objectVars>>

MCNext ==
    \/ /\ Moves("variable") /\ VariableNext
       /\ UNCHANGED <<graphVars, vars, objectVars, sessionVars>>
    \/ /\ Moves("graph") /\ GraphNext
       /\ UNCHANGED <<variableVars, vars, objectVars, sessionVars>>
    \/ /\ Moves("cache") /\ Next
       /\ UNCHANGED <<variableVars, graphVars, objectVars, sessionVars>>
    \/ /\ Moves("objects") /\ ObjectNext
       /\ UNCHANGED <<variableVars, graphVars, vars, sessionVars>>
    \/ Moves("session") /\ SessionNext /\ UNCHANGED besidesSession

mcVars == <<besidesSession, sessionVars, unit>>

MCSpec == MCInit /\ [][MCNext]_mcVars

\* The session alone, with the Delete command.
MCSpecDeleting ==
    MCInit /\ [][Moves("session") /\ NextDeleting /\ UNCHANGED besidesSession]_mcVars
=============================================================================
