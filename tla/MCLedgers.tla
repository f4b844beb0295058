------------------------------ MODULE MCLedgers ------------------------------
(***************************************************************************)
(* Five components that keep books and share nothing, for TLC in one run:  *)
(* in a behaviour one of them moves, the others stay as they began.        *)
(*                                                                         *)
(* Repositories with two of them, two resources and the folders a and a/a; *)
(* UndoSystem with a depth of two; HistoryManager with a limit that lets   *)
(* everything in and one that cuts all but one; GraphicsDevice with two    *)
(* lists, two objects and pools of two sets, so that lists made again      *)
(* exhaust theirs; Allocation with two threads, two addresses and four     *)
(* blocks.                                                                 *)
(***************************************************************************)
EXTENDS Repositories, UndoSystem, HistoryManager, GraphicsDevice, Allocation, TLC

CONSTANTS g1, g2, h1, h2

MCPair == {g1, g2}      \* resources, or command lists
MCHandle == {h1, h2}
MCRepo == {"main", "second"}
MCPath == {<<>>, <<"a">>, <<"a", "a">>}
MCMaxSizes == {1, 3}
MCSymmetry == Permutations(MCPair) \cup Permutations(MCHandle)

VARIABLE unit           \* the one that moves

MCInit ==
    /\ Init /\ UndoInit /\ HistoryInit /\ DeviceInit /\ HeapInit
    /\ unit \in {"repositories", "undo", "history", "device", "heap"}
    /\ unit # "history" => maxSize = 3

Moves(which) == unit = which /\ UNCHANGED unit

MCNext ==
    \/ /\ Moves("repositories") /\ Next
       /\ UNCHANGED <<undoVars, historyVars, deviceVars, heapVars>>
    \/ /\ Moves("undo") /\ UndoNext
       /\ UNCHANGED <<vars, historyVars, deviceVars, heapVars>>
    \/ /\ Moves("history") /\ HistoryNext
       /\ UNCHANGED <<vars, undoVars, deviceVars, heapVars>>
    \/ /\ Moves("device") /\ DeviceNext
       /\ UNCHANGED <<vars, undoVars, historyVars, heapVars>>
    \/ /\ Moves("heap") /\ HeapNext
       /\ UNCHANGED <<vars, undoVars, historyVars, deviceVars>>

MCSpec == MCInit /\ [][MCNext]_<<vars, undoVars, historyVars, deviceVars, heapVars, unit>>
=============================================================================
