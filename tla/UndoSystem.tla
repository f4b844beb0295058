----------------------------- MODULE UndoSystem -----------------------------
(***************************************************************************)
(* The editor's undo system                                                *)
(* (TenEngine-024-editor/src/UndoSystemImpl.cpp): it executes the commands *)
(* it is given, keeps them on two stacks and owns them.                    *)
(*                                                                         *)
(* A command of the model sets the document: Execute and Redo to what it   *)
(* makes of it, Undo back to what it was.                                  *)
(***************************************************************************)
EXTENDS Integers, Sequences, SequencesExt

CONSTANTS MaxDepth,      \* m_maxDepth
          MaxCommands    \* bound: commands pushed

ASSUME DepthAssumption == MaxDepth \in Int /\ MaxCommands \in Nat

VARIABLES undoStack, redoStack,   \* the newest command last
          content,                \* the document
          pushed                  \* commands pushed so far

undoVars == <<undoStack, redoStack, content, pushed>>

\* A command is known by the content it makes.
Content == 0 .. MaxCommands
Command == [from : Content, to : Content \ {0}]

UndoInit ==
    /\ undoStack = <<>> /\ redoStack = <<>>
    /\ content = 0
    /\ pushed = 0

\* Only the front is dropped, and only one command; the command just executed
\* goes at once when the depth is 0.
Trimmed(stack) == IF Len(stack) > MaxDepth THEN Tail(stack) ELSE stack

\* Slip: what was undone stays to be redone.
PushCommandKeepingRedo ==
    /\ pushed < MaxCommands
    /\ pushed' = pushed + 1
    /\ content' = pushed'
    /\ undoStack' = Trimmed(Append(undoStack, [from |-> content, to |-> content']))
    /\ UNCHANGED redoStack

PushCommand ==
    /\ pushed < MaxCommands
    /\ pushed' = pushed + 1
    /\ content' = pushed'
    /\ undoStack' = Trimmed(Append(undoStack, [from |-> content, to |-> content']))
    /\ redoStack' = <<>>

UndoCommand ==
    /\ undoStack # <<>>
    /\ content' = Last(undoStack).from
    /\ redoStack' = Append(redoStack, Last(undoStack))
    /\ undoStack' = Front(undoStack)
    /\ UNCHANGED pushed

RedoCommand ==
    /\ redoStack # <<>>
    /\ content' = Last(redoStack).to
    /\ undoStack' = Append(undoStack, Last(redoStack))
    /\ redoStack' = Front(redoStack)
    /\ UNCHANGED pushed

UndoNext == PushCommand \/ UndoCommand \/ RedoCommand

UndoSpec == UndoInit /\ [][UndoNext]_undoVars

-----------------------------------------------------------------------------
(* Properties *)

\* The contents along the undo stack, and then along the redo stack, whose
\* newest command is the next.
RedoOrder == Reverse(redoStack)
UndoLine ==
    LET commands == undoStack \o RedoOrder
    IN  IF commands = <<>> THEN <<content>>
        ELSE <<commands[1].from>> \o [i \in DOMAIN commands |-> commands[i].to]

UndoTimeline == INSTANCE EditTimeline
    WITH Document <- Content, line <- UndoLine, here <- Len(undoStack) + 1, document <- content

\* Undo and redo walk the line of the contents the commands made, whatever is
\* pushed in between: no command is undone onto a content it did not find, none
\* redone onto one it was not made from, and what an edit cut off is gone.
UndoImplementsTimeline == UndoTimeline!TimelineSpec
=============================================================================
