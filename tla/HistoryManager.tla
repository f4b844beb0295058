--------------------------- MODULE HistoryManager ---------------------------
(***************************************************************************)
(* The editor's history with compound actions, bookmarks, jumps and a      *)
(* limit that can be set (TenEngine-024-editor/src/HistoryManager.cpp).    *)
(*                                                                         *)
(* The document is one value.  Who edits it sets it and records the action *)
(* with the callbacks that set it back (undo) and forth (redo).            *)
(*                                                                         *)
(* Beyond the end of m_actions there is no action to call: a read there is *)
(* any value.                                                              *)
(***************************************************************************)
EXTENDS Integers, Sequences, FiniteSets, SequencesExt

CONSTANTS MaxEdits,       \* bound: edits of the document
          MaxActionId,    \* bound: the largest id given to an action
          MaxBookmarks,   \* bound: bookmarks at a time
          MaxSizes        \* the sizes SetMaxHistorySize is called with

ASSUME HistoryAssumption == /\ MaxEdits \in Nat /\ MaxActionId \in Nat
                            /\ MaxBookmarks \in Nat /\ MaxSizes \subseteq Nat

VARIABLES value,              \* the document: 0, then the number of the edit
          edited,
          actions,            \* m_actions
          currentPos,         \* m_currentPos
          nextActionId,       \* m_nextActionId
          maxSize,            \* m_maxSize
          recordingPaused,    \* m_recordingPaused
          inCompoundAction,   \* m_inCompoundAction
          compoundActions,    \* m_compoundActions: ids
          bookmarks,          \* m_bookmarks
          straight            \* the history tells how the document came about

historyVars == <<value, edited, actions, currentPos, nextActionId, maxSize, recordingPaused,
                 inCompoundAction, compoundActions, bookmarks, straight>>
settings == <<maxSize, recordingPaused, inCompoundAction, compoundActions>>

Value == 0 .. MaxEdits

\* before and after are what undo and redo set; a compound has parts instead.
HistoryAction == [id : Nat, type : {"Transform", "PropertyChange", "Multiple"},
                  before : Value, after : Value, parts : Seq(Nat)]

\* seen and faithful are not in the code: the value at the bookmark, and
\* whether the history was straight.
HistoryBookmark == [actionId : Nat, seen : Value, faithful : BOOLEAN]

HistoryInit ==
    /\ value = 0 /\ edited = 0
    /\ actions = <<>> /\ currentPos = 0
    /\ nextActionId = 1
    /\ maxSize \in MaxSizes
    /\ recordingPaused = FALSE
    /\ inCompoundAction = FALSE /\ compoundActions = <<>>
    /\ bookmarks = {}
    /\ straight = TRUE

-----------------------------------------------------------------------------
(* Adding *)

AtEnd(as) == [actions |-> as, pos |-> Len(as)]

\* Slip: the position stays where it was.
TrimHistoryOnly(h, size) ==
    LET excess == IF Len(h.actions) > size THEN Len(h.actions) - size ELSE 0
    IN  [actions |-> SubSeq(h.actions, excess + 1, Len(h.actions)), pos |-> h.pos]

\* TrimHistory: the oldest go; the position moves with what it counts.
TrimHistory(h, size) ==
    LET excess == IF Len(h.actions) > size THEN Len(h.actions) - size ELSE 0
    IN  [actions |-> SubSeq(h.actions, excess + 1, Len(h.actions)),
         pos |-> IF h.pos > excess THEN h.pos - excess ELSE 0]

\* What can be redone goes; a position beyond the end removes nothing.
AddAction(action) ==
    LET kept == IF currentPos < Len(actions) THEN SubSeq(actions, 1, currentPos) ELSE actions
    IN  TrimHistory(AtEnd(Append(kept, action)), maxSize)

History(h) == actions' = h.actions /\ currentPos' = h.pos

\* An empty history tells nothing false.
Straight(still) == straight' = (still \/ (actions' = <<>> /\ currentPos' = 0))

\* Slip: an id is the place in the history.
NewIdByPlace == currentPos + 1

NewId == nextActionId

TakeId == nextActionId <= MaxActionId /\ nextActionId' = nextActionId + 1

\* The document is edited, and its action recorded ...
RecordAction(type) ==
    /\ ~recordingPaused
    /\ edited < MaxEdits
    /\ edited' = edited + 1 /\ value' = edited'
    /\ TakeId
    /\ compoundActions' = IF inCompoundAction THEN Append(compoundActions, NewId) ELSE compoundActions
    /\ History(AddAction([id |-> NewId, type |-> type, before |-> value, after |-> value', parts |-> <<>>]))
    /\ Straight(straight)
    /\ UNCHANGED <<maxSize, recordingPaused, inCompoundAction, bookmarks>>

\* ... or, while recording is paused, not.
EditUnrecorded ==
    /\ recordingPaused
    /\ edited < MaxEdits
    /\ edited' = edited + 1 /\ value' = edited'
    /\ UNCHANGED <<actions, currentPos, nextActionId, settings, bookmarks>>
    /\ Straight(FALSE)

\* PauseRecording and ResumeRecording
PauseRecording(paused) ==
    /\ recordingPaused' = paused
    /\ UNCHANGED <<value, edited, actions, currentPos, nextActionId, maxSize, inCompoundAction,
                   compoundActions, bookmarks, straight>>

BeginCompoundAction ==
    /\ ~inCompoundAction
    /\ inCompoundAction' = TRUE
    /\ compoundActions' = <<>>
    /\ UNCHANGED <<value, edited, actions, currentPos, nextActionId, maxSize, recordingPaused,
                   bookmarks, straight>>

\* The compound comes after its parts, which stay in the history.
EndCompoundAction ==
    /\ inCompoundAction
    /\ inCompoundAction' = FALSE
    /\ IF compoundActions = <<>>
       THEN UNCHANGED <<actions, currentPos, nextActionId, compoundActions, straight>>
       ELSE /\ TakeId
            /\ History(AddAction([id |-> NewId, type |-> "Multiple", before |-> value,
                                  after |-> value, parts |-> compoundActions]))
            /\ compoundActions' = <<>>
            /\ Straight(FALSE)
    /\ UNCHANGED <<value, edited, maxSize, recordingPaused, bookmarks>>

-----------------------------------------------------------------------------
(* Undo, redo and jumps *)

WithId(id) == {i \in DOMAIN actions : actions[i].id = id}

FindAction(id) == actions[Min(WithId(id))]

\* The parts of a compound that the history still has.
PartsFound(action) == {i \in DOMAIN action.parts : WithId(action.parts[i]) # {}}

\* The callbacks set values, so that of a compound's the last one counts: of
\* the first part when they are undone, of the last when they are redone.
UndoneFrom(v, action) ==
    IF action.type # "Multiple" THEN action.before
    ELSE IF PartsFound(action) = {} THEN v
    ELSE FindAction(action.parts[Min(PartsFound(action))]).before

RedoneFrom(v, action) ==
    IF action.type # "Multiple" THEN action.after
    ELSE IF PartsFound(action) = {} THEN v
    ELSE FindAction(action.parts[Max(PartsFound(action))]).after

\* What one undo may make of v when pos actions are in effect, and one redo.
Undone(v, pos) == IF pos <= Len(actions) THEN {UndoneFrom(v, actions[pos])} ELSE Value
Redone(v, pos) == {RedoneFrom(v, actions[pos + 1])}

CanUndo == currentPos > 0 /\ actions # <<>>
CanRedo == currentPos < Len(actions)

\* The loop of JumpToPosition: what the document may show after its last round.
AfterRounds(position) ==
    LET back == position < currentPos
        rounds == IF back THEN currentPos - position ELSE position - currentPos
        values[k \in 0 .. rounds] ==
            IF k = 0 THEN {value}
            ELSE UNION {IF back THEN Undone(v, currentPos - k + 1)
                                ELSE Redone(v, currentPos + k - 1) : v \in values[k - 1]}
    IN  values[rounds]

\* One Undo or Redo is one round of it.
Go(position) ==
    /\ value' \in AfterRounds(position)
    /\ currentPos' = position
    /\ UNCHANGED <<edited, actions, nextActionId, settings, bookmarks>>
    /\ Straight(straight)

Undo == CanUndo /\ Go(currentPos - 1)
Redo == CanRedo /\ Go(currentPos + 1)

JumpToPosition(position) ==
    /\ position <= Len(actions)
    /\ IF position < currentPos THEN CanUndo ELSE TRUE
    /\ Go(position)

-----------------------------------------------------------------------------
(* Bookmarks *)

\* The action the bookmark stands after, 0 at the start; any id when that is
\* read beyond the end.
BookmarkedId ==
    IF currentPos = 0 THEN {0}
    ELSE IF currentPos <= Len(actions) THEN {actions[currentPos].id}
    ELSE 0 .. MaxActionId

CreateBookmark ==
    /\ Cardinality(bookmarks) < MaxBookmarks
    /\ \E id \in BookmarkedId :
          bookmarks' = bookmarks \cup {[actionId |-> id, seen |-> value, faithful |-> straight]}
    /\ UNCHANGED <<value, edited, actions, currentPos, nextActionId, settings, straight>>

DeleteBookmark(b) ==
    /\ bookmarks' = bookmarks \ {b}
    /\ UNCHANGED <<value, edited, actions, currentPos, nextActionId, settings, straight>>

\* JumpToBookmark and the JumpToAction it calls: past the action, when the
\* history still has it.
Places(b) == WithId(b.actionId)

JumpToBookmark(b) == \E i \in Places(b) : JumpToPosition(i)

-----------------------------------------------------------------------------
(* Management *)

ClearHistory ==
    /\ actions' = <<>> /\ currentPos' = 0
    /\ bookmarks' = {}
    /\ Straight(TRUE)
    /\ UNCHANGED <<value, edited, nextActionId, settings>>

\* The oldest actions go even when they are undone and still to be redone.
SetMaxHistorySize(size) ==
    /\ maxSize' = size
    /\ History(TrimHistory([actions |-> actions, pos |-> currentPos], size))
    /\ Straight(straight /\ Len(actions) - currentPos <= size)
    /\ UNCHANGED <<value, edited, nextActionId, recordingPaused, inCompoundAction, compoundActions, bookmarks>>

\* CompressHistory: a run of transforms becomes one, undone as the first and
\* redone as the last.  The position is not touched.
Compressed ==
    LET merged[n \in 0 .. Len(actions)] ==
            IF n = 0 THEN <<>>
            ELSE LET done == merged[n - 1]
                 IN  IF done # <<>> /\ Last(done).type = "Transform" /\ actions[n].type = "Transform"
                     THEN [done EXCEPT ![Len(done)].after = actions[n].after]
                     ELSE Append(done, actions[n])
    IN  merged[Len(actions)]

CompressHistory ==
    /\ actions' = Compressed
    /\ UNCHANGED <<value, edited, currentPos, nextActionId, settings, bookmarks>>
    /\ Straight(straight /\ actions' = actions)

-----------------------------------------------------------------------------

HistoryNext ==
    \/ \E type \in {"Transform", "PropertyChange"} : RecordAction(type)
    \/ EditUnrecorded
    \/ \E paused \in BOOLEAN : PauseRecording(paused)
    \/ BeginCompoundAction \/ EndCompoundAction
    \/ Undo \/ Redo
    \/ \E position \in 0 .. Len(actions) : JumpToPosition(position)
    \/ CreateBookmark
    \/ \E b \in bookmarks : DeleteBookmark(b) \/ JumpToBookmark(b)
    \/ ClearHistory
    \/ \E size \in MaxSizes : SetMaxHistorySize(size)
    \/ CompressHistory

HistorySpec == HistoryInit /\ [][HistoryNext]_historyVars

-----------------------------------------------------------------------------
(* Properties *)

HistoryTypeOK ==
    /\ actions \in Seq(HistoryAction)
    /\ currentPos \in Nat
    /\ bookmarks \subseteq HistoryBookmark
    /\ straight \in BOOLEAN

Told == straight /\ actions # <<>>

HistoryLine ==
    IF Told THEN <<actions[1].before>> \o [i \in DOMAIN actions |-> actions[i].after] ELSE <<value>>
HistoryPlace == IF Told THEN currentPos + 1 ELSE 1

Timeline == INSTANCE EditTimeline
    WITH Document <- Value, line <- HistoryLine, here <- HistoryPlace, document <- value

\* While no compound was closed, no edit went unrecorded, no merge happened and
\* no action was dropped before it was redone, undo, redo and jumps of any
\* length show the values on the line of edits, through whatever is recorded
\* after an undo and however the limit cuts the history.
HistoryImplementsTimeline == Timeline!TimelineSpec

\* A bookmark made on a straight history leads back to the value it was made
\* at, or nowhere: never to an action that came to be where that one was.
BookmarksReturn ==
    /\ HistoryTypeOK
    /\ straight => \A b \in bookmarks : b.faithful => \A i \in Places(b) : actions[i].after = b.seen
=============================================================================
