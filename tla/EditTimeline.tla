---------------------------- MODULE EditTimeline ----------------------------
(***************************************************************************)
(* What an undo history promises: the states the document went through lie *)
(* on a line, the document shows the one the user is at, and going back    *)
(* and forth along the line shows each of them again.  An edit replaces    *)
(* what lies ahead; the oldest states may be forgotten.                    *)
(***************************************************************************)
EXTENDS Integers, Sequences

CONSTANT Document    \* states of the document

VARIABLES line,      \* the states the history can show, oldest first
          here,      \* the user's place on it
          document   \* what the document shows

timelineVars == <<line, here, document>>

TimelineInit == \E d \in Document : line = <<d>> /\ here = 1 /\ document = d

\* The first k states are forgotten.
From(states, k) == SubSeq(states, k + 1, Len(states))

Edit(d) ==
    LET longer == Append(SubSeq(line, 1, here), d)
    IN  /\ \E k \in 0 .. here : line' = From(longer, k)
        /\ here' = Len(line')
        /\ document' = d

Go(place) ==
    /\ here' = place
    /\ document' = line[place]
    /\ UNCHANGED line

Forget(k) ==
    /\ k < here
    /\ line' = From(line, k)
    /\ here' = here - k
    /\ UNCHANGED document

\* The history is cleared, or loses touch with the document and starts anew.
Restart(d) == line' = <<d>> /\ here' = 1 /\ document' = d

TimelineNext ==
    \/ \E d \in Document : Edit(d) \/ Restart(d)
    \/ \E place \in DOMAIN line : Go(place)
    \/ \E k \in 0 .. Len(line) : Forget(k)

TimelineSpec == TimelineInit /\ [][TimelineNext]_timelineVars
=============================================================================
