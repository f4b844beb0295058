------------------------------ MODULE MCLoops ------------------------------
(***************************************************************************)
(* The main loop and the scheduler of the pipeline for TLC, which share    *)
(* nothing: in a behaviour one of them moves, the other stays as it began. *)
(*                                                                         *)
(* ApplicationLoop with two callbacks, two windows, two tick callbacks, a  *)
(* key, a finger and three inputs.  PipelineScheduler with two workers,    *)
(* two updates, two tasks of the GPU queue and two lives.                  *)
(***************************************************************************)
EXTENDS ApplicationLoop, PipelineScheduler

CONSTANTS c1, c2, w1, w2
MCCallback == {c1, c2}
MCWorker == {w1, w2}

VARIABLE unit   \* the one that moves

MCInit == LoopInit /\ Init /\ unit \in {"loop", "scheduler"}

mcVars == <<loopVars, vars, unit>>

TheLoop == unit = "loop" /\ UNCHANGED <<unit, vars>>
TheScheduler == unit = "scheduler" /\ UNCHANGED <<unit, loopVars>>

MCNext == (TheLoop /\ LoopNext) \/ (TheScheduler /\ Next)

\* Only one of the two moves, so fairness of an action of either is fairness of both.
MCSpec ==
    /\ MCInit /\ [][MCNext]_mcVars
    /\ WF_mcVars((TheLoop /\ Run) \/ (TheScheduler /\ MainContinues))
    /\ WF_mcVars((TheLoop /\ RunOnWorker) \/ (TheScheduler /\ RunGpuQueue))
    /\ WF_mcVars((TheLoop /\ SubmitToWorker(c1)) \/ (TheScheduler /\ WorkerProgress(w1)))
    /\ WF_mcVars((TheLoop /\ SubmitToWorker(c2)) \/ (TheScheduler /\ WorkerProgress(w2)))
    /\ WF_mcVars(TheScheduler /\ WorkerPosts(w1))
    /\ WF_mcVars(TheScheduler /\ WorkerPosts(w2))
=============================================================================
