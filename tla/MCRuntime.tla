----------------------------- MODULE MCRuntime -----------------------------
(***************************************************************************)
(* Asynchronous loads and the life cycle of subsystems for TLC, which      *)
(* share nothing: in a behaviour one of them moves, the other stays as it  *)
(* began.                                                                  *)
(*                                                                         *)
(* AsyncLoad with two requests and two cancellations of each.              *)
(* SubsystemLifecycle with three subsystems, one of which comes and goes   *)
(* at any time, under half of the graphs of dependencies by name among     *)
(* them (cycles of two and of three included) and a few with one by type   *)
(* name.  Two have the same priority.                                      *)
(***************************************************************************)
EXTENDS AsyncLoad, SubsystemLifecycle, TLC

CONSTANTS s1, s2, s3
MCSubsystem == {s1, s2, s3}
MCLate == {s3}

None == [s \in MCSubsystem |-> {}]
Priority == (s1 :> 0) @@ (s2 :> 1) @@ (s3 :> 0)

ByName == {(s1 :> x) @@ (s2 :> y) @@ (s3 :> z) :
              x \in SUBSET {s2, s3}, y \in SUBSET {s1, s3}, z \in {{}, {s1, s3}}}

MCDescriptors ==
    {[byName |-> n, byType |-> None, priority |-> Priority] : n \in ByName}
    \union
    {[byName |-> n, byType |-> [None EXCEPT ![s1] = {s2}], priority |-> Priority] :
        n \in {None, [None EXCEPT ![s2] = {s3}], [None EXCEPT ![s2] = {s1}]}}

VARIABLE unit   \* the one that moves

MCInit ==
    /\ Init /\ LifecycleInit /\ unit \in {"loads", "subsystems"}
    /\ unit = "loads" => desc.byName = None /\ desc.byType = None

mcVars == <<vars, lifecycleVars, unit>>

Loads == unit = "loads" /\ UNCHANGED <<unit, lifecycleVars>>
Subsystems == unit = "subsystems" /\ UNCHANGED <<unit, vars>>

MCNext == (Loads /\ Next) \/ (Subsystems /\ LifecycleNext)

\* Only one of the two moves, so fairness of an action of either is fairness of both.
MCSpec ==
    /\ MCInit /\ [][MCNext]_mcVars
    /\ WF_mcVars((Loads /\ Loader) \/ (Subsystems /\ PassStep))
    /\ WF_mcVars(Loads /\ Canceller)
    /\ WF_mcVars(Loads /\ MainLoop)
    /\ \A r \in Request : WF_mcVars(Loads /\ Caller(r) /\ call[r] # "none")
=============================================================================
