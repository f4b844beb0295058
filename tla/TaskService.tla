----------------------------- MODULE TaskService -----------------------------
(***************************************************************************)
(* What an ITaskExecutor (TenEngine-001-core, te/core/thread.h) promises   *)
(* to the modules that submit work to it, without its lock, its condition  *)
(* variable, its two tables or its worker thread: a task is accepted once, *)
(* waits, and then either runs alone to the end of its callback, or is     *)
(* withdrawn before it starts, and the tasks start in the order of their   *)
(* priority, first come first served among equals.                         *)
(*                                                                         *)
(* TaskExecutor implements this specification; AsyncLoad and DeviceUpload  *)
(* use its actions for the executors they submit to.                       *)
(***************************************************************************)
EXTENDS Integers

CONSTANTS MaxTasks,   \* bound: how many tasks are ever submitted
          Priority    \* the priorities a caller may give

TaskId == 1 .. MaxTasks

VARIABLES phase,      \* what has become of each task
          priority    \* the priority each task was submitted with

vars == <<phase, priority>>

\* A task submitted with a null callback has nothing to run: it is withdrawn by
\* the executor itself when its turn comes.
Phase == {"unused", "waiting", "running", "done", "withdrawn"}

TypeOK == /\ phase \in [TaskId -> Phase]
          /\ priority \in [TaskId -> Priority]

Waiting == {t \in TaskId : phase[t] = "waiting"}

Idle == \A t \in TaskId : phase[t] # "running"

\* Task t is taken before task u: higher priority first, then the older id.
Before(t, u) == \/ priority[t] > priority[u]
                \/ priority[t] = priority[u] /\ t < u

First(t) == t \in Waiting /\ \A u \in Waiting \ {t} : Before(t, u)

-----------------------------------------------------------------------------

Init == /\ phase = [t \in TaskId |-> "unused"]
        /\ priority = [t \in TaskId |-> 0]

\* Identifiers are handed out in increasing order.
Accept(t, p) ==
    /\ phase[t] = "unused"
    /\ \A u \in TaskId : u < t => phase[u] # "unused"
    /\ phase' = [phase EXCEPT ![t] = "waiting"]
    /\ priority' = [priority EXCEPT ![t] = p]

Withdraw(t) ==
    /\ phase[t] = "waiting"
    /\ phase' = [phase EXCEPT ![t] = "withdrawn"]
    /\ UNCHANGED priority

Start(t) ==
    /\ Idle
    /\ First(t)
    /\ phase' = [phase EXCEPT ![t] = "running"]
    /\ UNCHANGED priority

Finish(t) ==
    /\ phase[t] = "running"
    /\ phase' = [phase EXCEPT ![t] = "done"]
    /\ UNCHANGED priority

Next == \E t \in TaskId :
           \/ \E p \in Priority : Accept(t, p)
           \/ Withdraw(t)
           \/ Start(t)
           \/ Finish(t)

Spec == Init /\ [][Next]_vars

=============================================================================
