----------------------------- MODULE ThreadPool -----------------------------
(***************************************************************************)
(* The ThreadPool of the pipeline scheduler (TenEngine-020-pipeline,       *)
(* src/PipelineScheduler.cpp): a deque of tasks under a mutex, a condition *)
(* variable and some worker threads.  Tasks are named by the order they    *)
(* are posted in.  A worker at "check" or "doze" holds the mutex: it looks *)
(* at the predicate, and has found it false but does not sleep yet.        *)
(*                                                                         *)
(* PipelineScheduler composes these operations into its own steps.         *)
(***************************************************************************)
EXTENDS Integers, Sequences

CONSTANTS Worker, MaxPosts

VARIABLES tasks, running,
          posted,             \* history: how many tasks have been posted
          at,                 \* where each worker is
          doing               \* the task each worker runs, 0 for none

vars == <<tasks, running, posted, at, doing>>

At == {"gone", "loop", "check", "doze", "asleep", "woken", "run"}

TypeOK ==
    /\ tasks \in Seq(1 .. posted)
    /\ running \in BOOLEAN
    /\ posted \in 0 .. MaxPosts
    /\ at \in [Worker -> At]
    /\ doing \in [Worker -> 0 .. posted]
    /\ \A w \in Worker : doing[w] = 0 <=> at[w] # "run"

Init == /\ tasks = <<>>
        /\ running = FALSE
        /\ posted = 0
        /\ at = [w \in Worker |-> "gone"]
        /\ doing = [w \in Worker |-> 0]

Unlocked == \A w \in Worker : at[w] \notin {"check", "doze"}

Go(w, from, to) == at[w] = from /\ at' = [at EXCEPT ![w] = to]

-----------------------------------------------------------------------------
(* The owner's operations *)

Start == /\ running' = TRUE
         /\ at' = [w \in Worker |-> "loop"]
         /\ UNCHANGED <<tasks, posted, doing>>

Push == /\ Unlocked
        /\ posted < MaxPosts
        /\ posted' = posted + 1
        /\ tasks' = Append(tasks, posted + 1)
        /\ UNCHANGED <<running, at, doing>>

\* Slip: nobody is told.
NotifyNone == UNCHANGED vars

NotifyOne ==
    /\ IF \E w \in Worker : at[w] = "asleep"
       THEN \E w \in Worker : Go(w, "asleep", "woken")
       ELSE UNCHANGED at
    /\ UNCHANGED <<tasks, running, posted, doing>>

\* Stop clears the flag without the mutex.
ClearRunning == running' = FALSE /\ UNCHANGED <<tasks, posted, at, doing>>

NotifyAll ==
    /\ at' = [w \in Worker |-> IF at[w] = "asleep" THEN "woken" ELSE at[w]]
    /\ UNCHANGED <<tasks, running, posted, doing>>

Joined == \A w \in Worker : at[w] = "gone"

-----------------------------------------------------------------------------
(* WorkerLoop *)

\* The flag is read again under the mutex, so that what happens between the
\* loop's test and the lock needs no step of its own.
Enter(w) == /\ IF running THEN Unlocked /\ Go(w, "loop", "check") ELSE Go(w, "loop", "gone")
            /\ UNCHANGED <<tasks, running, posted, doing>>

Relock(w) == Unlocked /\ Go(w, "woken", "check") /\ UNCHANGED <<tasks, running, posted, doing>>

Break(w) == ~running /\ Go(w, "check", "gone") /\ UNCHANGED <<tasks, running, posted, doing>>

Take(w) ==
    /\ running
    /\ tasks # <<>>
    /\ Go(w, "check", "run")
    /\ doing' = [doing EXCEPT ![w] = Head(tasks)]
    /\ tasks' = Tail(tasks)
    /\ UNCHANGED <<running, posted>>

Doze(w) == /\ running
           /\ tasks = <<>>
           /\ Go(w, "check", "doze")
           /\ UNCHANGED <<tasks, running, posted, doing>>

Sleep(w) == Go(w, "doze", "asleep") /\ UNCHANGED <<tasks, running, posted, doing>>

SpuriousWakeup(w) == Go(w, "asleep", "woken") /\ UNCHANGED <<tasks, running, posted, doing>>

Finish(w) == /\ Go(w, "run", "loop")
             /\ doing' = [doing EXCEPT ![w] = 0]
             /\ UNCHANGED <<tasks, running, posted>>

\* What a worker does by itself; its task's end is the caller's.
WorkerStep(w) == Enter(w) \/ Relock(w) \/ Break(w) \/ Take(w) \/ Doze(w) \/ Sleep(w)

=============================================================================
