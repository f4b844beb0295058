-------------------------- MODULE SingleThreadQueue --------------------------
(***************************************************************************)
(* SingleThreadQueue (TenEngine-020-pipeline, src/ThreadQueue.cpp): one    *)
(* thread that runs the tasks posted to it in order.  Unlike ThreadPool it *)
(* sets its stop flag under the mutex, and its thread ends only when the   *)
(* queue is empty.  Tasks are named by the order they are posted in; the   *)
(* thread holds the mutex at "check" and at "doze".                        *)
(*                                                                         *)
(* PipelineScheduler composes these operations into its own steps.         *)
(***************************************************************************)
EXTENDS Integers, Sequences

CONSTANT MaxPosts

VARIABLES queue, stop,
          posted,      \* history: how many tasks have been posted
          at,          \* where the thread is, "none" when there is no queue object
          doing        \* the task it runs, 0 for none

vars == <<queue, stop, posted, at, doing>>

At == {"none", "gone", "loop", "check", "doze", "asleep", "woken", "run"}

TypeOK ==
    /\ queue \in Seq(1 .. posted)
    /\ stop \in BOOLEAN
    /\ posted \in 0 .. MaxPosts
    /\ at \in At
    /\ doing \in 0 .. posted
    /\ doing = 0 <=> at # "run"

Init == queue = <<>> /\ stop = FALSE /\ posted = 0 /\ at = "none" /\ doing = 0

Alive == at # "none"

Unlocked == at \notin {"check", "doze"}

Go(from, to) == at = from /\ at' = to /\ UNCHANGED <<stop, posted>>

-----------------------------------------------------------------------------
(* The owner's operations *)

Construct == /\ at = "none"
             /\ at' = "loop"
             /\ stop' = FALSE
             /\ UNCHANGED <<queue, posted, doing>>

Push == /\ Unlocked
        /\ posted < MaxPosts
        /\ posted' = posted + 1
        /\ queue' = Append(queue, posted + 1)
        /\ UNCHANGED <<stop, at, doing>>

\* There is one thread to notify.
Notify == /\ at' = (IF at = "asleep" THEN "woken" ELSE at)
          /\ UNCHANGED <<queue, stop, posted, doing>>

\* The destructor.
SetStop == Unlocked /\ stop' = TRUE /\ UNCHANGED <<queue, posted, at, doing>>

JoinAndFree == Go("gone", "none") /\ UNCHANGED <<queue, doing>>

-----------------------------------------------------------------------------
(* The thread *)

Lock == Go("loop", "check") /\ UNCHANGED <<queue, doing>>

Relock == Go("woken", "check") /\ UNCHANGED <<queue, doing>>

Break == stop /\ queue = <<>> /\ Go("check", "gone") /\ UNCHANGED <<queue, doing>>

\* Slip: the newest task first.
TakeLast ==
    /\ queue # <<>>
    /\ Go("check", "run")
    /\ doing' = queue[Len(queue)]
    /\ queue' = SubSeq(queue, 1, Len(queue) - 1)

Take ==
    /\ queue # <<>>
    /\ Go("check", "run")
    /\ doing' = Head(queue)
    /\ queue' = Tail(queue)

Doze == ~stop /\ queue = <<>> /\ Go("check", "doze") /\ UNCHANGED <<queue, doing>>

Sleep == Go("doze", "asleep") /\ UNCHANGED <<queue, doing>>

SpuriousWakeup == Go("asleep", "woken") /\ UNCHANGED <<queue, doing>>

Finish == Go("run", "loop") /\ doing' = 0 /\ UNCHANGED queue

\* What the thread does by itself; tasks return.
ThreadStep == Lock \/ Relock \/ Break \/ Take \/ Doze \/ Sleep \/ Finish

-----------------------------------------------------------------------------
(* What the queue promises is a TaskService whose tasks are all equal. *)

Phase(t) ==
    CASE t > posted -> "unused"
      [] \E i \in 1 .. Len(queue) : queue[i] = t -> "waiting"
      [] t = doing -> "running"
      [] OTHER -> "done"

Service == INSTANCE TaskService WITH
              MaxTasks <- MaxPosts,
              Priority <- {0},
              phase <- [t \in 1 .. MaxPosts |-> Phase(t)],
              priority <- [t \in 1 .. MaxPosts |-> 0]

=============================================================================
