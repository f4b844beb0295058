---------------------------- MODULE TaskExecutor ----------------------------
(***************************************************************************)
(* SingleThreadExecutor (TenEngine-001-core/src/thread.cpp): a worker      *)
(* thread, a mutex m_, a condition variable cv_, a vector of queued items  *)
(* and a table of the items that can still be cancelled or asked about.    *)
(*                                                                         *)
(* Every critical section of m_ is one action.  The worker's steps outside *)
(* the lock are actions of their own, so that a CancelTask may come        *)
(* between any two of them.  Any number of threads call the executor; a    *)
(* call is one critical section, so callers keep no state here.            *)
(*                                                                         *)
(* priority_queue_ is a set: an item is pushed at the back in the critical *)
(* section that draws its id and items never move, so the vector is always *)
(* in the order of the ids.                                                *)
(***************************************************************************)
EXTENDS Integers

CONSTANTS MaxTasks,   \* bound: SubmitTaskWithPriority calls that are accepted
          Priority    \* the priorities a caller may give

ASSUME MaxTasksAssumption == MaxTasks \in Nat
ASSUME PriorityAssumption == Priority \subseteq Int /\ 0 \in Priority

TaskId == 1 .. MaxTasks

VARIABLES nextTaskId,      \* nextTaskId_
          priority_queue,  \* ids of the items in priority_queue_
          tasks,           \* keys of tasks_
          priority,        \* TaskItem::priority
          callback,        \* ids whose TaskItem::callback is not null
          status,          \* TaskItem::status
          cancelled,       \* ids whose TaskItem::cancelled is set
          shutdown,        \* shutdown_
          worker,          \* where the worker thread is
          item             \* the worker's local item, 0 for none

table == <<nextTaskId, priority_queue, tasks, priority, callback>>
vars == <<table, status, cancelled, shutdown, worker, item>>

TaskStatus == {"Pending", "Loading", "Completed", "Failed", "Cancelled"}

(***************************************************************************)
(* "ready": about to test the wait predicate; "blocked": asleep in cv_;    *)
(* "running": in the callback; "returned": before the store of Completed;  *)
(* "stored": before the erase from tasks_.                                 *)
(***************************************************************************)
WorkerState == {"ready", "blocked", "running", "returned", "stored", "exited"}

TypeOK ==
    /\ nextTaskId \in 1 .. (MaxTasks + 1)
    /\ priority_queue \subseteq TaskId
    /\ tasks \subseteq TaskId
    /\ priority \in [TaskId -> Priority]
    /\ callback \subseteq TaskId
    /\ status \in [TaskId -> TaskStatus]
    /\ cancelled \subseteq TaskId
    /\ shutdown \in BOOLEAN
    /\ worker \in WorkerState
    /\ item \in TaskId \cup {0}

Init ==
    /\ nextTaskId = 1
    /\ priority_queue = {}
    /\ tasks = {}
    /\ priority = [t \in TaskId |-> 0]
    /\ callback = {}
    /\ status = [t \in TaskId |-> "Pending"]
    /\ cancelled = {}
    /\ shutdown = FALSE
    /\ worker = "ready"
    /\ item = 0

-----------------------------------------------------------------------------

\* Slip: the notify is forgotten.
NotifiedNobody == worker

\* cv_.notify_one and cv_.notify_all: only the worker ever waits.
Notified == IF worker = "blocked" THEN "ready" ELSE worker

\* SubmitTaskWithPriority (SubmitTask gives priority 0); c tells whether the
\* callback is there.  After shutdown_ the call returns 0 and does nothing.
SubmitTaskWithPriority(p, c) ==
    /\ nextTaskId <= MaxTasks
    /\ ~shutdown
    /\ nextTaskId' = nextTaskId + 1
    /\ priority_queue' = priority_queue \cup {nextTaskId}
    /\ tasks' = tasks \cup {nextTaskId}
    /\ priority' = [priority EXCEPT ![nextTaskId] = p]
    /\ callback' = IF c THEN callback \cup {nextTaskId} ELSE callback
    /\ worker' = Notified
    /\ UNCHANGED <<status, cancelled, shutdown, item>>

\* Slip: the entry stays in tasks_.
CancelTaskKeepingEntry(t) ==
    /\ t \in tasks
    /\ status[t] \notin {"Completed", "Failed"}
    /\ cancelled' = cancelled \cup {t}
    /\ status' = [status EXCEPT ![t] = "Cancelled"]
    /\ UNCHANGED <<table, shutdown, worker, item>>

\* CancelTask when it answers true; when it answers false it changes nothing.
CancelTask(t) ==
    /\ t \in tasks
    /\ status[t] \notin {"Completed", "Failed"}
    /\ cancelled' = cancelled \cup {t}
    /\ status' = [status EXCEPT ![t] = "Cancelled"]
    /\ tasks' = tasks \ {t}
    /\ UNCHANGED <<nextTaskId, priority_queue, priority, callback, shutdown,
                   worker, item>>

\* GetTaskStatus: the answer it gives for t.
GetTaskStatus(t) == IF t \in tasks THEN status[t] ELSE "Completed"

\* ~SingleThreadExecutor up to the join.
Shutdown ==
    /\ ~shutdown
    /\ shutdown' = TRUE
    /\ worker' = Notified
    /\ UNCHANGED <<table, status, cancelled, item>>

-----------------------------------------------------------------------------

\* Slip: <= in the comparison of std::max_element returns the newest instead.
HighestLast(t) ==
    /\ t \in priority_queue
    /\ \A u \in priority_queue : \/ priority[u] < priority[t]
                                 \/ priority[u] = priority[t] /\ t >= u

\* PopHighestPriorityTask: std::max_element returns the first of the items
\* with the greatest priority.
Highest(t) ==
    /\ t \in priority_queue
    /\ \A u \in priority_queue : \/ priority[u] < priority[t]
                                 \/ priority[u] = priority[t] /\ t <= u

\* Slip: the wait predicate leaves out shutdown_.
WaitForWorkOnly ==
    /\ worker = "ready"
    /\ priority_queue = {}
    /\ worker' = "blocked"
    /\ UNCHANGED <<table, status, cancelled, shutdown, item>>

\* cv_.wait finds its predicate false.
WaitForWork ==
    /\ worker = "ready"
    /\ ~shutdown /\ priority_queue = {}
    /\ worker' = "blocked"
    /\ UNCHANGED <<table, status, cancelled, shutdown, item>>

\* A condition variable may wake a waiter nobody notified.
SpuriousWakeup ==
    /\ worker = "blocked"
    /\ worker' = "ready"
    /\ UNCHANGED <<table, status, cancelled, shutdown, item>>

Pop(t) ==
    /\ worker = "ready"
    /\ Highest(t)
    /\ priority_queue' = priority_queue \ {t}
    /\ UNCHANGED <<nextTaskId, tasks, priority, callback, cancelled, shutdown>>

\* The popped item was cancelled while it was queued.
SkipCancelled(t) ==
    /\ Pop(t)
    /\ t \in cancelled
    /\ UNCHANGED <<status, worker, item>>

\* The popped item is marked and, the lock released, its callback is called.
StartTask(t) ==
    /\ Pop(t)
    /\ t \notin cancelled
    /\ t \in callback
    /\ status' = [status EXCEPT ![t] = "Loading"]
    /\ worker' = "running"
    /\ item' = t

\* The same with a null callback: the item is marked and forgotten.
DropTask(t) ==
    /\ Pop(t)
    /\ t \notin cancelled
    /\ t \notin callback
    /\ status' = [status EXCEPT ![t] = "Loading"]
    /\ UNCHANGED <<worker, item>>

CallbackReturns ==
    /\ worker = "running"
    /\ worker' = "returned"
    /\ UNCHANGED <<table, status, cancelled, shutdown, item>>

\* status.store(Completed), without the lock.
StoreCompleted ==
    /\ worker = "returned"
    /\ status' = [status EXCEPT ![item] = "Completed"]
    /\ worker' = "stored"
    /\ UNCHANGED <<table, cancelled, shutdown, item>>

EraseTask ==
    /\ worker = "stored"
    /\ tasks' = tasks \ {item}
    /\ item' = 0
    /\ worker' = "ready"
    /\ UNCHANGED <<nextTaskId, priority_queue, priority, callback, status,
                   cancelled, shutdown>>

\* Slip: the loop breaks on shutdown_ alone.
ExitWithoutDraining ==
    /\ worker = "ready"
    /\ shutdown
    /\ worker' = "exited"
    /\ UNCHANGED <<table, status, cancelled, shutdown, item>>

Exit ==
    /\ worker = "ready"
    /\ shutdown /\ priority_queue = {}
    /\ worker' = "exited"
    /\ UNCHANGED <<table, status, cancelled, shutdown, item>>

-----------------------------------------------------------------------------

Caller == \/ \E p \in Priority, c \in BOOLEAN : SubmitTaskWithPriority(p, c)
          \/ \E t \in TaskId : CancelTask(t)
          \/ Shutdown

Worker == \/ WaitForWork
          \/ \E t \in TaskId : SkipCancelled(t) \/ StartTask(t) \/ DropTask(t)
          \/ CallbackReturns
          \/ StoreCompleted
          \/ EraseTask
          \/ Exit

Next == Caller \/ Worker \/ SpuriousWakeup

Spec == Init /\ [][Next]_vars

\* The operating system runs the worker and every callback returns; nothing
\* obliges a caller to submit, to cancel or to shut down.
FairSpec == Spec /\ WF_vars(Worker)

-----------------------------------------------------------------------------

Accepted == 1 .. (nextTaskId - 1)

\* The refinement mapping: what has become of task t.
PhaseOf(t) ==
    IF t \notin Accepted THEN "unused"
    ELSE IF t \in priority_queue
         THEN IF t \in cancelled THEN "withdrawn" ELSE "waiting"
    ELSE IF item = t
         THEN IF worker = "running" THEN "running" ELSE "done"
    ELSE IF status[t] = "Completed" THEN "done" ELSE "withdrawn"

Service == INSTANCE TaskService WITH phase <- [t \in TaskId |-> PhaseOf(t)]

\* The executor implements the service: a task runs at most once, alone, never
\* after it was withdrawn, and never before one that should go first.
ImplementsService == Service!Spec

\* No lost wake-up: the worker never sleeps in cv_.wait while there is an
\* item to pop or a shutdown to honour.
NoLostWakeup == worker = "blocked" => ~shutdown /\ priority_queue = {}

\* tasks_ holds exactly the items somebody may still cancel: every queued item
\* that was not cancelled, the one the worker has in hand, and nothing that has
\* run; only an item whose callback is null is left behind in it.
TaskTableExact ==
    \A t \in TaskId :
       /\ t \in priority_queue => (t \in tasks <=> t \notin cancelled)
       /\ t \in tasks /\ t \notin priority_queue => t = item \/ t \notin callback
       /\ t \in tasks => t \notin cancelled

\* When the worker thread has ended no accepted task was lost: each has run,
\* was withdrawn, or had no callback, and the destructor's join can return.
DrainedAtExit ==
    worker = "exited" =>
       \A t \in Accepted : PhaseOf(t) \in {"done", "withdrawn"}

\* Once the destructor has set shutdown_, the worker thread ends.
ShutdownCompletes == shutdown ~> (worker = "exited")

\* A task that is accepted is not left waiting once callers stop submitting.
EveryTaskServed ==
    \A t \in TaskId : (t \in priority_queue) ~> (t \notin priority_queue)

\* GetTaskStatus guesses Completed for an id that has left tasks_; it is right
\* that such a task will not run any more, unless it was cancelled as it ran.
CompletedIsOver ==
    \A t \in Accepted \ cancelled :
       GetTaskStatus(t) = "Completed" => PhaseOf(t) = "done"

\* What a user of the queue relies on, at every moment: the worker is awake when
\* there is something for it, the destructor loses nothing, and a task that is
\* reported Completed is over.
QueueSound == NoLostWakeup /\ DrainedAtExit /\ CompletedIsOver

=============================================================================
