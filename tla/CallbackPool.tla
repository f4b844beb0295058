---------------------------- MODULE CallbackPool ----------------------------
(***************************************************************************)
(* DefaultThreadPool (TenEngine-001-core/src/thread.cpp) as the router of  *)
(* completion callbacks: SubmitTask sends a callback to the main thread's  *)
(* queue or to the worker executor, whichever SetCallbackThread chose      *)
(* last, and ProcessMainThreadCallbacks, called once a frame by the main   *)
(* loop, takes the whole queue and runs it without the lock.               *)
(*                                                                         *)
(* Everything that reaches the worker executor has priority 0, so for the  *)
(* pool that executor (module TaskExecutor) is a first-in first-out queue  *)
(* served by one thread.  Module ApplicationLoop composes the pool with    *)
(* the main loop, module AsyncLoad with the loads that submit callbacks.   *)
(***************************************************************************)
EXTENDS Integers, Sequences, Functions

CONSTANTS Callback   \* the callbacks ever submitted: pairs of code and data

VARIABLES callbackThreadType,     \* callbackThreadType_
          main_thread_callbacks,  \* main_thread_callbacks_
          batch,                  \* what ProcessMainThreadCallbacks has yet to run
          toWorker,               \* callbacks whose SubmitTask chose the worker and
                                  \* released main_m_, not yet submitted to it
          workerQueue,            \* the worker executor's queue
          ranMain, ranWorker,     \* history: callbacks each thread has run
          sentMain                \* history: callbacks queued for the main thread

mainVars == <<main_thread_callbacks, batch, ranMain, sentMain>>
workerVars == <<toWorker, workerQueue, ranWorker>>
vars == <<callbackThreadType, mainVars, workerVars>>

CallbackThreadType == {"MainThread", "WorkerThread"}

TypeOK ==
    /\ callbackThreadType \in CallbackThreadType
    /\ main_thread_callbacks \in Seq(Callback)
    /\ batch \in Seq(Callback)
    /\ toWorker \subseteq Callback
    /\ workerQueue \in Seq(Callback)
    /\ ranMain \in Seq(Callback)
    /\ ranWorker \in Seq(Callback)
    /\ sentMain \in Seq(Callback)

InitQueues ==
    /\ main_thread_callbacks = <<>>
    /\ batch = <<>>
    /\ ranMain = <<>>
    /\ sentMain = <<>>
    /\ toWorker = {}
    /\ workerQueue = <<>>
    /\ ranWorker = <<>>

Init == callbackThreadType = "WorkerThread" /\ InitQueues

-----------------------------------------------------------------------------

\* SubmitTask under main_m_ when callbacks go to the main thread.
SubmitToMain(c) ==
    /\ callbackThreadType = "MainThread"
    /\ main_thread_callbacks' = Append(main_thread_callbacks, c)
    /\ sentMain' = Append(sentMain, c)
    /\ UNCHANGED <<callbackThreadType, batch, ranMain, workerVars>>

\* SubmitTask under main_m_ when they do not: the lock is released first ...
ChooseWorker(c) ==
    /\ callbackThreadType = "WorkerThread"
    /\ toWorker' = toWorker \cup {c}
    /\ UNCHANGED <<callbackThreadType, mainVars, workerQueue, ranWorker>>

\* ... and the callback submitted to the worker executor afterwards.
SubmitToWorker(c) ==
    /\ c \in toWorker
    /\ toWorker' = toWorker \ {c}
    /\ workerQueue' = Append(workerQueue, c)
    /\ UNCHANGED <<callbackThreadType, mainVars, ranWorker>>

SetCallbackThread(type) ==
    /\ callbackThreadType' = type
    /\ UNCHANGED <<mainVars, workerVars>>

\* ProcessMainThreadCallbacks empties the queue into its batch under main_m_.
TakeBatch ==
    /\ batch = <<>> /\ main_thread_callbacks # <<>>
    /\ batch' = main_thread_callbacks
    /\ main_thread_callbacks' = <<>>
    /\ UNCHANGED <<callbackThreadType, ranMain, sentMain, workerVars>>

\* It runs the batch in order; what a callback submits is for the next call.
RunBatched ==
    /\ batch # <<>>
    /\ ranMain' = Append(ranMain, Head(batch))
    /\ batch' = Tail(batch)
    /\ UNCHANGED <<callbackThreadType, main_thread_callbacks, sentMain, workerVars>>

RunOnWorker ==
    /\ workerQueue # <<>>
    /\ ranWorker' = Append(ranWorker, Head(workerQueue))
    /\ workerQueue' = Tail(workerQueue)
    /\ UNCHANGED <<callbackThreadType, mainVars, toWorker>>

-----------------------------------------------------------------------------

\* Every callback ever given to SubmitTask.
Sent == Range(sentMain) \cup toWorker \cup Range(workerQueue) \cup Range(ranWorker)

MainLoop == TakeBatch \/ RunBatched

\* A thread inside SubmitTask finishes it; the worker serves its queue.
Pool == (\E c \in Callback : SubmitToWorker(c)) \/ RunOnWorker

-----------------------------------------------------------------------------

\* Callbacks for the main thread run in the order in which they were submitted,
\* across batches, and none is lost, run twice or overtaken by a later one.
MainOrderKept == sentMain = ranMain \o batch \o main_thread_callbacks

\* A callback has one thread: whatever SetCallbackThread is told later, what was
\* queued for the main thread is not run by the worker, nor the reverse.
OneThreadPerCallback ==
    /\ Range(sentMain) \cap (toWorker \cup Range(workerQueue) \cup Range(ranWorker)) = {}
    /\ IsInjective(ranMain) /\ IsInjective(ranWorker)

=============================================================================
