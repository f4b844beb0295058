------------------------------ MODULE AsyncLoad ------------------------------
(***************************************************************************)
(* Asynchronous loading in ResourceManagerImpl                             *)
(* (TenEngine-013-resource/src/ResourceManager.cpp): RequestLoadAsync on   *)
(* the caller's thread, the load task on the IO executor, CancelLoad on    *)
(* any thread, and the completion callbacks on the main thread.            *)
(*                                                                         *)
(* The executor is TaskService and the callbacks go through CallbackPool,  *)
(* set to the main thread by ResourceManagerImpl's constructor.  Only      *)
(* requests that miss the cache are modelled here; module ResourceCache    *)
(* has the cache.  requests_mutex_ is held by CancelLoad from its lookup   *)
(* to its return, so there is one CancelLoad at a time; the load task does *)
(* not take it and may step in between any two lines of CancelLoad.        *)
(***************************************************************************)
EXTENDS Integers, Sequences, FiniteSets, Functions

CONSTANTS Request,     \* requests made, each for a path of its own
          MaxCancels   \* bound: calls of CancelLoad for one request

ASSUME RequestAssumption == IsFiniteSet(Request) /\ Request # {}
ASSUME MaxCancelsAssumption == MaxCancels \in Nat

LoadStatus == {"Pending", "Loading", "Completed", "Failed", "Cancelled"}
LoadResult == {"Ok", "Error", "Cancelled"}
Resource == {"null", "resource"}

\* What an on_done is called with; user_data is the request's own.
Answer == [request : Request, resource : Resource, result : LoadResult]

MaxTasks == Cardinality(Request)
NoTask == 0

VARIABLES call,        \* how far each RequestLoadAsync is
          status,      \* AsyncLoadRequest::status
          cancelled,   \* requests whose AsyncLoadRequest::cancelled is set
          result,      \* AsyncLoadRequest::result
          task,        \* the executor's task of each request, 0 before the submit
          cached,      \* requests whose resource CacheResource has stored
          loader,      \* the load task the IO thread is in
          canceller,   \* the CancelLoad in progress
          cancels,     \* history: CancelLoad calls begun for each request
          phase, priority,                                   \* the IO executor
          main_thread_callbacks, batch, ranMain, sentMain    \* the callbacks

requestVars == <<call, status, cancelled, result, task, cached>>
poolVars == <<main_thread_callbacks, batch, ranMain, sentMain>>
ioVars == <<phase, priority>>
vars == <<requestVars, loader, canceller, cancels, ioVars, poolVars>>

Io == INSTANCE TaskService WITH MaxTasks <- MaxTasks, Priority <- {0}

Pool == INSTANCE CallbackPool
        WITH Callback <- Answer, callbackThreadType <- "MainThread",
             toWorker <- {}, workerQueue <- <<>>, ranWorker <- <<>>

\* The load task: before the first test of cancelled; in Load; about to store
\* result and then status; before the second test; about to submit the answer.
LoaderState == {"idle", "test", "loading", "storeResult", "storeStatus", "retest", "answer"}

\* CancelLoad: lines still to come, each named for what it will do.
CancellerState == {"idle", "cancelTask", "storeStatus", "answer"}

TypeOK ==
    /\ call \in [Request -> {"none", "stored", "loading", "submitted", "returned"}]
    /\ status \in [Request -> LoadStatus]
    /\ cancelled \subseteq Request
    /\ result \in [Request -> Resource]
    /\ task \in [Request -> 0 .. MaxTasks]
    /\ cached \subseteq Request
    /\ loader \in [at : LoaderState, request : Request, outcome : LoadResult]
    /\ canceller \in [at : CancellerState, request : Request]
    /\ cancels \in [Request -> 0 .. MaxCancels]
    /\ Io!TypeOK
    /\ Pool!TypeOK

Init ==
    /\ call = [r \in Request |-> "none"]
    /\ status = [r \in Request |-> "Pending"]
    /\ cancelled = {}
    /\ result = [r \in Request |-> "null"]
    /\ task = [r \in Request |-> NoTask]
    /\ cached = {}
    /\ loader = [at |-> "idle", request |-> CHOOSE r \in Request : TRUE, outcome |-> "Error"]
    /\ canceller = [at |-> "idle", request |-> CHOOSE r \in Request : TRUE]
    /\ cancels = [r \in Request |-> 0]
    /\ Io!Init
    /\ Pool!InitQueues

-----------------------------------------------------------------------------
(* RequestLoadAsync after the cache was missed. *)

\* The request is created and stored under requests_mutex_.
StoreRequest(r) ==
    /\ call[r] = "none"
    /\ canceller.at = "idle"
    /\ call' = [call EXCEPT ![r] = "stored"]
    /\ status' = [status EXCEPT ![r] = "Pending"]
    /\ UNCHANGED <<cancelled, result, task, cached, loader, canceller, cancels,
                   ioVars, poolVars>>

MarkLoading(r) ==
    /\ call[r] = "stored"
    /\ call' = [call EXCEPT ![r] = "loading"]
    /\ status' = [status EXCEPT ![r] = "Loading"]
    /\ UNCHANGED <<cancelled, result, task, cached, loader, canceller, cancels,
                   ioVars, poolVars>>

SubmitLoadTask(r) ==
    /\ call[r] = "loading"
    /\ \E t \in Io!TaskId :
          /\ Io!Accept(t, 0)
          /\ task' = [task EXCEPT ![r] = t]
    /\ call' = [call EXCEPT ![r] = "submitted"]
    /\ UNCHANGED <<status, cancelled, result, cached, loader, canceller, cancels,
                   poolVars>>

\* request->task_id is written and the id returned: CancelLoad needs the id, so
\* no CancelLoad of r finds task_id unwritten.
ReturnId(r) ==
    /\ call[r] = "submitted"
    /\ call' = [call EXCEPT ![r] = "returned"]
    /\ UNCHANGED <<status, cancelled, result, task, cached, loader, canceller,
                   cancels, ioVars, poolVars>>

-----------------------------------------------------------------------------
(* LoadTaskCallback on the IO executor. *)

At(l) == loader' = [loader EXCEPT !.at = l]

StartLoadTask(r) ==
    /\ task[r] # NoTask
    /\ Io!Start(task[r])
    /\ loader' = [at |-> "test", request |-> r, outcome |-> "Error"]
    /\ UNCHANGED <<requestVars, canceller, cancels, poolVars>>

\* The first test of cancelled decides whether anything is loaded.
TestCancelled ==
    /\ loader.at = "test"
    /\ loader' = IF loader.request \in cancelled
                 THEN [loader EXCEPT !.at = "storeResult", !.outcome = "Cancelled"]
                 ELSE [loader EXCEPT !.at = "loading"]
    /\ UNCHANGED <<requestVars, canceller, cancels, ioVars, poolVars>>

\* The instance is created, IResource::Load succeeds and the result is cached.
LoadSucceeds ==
    /\ loader.at = "loading"
    /\ cached' = cached \cup {loader.request}
    /\ loader' = [loader EXCEPT !.at = "storeResult", !.outcome = "Ok"]
    /\ UNCHANGED <<call, status, cancelled, result, task, canceller, cancels,
                   ioVars, poolVars>>

\* No instance for the type, or IResource::Load fails and it is released.
LoadFails ==
    /\ loader.at = "loading"
    /\ loader' = [loader EXCEPT !.at = "storeResult", !.outcome = "Error"]
    /\ UNCHANGED <<requestVars, canceller, cancels, ioVars, poolVars>>

Loaded == IF loader.outcome = "Ok" THEN "resource" ELSE "null"

\* request->result and load_result: plain members, written without a lock.
StoreResult ==
    /\ loader.at = "storeResult"
    /\ result' = [result EXCEPT ![loader.request] = Loaded]
    /\ At("storeStatus")
    /\ UNCHANGED <<call, status, cancelled, task, cached, canceller, cancels,
                   ioVars, poolVars>>

FinalStatus(outcome) == CASE outcome = "Cancelled" -> "Cancelled"
                          [] outcome = "Ok" -> "Completed"
                          [] OTHER -> "Failed"

\* request->status is overwritten, whatever CancelLoad has made of it.
StoreStatus ==
    /\ loader.at = "storeStatus"
    /\ status' = [status EXCEPT ![loader.request] = FinalStatus(loader.outcome)]
    /\ At("retest")
    /\ UNCHANGED <<call, cancelled, result, task, cached, canceller, cancels,
                   ioVars, poolVars>>

\* The second test of cancelled: CancelLoad answers in place of the task, and
\* the task ends.
LeaveAnswerToCancel ==
    /\ loader.at = "retest"
    /\ loader.request \in cancelled
    /\ Io!Finish(task[loader.request])
    /\ At("idle")
    /\ UNCHANGED <<requestVars, canceller, cancels, poolVars>>

GoOnToAnswer ==
    /\ loader.at = "retest"
    /\ loader.request \notin cancelled
    /\ At("answer")
    /\ UNCHANGED <<requestVars, canceller, cancels, ioVars, poolVars>>

\* The answer goes to the thread pool and the task ends.
AnswerLoad ==
    /\ loader.at = "answer"
    /\ Pool!SubmitToMain([request |-> loader.request, resource |-> Loaded,
                          result |-> loader.outcome])
    /\ Io!Finish(task[loader.request])
    /\ At("idle")
    /\ UNCHANGED <<requestVars, canceller, cancels>>

-----------------------------------------------------------------------------
(* CancelLoad, holding requests_mutex_. *)

Step(l) == canceller' = [canceller EXCEPT !.at = l]

BeginCancel(r) ==
    /\ canceller.at = "idle"
    /\ call[r] = "returned"
    /\ cancels[r] < MaxCancels
    /\ cancelled' = cancelled \cup {r}
    /\ cancels' = [cancels EXCEPT ![r] = @ + 1]
    /\ canceller' = [at |-> "cancelTask", request |-> r]
    /\ UNCHANGED <<call, status, result, task, cached, loader, ioVars, poolVars>>

\* Slip: a running task is believed to have been withdrawn.
CancelTaskRunning ==
    /\ canceller.at = "cancelTask"
    /\ LET t == task[canceller.request]
       IN  IF phase[t] \in {"waiting", "running"}
           THEN phase' = [phase EXCEPT ![t] = "withdrawn"] /\ UNCHANGED priority
           ELSE UNCHANGED ioVars
    /\ Step("storeStatus")
    /\ UNCHANGED <<requestVars, loader, cancels, poolVars>>

\* ITaskExecutor::CancelTask withdraws the task if it has not started; its
\* answer is ignored.
CancelTask ==
    /\ canceller.at = "cancelTask"
    /\ LET t == task[canceller.request]
       IN  IF phase[t] = "waiting" THEN Io!Withdraw(t) ELSE UNCHANGED ioVars
    /\ Step("storeStatus")
    /\ UNCHANGED <<requestVars, loader, cancels, poolVars>>

StoreCancelled ==
    /\ canceller.at = "storeStatus"
    /\ status' = [status EXCEPT ![canceller.request] = "Cancelled"]
    /\ Step("answer")
    /\ UNCHANGED <<call, cancelled, result, task, cached, loader, cancels,
                   ioVars, poolVars>>

\* Slip: CancelLoad leaves the answer to the load task.
AnswerCancelNever ==
    /\ canceller.at = "answer"
    /\ Step("idle")
    /\ UNCHANGED <<requestVars, loader, cancels, ioVars, poolVars>>

\* on_done(request->result, Cancelled) goes to the thread pool.
AnswerCancel ==
    /\ canceller.at = "answer"
    /\ Pool!SubmitToMain([request |-> canceller.request,
                          resource |-> result[canceller.request],
                          result |-> "Cancelled"])
    /\ Step("idle")
    /\ UNCHANGED <<requestVars, loader, cancels, ioVars>>

-----------------------------------------------------------------------------

\* ProcessMainThreadCallbacks.
MainLoop ==
    /\ Pool!MainLoop
    /\ UNCHANGED <<requestVars, loader, canceller, cancels, ioVars>>

Caller(r) == \/ StoreRequest(r)
             \/ MarkLoading(r)
             \/ SubmitLoadTask(r)
             \/ ReturnId(r)

Loader == \/ \E r \in Request : StartLoadTask(r)
          \/ TestCancelled
          \/ LoadSucceeds
          \/ LoadFails
          \/ StoreResult
          \/ StoreStatus
          \/ LeaveAnswerToCancel
          \/ GoOnToAnswer
          \/ AnswerLoad

Canceller == CancelTask \/ StoreCancelled \/ AnswerCancel

Next == \/ \E r \in Request : Caller(r) \/ BeginCancel(r)
        \/ Loader
        \/ Canceller
        \/ MainLoop

Spec == Init /\ [][Next]_vars

\* Threads run, Load returns, and the main loop turns; nobody has to call
\* CancelLoad, nor RequestLoadAsync.
FairSpec == Spec /\ WF_vars(Loader) /\ WF_vars(Canceller) /\ WF_vars(MainLoop)
                 /\ \A r \in Request : WF_vars(Caller(r) /\ call[r] # "none")

-----------------------------------------------------------------------------

\* Where the answers to r are among those that have been submitted.
Answers(r) == {i \in DOMAIN sentMain : sentMain[i].request = r}

\* The load task answers at most once, and each CancelLoad at most once: a
\* request is answered no more often than that, whatever they overlap with.
AnswersBounded ==
    \A r \in Request :
       /\ Cardinality(Answers(r)) <= 1 + cancels[r]
       /\ \A i, j \in Answers(r) :
             sentMain[i].result # "Cancelled" /\ sentMain[j].result # "Cancelled" => i = j

\* A request nobody cancelled: its status, its result, the cache and its answer
\* tell the same story.
UncancelledConsistent ==
    \A r \in Request \ cancelled :
       \A i \in DOMAIN sentMain :
          LET a == sentMain[i]
          IN  a.request = r =>
                 \/ a.result = "Ok" /\ status[r] = "Completed"
                    /\ a.resource = "resource" /\ r \in cached
                 \/ a.result = "Error" /\ status[r] = "Failed"
                    /\ a.resource = "null" /\ r \notin cached

\* A request whose task CancelLoad withdrew in time loads nothing, and every
\* answer to it is Cancelled and carries no resource.
WithdrawnLoadsNothing ==
    \A r \in Request :
       task[r] # NoTask /\ phase[task[r]] = "withdrawn" =>
          /\ r \notin cached
          /\ \A i \in DOMAIN sentMain :
                sentMain[i].request = r =>
                   sentMain[i].result = "Cancelled" /\ sentMain[i].resource = "null"

\* However loads, cancellations and callbacks overlap, the answers to a request
\* are bounded and tell what became of it, and its fields keep their types.
RequestsSound == TypeOK /\ AnswersBounded /\ UncancelledConsistent /\ WithdrawnLoadsNothing

\* Whoever waits for on_done is called: of the load task and CancelLoad at least
\* one answers, whatever each sees of the other.
EveryRequestAnswered ==
    \A r \in Request :
       (call[r] = "returned") ~> (\E i \in DOMAIN ranMain : ranMain[i].request = r)

=============================================================================
