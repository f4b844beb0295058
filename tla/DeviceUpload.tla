---------------------------- MODULE DeviceUpload ----------------------------
(***************************************************************************)
(* Uploads to the GPU by DeviceResourceManager                             *)
(* (TenEngine-030-device-resource-manager): the asynchronous creation of   *)
(* buffers and textures (src/internal/BufferDeviceImpl.cpp and, line for   *)
(* line the same, TextureDeviceImpl.cpp), the synchronous creations and    *)
(* UpdateDeviceTexture, CancelOperation, and CleanupDevice.                *)
(*                                                                         *)
(* Actors: the threads that call, one for each upload and one for each     *)
(* CancelOperation; the one thread of the worker executor (TaskService),   *)
(* which runs two tasks for each asynchronous upload, the second one only  *)
(* to wait for the GPU; and the GPU's queue, which executes in order.      *)
(*                                                                         *)
(* An action of the worker goes up to the next point where another actor   *)
(* can see or change something: a pool's mutex, statusMutex,               *)
(* g_operationsMutex, the GPU's queue, or the callback.  A test of         *)
(* cancelled is part of the action that follows from it.                   *)
(*                                                                         *)
(* The device is one of three backends of TenEngine-008-rhi, with what its *)
(* UpdateBuffer, Submit, Wait and WaitIdle do and leave undone.            *)
(***************************************************************************)
EXTENDS UploadPools

CONSTANTS Async,         \* the uploads that are asynchronous
          Cancellable,   \* the asynchronous uploads somebody may cancel
          MaxCleanups    \* bound: calls of CleanupDevice

ASSUME AsyncAssumption == Async \subseteq Upload /\ Async # {} /\ Cancellable \subseteq Async
ASSUME CleanupsAssumption == MaxCleanups \in Nat

Status == {"Pending", "Uploading", "Submitted", "Completed", "Failed", "Cancelled"}

MaxTasks == 2 * Cardinality(Async)
NoTask == 0

VARIABLES
    call,             \* how far each caller is
    operations,       \* g_operations: the handles registered
    contexts,         \* the AsyncOperationContexts that are not deleted
    status, cancelled, staging, cmd, fence,       \* their fields
    createTask, finishTask,                       \* the executor's two tasks of each
    worker,           \* where the worker thread is in a task
    phase, priority,                              \* the worker executor
    cancelling,       \* the CancelOperation in progress for each upload
    gpuQueue,         \* what is submitted and not executed
    cleanups,         \* history: calls of CleanupDevice
    answer,           \* what each caller has been told
    content           \* what each GPU object holds

contextVars == <<contexts, status, cancelled, staging, cmd, fence>>
taskVars == <<createTask, finishTask, phase, priority>>
vars == <<poolVars, call, operations, contextVars, taskVars, worker, cancelling,
          gpuQueue, cleanups, answer, content>>

WorkerEx == INSTANCE TaskService WITH Priority <- {0}

Service == INSTANCE UploadService

CallState == {"none", "staged", "listed", "submitted", "returned"}

\* A fence nothing will ever signal is "never".
FenceState == {"none", "unsignaled", "signaled", "never"}

\* Where the worker is: "begin" .. "handOver" in the first task, "waiting" ..
\* "deleting" in the second, "return" at the end of either.
WorkerState == {"idle", "begin", "uploading", "staged", "acquired",
                "submitted", "handOver", "return", "waiting", "woken",
                "cleanup", "answering", "unregister", "deleting"}

Submission == [list : CommandList, upload : Upload]

TypeOK ==
    /\ PoolsTypeOK
    /\ call \in [Upload -> CallState]
    /\ operations \subseteq Async
    /\ contexts \subseteq Async
    /\ status \in [Async -> Status]
    /\ cancelled \subseteq Async
    /\ staging \in [Upload -> Buffer \union {NoBuffer}]
    /\ cmd \in [Upload -> CommandList \union {NoList}]
    /\ fence \in [Async -> FenceState]
    /\ createTask \in [Async -> 0 .. MaxTasks]
    /\ finishTask \in [Async -> 0 .. MaxTasks]
    /\ worker \in [at : WorkerState, upload : Async, wasCancelled : BOOLEAN]
    /\ WorkerEx!TypeOK
    /\ cancelling \in [Async -> {"no", "found", "flagged"}]
    /\ gpuQueue \in Seq(Submission)
    /\ cleanups \in 0 .. MaxCleanups
    /\ Service!TypeOK

Init ==
    /\ InitPools
    /\ call = [u \in Upload |-> "none"]
    /\ operations = {}
    /\ contexts = {}
    /\ status = [u \in Async |-> "Pending"]
    /\ cancelled = {}
    /\ staging = [u \in Upload |-> NoBuffer]
    /\ cmd = [u \in Upload |-> NoList]
    /\ fence = [u \in Async |-> "none"]
    /\ createTask = [u \in Async |-> NoTask]
    /\ finishTask = [u \in Async |-> NoTask]
    /\ worker = [at |-> "idle", upload |-> CHOOSE u \in Async : TRUE, wasCancelled |-> FALSE]
    /\ WorkerEx!Init
    /\ cancelling = [u \in Async |-> "no"]
    /\ gpuQueue = <<>>
    /\ cleanups = 0
    /\ Service!Init

At(w) == worker' = [worker EXCEPT !.at = w]

Tell(u, a) == answer' = [answer EXCEPT ![u] = a]

-----------------------------------------------------------------------------
(* CreateDeviceBufferAsync and CreateDeviceTextureAsync, on the caller's     *)
(* thread.                                                                   *)

\* The device cannot create the object: the callback is called at once and the
\* handle is null.  The synchronous functions return null, also when there is no
\* staging buffer.
Refuse(u) ==
    /\ call[u] = "none"
    /\ call' = [call EXCEPT ![u] = "returned"]
    /\ Tell(u, "failure")
    /\ UNCHANGED <<poolVars, operations, contextVars, taskVars, worker, cancelling,
                   gpuQueue, cleanups, content>>

\* The object and the context are created, the operation registered, the first
\* task submitted and the handle returned; nobody can ask for the context before
\* the task is submitted.
CreateAsync(u) ==
    /\ u \in Async
    /\ call[u] = "none"
    /\ call' = [call EXCEPT ![u] = "returned"]
    /\ contexts' = contexts \union {u}
    /\ operations' = operations \union {u}
    /\ \E t \in WorkerEx!TaskId :
          /\ WorkerEx!Accept(t, 0)
          /\ createTask' = [createTask EXCEPT ![u] = t]
    /\ Tell(u, "pending")
    /\ UNCHANGED <<poolVars, status, cancelled, staging, cmd, fence, finishTask, worker,
                   cancelling, gpuQueue, cleanups, content>>

-----------------------------------------------------------------------------
(* AsyncBufferCreateWorker and AsyncTextureCreateWorker, the first task.     *)

BeginCreateTask(u) ==
    /\ createTask[u] # NoTask
    /\ WorkerEx!Start(createTask[u])
    /\ worker' = [at |-> "begin", upload |-> u, wasCancelled |-> FALSE]
    /\ UNCHANGED <<poolVars, call, operations, contextVars, createTask, finishTask,
                   cancelling, gpuQueue, cleanups, answer, content>>

\* Slip: an early return forgets the staging buffer.
GiveUpLeaking(s) ==
    LET u == worker.upload IN
    /\ status' = [status EXCEPT ![u] = s]
    /\ ReleaseList(cmd[u])
    /\ UNCHANGED stagingVars
    /\ cmd' = [cmd EXCEPT ![u] = NoList]
    /\ staging' = [staging EXCEPT ![u] = NoBuffer]
    /\ fence' = [fence EXCEPT ![u] = "none"]
    /\ contexts' = contexts \ {u}
    /\ Tell(u, "failure")
    /\ At("return")
    /\ UNCHANGED <<deviceVars, call, operations, cancelled, taskVars, cancelling,
                   gpuQueue, cleanups, content>>

\* Every early return: under statusMutex the status is stored, what is held is
\* given back, the callback called with a null object, and the context deleted;
\* its handle stays registered.
GiveUp(s) ==
    LET u == worker.upload IN
    /\ status' = [status EXCEPT ![u] = s]
    /\ ReleaseList(cmd[u])
    /\ ReleaseStaging(staging[u])
    /\ cmd' = [cmd EXCEPT ![u] = NoList]
    /\ staging' = [staging EXCEPT ![u] = NoBuffer]
    /\ fence' = [fence EXCEPT ![u] = "none"]
    /\ contexts' = contexts \ {u}
    /\ Tell(u, "failure")
    /\ At("return")
    /\ UNCHANGED <<deviceVars, call, operations, cancelled, taskVars, cancelling,
                   gpuQueue, cleanups, content>>

\* The three tests of cancelled.
SeesCancelled ==
    /\ worker.at \in {"begin", "staged", "acquired"}
    /\ worker.upload \in cancelled
    /\ GiveUp("Cancelled")

MarkUploading ==
    /\ worker.at = "begin"
    /\ worker.upload \notin cancelled
    /\ status' = [status EXCEPT ![worker.upload] = "Uploading"]
    /\ At("uploading")
    /\ UNCHANGED <<poolVars, call, operations, contexts, cancelled, staging, cmd, fence,
                   taskVars, cancelling, gpuQueue, cleanups, answer, content>>

AllocateStaging ==
    /\ worker.at = "uploading"
    /\ \E b \in Buffer :
          /\ AllocateSucceeds(worker.upload, b)
          /\ staging' = [staging EXCEPT ![worker.upload] = b]
    /\ At("staged")
    /\ UNCHANGED <<listVars, recorded, backend, call, operations, contexts, status, cancelled,
                   cmd, fence, taskVars, cancelling, gpuQueue, cleanups, answer, content>>

\* Slip: returns without the callback.
AllocateStagingFailsSilently ==
    /\ worker.at = "uploading"
    /\ Fitting(worker.upload) = {}
    /\ At("return")
    /\ UNCHANGED <<poolVars, call, operations, contextVars, taskVars, cancelling,
                   gpuQueue, cleanups, answer, content>>

AllocateStagingFails ==
    /\ worker.at = "uploading"
    /\ Fitting(worker.upload) = {}
    /\ GiveUp("Failed")

AcquireList ==
    /\ worker.at = "staged"
    /\ worker.upload \notin cancelled
    /\ \E l \in CommandList :
          /\ Acquire(l)
          /\ cmd' = [cmd EXCEPT ![worker.upload] = l]
    /\ At("acquired")
    /\ UNCHANGED <<stagingVars, deviceVars, call, operations, contexts, status, cancelled,
                   staging, fence, taskVars, cancelling, gpuQueue, cleanups, answer,
                   content>>

AcquireListFails ==
    /\ worker.at = "staged"
    /\ worker.upload \notin cancelled
    /\ available_ = <<>>
    /\ GiveUp("Failed")

\* IQueue::Submit, after which the fence is f.  A new fence of Direct3D 12 counts
\* from 0, so its first Wait finds that it has passed and waits for an event that
\* nobody sets.
Enqueue(u, f) ==
    /\ backend # "D3D11"
    /\ f = IF backend = "Vulkan" THEN "unsignaled" ELSE "never"
    /\ gpuQueue' = Append(gpuQueue, [list |-> cmd[u], upload |-> u])
    /\ UNCHANGED lost

\* Direct3D 11 executes the list in the order of the calls and signals then, but
\* CopyBuffer and CopyBufferToTexture have recorded nothing.
ExecuteAtOnce(u, f) ==
    /\ backend = "D3D11"
    /\ f = "signaled"
    /\ Lose(u)
    /\ UNCHANGED gpuQueue

\* The list could not be finished, or the API refuses it, and nobody is told.
Drop(u, f) ==
    /\ f = "never"
    /\ Lose(u)
    /\ UNCHANGED gpuQueue

Submit(u, f) == Enqueue(u, f) \/ ExecuteAtOnce(u, f) \/ Drop(u, f)

\* The command list is recorded and submitted with a new fence.
SubmitCommandListAsync ==
    LET u == worker.upload IN
    /\ worker.at = "acquired"
    /\ u \notin cancelled
    /\ Record(cmd[u], staging[u], u)
    /\ \E f \in FenceState : Submit(u, f) /\ fence' = [fence EXCEPT ![u] = f]
    /\ At("submitted")
    /\ UNCHANGED <<stagingVars, listVars, backend, call, operations, contexts, status,
                   cancelled, staging, cmd, taskVars, cancelling, cleanups, answer, content>>

\* The device has no fence, or no queue.
SubmitFails ==
    /\ worker.at = "acquired"
    /\ worker.upload \notin cancelled
    /\ GiveUp("Failed")

MarkSubmitted ==
    /\ worker.at = "submitted"
    /\ status' = [status EXCEPT ![worker.upload] = "Submitted"]
    /\ At("handOver")
    /\ UNCHANGED <<poolVars, call, operations, contexts, cancelled, staging, cmd, fence,
                   taskVars, cancelling, gpuQueue, cleanups, answer, content>>

SubmitFinishTask ==
    /\ worker.at = "handOver"
    /\ \E t \in WorkerEx!TaskId :
          /\ WorkerEx!Accept(t, 0)
          /\ finishTask' = [finishTask EXCEPT ![worker.upload] = t]
    /\ At("return")
    /\ UNCHANGED <<poolVars, call, operations, contextVars, createTask, cancelling,
                   gpuQueue, cleanups, answer, content>>

EndTask ==
    /\ worker.at = "return"
    /\ \E t \in WorkerEx!TaskId : WorkerEx!Finish(t)
    /\ At("idle")
    /\ UNCHANGED <<poolVars, call, operations, contextVars, createTask, finishTask,
                   cancelling, gpuQueue, cleanups, answer, content>>

-----------------------------------------------------------------------------
(* The second task.                                                          *)

BeginFinishTask(u) ==
    /\ finishTask[u] # NoTask
    /\ WorkerEx!Start(finishTask[u])
    /\ worker' = [at |-> "waiting", upload |-> u, wasCancelled |-> FALSE]
    /\ UNCHANGED <<poolVars, call, operations, contextVars, createTask, finishTask,
                   cancelling, gpuQueue, cleanups, answer, content>>

\* Slip: the worker does not wait for the fence.
FenceWaitNot ==
    /\ worker.at = "waiting"
    /\ worker' = [worker EXCEPT !.at = "woken",
                                !.wasCancelled = (worker.upload \in cancelled)]
    /\ UNCHANGED <<poolVars, call, operations, contextVars, taskVars, cancelling,
                   gpuQueue, cleanups, answer, content>>

\* fence->Wait(), and what IsCancelled says then.
FenceWait ==
    /\ worker.at = "waiting"
    /\ fence[worker.upload] = "signaled"
    /\ worker' = [worker EXCEPT !.at = "woken",
                                !.wasCancelled = (worker.upload \in cancelled)]
    /\ UNCHANGED <<poolVars, call, operations, contextVars, taskVars, cancelling,
                   gpuQueue, cleanups, answer, content>>

StoreCompleted ==
    /\ worker.at = "woken"
    /\ status' = IF worker.wasCancelled
                 THEN status
                 ELSE [status EXCEPT ![worker.upload] = "Completed"]
    /\ At("cleanup")
    /\ UNCHANGED <<poolVars, call, operations, contexts, cancelled, staging, cmd, fence,
                   taskVars, cancelling, gpuQueue, cleanups, answer, content>>

Cleanup ==
    LET u == worker.upload IN
    /\ worker.at = "cleanup"
    /\ ReleaseList(cmd[u])
    /\ ReleaseStaging(staging[u])
    /\ cmd' = [cmd EXCEPT ![u] = NoList]
    /\ staging' = [staging EXCEPT ![u] = NoBuffer]
    /\ fence' = [fence EXCEPT ![u] = "none"]
    /\ At("answering")
    /\ UNCHANGED <<deviceVars, call, operations, contexts, status, cancelled, taskVars,
                   cancelling, gpuQueue, cleanups, answer, content>>

Answer ==
    /\ worker.at = "answering"
    /\ Tell(worker.upload, IF worker.wasCancelled THEN "failure" ELSE "success")
    /\ At("unregister")
    /\ UNCHANGED <<poolVars, call, operations, contextVars, taskVars, cancelling,
                   gpuQueue, cleanups, content>>

UnregisterOperation ==
    /\ worker.at = "unregister"
    /\ operations' = operations \ {worker.upload}
    /\ At("deleting")
    /\ UNCHANGED <<poolVars, call, contextVars, taskVars, cancelling, gpuQueue, cleanups,
                   answer, content>>

DeleteContext ==
    /\ worker.at = "deleting"
    /\ contexts' = contexts \ {worker.upload}
    /\ At("return")
    /\ UNCHANGED <<poolVars, call, operations, status, cancelled, staging, cmd, fence,
                   taskVars, cancelling, gpuQueue, cleanups, answer, content>>

-----------------------------------------------------------------------------
(* CreateDeviceBuffer, CreateDeviceTexture and UpdateDeviceTexture, whole on *)
(* the caller's thread: a command list of their own, not the pool's.         *)

syncUnchanged == <<available_, all_, backend, operations, contexts, status, cancelled, fence,
                   taskVars, worker, cancelling, cleanups, content>>

\* The object is created and the data staged.
CallSync(u) ==
    /\ u \in Upload \ Async
    /\ call[u] = "none"
    /\ \E b \in Buffer :
          /\ AllocateSucceeds(u, b)
          /\ staging' = [staging EXCEPT ![u] = b]
    /\ call' = [call EXCEPT ![u] = "staged"]
    /\ Tell(u, "pending")
    /\ UNCHANGED <<syncUnchanged, created, destroyed, recorded, cmd, gpuQueue>>

CreateListSync(u) ==
    /\ call[u] = "staged"
    /\ \E l \in CommandList :
          /\ CreateCommandList(l)
          /\ cmd' = [cmd EXCEPT ![u] = l]
    /\ call' = [call EXCEPT ![u] = "listed"]
    /\ UNCHANGED <<syncUnchanged, stagingVars, destroyed, recorded, lost, staging,
                   gpuQueue, answer>>

\* The list is recorded and submitted without a fence.
SubmitSync(u) ==
    /\ call[u] = "listed"
    /\ Record(cmd[u], staging[u], u)
    /\ \E f \in FenceState : Submit(u, f)
    /\ call' = [call EXCEPT ![u] = "submitted"]
    /\ UNCHANGED <<syncUnchanged, stagingVars, created, destroyed, staging, cmd, answer>>

\* The end of a call that fails or succeeds: the list, if there is one, is
\* destroyed and the staging buffer given back.
ReturnSync(u, a) ==
    /\ IF cmd[u] = NoList THEN UNCHANGED destroyed ELSE DestroyCommandList(cmd[u])
    /\ ReleaseStaging(staging[u])
    /\ cmd' = [cmd EXCEPT ![u] = NoList]
    /\ staging' = [staging EXCEPT ![u] = NoBuffer]
    /\ call' = [call EXCEPT ![u] = "returned"]
    /\ Tell(u, a)
    /\ UNCHANGED <<syncUnchanged, created, recorded, lost, gpuQueue>>

\* No command list, or no queue.
SyncFails(u) ==
    /\ call[u] \in {"staged", "listed"}
    /\ ReturnSync(u, "failure")

\* WaitIdle waits for everything the queue holds; that of Direct3D 12 returns at
\* once if it cannot make a fence.
WaitIdle(u) ==
    /\ call[u] = "submitted"
    /\ gpuQueue = <<>> \/ backend = "D3D12"
    /\ ReturnSync(u, "success")

-----------------------------------------------------------------------------
(* CancelOperation, on any thread that has the handle.                       *)

\* GetOperationContext; g_operationsMutex is released before the context is used.
FindContext(u) ==
    /\ createTask[u] # NoTask
    /\ u \in operations
    /\ cancelling[u] = "no"
    /\ cancelling' = [cancelling EXCEPT ![u] = "found"]
    /\ UNCHANGED <<poolVars, call, operations, contextVars, taskVars, worker, gpuQueue,
                   cleanups, answer, content>>

\* cancelled is set before statusMutex is taken.  Nothing keeps the context from
\* being deleted meanwhile; what a write to the freed memory does to its next
\* owner is not modelled, here and in StoreCancelled.
SetCancelled(u) ==
    /\ cancelling[u] = "found"
    /\ cancelling' = [cancelling EXCEPT ![u] = "flagged"]
    /\ cancelled' = cancelled \union ({u} \intersect contexts)
    /\ UNCHANGED <<poolVars, call, operations, contexts, status, staging, cmd, fence,
                   taskVars, worker, gpuQueue, cleanups, answer, content>>

\* Slip: an operation that is over becomes Cancelled too.
StoreCancelledAlways(u) ==
    /\ cancelling[u] = "flagged"
    /\ cancelling' = [cancelling EXCEPT ![u] = "no"]
    /\ status' = [status EXCEPT ![u] = "Cancelled"]
    /\ UNCHANGED <<poolVars, call, operations, contexts, cancelled, staging, cmd, fence,
                   taskVars, worker, gpuQueue, cleanups, answer, content>>

StoreCancelled(u) ==
    /\ cancelling[u] = "flagged"
    /\ cancelling' = [cancelling EXCEPT ![u] = "no"]
    /\ status' = IF u \in contexts /\ status[u] \in {"Pending", "Uploading", "Submitted"}
                 THEN [status EXCEPT ![u] = "Cancelled"]
                 ELSE status
    /\ UNCHANGED <<poolVars, call, operations, contexts, cancelled, staging, cmd, fence,
                   taskVars, worker, gpuQueue, cleanups, answer, content>>

-----------------------------------------------------------------------------

\* The GPU executes the first command list of its queue as it is recorded by
\* then, and signals the fence submitted with it if anybody will notice.
GpuExecutes ==
    /\ gpuQueue # <<>>
    /\ LET s == Head(gpuQueue)
           copy == recorded[s.list]
       IN  /\ content' = IF copy.from \in DOMAIN buffers_
                         THEN [content EXCEPT ![copy.to] = buffers_[copy.from].data]
                         ELSE content
           /\ fence' = IF s.upload \in Async /\ fence[s.upload] = "unsignaled"
                       THEN [fence EXCEPT ![s.upload] = "signaled"]
                       ELSE fence
    /\ gpuQueue' = Tail(gpuQueue)
    /\ UNCHANGED <<poolVars, call, operations, contexts, status, cancelled, staging, cmd,
                   taskVars, worker, cancelling, cleanups, answer>>

\* CleanupDevice, called when nothing is in flight: a context keeps raw pointers
\* to the pools.  The next call makes new ones.
CleanupDevice ==
    /\ cleanups < MaxCleanups
    /\ worker.at = "idle"
    /\ \A u \in Upload : answer[u] # "pending"
    /\ Clear
    /\ cleanups' = cleanups + 1
    /\ UNCHANGED <<call, operations, contextVars, taskVars, worker, cancelling, gpuQueue,
                   answer, content>>

-----------------------------------------------------------------------------

Caller(u) == \/ Refuse(u) \/ CreateAsync(u)
             \/ CallSync(u) \/ CreateListSync(u) \/ SubmitSync(u)
             \/ SyncFails(u) \/ WaitIdle(u)

Worker ==
    \/ \E u \in Async : BeginCreateTask(u) \/ BeginFinishTask(u)
    \/ SeesCancelled \/ MarkUploading
    \/ AllocateStaging \/ AllocateStagingFails
    \/ AcquireList \/ AcquireListFails
    \/ SubmitCommandListAsync \/ SubmitFails
    \/ MarkSubmitted \/ SubmitFinishTask \/ EndTask
    \/ FenceWait \/ StoreCompleted \/ Cleanup \/ Answer
    \/ UnregisterOperation \/ DeleteContext

Canceller(u) == FindContext(u) \/ SetCancelled(u) \/ StoreCancelled(u)

Next == \/ \E u \in Upload : Caller(u)
        \/ Worker
        \/ \E u \in Cancellable : Canceller(u)
        \/ GpuExecutes
        \/ CleanupDevice

Spec == Init /\ [][Next]_vars

\* A call that has begun goes on, the worker thread runs, the GPU executes what
\* it is given.
FairSpec == /\ Spec
            /\ \A u \in Upload : WF_vars(call[u] # "none" /\ Caller(u))
            /\ WF_vars(Worker)
            /\ WF_vars(GpuExecutes)

-----------------------------------------------------------------------------

Held(field) == {field[u] : u \in Upload} \ {0}

\* A staging buffer is in use exactly as long as one upload holds it, and is
\* large enough for that upload: none is lost on any of the early returns, none
\* is given back while it is needed (StagingBufferManager::inUse).
StagingExact ==
    /\ {b \in DOMAIN buffers_ : buffers_[b].inUse} = Held(staging)
    /\ \A u \in Upload : staging[u] # NoBuffer =>
          /\ buffers_[staging[u]].size >= Size[u]
          /\ \A v \in Upload \ {u} : staging[v] # staging[u]

\* Every command list that is not destroyed is either idle in the pool, once, or
\* held by one upload, and the pool's all_ has those that are its own.
ListsExact ==
    /\ IsInjective(available_)
    /\ Range(available_) \intersect Held(cmd) = {}
    /\ \A u, v \in Upload : cmd[u] # NoList /\ cmd[u] = cmd[v] => u = v
    /\ {l \in CommandList : Alive(l)} = Range(available_) \union Held(cmd)
    /\ all_ = {l \in CommandList : Alive(l)} \ {cmd[u] : u \in Upload \ Async}

\* What the GPU has still to execute is as the upload left it: the list exists
\* and still holds the upload's copy, from a buffer that still holds what was
\* written to it.  Cleanup before the fence, or a list or a buffer given to another
\* upload too early, would break this.  Only a call that WaitIdle did not keep
\* waiting has taken its list and buffer back, and its data is lost anyway.
InFlightUntouched ==
    \A i \in DOMAIN gpuQueue :
        LET s == gpuQueue[i]
            b == staging[s.upload]
        IN  \/ s.upload \in lost /\ answer[s.upload] = "success"
            \/ /\ Alive(s.list)
               /\ cmd[s.upload] = s.list
               /\ recorded[s.list] = [from |-> b, to |-> s.upload]
               /\ b \in DOMAIN buffers_
               /\ buffers_[b].data = s.upload \/ s.upload \in lost

\* An upload whose callback says success has the status Completed, whatever
\* CancelOperation did between the test of cancelled and the callback.
SuccessMeansCompleted ==
    \A u \in Async : answer[u] = "success" => status[u] = "Completed"

\* Both pools are exact, the GPU reads nothing that went back to them, and what
\* the caller is told agrees with the status.
UploadsSound ==
    TypeOK /\ StagingExact /\ ListsExact /\ InFlightUntouched /\ SuccessMeansCompleted

\* The uploads, seen by their callers, are UploadService.
ImplementsUploads == Service!Spec

\* The worker waits for a fence that nothing will ever signal.
WorkerStuck == worker.at = "waiting" /\ fence[worker.upload] = "never"

\* Every upload asked for is answered: through every failure the device reports,
\* every cancellation, and the one worker thread that also waits for the GPU, there
\* is again and again a time when nobody waits.  Only a fence that is never
\* signalled stops the worker, and with it the asynchronous uploads.
EveryUploadAnswered ==
    []<>(\A u \in Upload : answer[u] = "pending" => u \in Async /\ WorkerStuck)

\* DeviceResourceManager.h promises that the callback of an operation that is
\* cancelled will still be called.
CancelledAreAnswered ==
    \A u \in Cancellable : cancelling[u] = "flagged" ~> answer[u] \in {"success", "failure"}

=============================================================================
