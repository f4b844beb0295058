--------------------------- MODULE PipelineScheduler ---------------------------
(***************************************************************************)
(* PipelineScheduler (TenEngine-020-pipeline, src/PipelineScheduler.cpp):  *)
(* the main thread walks frames through their phases, game updates run in  *)
(* thread pool A, and GPU work is posted to a single-threaded queue.       *)
(*                                                                         *)
(* All calls but the GPU posts of a running game update are the main       *)
(* thread's.  The callbacks of the phases after GameUpdate run inside Tick *)
(* and change nothing here.  Left out: pool C, which is a second pool with *)
(* the same code; thread D (GPULoop), which touches nothing; frameComplete *)
(* and WaitForFrame, which touch neither pool nor queue.                   *)
(***************************************************************************)
EXTENDS Integers, Sequences, FiniteSets

CONSTANTS Worker,      \* the threads of pool A
          MaxUpdates, MaxGpuTasks,  \* bounds: tasks posted to pool A and to the GPU queue
          MaxInits     \* bound: how many times Initialize is called

ASSUME BoundsAssumption == MaxUpdates \in Nat /\ MaxGpuTasks \in Nat /\ MaxInits \in Nat

VARIABLES phase, initialized,
          main,        \* where the main thread is in the call it makes
          tasks, running, posted, at, doing,                 \* pool A
          queue, stop, gpuPosted, gpuAt, gpuDoing,           \* the GPU queue
          posting,     \* where a worker's task is in a PostTask to the GPU queue
          inits        \* history: how many times Initialize was called

pool == <<tasks, running, posted, at, doing>>
gpu == <<queue, stop, gpuPosted, gpuAt, gpuDoing>>
owner == <<main, initialized, inits>>
vars == <<pool, gpu, phase, owner, posting>>

Threads == INSTANCE ThreadPool WITH MaxPosts <- MaxUpdates
Gpu == INSTANCE SingleThreadQueue WITH
          MaxPosts <- MaxGpuTasks, posted <- gpuPosted, at <- gpuAt, doing <- gpuDoing

\* "Render" stands for BuildPipeline, Collect, Prepare, Record, Submit and Present,
\* which differ in the callback only.
RenderPhase == {"Idle", "GameUpdate", "Render"}

Main == {"idle", "notifyUpdate", "notifyPool", "notifyGpu",
         "notifyWorkers", "joinWorkers", "stopGpu", "notifyStop", "joinGpu"}

\* Pool, queue and scheduler agree on which thread does what.
TypeOK ==
    /\ phase \in RenderPhase
    /\ initialized \in BOOLEAN
    /\ main \in Main
    /\ Threads!TypeOK
    /\ Gpu!TypeOK
    /\ posting \in [Worker -> {"no", "push", "notify"}]
    /\ \A w \in Worker : posting[w] # "no" => at[w] = "run"
    /\ inits \in 0 .. MaxInits

Init == /\ phase = "Idle"
        /\ initialized = FALSE
        /\ main = "idle"
        /\ Threads!Init
        /\ Gpu!Init
        /\ posting = [w \in Worker |-> "no"]
        /\ inits = 0

-----------------------------------------------------------------------------
(* The main thread *)

Enters(next) == main = "idle" /\ main' = next

\* The bound: what the workers are about to push counts.
RoomForGpuTask == gpuPosted + Cardinality({w \in Worker : posting[w] = "push"}) < MaxGpuTasks

Continues(from, to) == main = from /\ main' = to

\* A second Initialize without a Shutdown would destroy the joinable thread D.
\* enableThreadD is chosen here.
Initialize ==
    /\ main = "idle"
    /\ ~initialized
    /\ inits < MaxInits
    /\ Threads!Start
    /\ Gpu!Construct \/ UNCHANGED gpu
    /\ initialized' = TRUE
    /\ inits' = inits + 1
    /\ UNCHANGED <<main, phase, posting>>

Shutdown ==
    /\ initialized
    /\ initialized' = FALSE
    /\ Enters("notifyWorkers")
    /\ Threads!ClearRunning
    /\ UNCHANGED <<gpu, phase, posting, inits>>

NotifyWorkers == /\ Continues("notifyWorkers", "joinWorkers")
                 /\ Threads!NotifyAll
                 /\ UNCHANGED <<gpu, phase, posting, initialized, inits>>

\* Slip: the workers are detached.
DetachWorkers ==
    /\ Continues("joinWorkers", IF Gpu!Alive THEN "stopGpu" ELSE "idle")
    /\ UNCHANGED <<pool, gpu, phase, posting, initialized, inits>>

JoinWorkers ==
    /\ Threads!Joined
    /\ Continues("joinWorkers", IF Gpu!Alive THEN "stopGpu" ELSE "idle")
    /\ UNCHANGED <<pool, gpu, phase, posting, initialized, inits>>

StopGpu == /\ \/ Continues("stopGpu", "notifyStop") /\ Gpu!SetStop
              \/ Continues("notifyStop", "joinGpu") /\ Gpu!Notify
              \/ Continues("joinGpu", "idle") /\ Gpu!JoinAndFree
           /\ UNCHANGED <<pool, phase, posting, initialized, inits>>

\* ExecutePhaseA posts the update; Tick then moves on without waiting for it.
TickUpdate == /\ initialized
              /\ phase = "GameUpdate"
              /\ Enters("notifyUpdate")
              /\ Threads!Push
              /\ UNCHANGED <<gpu, phase, posting, initialized, inits>>

EndTickUpdate ==
    /\ Continues("notifyUpdate", "idle")
    /\ Threads!NotifyOne
    /\ phase' = "Render"
    /\ UNCHANGED <<gpu, posting, initialized, inits>>

\* A Tick from BuildPipeline to Present runs the callback here and now; AdvancePhase
\* does the same without the callback, in Idle and GameUpdate too.
StepPhase ==
    /\ main = "idle"
    /\ \/ phase = "Idle" /\ phase' = "GameUpdate"
       \/ phase = "GameUpdate" /\ phase' = "Render"
       \/ phase = "Render" /\ phase' = "Idle"
    /\ UNCHANGED <<pool, gpu, owner, posting>>

\* In any phase: nothing is asked.
StartFrame == /\ main = "idle"
              /\ phase' = "GameUpdate"
              /\ UNCHANGED <<pool, gpu, owner, posting>>

\* PostTask and ExecutePhase(GameUpdate), initialized or not.
PostUpdate == /\ \/ Enters("notifyPool") /\ Threads!Push
                 \/ Continues("notifyPool", "idle") /\ Threads!NotifyOne
              /\ UNCHANGED <<gpu, phase, posting, initialized, inits>>

PostGpuTask == /\ \/ Gpu!Alive /\ RoomForGpuTask /\ Enters("notifyGpu") /\ Gpu!Push
                  \/ Continues("notifyGpu", "idle") /\ Gpu!Notify
               /\ UNCHANGED <<pool, phase, posting, initialized, inits>>

-----------------------------------------------------------------------------
(* The threads of pool A; a task may post to the GPU queue while it runs *)

Work(w) == Threads!WorkerStep(w) /\ UNCHANGED <<gpu, phase, owner, posting>>

FinishUpdate(w) == /\ posting[w] = "no"
                   /\ Threads!Finish(w)
                   /\ UNCHANGED <<gpu, phase, owner, posting>>

Posts(w, from, to) == posting[w] = from /\ posting' = [posting EXCEPT ![w] = to]

\* PostTask reads the pointer to the queue, then pushes, then notifies.
ReadQueue(w) == /\ at[w] = "run"
                /\ Gpu!Alive
                /\ RoomForGpuTask
                /\ Posts(w, "no", "push")
                /\ UNCHANGED <<pool, gpu, phase, owner>>

PushGpuTask(w) == Posts(w, "push", "notify") /\ Gpu!Push /\ UNCHANGED <<pool, phase, owner>>

NotifyGpu(w) == Posts(w, "notify", "no") /\ Gpu!Notify /\ UNCHANGED <<pool, phase, owner>>

PostFromUpdate(w) == ReadQueue(w) \/ PushGpuTask(w) \/ NotifyGpu(w)

-----------------------------------------------------------------------------
(* The GPU queue's thread, and spurious wake-ups *)

RunGpuQueue == Gpu!ThreadStep /\ UNCHANGED <<pool, phase, owner, posting>>

SpuriousWakeup ==
    \/ \E w \in Worker : Threads!SpuriousWakeup(w) /\ UNCHANGED <<gpu, phase, owner, posting>>
    \/ Gpu!SpuriousWakeup /\ UNCHANGED <<pool, phase, owner, posting>>

-----------------------------------------------------------------------------

\* What the main thread does once it is inside a call.
MainContinues ==
    \/ NotifyWorkers \/ JoinWorkers \/ StopGpu
    \/ EndTickUpdate
    \/ main # "idle" /\ (PostUpdate \/ PostGpuTask)

WorkerProgress(w) == Work(w) \/ FinishUpdate(w)

WorkerPosts(w) == PushGpuTask(w) \/ NotifyGpu(w)

Next ==
    \/ Initialize \/ Shutdown \/ NotifyWorkers \/ JoinWorkers \/ StopGpu
    \/ TickUpdate \/ EndTickUpdate \/ StepPhase
    \/ StartFrame \/ PostUpdate \/ PostGpuTask
    \/ \E w \in Worker : Work(w) \/ FinishUpdate(w) \/ PostFromUpdate(w)
    \/ RunGpuQueue \/ SpuriousWakeup

Spec == Init /\ [][Next]_vars

\* The main thread returns from its calls unless a join blocks it, tasks return,
\* and a thread that can lock a mutex for good does so.  Nobody has to call
\* anything, and no wake-up has to be spurious.
Fairness == /\ WF_vars(MainContinues)
            /\ \A w \in Worker : WF_vars(WorkerProgress(w)) /\ WF_vars(WorkerPosts(w))
            /\ WF_vars(RunGpuQueue)

FairSpec == Spec /\ Fairness

-----------------------------------------------------------------------------
(* Properties *)

\* The GPU queue, with posts from the main thread and from workers, its thread and
\* its destruction and rebuilding, runs tasks one by one, in order, once.
GpuQueueImplementsTaskService == Gpu!Service!Spec

\* Whatever was accepted by the GPU queue runs, however its post, the thread's
\* sleep and the queue's destruction meet: the destructor drains the queue.  After
\* every post there is a time when all that were posted have run.
EveryGpuTaskRuns == []<>(\A t \in 1 .. gpuPosted : Gpu!Phase(t) = "done")

\* Every game update posted is taken by a worker, unless the pool is stopped: no
\* notification is lost between Post and the predicate of cv.wait.
EveryUpdateStarts == []<>(tasks = <<>> \/ ~running)

\* A task that posts to the GPU queue finds it alive until the post is over:
\* Shutdown joins the workers before it destroys the queue.
PostersHaveQueue == \A w \in Worker : posting[w] # "no" => Gpu!Alive /\ ~stop

\* The tables of pool and queue are well formed and the posters have a queue.
SchedulerSound == TypeOK /\ PostersHaveQueue

\* No post is forgotten, neither by the GPU queue nor by the pool.
EveryPostServed == EveryGpuTaskRuns /\ EveryUpdateStarts

=============================================================================
