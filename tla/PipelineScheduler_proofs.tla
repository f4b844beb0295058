------------------------ MODULE PipelineScheduler_proofs ------------------------
(***************************************************************************)
(* Proofs about two components under the frames.  PipelineScheduler, for   *)
(* any number of workers and of tasks: a task that posts to the GPU queue  *)
(* finds it alive, and the GPU queue implements TaskService through posts, *)
(* destruction and rebuilding.  GraphicsDevice, for any command lists,     *)
(* objects and sizes of pools: what is alive has an owner or was lost.     *)
(***************************************************************************)
EXTENDS PipelineScheduler, GraphicsDevice, SequenceTheorems, FiniteSetTheorems, TLAPS

\* Where Shutdown has got to.
StoppingWorkers == main \in {"notifyWorkers", "joinWorkers"}
StoppingGpu == main \in {"stopGpu", "notifyStop", "joinGpu"}

\* The queue is stopped only once no worker is left, and the workers are there
\* only between Initialize and the join in Shutdown.
ShutdownInOrder ==
    /\ StoppingWorkers \/ StoppingGpu => ~initialized
    /\ ~initialized /\ ~StoppingWorkers => Threads!Joined
    /\ stop /\ Gpu!Alive => main \in {"notifyStop", "joinGpu"}

\* The GPU queue holds the tasks posted last, in order, and the thread runs the
\* one before them.
LastPosted ==
    /\ \A i \in 1 .. Len(queue) : queue[i] = gpuPosted - Len(queue) + i
    /\ Len(queue) <= gpuPosted
    /\ gpuDoing # 0 => gpuDoing = gpuPosted - Len(queue)

OwnedInOrder == TypeOK /\ PostersHaveQueue /\ ShutdownInOrder

IInv == OwnedInOrder /\ LastPosted

\* What a step does to the pool and to the queue.
PoolStep ==
    \/ UNCHANGED pool
    \/ Threads!Joined /\ Threads!Start
    \/ Threads!Push \/ Threads!NotifyOne \/ Threads!ClearRunning \/ Threads!NotifyAll
    \/ \E w \in Worker : Threads!WorkerStep(w) \/ Threads!Finish(w) \/ Threads!SpuriousWakeup(w)

GpuStep ==
    \/ UNCHANGED gpu
    \/ Gpu!Construct \/ Gpu!Push \/ Gpu!Notify \/ Gpu!SetStop \/ Gpu!JoinAndFree
    \/ Gpu!ThreadStep \/ Gpu!SpuriousWakeup

-----------------------------------------------------------------------------

\* The scheduler moves its pool and its queue by their own operations only, and
\* starts the pool only when its last threads are gone.
LEMMA StepsOfParts == ShutdownInOrder /\ [Next]_vars => PoolStep /\ GpuStep
<1> SUFFICES ASSUME ShutdownInOrder, [Next]_vars PROVE PoolStep /\ GpuStep
  OBVIOUS
<1> USE DEF PoolStep, GpuStep
<1>1. CASE Initialize
  BY <1>1 DEF Initialize, ShutdownInOrder, StoppingWorkers
<1>2. CASE Shutdown
  BY <1>2 DEF Shutdown
<1>3. CASE NotifyWorkers \/ JoinWorkers
  BY <1>3 DEF NotifyWorkers, JoinWorkers
<1>4. CASE StopGpu
  BY <1>4 DEF StopGpu
<1>5. CASE TickUpdate \/ EndTickUpdate
  BY <1>5 DEF TickUpdate, EndTickUpdate
<1>6. CASE StepPhase \/ StartFrame
  BY <1>6 DEF StepPhase, StartFrame
<1>7. CASE PostUpdate \/ PostGpuTask
  BY <1>7 DEF PostUpdate, PostGpuTask
<1>8. ASSUME NEW w \in Worker, Work(w) \/ FinishUpdate(w) \/ PostFromUpdate(w)
      PROVE  PoolStep /\ GpuStep
  BY <1>8 DEF Work, FinishUpdate, PostFromUpdate, ReadQueue, PushGpuTask, NotifyGpu
<1>9. CASE RunGpuQueue \/ SpuriousWakeup
  BY <1>9 DEF RunGpuQueue, SpuriousWakeup
<1>10. CASE UNCHANGED vars
  BY <1>10 DEF vars
<1> QED
  BY <1>1, <1>2, <1>3, <1>4, <1>5, <1>6, <1>7, <1>8, <1>9, <1>10 DEF Next

\* The pool's operations keep its variables in their types.
LEMMA PoolTyped == Threads!TypeOK /\ PoolStep => Threads!TypeOK'
<1> SUFFICES ASSUME Threads!TypeOK, PoolStep PROVE Threads!TypeOK'
  OBVIOUS
<1> USE DEF Threads!TypeOK, Threads!At, Threads!Go
<1>1. CASE UNCHANGED pool
  BY <1>1 DEF pool
<1>2. CASE Threads!Joined /\ Threads!Start
  BY <1>2 DEF Threads!Start, Threads!Joined
<1>6. CASE Threads!NotifyOne
  <2>1. at' \in [Worker -> Threads!At] /\ \A w \in Worker : at'[w] = "run" <=> at[w] = "run"
    <3>1. CASE UNCHANGED at
      BY <3>1
    <3>2. ASSUME NEW w \in Worker, Threads!Go(w, "asleep", "woken")
          PROVE  at' \in [Worker -> Threads!At] /\ \A v \in Worker : at'[v] = "run" <=> at[v] = "run"
      BY <3>2
    <3> QED
      BY <1>6, <3>1, <3>2 DEF Threads!NotifyOne
  <2> QED
    BY <1>6, <2>1 DEF Threads!NotifyOne
<1>7. CASE Threads!ClearRunning \/ Threads!NotifyAll
  BY <1>7 DEF Threads!ClearRunning, Threads!NotifyAll
<1>3. CASE Threads!Push
  <2>1. /\ posted' = posted + 1 /\ posted' \in 0 .. MaxUpdates
        /\ tasks' = Append(tasks, posted + 1) /\ UNCHANGED <<running, at, doing>>
    BY <1>3, BoundsAssumption DEF Threads!Push
  <2>2. tasks \in Seq(1 .. posted + 1) /\ posted + 1 \in 1 .. posted + 1
    <3>1. 1 .. posted \subseteq 1 .. posted + 1 /\ posted + 1 \in 1 .. posted + 1
      BY BoundsAssumption
    <3> QED
      BY <3>1, SeqMonotonic
  <2>3. tasks' \in Seq(1 .. posted')
    BY <2>1, <2>2, AppendProperties
  <2>4. doing' \in [Worker -> 0 .. posted']
    BY <2>1, BoundsAssumption
  <2> QED
    BY <2>1, <2>3, <2>4
<1>4. ASSUME NEW w \in Worker, Threads!WorkerStep(w) PROVE Threads!TypeOK'
  <2>1. CASE Threads!Take(w)
    <3>1. Head(tasks) \in 1 .. posted /\ Tail(tasks) \in Seq(1 .. posted)
      BY <2>1, HeadTailProperties DEF Threads!Take
    <3> QED
      BY <2>1, <3>1, BoundsAssumption DEF Threads!Take
  <2>2. CASE Threads!Enter(w)
    BY <2>2 DEF Threads!Enter
  <2>3. CASE Threads!Relock(w) \/ Threads!Break(w) \/ Threads!Doze(w) \/ Threads!Sleep(w)
    BY <2>3 DEF Threads!Relock, Threads!Break, Threads!Doze, Threads!Sleep
  <2> QED
    BY <1>4, <2>1, <2>2, <2>3 DEF Threads!WorkerStep
<1>5. ASSUME NEW w \in Worker, Threads!Finish(w) \/ Threads!SpuriousWakeup(w) PROVE Threads!TypeOK'
  <2>1. CASE Threads!Finish(w)
    BY <2>1, BoundsAssumption DEF Threads!Finish
  <2>2. CASE Threads!SpuriousWakeup(w)
    BY <2>2 DEF Threads!SpuriousWakeup
  <2> QED
    BY <1>5, <2>1, <2>2
<1> QED
  BY <1>1, <1>2, <1>3, <1>4, <1>5, <1>6, <1>7 DEF PoolStep

\* The queue's operations keep its variables in their types.
LEMMA GpuTyped == Gpu!TypeOK /\ GpuStep => Gpu!TypeOK'
<1> SUFFICES ASSUME Gpu!TypeOK, GpuStep PROVE Gpu!TypeOK'
  OBVIOUS
<1> USE DEF Gpu!TypeOK, Gpu!At, Gpu!Go
<1>1. CASE UNCHANGED gpu
  BY <1>1 DEF gpu
<1>2. CASE Gpu!Construct \/ Gpu!Notify \/ Gpu!SetStop \/ Gpu!JoinAndFree \/ Gpu!SpuriousWakeup
  BY <1>2 DEF Gpu!Construct, Gpu!Notify, Gpu!SetStop, Gpu!JoinAndFree, Gpu!SpuriousWakeup
<1>3. CASE Gpu!Push
  <2>1. /\ gpuPosted' = gpuPosted + 1 /\ gpuPosted' \in 0 .. MaxGpuTasks
        /\ queue' = Append(queue, gpuPosted + 1) /\ UNCHANGED <<stop, gpuAt, gpuDoing>>
    BY <1>3, BoundsAssumption DEF Gpu!Push
  <2>2. queue \in Seq(1 .. gpuPosted + 1) /\ gpuPosted + 1 \in 1 .. gpuPosted + 1
    <3>1. 1 .. gpuPosted \subseteq 1 .. gpuPosted + 1 /\ gpuPosted + 1 \in 1 .. gpuPosted + 1
      BY BoundsAssumption
    <3> QED
      BY <3>1, SeqMonotonic
  <2>3. queue' \in Seq(1 .. gpuPosted')
    BY <2>1, <2>2, AppendProperties
  <2> QED
    BY <2>1, <2>3, BoundsAssumption
<1>4. CASE Gpu!ThreadStep
  <2>1. CASE Gpu!Take
    <3>1. Head(queue) \in 1 .. gpuPosted /\ Tail(queue) \in Seq(1 .. gpuPosted)
      BY <2>1, HeadTailProperties DEF Gpu!Take
    <3> QED
      BY <2>1, <3>1, BoundsAssumption DEF Gpu!Take
  <2>2. CASE Gpu!Lock \/ Gpu!Relock \/ Gpu!Break \/ Gpu!Doze \/ Gpu!Sleep
    BY <2>2 DEF Gpu!Lock, Gpu!Relock, Gpu!Break, Gpu!Doze, Gpu!Sleep
  <2>3. CASE Gpu!Finish
    BY <2>3, BoundsAssumption DEF Gpu!Finish
  <2> QED
    BY <1>4, <2>1, <2>2, <2>3 DEF Gpu!ThreadStep
<1> QED
  BY <1>1, <1>2, <1>3, <1>4 DEF GpuStep

-----------------------------------------------------------------------------

\* Nothing runs and nothing is alive at first.
LEMMA OwnedInitially == Init => OwnedInOrder
<1> SUFFICES ASSUME Init PROVE OwnedInOrder
  OBVIOUS
<1>0. 0 \in 0 .. MaxUpdates /\ 0 \in 0 .. MaxGpuTasks /\ 0 \in 0 .. MaxInits
  BY BoundsAssumption
<1>1. Threads!TypeOK
  <2>1. Threads!Init
    BY DEF Init
  <2>2. tasks \in Seq(1 .. posted) /\ 0 \in 0 .. posted
    BY <2>1, EmptySeq DEF Threads!Init
  <2> QED
    BY <1>0, <2>1, <2>2 DEF Threads!Init, Threads!TypeOK, Threads!At
<1>2. Gpu!TypeOK
  <2>1. Gpu!Init
    BY DEF Init
  <2>2. queue \in Seq(1 .. gpuPosted) /\ 0 \in 0 .. gpuPosted
    BY <2>1, EmptySeq DEF Gpu!Init
  <2> QED
    BY <1>0, <2>1, <2>2 DEF Gpu!Init, Gpu!TypeOK, Gpu!At
<1>3. ShutdownInOrder
  BY DEF Init, ShutdownInOrder, StoppingWorkers, StoppingGpu, Threads!Init, Threads!Joined, Gpu!Init
<1>4. PostersHaveQueue /\ \A w \in Worker : posting[w] # "no" => at[w] = "run"
  BY DEF Init, PostersHaveQueue
<1> QED
  BY <1>0, <1>1, <1>2, <1>3, <1>4 DEF Init, OwnedInOrder, TypeOK, RenderPhase, Main

\* Every operation of the main thread, of a worker and of the queue's thread keeps
\* the queue alive for the posters and the shutdown in its order.
LEMMA OwnedPreserved == OwnedInOrder /\ [Next]_vars => OwnedInOrder'
<1> SUFFICES ASSUME OwnedInOrder, [Next]_vars PROVE OwnedInOrder'
  OBVIOUS
<1>1. Threads!TypeOK' /\ Gpu!TypeOK'
  BY StepsOfParts, PoolTyped, GpuTyped DEF OwnedInOrder, TypeOK
<1>2. /\ at \in [Worker -> Threads!At] /\ posting \in [Worker -> {"no", "push", "notify"}]
      /\ inits \in 0 .. MaxInits /\ phase \in RenderPhase /\ initialized \in BOOLEAN
      /\ main \in Main
  BY DEF OwnedInOrder, TypeOK, Threads!TypeOK
<1>3. /\ \A w \in Worker : posting[w] # "no" => at[w] = "run"
      /\ PostersHaveQueue /\ ShutdownInOrder
  BY DEF OwnedInOrder, TypeOK
<1> DEFINE Typed == /\ phase \in RenderPhase /\ initialized \in BOOLEAN /\ main \in Main
                    /\ posting \in [Worker -> {"no", "push", "notify"}]
                    /\ inits \in 0 .. MaxInits
           Posters == \A w \in Worker :
                         posting[w] # "no" => at[w] = "run" /\ Gpu!Alive /\ ~stop
<1>4. Typed' /\ Posters' /\ ShutdownInOrder' => OwnedInOrder'
  BY <1>1 DEF OwnedInOrder, TypeOK, PostersHaveQueue
<1>5. Posters
  BY <1>3 DEF PostersHaveQueue
<1> USE <1>2, <1>3, <1>5
    DEF RenderPhase, Main, ShutdownInOrder, StoppingWorkers, StoppingGpu,
        Threads!Joined, Gpu!Alive, pool, gpu, owner, Continues, Enters
<1>6. CASE Initialize
  <2>1. Typed' /\ Posters'
    BY <1>6, BoundsAssumption DEF Initialize, Threads!Start, Gpu!Construct
  <2>2. ShutdownInOrder'
    BY <1>6, BoundsAssumption DEF Initialize, Threads!Start, Gpu!Construct
  <2> QED
    BY <1>4, <2>1, <2>2
<1>7. CASE Shutdown
  <2>1. Typed' /\ Posters'
    BY <1>7 DEF Shutdown, Threads!ClearRunning
  <2>2. ShutdownInOrder'
    BY <1>7 DEF Shutdown, Threads!ClearRunning
  <2> QED
    BY <1>4, <2>1, <2>2
<1>8. CASE NotifyWorkers
  <2>1. Typed' /\ Posters'
    BY <1>8 DEF NotifyWorkers, Threads!NotifyAll
  <2>2. ShutdownInOrder'
    BY <1>8 DEF NotifyWorkers, Threads!NotifyAll
  <2> QED
    BY <1>4, <2>1, <2>2
<1>9. CASE JoinWorkers
  <2>1. Typed' /\ Posters'
    BY <1>9 DEF JoinWorkers
  <2>2. ShutdownInOrder'
    BY <1>9 DEF JoinWorkers
  <2> QED
    BY <1>4, <2>1, <2>2
<1>10. CASE StopGpu
  <2>1. Typed' /\ Posters'
    BY <1>10 DEF StopGpu, Gpu!SetStop, Gpu!Notify, Gpu!JoinAndFree, Gpu!Go
  <2>2. ShutdownInOrder'
    BY <1>10 DEF StopGpu, Gpu!SetStop, Gpu!Notify, Gpu!JoinAndFree, Gpu!Go
  <2> QED
    BY <1>4, <2>1, <2>2
<1>11. CASE TickUpdate
  <2>1. Typed' /\ Posters'
    BY <1>11 DEF TickUpdate, Threads!Push
  <2>2. ShutdownInOrder'
    BY <1>11 DEF TickUpdate, Threads!Push
  <2> QED
    BY <1>4, <2>1, <2>2
<1>12. CASE EndTickUpdate
  <2>1. Typed' /\ Posters'
    BY <1>12 DEF EndTickUpdate, Threads!NotifyOne, Threads!Go
  <2>2. ShutdownInOrder'
    BY <1>12 DEF EndTickUpdate, Threads!NotifyOne, Threads!Go
  <2> QED
    BY <1>4, <2>1, <2>2
<1>13. CASE StepPhase \/ StartFrame
  <2>1. Typed' /\ Posters'
    BY <1>13 DEF StepPhase, StartFrame
  <2>2. ShutdownInOrder'
    BY <1>13 DEF StepPhase, StartFrame
  <2> QED
    BY <1>4, <2>1, <2>2
<1>14. CASE PostUpdate
  <2>1. Typed' /\ Posters'
    BY <1>14 DEF PostUpdate, Threads!Push, Threads!NotifyOne, Threads!Go
  <2>2. ShutdownInOrder'
    BY <1>14 DEF PostUpdate, Threads!Push, Threads!NotifyOne, Threads!Go
  <2> QED
    BY <1>4, <2>1, <2>2
<1>15. CASE PostGpuTask
  <2>1. Typed' /\ Posters'
    BY <1>15 DEF PostGpuTask, Gpu!Push, Gpu!Notify
  <2>2. ShutdownInOrder'
    BY <1>15 DEF PostGpuTask, Gpu!Push, Gpu!Notify
  <2> QED
    BY <1>4, <2>1, <2>2
<1>16. ASSUME NEW w \in Worker, Work(w) PROVE OwnedInOrder'
  <2>1. Typed' /\ Posters'
    BY <1>16 DEF Work, Threads!WorkerStep, Threads!Enter, Threads!Relock, Threads!Break, Threads!Take, Threads!Doze,
              Threads!Sleep, Threads!Go
  <2>2. ShutdownInOrder'
    BY <1>16 DEF Work, Threads!WorkerStep, Threads!Enter, Threads!Relock, Threads!Break, Threads!Take, Threads!Doze,
              Threads!Sleep, Threads!Go
  <2> QED
    BY <1>4, <2>1, <2>2
<1>17. ASSUME NEW w \in Worker, FinishUpdate(w) PROVE OwnedInOrder'
  <2>1. Typed' /\ Posters'
    BY <1>17 DEF FinishUpdate, Threads!Finish, Threads!Go
  <2>2. ShutdownInOrder'
    BY <1>17 DEF FinishUpdate, Threads!Finish, Threads!Go
  <2> QED
    BY <1>4, <2>1, <2>2
<1>18. ASSUME NEW w \in Worker, PostFromUpdate(w) PROVE OwnedInOrder'
  <2>1. Typed' /\ Posters'
    BY <1>18 DEF PostFromUpdate, ReadQueue, PushGpuTask, NotifyGpu, Posts, Gpu!Push, Gpu!Notify
  <2>2. ShutdownInOrder'
    BY <1>18 DEF PostFromUpdate, ReadQueue, PushGpuTask, NotifyGpu, Posts, Gpu!Push, Gpu!Notify
  <2> QED
    BY <1>4, <2>1, <2>2
<1>19. CASE RunGpuQueue
  <2>1. Typed' /\ Posters'
    BY <1>19 DEF RunGpuQueue, Gpu!ThreadStep, Gpu!Lock, Gpu!Relock, Gpu!Break, Gpu!Take, Gpu!Doze,
              Gpu!Sleep, Gpu!Finish, Gpu!Go
  <2>2. ShutdownInOrder'
    BY <1>19 DEF RunGpuQueue, Gpu!ThreadStep, Gpu!Lock, Gpu!Relock, Gpu!Break, Gpu!Take, Gpu!Doze,
              Gpu!Sleep, Gpu!Finish, Gpu!Go
  <2> QED
    BY <1>4, <2>1, <2>2
<1>20. CASE SpuriousWakeup
  <2>1. Typed' /\ Posters'
    BY <1>20 DEF SpuriousWakeup, Threads!SpuriousWakeup, Gpu!SpuriousWakeup, Threads!Go, Gpu!Go
  <2>2. ShutdownInOrder'
    BY <1>20 DEF SpuriousWakeup, Threads!SpuriousWakeup, Gpu!SpuriousWakeup, Threads!Go, Gpu!Go
  <2> QED
    BY <1>4, <2>1, <2>2
<1>21. CASE UNCHANGED vars
  <2>1. Typed' /\ Posters'
    BY <1>21 DEF vars
  <2>2. ShutdownInOrder'
    BY <1>21 DEF vars
  <2> QED
    BY <1>4, <2>1, <2>2
<1> QED
  BY <1>6, <1>7, <1>8, <1>9, <1>10, <1>11, <1>12, <1>13, <1>14, <1>15, <1>16, <1>17,
     <1>18, <1>19, <1>20, <1>21 DEF Next

-----------------------------------------------------------------------------
(* The queue's contents *)

\* A push is the newest task, and the thread takes the oldest.
LEMMA LastPostedPreserved == Gpu!TypeOK /\ LastPosted /\ GpuStep => LastPosted'
<1> SUFFICES ASSUME Gpu!TypeOK, LastPosted, GpuStep PROVE LastPosted'
  OBVIOUS
<1>1. /\ queue \in Seq(1 .. gpuPosted) /\ gpuPosted \in Nat /\ gpuDoing \in 0 .. gpuPosted
      /\ gpuDoing = 0 <=> gpuAt # "run" /\ Len(queue) \in Nat
  BY BoundsAssumption, LenProperties DEF Gpu!TypeOK
<1>2. CASE UNCHANGED <<queue, gpuPosted>> /\ gpuDoing' \in {0, gpuDoing}
  BY <1>2 DEF LastPosted
<1>3. CASE Gpu!Push
  <2>1. /\ gpuPosted' = gpuPosted + 1 /\ UNCHANGED gpuDoing
        /\ queue' = Append(queue, gpuPosted + 1)
    BY <1>3 DEF Gpu!Push
  <2>2. queue \in Seq(1 .. gpuPosted + 1) /\ gpuPosted + 1 \in 1 .. gpuPosted + 1
    <3>1. 1 .. gpuPosted \subseteq 1 .. gpuPosted + 1 /\ gpuPosted + 1 \in 1 .. gpuPosted + 1
      BY <1>1
    <3> QED
      BY <1>1, <3>1, SeqMonotonic
  <2>3. /\ Len(queue') = Len(queue) + 1
        /\ \A i \in 1 .. Len(queue) : queue'[i] = queue[i]
        /\ queue'[Len(queue) + 1] = gpuPosted + 1
    BY <2>1, <2>2, AppendProperties
  <2>4. ASSUME NEW i \in 1 .. Len(queue')
        PROVE  queue'[i] = gpuPosted' - Len(queue') + i
    <3>1. CASE i = Len(queue) + 1
      BY <1>1, <2>1, <2>3, <3>1
    <3>2. CASE i \in 1 .. Len(queue)
      BY <1>1, <2>1, <2>3, <3>2 DEF LastPosted
    <3> QED
      BY <1>1, <2>3, <3>1, <3>2
  <2>5. /\ Len(queue') <= gpuPosted'
        /\ gpuDoing' # 0 => gpuDoing' = gpuPosted' - Len(queue')
    <3>1. /\ Len(queue) <= gpuPosted /\ (gpuDoing # 0 => gpuDoing = gpuPosted - Len(queue))
          /\ gpuPosted \in Nat /\ Len(queue) \in Nat /\ gpuDoing \in Nat
      BY <1>1 DEF LastPosted
    <3>2. gpuPosted' = gpuPosted + 1 /\ Len(queue') = Len(queue) + 1 /\ gpuDoing' = gpuDoing
      BY <2>1, <2>3
    <3> QED
      BY <3>1, <3>2
  <2> QED
    BY <2>4, <2>5 DEF LastPosted
<1>4. CASE Gpu!Take
  <2>1. /\ queue # <<>> /\ gpuDoing' = Head(queue) /\ queue' = Tail(queue) /\ UNCHANGED gpuPosted
    BY <1>4 DEF Gpu!Take, Gpu!Go
  <2>2. /\ Len(queue) > 0 /\ Head(queue) = queue[1]
    BY <1>1, <2>1, EmptySeq
  <2>3. /\ Len(queue') = Len(queue) - 1
        /\ \A i \in 1 .. Len(queue) - 1 : queue'[i] = queue[i + 1]
    BY <1>1, <2>1, HeadTailProperties
  <2> QED
    BY <1>1, <2>1, <2>2, <2>3 DEF LastPosted
<1> QED
  BY <1>2, <1>3, <1>4
     DEF GpuStep, gpu, Gpu!Construct, Gpu!Notify, Gpu!SetStop, Gpu!JoinAndFree, Gpu!ThreadStep,
         Gpu!SpuriousWakeup, Gpu!Lock, Gpu!Relock, Gpu!Break, Gpu!Doze, Gpu!Sleep, Gpu!Finish, Gpu!Go

\* The scheduler's shutdown stays in order, its posters keep the queue, and the
\* queue holds the last posts, in every reachable state.
THEOREM InductiveInvariant == Spec => []IInv
<1>1. Init => IInv
  <2>1. Init => LastPosted
    BY EmptySeq DEF Init, LastPosted, Gpu!Init
  <2> QED
    BY <2>1, OwnedInitially DEF IInv
<1>2. IInv /\ [Next]_vars => IInv'
  BY OwnedPreserved, StepsOfParts, LastPostedPreserved DEF IInv, OwnedInOrder, TypeOK
<1> QED
  BY <1>1, <1>2, PTL DEF Spec

\* A game update that posts to the GPU queue finds it alive and not stopped until
\* the post is over, whenever Shutdown is called: it joins the workers first.
THEOREM SchedulerAlwaysSound == Spec => []SchedulerSound
<1>1. IInv => SchedulerSound
  BY DEF IInv, OwnedInOrder, SchedulerSound
<1> QED
  BY <1>1, InductiveInvariant, PTL

-----------------------------------------------------------------------------
(* The GPU queue implements TaskService *)

\* A task's phase follows from where its number lies.
PhaseByNumber(t) ==
    IF t > gpuPosted THEN "unused"
    ELSE IF t > gpuPosted - Len(queue) THEN "waiting"
    ELSE IF t = gpuDoing THEN "running" ELSE "done"

Mapped == [t \in 1 .. MaxGpuTasks |-> Gpu!Phase(t)]

\* Which phase of TaskService each GPU task is in, by its number,
LEMMA PhaseOfNumber ==
    IInv => \A t \in 1 .. MaxGpuTasks : Gpu!Phase(t) = PhaseByNumber(t)
<1> SUFFICES ASSUME IInv, NEW t \in 1 .. MaxGpuTasks PROVE Gpu!Phase(t) = PhaseByNumber(t)
  OBVIOUS
<1>1. /\ gpuPosted \in Nat /\ Len(queue) \in Nat /\ gpuDoing \in Nat /\ t \in Nat
      /\ Len(queue) <= gpuPosted
      /\ \A i \in 1 .. Len(queue) : queue[i] = gpuPosted - Len(queue) + i
      /\ gpuDoing # 0 => gpuDoing = gpuPosted - Len(queue)
  BY BoundsAssumption, LenProperties DEF IInv, OwnedInOrder, TypeOK, Gpu!TypeOK, LastPosted
<1>2. (\E i \in 1 .. Len(queue) : queue[i] = t) <=> t > gpuPosted - Len(queue) /\ t <= gpuPosted
  <2>1. ASSUME t > gpuPosted - Len(queue), t <= gpuPosted
        PROVE  \E i \in 1 .. Len(queue) : queue[i] = t
    <3>1. t - (gpuPosted - Len(queue)) \in 1 .. Len(queue)
      BY <1>1, <2>1
    <3>2. queue[t - (gpuPosted - Len(queue))] = t
      BY <1>1, <3>1
    <3> QED
      BY <3>1, <3>2
  <2> QED
    BY <1>1, <2>1
<1> QED
  BY <1>1, <1>2 DEF Gpu!Phase, PhaseByNumber

\* and in the next state.
LEMMA PhaseOfNumberNext ==
    (IInv => \A t \in 1 .. MaxGpuTasks : Gpu!Phase(t) = PhaseByNumber(t))'
BY PhaseOfNumber, PTL

\* What the operations of the queue do to the phases of the tasks.
LEMMA GpuStepMapped ==
    IInv /\ IInv' /\ GpuStep => Gpu!Service!Next \/ UNCHANGED Gpu!Service!vars
<1> SUFFICES ASSUME IInv, IInv', GpuStep PROVE Gpu!Service!Next \/ UNCHANGED Gpu!Service!vars
  OBVIOUS
<1> DEFINE Tasks == 1 .. MaxGpuTasks
           n == gpuPosted - Len(queue)
<1>0. Mapped = [t \in Tasks |-> PhaseByNumber(t)] /\ Mapped' = [t \in Tasks |-> PhaseByNumber(t)']
  BY PhaseOfNumber, PhaseOfNumberNext DEF Mapped
<1>1. /\ gpuPosted \in Nat /\ Len(queue) \in Nat /\ gpuDoing \in Nat
      /\ gpuDoing = 0 <=> gpuAt # "run"
      /\ gpuDoing # 0 => gpuDoing = n
      /\ n \in Nat /\ gpuPosted <= MaxGpuTasks
      /\ \A i \in 1 .. Len(queue) : queue[i] = n + i
      /\ queue \in Seq(1 .. gpuPosted)
  BY BoundsAssumption, LenProperties DEF IInv, OwnedInOrder, TypeOK, Gpu!TypeOK, LastPosted
<1>2. Gpu!Service!TaskId = Tasks /\ MaxGpuTasks \in Nat
  BY BoundsAssumption DEF Gpu!Service!TaskId
<1>3. CASE UNCHANGED <<queue, gpuPosted, gpuDoing>>
  <2>1. Mapped' = Mapped
    BY <1>0, <1>3 DEF PhaseByNumber
  <2> QED
    BY <2>1 DEF Gpu!Service!vars, Mapped
<1>4. CASE Gpu!Push
  <2>1. /\ gpuPosted' = gpuPosted + 1 /\ Len(queue') = Len(queue) + 1
        /\ gpuDoing' = gpuDoing /\ gpuPosted + 1 \in Tasks
    <3>1. queue \in Seq(1 .. gpuPosted + 1) /\ gpuPosted + 1 \in 1 .. gpuPosted + 1
      <4>1. 1 .. gpuPosted \subseteq 1 .. gpuPosted + 1 /\ gpuPosted + 1 \in 1 .. gpuPosted + 1
        BY <1>1
      <4> QED
        BY <1>1, <4>1, SeqMonotonic
    <3> QED
      BY <1>1, <1>2, <1>4, <3>1, AppendProperties DEF Gpu!Push
  <2>2. /\ Mapped[gpuPosted + 1] = "unused"
        /\ \A u \in Tasks : u < gpuPosted + 1 => Mapped[u] # "unused"
    BY <1>0, <1>1, <1>2, <2>1 DEF PhaseByNumber
  <2>3. Mapped' = [Mapped EXCEPT ![gpuPosted + 1] = "waiting"]
    <3>1. \A t \in Tasks : PhaseByNumber(t)' = IF t = gpuPosted + 1 THEN "waiting" ELSE PhaseByNumber(t)
      BY <1>1, <1>2, <2>1 DEF PhaseByNumber
    <3> QED
      BY <1>0, <3>1
  <2>4. Gpu!Service!Accept(gpuPosted + 1, 0)
    BY <1>2, <2>2, <2>3 DEF Gpu!Service!Accept, Mapped
  <2> QED
    BY <1>2, <2>1, <2>4 DEF Gpu!Service!Next
<1>5. CASE Gpu!Take
  <2>1. /\ gpuPosted' = gpuPosted /\ Len(queue') = Len(queue) - 1 /\ Len(queue) > 0
        /\ gpuDoing = 0 /\ gpuDoing' = n + 1
    <3>1. queue # <<>> /\ Head(queue) = queue[1] /\ Len(queue) > 0
      BY <1>1, <1>5, EmptySeq DEF Gpu!Take
    <3> QED
      BY <1>1, <1>5, <3>1, HeadTailProperties DEF Gpu!Take, Gpu!Go
  <2>2. n + 1 \in Tasks
    BY <1>1, <1>2, <2>1
  <2>3. /\ Mapped[n + 1] = "waiting"
        /\ \A u \in Tasks : Mapped[u] # "running" /\ (Mapped[u] = "waiting" => u >= n + 1)
    BY <1>0, <1>1, <1>2, <2>1, <2>2 DEF PhaseByNumber
  <2>4. Mapped' = [Mapped EXCEPT ![n + 1] = "running"]
    <3>1. ASSUME NEW t \in Tasks
          PROVE  PhaseByNumber(t)' = IF t = n + 1 THEN "running" ELSE PhaseByNumber(t)
      <4>1. gpuPosted' - Len(queue') = n + 1 /\ t \in Nat /\ t # gpuDoing
        BY <1>1, <1>2, <2>1
      <4>2. CASE t > n + 1
        BY <1>1, <2>1, <4>1, <4>2 DEF PhaseByNumber
      <4>3. CASE t <= n + 1
        BY <1>1, <2>1, <4>1, <4>3 DEF PhaseByNumber
      <4> QED
        BY <1>1, <4>1, <4>2, <4>3
    <3> QED
      BY <1>0, <3>1
  <2>5. Gpu!Service!Idle /\ Gpu!Service!First(n + 1)
    BY <1>2, <2>2, <2>3
       DEF Gpu!Service!Idle, Gpu!Service!First, Gpu!Service!Waiting, Gpu!Service!Before, Mapped
  <2>6. Gpu!Service!Start(n + 1)
    BY <2>4, <2>5 DEF Gpu!Service!Start, Mapped
  <2> QED
    BY <1>2, <2>2, <2>6 DEF Gpu!Service!Next
<1>6. CASE Gpu!Finish
  <2>1. /\ gpuPosted' = gpuPosted /\ queue' = queue /\ gpuDoing' = 0 /\ gpuDoing = n /\ n # 0
    BY <1>1, <1>6 DEF Gpu!Finish, Gpu!Go
  <2>2. n \in Tasks /\ Mapped[n] = "running"
    BY <1>0, <1>1, <1>2, <2>1 DEF PhaseByNumber
  <2>3. Mapped' = [Mapped EXCEPT ![n] = "done"]
    <3>1. \A t \in Tasks : PhaseByNumber(t)' = IF t = n THEN "done" ELSE PhaseByNumber(t)
      BY <1>1, <1>2, <2>1 DEF PhaseByNumber
    <3> QED
      BY <1>0, <3>1
  <2>4. Gpu!Service!Finish(n)
    BY <2>2, <2>3 DEF Gpu!Service!Finish, Mapped
  <2> QED
    BY <1>2, <2>2, <2>4 DEF Gpu!Service!Next
<1> QED
  BY <1>3, <1>4, <1>5, <1>6
     DEF GpuStep, gpu, Gpu!Construct, Gpu!Notify, Gpu!SetStop, Gpu!JoinAndFree, Gpu!ThreadStep,
         Gpu!SpuriousWakeup, Gpu!Lock, Gpu!Relock, Gpu!Break, Gpu!Doze, Gpu!Sleep, Gpu!Go

\* Through its posts from several threads, its sleeps and wake-ups, its stop and its
\* rebuilding, the GPU queue runs the tasks it accepted one at a time and in order.
THEOREM GpuQueueRefines == Spec => GpuQueueImplementsTaskService
<1>1. Init => Gpu!Service!Init
  <2> SUFFICES ASSUME Init PROVE Gpu!Service!Init
    OBVIOUS
  <2>1. \A t \in 1 .. MaxGpuTasks : Gpu!Phase(t) = "unused"
    BY BoundsAssumption DEF Init, Gpu!Init, Gpu!Phase
  <2> QED
    BY <2>1 DEF Gpu!Service!Init, Gpu!Service!TaskId
<1>2. IInv /\ IInv' /\ [Next]_vars => [Gpu!Service!Next]_(Gpu!Service!vars)
  BY GpuStepMapped, StepsOfParts DEF IInv, OwnedInOrder
<1> QED
  BY <1>1, <1>2, InductiveInvariant, PTL DEF Spec, GpuQueueImplementsTaskService, Gpu!Service!Spec

-----------------------------------------------------------------------------
(* GraphicsDevice: what creations take and give back *)

\* Each failure gives back what the calls before it took, and together they take
\* those of a set.
CallsSound(calls, taken) ==
    /\ Len(calls) \in Nat
    /\ \A i \in 1 .. Len(calls) : calls[i].gives = TakenBefore(calls, i)
    /\ TakenBefore(calls, Len(calls) + 1) = taken

\* The destructor gives back what the creation took, but for what goes with a pool.
MadeSound(made) ==
    /\ CallsSound(made.calls, Taken(made))
    /\ made.gives \subseteq Taken(made) \cup made.optional
    /\ (Taken(made) \cup made.optional) \ PoolKind \subseteq made.gives
    /\ Taken(made) \cap made.optional = {}

\* Before the first call nothing is taken.
LEMMA TakenFirst == ASSUME NEW calls PROVE TakenBefore(calls, 1) = {}
  BY DEF TakenBefore

\* A call adds what it takes.
LEMMA TakenNext ==
    ASSUME NEW calls, NEW i \in Nat \ {0}
    PROVE  TakenBefore(calls, i + 1) = TakenBefore(calls, i) \cup calls[i].takes
<1> DEFINE Of(n) == {calls[j].takes : j \in 1 .. n}
<1>1. i + 1 - 1 = i /\ 1 .. i = (1 .. i - 1) \cup {i}
  OBVIOUS
<1>2. Of(i) = Of(i - 1) \cup {calls[i].takes}
  BY <1>1
<1>3. UNION Of(i) = (UNION Of(i - 1)) \cup calls[i].takes
  BY <1>2
<1> QED
  BY <1>1, <1>3 DEF TakenBefore

\* No call at all.
LEMMA NoCalls == CallsSound(<<>>, {})
  BY TakenFirst DEF CallsSound

\* One more call whose failure gives back what is taken.
LEMMA OneMoreCall ==
    ASSUME NEW calls, NEW more, NEW taken, CallsSound(calls, taken),
           Len(more) = Len(calls) + 1,
           \A i \in 1 .. Len(calls) : more[i] = calls[i],
           more[Len(more)].gives = taken
    PROVE  CallsSound(more, taken \cup more[Len(more)].takes)
<1>1. \A i \in 1 .. Len(calls) + 1 : TakenBefore(more, i) = TakenBefore(calls, i)
  <2> TAKE i \in 1 .. Len(calls) + 1
  <2>1. \A j \in 1 .. i - 1 : more[j].takes = calls[j].takes
    BY DEF CallsSound
  <2>2. {more[j].takes : j \in 1 .. i - 1} = {calls[j].takes : j \in 1 .. i - 1}
    BY <2>1
  <2> QED
    BY <2>2 DEF TakenBefore
<1>2. TakenBefore(more, Len(more)) = taken
  BY <1>1 DEF CallsSound
<1>3. TakenBefore(more, Len(more) + 1) = taken \cup more[Len(more)].takes
  BY <1>2, TakenNext DEF CallsSound
<1>4. \A i \in 1 .. Len(more) : more[i].gives = TakenBefore(more, i)
  BY <1>1, <1>2 DEF CallsSound
<1> QED
  BY <1>3, <1>4 DEF CallsSound

\* One call that takes a set and gives nothing back.
LEMMA SingleCall == ASSUME NEW S PROVE CallsSound(<<Call(S, {})>>, S)
<1> DEFINE more == <<Call(S, {})>>
<1>1. Len(<<>>) = 0 /\ Len(more) = 1 /\ more[1].gives = {} /\ more[1].takes = S
  BY DEF Call
<1> HIDE DEF more
<1> DEFINE few == <<>>
<1>3. Len(few) = 0 /\ CallsSound(few, {})
  BY NoCalls
<1> HIDE DEF few
<1>4. /\ Len(more) = Len(few) + 1
      /\ \A i \in 1 .. Len(few) : more[i] = few[i]
      /\ more[Len(more)].gives = {}
  BY <1>1, <1>3
<1>2. CallsSound(more, {} \cup more[Len(more)].takes)
  BY <1>3, <1>4, OneMoreCall
<1> QED
  BY <1>1, <1>2 DEF more

\* Two calls.
LEMMA TwoCalls ==
    ASSUME NEW S, NEW T PROVE CallsSound(<<Call(S, {}), Call(T, S)>>, S \cup T)
<1> DEFINE few == <<Call(S, {})>>
           more == <<Call(S, {}), Call(T, S)>>
<1>1. Len(few) = 1 /\ Len(more) = 2 /\ more[1] = few[1] /\ more[2].gives = S /\ more[2].takes = T
  BY DEF Call
<1>2. CallsSound(few, S)
  BY SingleCall
<1> HIDE DEF few, more
<1>4. /\ Len(more) = Len(few) + 1
      /\ \A i \in 1 .. Len(few) : more[i] = few[i]
      /\ more[Len(more)].gives = S
  BY <1>1
<1>3. CallsSound(more, S \cup more[Len(more)].takes)
  BY <1>2, <1>4, OneMoreCall
<1> QED
  BY <1>1, <1>3 DEF more
\* What is made with calls that are sound, and gives back all but what goes with a pool.
LEMMA MadeOf ==
    ASSUME NEW calls, NEW taken, NEW optional, NEW gives, CallsSound(calls, taken),
           gives \subseteq taken \cup optional, (taken \cup optional) \ PoolKind \subseteq gives,
           taken \cap optional = {}
    PROVE  MadeSound(Made(calls, optional, gives))
<1>1. Taken(Made(calls, optional, gives)) = taken
  BY DEF Taken, Made, CallsSound
<1> QED
  BY <1>1 DEF MadeSound, Made

\* What is made with one call.
LEMMA MadeOfOne ==
    ASSUME NEW S, NEW optional, NEW gives, gives = S \cup optional, S \cap optional = {}
    PROVE  MadeSound(Made(<<Call(S, {})>>, optional, gives))
<1>1. CallsSound(<<Call(S, {})>>, S)
  BY SingleCall
<1> QED
  BY <1>1, MadeOf

\* What is made without a call.
LEMMA MadeOfNone == ASSUME NEW optional PROVE MadeSound(Made(<<>>, optional, optional))
<1>1. CallsSound(<<>>, {})
  BY NoCalls
<1> QED
  BY <1>1, MadeOf

\* The calls of a Vulkan device.
LEMMA DeviceCallsSound ==
    CallsSound(DeviceCalls, {"instance", "device", "commandPool", "setLayout",
                             "listPool", "dynamicPool", "pipelineLayout", "renderPass"})
<1> DEFINE c == DeviceCalls
           T1 == {"instance"}
           T2 == T1 \cup {"device"}
           T3 == T2 \cup {"commandPool"}
           T4 == T3 \cup {"setLayout"}
           T5 == T4 \cup {"listPool"}
           T6 == T5 \cup {"dynamicPool"}
           T7 == T6 \cup {"pipelineLayout"}
           T8 == T7 \cup {"renderPass"}
<1>1. Len(c) = 9
  BY DEF DeviceCalls
<1>2. c[1].takes = {"instance"} /\ c[1].gives = {}
  BY DEF DeviceCalls, Call
<1>3. c[2].takes = {} /\ c[2].gives = T1
  BY DEF DeviceCalls, Call
<1>4. c[3].takes = {"device"} /\ c[3].gives = T1
  BY DEF DeviceCalls, Call
<1>5. c[4].takes = {"commandPool"} /\ c[4].gives = T2
  BY DEF DeviceCalls, Call
<1>6. c[5].takes = {"setLayout"} /\ c[5].gives = T3
  BY DEF DeviceCalls, Call
<1>7. c[6].takes = {"listPool"} /\ c[6].gives = T4
  BY DEF DeviceCalls, Call
<1>8. c[7].takes = {"dynamicPool"} /\ c[7].gives = T5
  BY DEF DeviceCalls, Call
<1>9. c[8].takes = {"pipelineLayout"} /\ c[8].gives = T6
  BY DEF DeviceCalls, Call
<1>10. c[9].takes = {"renderPass"} /\ c[9].gives = T7
  BY DEF DeviceCalls, Call
<1> HIDE DEF c
<1>11. TakenBefore(c, 1) = {}
  BY TakenFirst
<1>12. c[1].gives = TakenBefore(c, 1) /\ TakenBefore(c, 2) = T1
  BY <1>2, <1>11, TakenNext, 1 + 1 = 2
<1>13. c[2].gives = TakenBefore(c, 2) /\ TakenBefore(c, 3) = T1
  BY <1>3, <1>12, TakenNext, 2 + 1 = 3
<1>14. c[3].gives = TakenBefore(c, 3) /\ TakenBefore(c, 4) = T2
  BY <1>4, <1>13, TakenNext, 3 + 1 = 4
<1>15. c[4].gives = TakenBefore(c, 4) /\ TakenBefore(c, 5) = T3
  BY <1>5, <1>14, TakenNext, 4 + 1 = 5
<1>16. c[5].gives = TakenBefore(c, 5) /\ TakenBefore(c, 6) = T4
  BY <1>6, <1>15, TakenNext, 5 + 1 = 6
<1>17. c[6].gives = TakenBefore(c, 6) /\ TakenBefore(c, 7) = T5
  BY <1>7, <1>16, TakenNext, 6 + 1 = 7
<1>18. c[7].gives = TakenBefore(c, 7) /\ TakenBefore(c, 8) = T6
  BY <1>8, <1>17, TakenNext, 7 + 1 = 8
<1>19. c[8].gives = TakenBefore(c, 8) /\ TakenBefore(c, 9) = T7
  BY <1>9, <1>18, TakenNext, 8 + 1 = 9
<1>20. c[9].gives = TakenBefore(c, 9) /\ TakenBefore(c, 10) = T8
  BY <1>10, <1>19, TakenNext, 9 + 1 = 10
<1>21. ASSUME NEW i \in 1 .. 9 PROVE c[i].gives = TakenBefore(c, i)
  <2>1. i = 1 \/ i = 2 \/ i = 3 \/ i = 4 \/ i = 5 \/ i = 6 \/ i = 7 \/ i = 8 \/ i = 9
    OBVIOUS
  <2> QED
    BY <2>1, <1>12, <1>13, <1>14, <1>15, <1>16, <1>17, <1>18, <1>19, <1>20
<1>22. CallsSound(c, T8)
  BY <1>1, <1>21, <1>20, 9 + 1 = 10 DEF CallsSound
<1>23. T8 = {"instance", "device", "commandPool", "setLayout",
             "listPool", "dynamicPool", "pipelineLayout", "renderPass"}
  OBVIOUS
<1> QED
  BY <1>22, <1>23 DEF c

\* Those of a buffer.
LEMMA BufferCallsSound == CallsSound(BufferCalls, {"buffer", "memory"})
<1> DEFINE c == BufferCalls
           T1 == {"buffer"}
           T2 == T1 \cup {"memory"}
<1>1. Len(c) = 4
  BY DEF BufferCalls
<1>2. c[1].takes = {"buffer"} /\ c[1].gives = {}
  BY DEF BufferCalls, Call
<1>3. c[2].takes = {} /\ c[2].gives = T1
  BY DEF BufferCalls, Call
<1>4. c[3].takes = {"memory"} /\ c[3].gives = T1
  BY DEF BufferCalls, Call
<1>5. c[4].takes = {} /\ c[4].gives = T2
  BY DEF BufferCalls, Call
<1> HIDE DEF c
<1>6. TakenBefore(c, 1) = {}
  BY TakenFirst
<1>7. c[1].gives = TakenBefore(c, 1) /\ TakenBefore(c, 2) = T1
  BY <1>2, <1>6, TakenNext, 1 + 1 = 2
<1>8. c[2].gives = TakenBefore(c, 2) /\ TakenBefore(c, 3) = T1
  BY <1>3, <1>7, TakenNext, 2 + 1 = 3
<1>9. c[3].gives = TakenBefore(c, 3) /\ TakenBefore(c, 4) = T2
  BY <1>4, <1>8, TakenNext, 3 + 1 = 4
<1>10. c[4].gives = TakenBefore(c, 4) /\ TakenBefore(c, 5) = T2
  BY <1>5, <1>9, TakenNext, 4 + 1 = 5
<1>11. ASSUME NEW i \in 1 .. 4 PROVE c[i].gives = TakenBefore(c, i)
  <2>1. i = 1 \/ i = 2 \/ i = 3 \/ i = 4
    OBVIOUS
  <2> QED
    BY <2>1, <1>7, <1>8, <1>9, <1>10
<1>12. CallsSound(c, T2)
  BY <1>1, <1>11, <1>10, 4 + 1 = 5 DEF CallsSound
<1>13. T2 = {"buffer", "memory"}
  OBVIOUS
<1> QED
  BY <1>12, <1>13 DEF c

\* Those of a texture.
LEMMA TextureCallsSound == CallsSound(TextureCalls, {"image", "memory", "imageView"})
<1> DEFINE c == TextureCalls
           T1 == {"image"}
           T2 == T1 \cup {"memory"}
           T3 == T2 \cup {"imageView"}
<1>1. Len(c) = 5
  BY DEF TextureCalls
<1>2. c[1].takes = {"image"} /\ c[1].gives = {}
  BY DEF TextureCalls, Call
<1>3. c[2].takes = {} /\ c[2].gives = T1
  BY DEF TextureCalls, Call
<1>4. c[3].takes = {"memory"} /\ c[3].gives = T1
  BY DEF TextureCalls, Call
<1>5. c[4].takes = {} /\ c[4].gives = T2
  BY DEF TextureCalls, Call
<1>6. c[5].takes = {"imageView"} /\ c[5].gives = T2
  BY DEF TextureCalls, Call
<1> HIDE DEF c
<1>7. TakenBefore(c, 1) = {}
  BY TakenFirst
<1>8. c[1].gives = TakenBefore(c, 1) /\ TakenBefore(c, 2) = T1
  BY <1>2, <1>7, TakenNext, 1 + 1 = 2
<1>9. c[2].gives = TakenBefore(c, 2) /\ TakenBefore(c, 3) = T1
  BY <1>3, <1>8, TakenNext, 2 + 1 = 3
<1>10. c[3].gives = TakenBefore(c, 3) /\ TakenBefore(c, 4) = T2
  BY <1>4, <1>9, TakenNext, 3 + 1 = 4
<1>11. c[4].gives = TakenBefore(c, 4) /\ TakenBefore(c, 5) = T2
  BY <1>5, <1>10, TakenNext, 4 + 1 = 5
<1>12. c[5].gives = TakenBefore(c, 5) /\ TakenBefore(c, 6) = T3
  BY <1>6, <1>11, TakenNext, 5 + 1 = 6
<1>13. ASSUME NEW i \in 1 .. 5 PROVE c[i].gives = TakenBefore(c, i)
  <2>1. i = 1 \/ i = 2 \/ i = 3 \/ i = 4 \/ i = 5
    OBVIOUS
  <2> QED
    BY <2>1, <1>8, <1>9, <1>10, <1>11, <1>12
<1>14. CallsSound(c, T3)
  BY <1>1, <1>13, <1>12, 5 + 1 = 6 DEF CallsSound
<1>15. T3 = {"image", "memory", "imageView"}
  OBVIOUS
<1> QED
  BY <1>14, <1>15 DEF c

\* Those of a PSO with a layout of its own.
LEMMA PSOCallsSound ==
    CallsSound(PSOCalls, {"pipelineLayout", "vertModule",
                             "fragModule", "pipeline"})
<1> DEFINE c == PSOCalls
           T1 == {"pipelineLayout"}
           T2 == T1 \cup {"vertModule"}
           T3 == T2 \cup {"fragModule"}
           T4 == T3 \cup {"pipeline"}
<1>1. Len(c) = 4
  BY DEF PSOCalls, ModuleCalls
<1>2. c[1].takes = {"pipelineLayout"} /\ c[1].gives = {}
  BY DEF PSOCalls, ModuleCalls, Call
<1>3. c[2].takes = {"vertModule"} /\ c[2].gives = T1
  BY DEF PSOCalls, ModuleCalls, Call
<1>4. c[3].takes = {"fragModule"} /\ c[3].gives = T2
  BY DEF PSOCalls, ModuleCalls, Call
<1>5. c[4].takes = {"pipeline"} /\ c[4].gives = T3
  BY DEF PSOCalls, ModuleCalls, Call
<1> HIDE DEF c
<1>6. TakenBefore(c, 1) = {}
  BY TakenFirst
<1>7. c[1].gives = TakenBefore(c, 1) /\ TakenBefore(c, 2) = T1
  BY <1>2, <1>6, TakenNext, 1 + 1 = 2
<1>8. c[2].gives = TakenBefore(c, 2) /\ TakenBefore(c, 3) = T2
  BY <1>3, <1>7, TakenNext, 2 + 1 = 3
<1>9. c[3].gives = TakenBefore(c, 3) /\ TakenBefore(c, 4) = T3
  BY <1>4, <1>8, TakenNext, 3 + 1 = 4
<1>10. c[4].gives = TakenBefore(c, 4) /\ TakenBefore(c, 5) = T4
  BY <1>5, <1>9, TakenNext, 4 + 1 = 5
<1>11. ASSUME NEW i \in 1 .. 4 PROVE c[i].gives = TakenBefore(c, i)
  <2>1. i = 1 \/ i = 2 \/ i = 3 \/ i = 4
    OBVIOUS
  <2> QED
    BY <2>1, <1>7, <1>8, <1>9, <1>10
<1>12. CallsSound(c, T4)
  BY <1>1, <1>11, <1>10, 4 + 1 = 5 DEF CallsSound
<1>13. T4 = {"pipelineLayout", "vertModule", "fragModule", "pipeline"}
  OBVIOUS
<1> QED
  BY <1>12, <1>13 DEF c

\* Those of a PSO with the layout of the device.
LEMMA DefaultPSOCallsSound ==
    CallsSound(DefaultPSOCalls, {"vertModule",
                             "fragModule", "pipeline"})
<1> DEFINE c == DefaultPSOCalls
           T1 == {"vertModule"}
           T2 == T1 \cup {"fragModule"}
           T3 == T2 \cup {"pipeline"}
<1>1. Len(c) = 3
  BY DEF DefaultPSOCalls, ModuleCalls
<1>2. c[1].takes = {"vertModule"} /\ c[1].gives = {}
  BY DEF DefaultPSOCalls, ModuleCalls, Call
<1>3. c[2].takes = {"fragModule"} /\ c[2].gives = T1
  BY DEF DefaultPSOCalls, ModuleCalls, Call
<1>4. c[3].takes = {"pipeline"} /\ c[3].gives = T2
  BY DEF DefaultPSOCalls, ModuleCalls, Call
<1> HIDE DEF c
<1>5. TakenBefore(c, 1) = {}
  BY TakenFirst
<1>6. c[1].gives = TakenBefore(c, 1) /\ TakenBefore(c, 2) = T1
  BY <1>2, <1>5, TakenNext, 1 + 1 = 2
<1>7. c[2].gives = TakenBefore(c, 2) /\ TakenBefore(c, 3) = T2
  BY <1>3, <1>6, TakenNext, 2 + 1 = 3
<1>8. c[3].gives = TakenBefore(c, 3) /\ TakenBefore(c, 4) = T3
  BY <1>4, <1>7, TakenNext, 3 + 1 = 4
<1>9. ASSUME NEW i \in 1 .. 3 PROVE c[i].gives = TakenBefore(c, i)
  <2>1. i = 1 \/ i = 2 \/ i = 3
    OBVIOUS
  <2> QED
    BY <2>1, <1>6, <1>7, <1>8
<1>10. CallsSound(c, T3)
  BY <1>1, <1>9, <1>8, 3 + 1 = 4 DEF CallsSound
<1>11. T3 = {"vertModule", "fragModule", "pipeline"}
  OBVIOUS
<1> QED
  BY <1>10, <1>11 DEF c

\* What the devices are made with.
LEMMA DevicesSound == ASSUME NEW a \in Api PROVE MadeSound(Devices[a])
<1>1. MadeSound(VulkanDevice)
  BY DeviceCallsSound, MadeOf DEF VulkanDevice, PoolKind
<1>2. MadeSound(D3D11Device)
  BY MadeOfOne DEF D3D11Device
<1>3. MadeSound(D3D12Device)
  <2> DEFINE few == <<Call({"device"}, {}), Call({"queue"}, {"device"})>>
             c == << Call({"device"}, {}), Call({"queue"}, {"device"}),
                     Call({}, {"queue", "device"}), Call({"rootSignature"}, {"queue", "device"}) >>
  <2>1. /\ Len(c) = 4
        /\ c[1].gives = {} /\ c[1].takes = {"device"}
        /\ c[2].gives = {"device"} /\ c[2].takes = {"queue"}
        /\ c[3].gives = {"queue", "device"} /\ c[3].takes = {}
        /\ c[4].gives = {"queue", "device"} /\ c[4].takes = {"rootSignature"}
    BY DEF Call
  <2> HIDE DEF c
  <2>2. TakenBefore(c, 1) = {}
    BY TakenFirst
  <2>3. TakenBefore(c, 2) = {"device"}
    BY <2>1, <2>2, TakenNext, 1 + 1 = 2
  <2>4. TakenBefore(c, 3) = {"queue", "device"}
    BY <2>1, <2>3, TakenNext, 2 + 1 = 3
  <2>5. TakenBefore(c, 4) = {"queue", "device"}
    BY <2>1, <2>4, TakenNext, 3 + 1 = 4
  <2>6. TakenBefore(c, 5) = {"queue", "device", "rootSignature"}
    BY <2>1, <2>5, TakenNext, 4 + 1 = 5
  <2>7. ASSUME NEW i \in 1 .. 4 PROVE c[i].gives = TakenBefore(c, i)
    <3>1. i = 1 \/ i = 2 \/ i = 3 \/ i = 4
      OBVIOUS
    <3> QED
      BY <2>1, <2>2, <2>3, <2>4, <2>5, <3>1
  <2>8. CallsSound(c, {"queue", "device", "rootSignature"})
    BY <2>1, <2>6, <2>7, 4 + 1 = 5 DEF CallsSound
  <2>9. MadeSound(Made(c, {}, {"rootSignature", "queue", "device"}))
    BY <2>8, MadeOf
  <2> QED
    BY <2>9 DEF c, D3D12Device
<1> QED
  BY <1>1, <1>2, <1>3 DEF Devices, Api

\* One call after another, as a sequence.
LEMMA JoinOne == ASSUME NEW a, NEW b PROVE <<a>> \o <<b>> = <<a, b>>
<1> DEFINE V == {a, b}
<1>1. <<a>> \o <<b>> \in Seq(V) /\ <<a, b>> \in Seq(V)
  OBVIOUS
<1>2. /\ Len(<<a>> \o <<b>>) = 2 /\ Len(<<a, b>>) = 2
      /\ \A i \in 1 .. 2 : (<<a>> \o <<b>>)[i] = <<a, b>>[i]
  OBVIOUS
<1> HIDE DEF V
<1> QED
  BY <1>1, <1>2, SeqEqual

\* What command lists are made with; the descriptor set stays in its pool.
LEMMA ListsSound == ASSUME NEW a \in Api PROVE MadeSound(Lists[a])
<1>1. MadeSound(VulkanList)
  <2>1. CallsSound(CommandListCalls, {"commandBuffer"} \cup {"listSet"})
    BY TwoCalls DEF CommandListCalls
  <2> QED
    BY <2>1, MadeOf DEF VulkanList, PoolKind
<1>2. MadeSound(D3D11List)
  BY MadeOfOne DEF D3D11List, OneCall
<1>3. MadeSound(D3D12List)
  <2>1. OneCall("allocator") \o <<Call({"list"}, {"allocator"})>>
            = <<Call({"allocator"}, {}), Call({"list"}, {"allocator"})>>
    BY JoinOne DEF OneCall
  <2>2. CallsSound(OneCall("allocator") \o <<Call({"list"}, {"allocator"})>>, {"allocator"} \cup {"list"})
    BY <2>1, TwoCalls
  <2> QED
    BY <2>2, MadeOf DEF D3D12List
<1> QED
  BY <1>1, <1>2, <1>3 DEF Lists, Api

\* What the objects of Vulkan are made with.
LEMMA VulkanSound == ASSUME NEW row \in Vulkan PROVE MadeSound(row.made)
<1>1. MadeSound(VulkanBuffer)
  BY BufferCallsSound, MadeOf DEF VulkanBuffer
<1>2. MadeSound(VulkanTexture)
  BY TextureCallsSound, MadeOf DEF VulkanTexture
<1>3. MadeSound(VulkanPSO)
  BY PSOCallsSound, MadeOf DEF VulkanPSO
<1>4. MadeSound(VulkanDefaultPSO)
  BY DefaultPSOCallsSound, MadeOf DEF VulkanDefaultPSO
<1>5. /\ MadeSound(VulkanSampler) /\ MadeSound(VulkanFence) /\ MadeSound(VulkanSemaphore)
      /\ MadeSound(Made(ComputePSOCalls, {}, {"computeModule"}))
      /\ MadeSound(Made(RenderPassCalls, {}, {"renderPass"}))
      /\ MadeSound(Made(SetLayoutCalls, {}, {"setLayout"}))
      /\ MadeSound(Made(DescriptorSetCalls, {}, {"dynamicSet"}))
  BY MadeOfOne DEF VulkanSampler, VulkanFence, VulkanSemaphore, OneCall, ComputePSOCalls,
                   RenderPassCalls, SetLayoutCalls, DescriptorSetCalls
<1> QED
  BY <1>1, <1>2, <1>3, <1>4, <1>5 DEF Vulkan, Row, VulkanSwapChain

\* What those of D3D11 are made with.
LEMMA D3D11Sound == ASSUME NEW row \in D3D11 PROVE MadeSound(row.made)
<1>1. MadeSound(D3D11PSO) /\ MadeSound(D3D11SetLayout) /\ MadeSound(D3D11DescriptorSet)
  BY MadeOfNone DEF D3D11PSO, D3D11SetLayout, D3D11DescriptorSet
<1>2. /\ MadeSound(D3D11Buffer) /\ MadeSound(D3D11Texture) /\ MadeSound(D3D11Sampler)
      /\ MadeSound(D3D11ComputePSO) /\ MadeSound(D3D11Fence)
  BY MadeOfOne DEF D3D11Buffer, D3D11Texture, D3D11Sampler, D3D11ComputePSO, D3D11Fence, OneCall
<1>3. MadeSound(D3D11SwapChain)
  <2>1. OneCall("texture2D") \o <<Call({"rtv"}, {"texture2D"})>>
            = <<Call({"texture2D"}, {}), Call({"rtv"}, {"texture2D"})>>
    BY JoinOne DEF OneCall
  <2>2. CallsSound(OneCall("texture2D") \o <<Call({"rtv"}, {"texture2D"})>>, {"texture2D"} \cup {"rtv"})
    BY <2>1, TwoCalls
  <2> QED
    BY <2>2, MadeOf DEF D3D11SwapChain
<1> QED
  BY <1>1, <1>2, <1>3 DEF D3D11, Row

\* What those of D3D12 are made with.
LEMMA D3D12Sound == ASSUME NEW row \in D3D12 PROVE MadeSound(row.made)
<1>1. MadeSound(D3D12Sampler) /\ MadeSound(D3D12PSO)
  BY MadeOfNone DEF D3D12Sampler, D3D12PSO
<1>2. MadeSound(D3D12Buffer) /\ MadeSound(D3D12Texture) /\ MadeSound(D3D12Semaphore)
  BY MadeOfOne DEF D3D12Buffer, D3D12Texture, D3D12Semaphore, OneCall
<1>3. MadeSound(D3D12Fence)
  <2>1. OneCall("fence") \o <<Call({"event"}, {"fence"})>>
            = <<Call({"fence"}, {}), Call({"event"}, {"fence"})>>
    BY JoinOne DEF OneCall
  <2>2. CallsSound(OneCall("fence") \o <<Call({"event"}, {"fence"})>>, {"fence"} \cup {"event"})
    BY <2>1, TwoCalls
  <2> QED
    BY <2>2, MadeOf DEF D3D12Fence
<1> QED
  BY <1>1, <1>2, <1>3 DEF D3D12, Row

\* What any object is made with, and its kinds.
LEMMA ObjectsSound ==
    ASSUME NEW a \in Api, NEW row \in Objects[a]
    PROVE  MadeSound(row.made) /\ Taken(row.made) \cup row.made.optional \subseteq Kind
<1>1. MadeSound(row.made)
  BY VulkanSound, D3D11Sound, D3D12Sound DEF Objects, Api
<1> QED
  BY <1>1 DEF Kind

\* What devices and lists are made with: all is needed.
LEMMA OwnersSound ==
    ASSUME NEW a \in Api, NEW made \in {Devices[a], Lists[a]}
    PROVE  MadeSound(made) /\ Taken(made) \subseteq Kind /\ made.optional = {}
<1>1. made.optional = {}
  BY DEF Api, Devices, Lists, Made, VulkanDevice, VulkanList, D3D11Device, D3D11List,
         D3D12Device, D3D12List
<1>2. MadeSound(made)
  BY DevicesSound, ListsSound
<1> QED
  BY <1>1, <1>2 DEF Kind

-----------------------------------------------------------------------------
(* GraphicsDevice: what is alive has an owner *)

Holders(k) == {h \in DOMAIN objects : k \in objects[h].gives}
Keepers(k) == {l \in DOMAIN lists : k \in OwnedByList(l)}
OfDevice(k) == IF api = "none" THEN 0 ELSE One(k, Devices[api].gives)

\* A list that records has nothing recorded; the sets of a pool may be forgotten
\* but no more are owned than there are.
DeviceIInv ==
    /\ DeviceTypeOK
    /\ api = "none" => DOMAIN objects = {} /\ DOMAIN lists = {}
    /\ \A k \in Kind : live[k] >= Owned(k) /\ (k \notin PoolKind => live[k] = Owned(k))
    /\ \A k \in PoolKind : lost[k] = 0
    /\ \A h \in DOMAIN objects :
          api = "vulkan" /\ objects[h].type = "descriptorSet" => objects[h].gives \subseteq PoolKind
    /\ \A l \in DOMAIN lists : /\ lists[l].hasFramebuffer <=> lists[l].inRenderPass
                               /\ lists[l].subpass < lists[l].subpassCount
                               /\ lists[l].recording => ~lists[l].recorded

\* Kinds of pools are among the kinds.
LEMMA PoolKinds == PoolKind \subseteq Kind
<1>1. Lists["vulkan"] = VulkanList /\ Row("descriptorSet", Made(DescriptorSetCalls, {}, {"dynamicSet"}))
                                         \in Objects["vulkan"]
  BY DEF Lists, Objects, Api, Vulkan
<1>2. "dynamicSet" \in Taken(Made(DescriptorSetCalls, {}, {"dynamicSet"}))
  <2>1. CallsSound(DescriptorSetCalls, {"dynamicSet"})
    BY SingleCall DEF DescriptorSetCalls
  <2> QED
    BY <2>1 DEF CallsSound, Taken, Made
<1>3. "listSet" \in Taken(VulkanList)
  <2>1. CallsSound(CommandListCalls, {"commandBuffer"} \cup {"listSet"})
    BY TwoCalls DEF CommandListCalls
  <2> QED
    BY <2>1 DEF CallsSound, Taken, Made, VulkanList
<1>4. "vulkan" \in Api
  BY DEF Api
<1>5. "dynamicSet" \in Kind
  BY <1>1, <1>2, <1>4, ObjectsSound DEF Row
<1>6. "listSet" \in Kind
  BY <1>1, <1>3, <1>4, OwnersSound
<1> QED
  BY <1>5, <1>6 DEF PoolKind

\* When a set changes in one place only, so does its size.
LEMMA Recount ==
    ASSUME NEW S, NEW T, NEW x, IsFiniteSet(S), T \ {x} = S \ {x}
    PROVE  /\ IsFiniteSet(T) /\ Cardinality(S) \in Nat /\ Cardinality(T) \in Nat
           /\ Cardinality(T) + One(x, S) = Cardinality(S) + One(x, T)
<1> DEFINE rest == S \ {x}
<1>1. IsFiniteSet(rest) /\ Cardinality(rest) \in Nat
  BY FS_Subset, FS_CardinalityType
<1>2. IsFiniteSet(rest \cup {x}) /\ Cardinality(rest \cup {x}) = Cardinality(rest) + 1
  BY <1>1, FS_AddElement
<1>3. ASSUME NEW A, A \ {x} = rest
      PROVE  IsFiniteSet(A) /\ Cardinality(A) = Cardinality(rest) + One(x, A)
  <2>1. CASE x \in A
    <3>1. A = rest \cup {x}
      BY <1>3, <2>1
    <3> QED
      BY <1>2, <2>1, <3>1 DEF One
  <2>2. CASE x \notin A
    <3>1. A = rest
      BY <1>3, <2>2
    <3> QED
      BY <1>1, <2>2, <3>1 DEF One
  <2> QED
    BY <2>1, <2>2
<1>4. Cardinality(S) = Cardinality(rest) + One(x, S)
  BY <1>3
<1>5. IsFiniteSet(T) /\ Cardinality(T) = Cardinality(rest) + One(x, T)
  BY <1>3
<1> QED
  BY <1>1, <1>4, <1>5 DEF One

\* The sets of owners are finite.
LEMMA FiniteOwners ==
    ASSUME DOMAIN objects \subseteq Handle, DOMAIN lists \subseteq List, NEW k
    PROVE  /\ IsFiniteSet(Holders(k)) /\ Cardinality(Holders(k)) \in Nat
           /\ IsFiniteSet(Keepers(k)) /\ Cardinality(Keepers(k)) \in Nat
<1>1. Holders(k) \subseteq Handle /\ Keepers(k) \subseteq List
  BY DEF Holders, Keepers
<1>2. IsFiniteSet(Holders(k)) /\ IsFiniteSet(Keepers(k))
  BY <1>1, DeviceAssumption, FS_Subset
<1> QED
  BY <1>2, FS_CardinalityType

\* What is owned is a sum of three counts and what is lost.
LEMMA OwnedIs ==
    ASSUME NEW k
    PROVE  Owned(k) = OfDevice(k) + Cardinality(Holders(k)) + Cardinality(Keepers(k)) + lost[k]
  BY DEF Owned, OfDevice, Holders, Keepers

\* One object comes, changes or goes.
LEMMA ObjectStep ==
    ASSUME DeviceIInv, DOMAIN objects' \subseteq Handle, UNCHANGED <<api, lists>>,
           lost' \in [Kind -> Nat], NEW h, NEW k \in Kind,
           DOMAIN objects' \ {h} = DOMAIN objects \ {h},
           \A g \in DOMAIN objects \ {h} : objects'[g] = objects[g]
    PROVE  /\ Owned(k) \in Nat /\ Owned(k)' \in Nat
           /\ Owned(k)' + One(h, Holders(k)) + lost[k] = Owned(k) + One(h, Holders(k)') + lost'[k]
<1>1. Holders(k)' \ {h} = Holders(k) \ {h}
  BY DEF Holders
<1>2. /\ Cardinality(Holders(k)) \in Nat /\ Cardinality(Holders(k)') \in Nat
      /\ Cardinality(Holders(k)') + One(h, Holders(k)) = Cardinality(Holders(k)) + One(h, Holders(k)')
  <2> DEFINE S == Holders(k)
             T == Holders(k)'
  <2>1. IsFiniteSet(S) /\ T \ {h} = S \ {h}
    BY <1>1, FiniteOwners DEF DeviceIInv, DeviceTypeOK
  <2> HIDE DEF S, T
  <2>2. /\ Cardinality(S) \in Nat /\ Cardinality(T) \in Nat
        /\ Cardinality(T) + One(h, S) = Cardinality(S) + One(h, T)
    BY <2>1, Recount
  <2> QED
    BY <2>2 DEF S, T
<1>3. Keepers(k)' = Keepers(k) /\ OfDevice(k)' = OfDevice(k) /\ OfDevice(k) \in Nat
  BY DEF Keepers, OwnedByList, Recorded, OfDevice, One
<1>4. Cardinality(Keepers(k)) \in Nat /\ lost[k] \in Nat /\ lost'[k] \in Nat
  BY FiniteOwners DEF DeviceIInv, DeviceTypeOK
<1>5. Owned(k)' = OfDevice(k)' + Cardinality(Holders(k)') + Cardinality(Keepers(k)') + lost'[k]
  BY DEF Owned, OfDevice, Holders, Keepers
<1>6. One(h, Holders(k)) \in Nat /\ One(h, Holders(k)') \in Nat
  BY DEF One
<1> QED
  BY <1>2, <1>3, <1>4, <1>5, <1>6, OwnedIs

\* One command list comes, changes or goes.
LEMMA ListStep ==
    ASSUME DeviceIInv, DOMAIN lists' \subseteq List, UNCHANGED <<api, objects, lost>>,
           NEW l, NEW k \in Kind,
           DOMAIN lists' \ {l} = DOMAIN lists \ {l},
           \A g \in DOMAIN lists \ {l} : lists'[g] = lists[g]
    PROVE  /\ Owned(k) \in Nat /\ Owned(k)' \in Nat
           /\ Owned(k)' + One(l, Keepers(k)) = Owned(k) + One(l, Keepers(k)')
<1>1. Keepers(k)' \ {l} = Keepers(k) \ {l}
  BY DEF Keepers, OwnedByList, Recorded
<1>2. /\ Cardinality(Keepers(k)) \in Nat /\ Cardinality(Keepers(k)') \in Nat
      /\ Cardinality(Keepers(k)') + One(l, Keepers(k)) = Cardinality(Keepers(k)) + One(l, Keepers(k)')
  <2> DEFINE S == Keepers(k)
             T == Keepers(k)'
  <2>1. IsFiniteSet(S) /\ T \ {l} = S \ {l}
    BY <1>1, FiniteOwners DEF DeviceIInv, DeviceTypeOK
  <2> HIDE DEF S, T
  <2>2. /\ Cardinality(S) \in Nat /\ Cardinality(T) \in Nat
        /\ Cardinality(T) + One(l, S) = Cardinality(S) + One(l, T)
    BY <2>1, Recount
  <2> QED
    BY <2>2 DEF S, T
<1>3. Holders(k)' = Holders(k) /\ OfDevice(k)' = OfDevice(k) /\ OfDevice(k) \in Nat
  BY DEF Holders, OfDevice, One
<1>4. Cardinality(Holders(k)) \in Nat /\ lost[k] \in Nat
  BY FiniteOwners DEF DeviceIInv, DeviceTypeOK
<1>5. Owned(k)' = OfDevice(k)' + Cardinality(Holders(k)') + Cardinality(Keepers(k)') + lost'[k]
  BY DEF Owned, OfDevice, Holders, Keepers
<1>6. One(l, Keepers(k)) \in Nat /\ One(l, Keepers(k)') \in Nat
  BY DEF One
<1> QED
  BY <1>2, <1>3, <1>4, <1>5, <1>6, OwnedIs

\* A change of what is alive, kind by kind.
LEMMA ChangeIs ==
    ASSUME NEW takes, NEW gives
    PROVE  /\ Change(takes, gives) = [k \in Kind |-> Change(takes, gives)[k]]
           /\ \A k \in Kind : Change(takes, gives)[k] = live[k] + One(k, takes) - One(k, gives)
  BY DEF Change

\* A creation that fails leaves what was alive.
LEMMA MakeFails ==
    ASSUME NEW made, MadeSound(made), live \in [Kind -> Nat], NEW extra,
           NEW failed \in 1 .. Len(made.calls) + 1, ~Succeeds(made, failed)
    PROVE  Make(made, failed, extra) = live
<1>1. failed \in 1 .. Len(made.calls)
  BY DEF Succeeds, MadeSound, CallsSound
<1>2. made.calls[failed].gives = TakenBefore(made.calls, failed)
  BY <1>1 DEF MadeSound, CallsSound
<1>3. Make(made, failed, extra) = [k \in Kind |-> live[k]]
  BY <1>2 DEF Make, Change, One
<1> QED
  BY <1>3

\* More is alive: what was taken, which is what is given back but for kinds of pools.
Grows(now, takes, gives) ==
    /\ now = [k \in Kind |-> now[k]]
    /\ \A k \in Kind : /\ now[k] = live[k] + One(k, takes)
                       /\ One(k, gives) =< One(k, takes)
                       /\ k \notin PoolKind => One(k, gives) = One(k, takes)

\* So it is when a creation succeeds.
LEMMA MakeSucceeds ==
    ASSUME NEW made, MadeSound(made), live \in [Kind -> Nat], NEW failed, Succeeds(made, failed),
           NEW extra \in SUBSET made.optional
    PROVE  /\ Grows(Make(made, failed, extra), Taken(made) \cup extra, GivesBack(made, extra))
           /\ GivesBack(made, extra) \subseteq Taken(made) \cup made.optional
<1>1. ASSUME NEW k \in Kind
      PROVE  Make(made, failed, extra)[k] = live[k] + One(k, Taken(made) \cup extra)
  BY DEF Make, Change, One
<1>2. Make(made, failed, extra) = [k \in Kind |-> Make(made, failed, extra)[k]]
  BY DEF Make, Change
<1>3. ASSUME NEW k, k \in GivesBack(made, extra) PROVE k \in Taken(made) \cup extra
  BY <1>3 DEF GivesBack, MadeSound
<1>4. ASSUME NEW k, k \notin PoolKind, k \in Taken(made) \cup extra
      PROVE  k \in GivesBack(made, extra)
  BY <1>4 DEF GivesBack, MadeSound
<1>5. GivesBack(made, extra) \subseteq Taken(made) \cup made.optional
  BY DEF GivesBack, MadeSound
<1>6. ASSUME NEW k
      PROVE  /\ One(k, GivesBack(made, extra)) =< One(k, Taken(made) \cup extra)
             /\ k \notin PoolKind => One(k, GivesBack(made, extra)) = One(k, Taken(made) \cup extra)
  BY <1>3, <1>4 DEF One
<1> QED
  BY <1>1, <1>2, <1>5, <1>6 DEF Grows

\* And when it succeeds with nothing it could do without.
LEMMA MakeWhole ==
    ASSUME NEW made, MadeSound(made), live \in [Kind -> Nat], NEW failed, Succeeds(made, failed),
           made.optional = {}
    PROVE  Grows(Make(made, failed, {}), Taken(made), made.gives)
<1>1. {} \in SUBSET made.optional /\ Taken(made) \cup {} = Taken(made)
  OBVIOUS
<1>2. GivesBack(made, {}) = made.gives
  BY DEF GivesBack
<1>3. Grows(Make(made, failed, {}), Taken(made) \cup {}, GivesBack(made, {}))
  BY <1>1, MakeSucceeds
<1> QED
  BY <1>1, <1>2, <1>3

\* What is alive moves with what is owned.
Balanced(k) ==
    /\ Owned(k) \in Nat /\ Owned(k)' \in Nat /\ live'[k] \in Int
    /\ live'[k] + Owned(k) >= live[k] + Owned(k)'
    /\ k \notin PoolKind => live'[k] + Owned(k) = live[k] + Owned(k)'

\* A step after which more is owned as more is alive.
LEMMA GrowthBalances ==
    ASSUME NEW takes, NEW gives, Grows(live', takes, gives), live \in [Kind -> Nat], NEW k \in Kind,
           Owned(k) \in Nat, Owned(k)' = Owned(k) + One(k, gives)
    PROVE  Balanced(k)
<1>1. /\ live'[k] = live[k] + One(k, takes) /\ One(k, gives) =< One(k, takes)
      /\ k \notin PoolKind => One(k, gives) = One(k, takes)
  BY DEF Grows
<1>2. live[k] \in Nat /\ One(k, takes) \in Nat /\ One(k, gives) \in Nat
  BY DEF One
<1> QED
  BY <1>1, <1>2 DEF Balanced

\* A balanced step keeps what is alive owned.
LEMMA BalancedStep ==
    ASSUME DeviceIInv, live' = [k \in Kind |-> live'[k]], \A k \in Kind : Balanced(k)
    PROVE  /\ live' \in [Kind -> Nat]
           /\ \A k \in Kind : live'[k] >= Owned(k)' /\ (k \notin PoolKind => live'[k] = Owned(k)')
<1>1. ASSUME NEW k \in Kind
      PROVE  /\ live'[k] >= Owned(k)' /\ (k \notin PoolKind => live'[k] = Owned(k)')
             /\ live'[k] \in Nat
  <2>1. Balanced(k) /\ live[k] \in Nat /\ live[k] >= Owned(k) /\ (k \notin PoolKind => live[k] = Owned(k))
    BY DEF DeviceIInv, DeviceTypeOK
  <2> QED
    BY <2>1 DEF Balanced
<1> QED
  BY <1>1

\* Creating and destroying devices.
LEMMA CreateDeviceKeeps == ASSUME DeviceIInv, CreateDevice PROVE DeviceIInv'
<1> PICK a \in Api : \E failed \in 1 .. Len(Devices[a].calls) + 1 :
          /\ live' = Make(Devices[a], failed, {})
          /\ api' = IF Succeeds(Devices[a], failed) THEN a ELSE "none"
  BY DEF CreateDevice
<1> PICK failed \in 1 .. Len(Devices[a].calls) + 1 :
          /\ live' = Make(Devices[a], failed, {})
          /\ api' = IF Succeeds(Devices[a], failed) THEN a ELSE "none"
  OBVIOUS
<1>1. api = "none" /\ UNCHANGED <<objects, lists, lost>> /\ DOMAIN objects = {} /\ DOMAIN lists = {}
  BY DEF CreateDevice, DeviceIInv
<1>2. MadeSound(Devices[a]) /\ Taken(Devices[a]) \subseteq Kind /\ Devices[a].optional = {}
  BY OwnersSound
<1>3. live \in [Kind -> Nat] /\ lost \in [Kind -> Nat]
  BY DEF DeviceIInv, DeviceTypeOK
<1>4. CASE ~Succeeds(Devices[a], failed)
  <2>1. live' = live /\ api' = api
    BY <1>1, <1>2, <1>3, <1>4, MakeFails
  <2> QED
    BY <1>1, <2>1 DEF DeviceIInv, DeviceTypeOK, Owned, OwnedByList, Recorded
<1>5. CASE Succeeds(Devices[a], failed)
  <2>1. api' = a /\ a # "none"
    BY <1>5 DEF Api
  <2>2. Grows(live', Taken(Devices[a]), Devices[a].gives)
    BY <1>2, <1>3, <1>5, MakeWhole
  <2>3. live' = [k \in Kind |-> live'[k]]
    BY <2>2 DEF Grows
  <2>4. ASSUME NEW k \in Kind PROVE Balanced(k)
    <3>1. Holders(k) = {} /\ Keepers(k) = {} /\ Holders(k)' = {} /\ Keepers(k)' = {} /\ Cardinality({}) = 0
      BY <1>1, FS_EmptySet DEF Holders, Keepers
    <3>2. Owned(k) = lost[k] /\ Owned(k)' = One(k, Devices[a].gives) + lost[k] /\ lost[k] \in Nat
      BY <1>1, <1>3, <2>1, <3>1 DEF Owned, Holders, Keepers, One
    <3>3. One(k, Devices[a].gives) \in Nat
      BY DEF One
    <3> QED
      BY <1>3, <2>2, <3>2, <3>3, GrowthBalances
  <2>5. /\ live' \in [Kind -> Nat]
        /\ \A k \in Kind : live'[k] >= Owned(k)' /\ (k \notin PoolKind => live'[k] = Owned(k)')
    BY <2>3, <2>4, BalancedStep
  <2> QED
    BY <1>1, <2>1, <2>5 DEF DeviceIInv, DeviceTypeOK
<1> QED
  BY <1>4, <1>5

\* The device goes with what is left of its pools.
LEMMA DestroyDeviceKeeps == ASSUME DeviceIInv, DestroyDevice PROVE DeviceIInv'
<1>1. /\ api \in Api /\ api' = "none" /\ UNCHANGED <<objects, lists, lost>>
      /\ DOMAIN objects = {} /\ DOMAIN lists = {}
      /\ live' = [k \in Kind |-> IF k \in PoolKind THEN 0 ELSE Change({}, Devices[api].gives)[k]]
  BY DEF DestroyDevice, DeviceIInv, DeviceTypeOK
<1>2. live \in [Kind -> Nat] /\ lost \in [Kind -> Nat]
  BY DEF DeviceIInv, DeviceTypeOK
<1>3. ASSUME NEW k \in Kind
      PROVE  /\ live'[k] >= Owned(k)' /\ (k \notin PoolKind => live'[k] = Owned(k)')
             /\ live'[k] \in Nat
  <2>1. Holders(k) = {} /\ Keepers(k) = {} /\ Holders(k)' = {} /\ Keepers(k)' = {} /\ Cardinality({}) = 0
    BY <1>1, FS_EmptySet DEF Holders, Keepers
  <2>2. Owned(k)' = lost[k] /\ Owned(k) = One(k, Devices[api].gives) + lost[k] /\ lost[k] \in Nat
    BY <1>1, <1>2, <2>1 DEF Owned, Holders, Keepers, One, Api
  <2>3. CASE k \in PoolKind
    <3>1. live'[k] = 0 /\ lost[k] = 0
      BY <1>1, <2>3 DEF DeviceIInv
    <3> QED
      BY <2>2, <2>3, <3>1
  <2>4. CASE k \notin PoolKind
    <3>1. live'[k] = live[k] + One(k, {}) - One(k, Devices[api].gives) /\ live[k] = Owned(k)
      BY <1>1, <2>4, ChangeIs DEF DeviceIInv
    <3> QED
      BY <2>2, <2>4, <3>1 DEF One
  <2> QED
    BY <2>3, <2>4
<1>4. live' \in [Kind -> Nat]
  BY <1>1, <1>3
<1> QED
  BY <1>1, <1>3, <1>4 DEF DeviceIInv, DeviceTypeOK

\* An object comes, or becomes another.
LEMMA PutIs ==
    ASSUME DeviceIInv, NEW h \in Handle, NEW o, Put(h, o)
    PROVE  /\ DOMAIN objects' = DOMAIN objects \cup {h} /\ objects'[h] = o
           /\ \A g \in DOMAIN objects \ {h} : objects'[g] = objects[g]
           /\ DOMAIN objects' \subseteq Handle
  BY DEF Put, DeviceIInv, DeviceTypeOK

\* What it adds to what is owned.
LEMMA PutStep ==
    ASSUME DeviceIInv, UNCHANGED <<api, lists>>, lost' \in [Kind -> Nat],
           NEW h \in Handle, NEW o, Put(h, o), NEW k \in Kind
    PROVE  /\ Owned(k) \in Nat /\ Owned(k)' \in Nat
           /\ Owned(k)' + One(h, Holders(k)) + lost[k] = Owned(k) + One(k, o.gives) + lost'[k]
<1>1. /\ DOMAIN objects' = DOMAIN objects \cup {h} /\ objects'[h] = o
      /\ \A g \in DOMAIN objects \ {h} : objects'[g] = objects[g]
      /\ DOMAIN objects' \subseteq Handle
  BY PutIs
<1>2. DOMAIN objects' \ {h} = DOMAIN objects \ {h}
  BY <1>1
<1>3. /\ Owned(k) \in Nat /\ Owned(k)' \in Nat
      /\ Owned(k)' + One(h, Holders(k)) + lost[k] = Owned(k) + One(h, Holders(k)') + lost'[k]
  BY <1>1, <1>2, ObjectStep
<1>4. One(h, Holders(k)') = One(k, o.gives)
  BY <1>1 DEF One, Holders
<1> QED
  BY <1>3, <1>4

\* What an object that goes takes from it.
LEMMA DropStep ==
    ASSUME DeviceIInv, UNCHANGED <<api, lists, lost>>, NEW h \in DOMAIN objects, Drop(h)
    PROVE  /\ DOMAIN objects' = DOMAIN objects \ {h}
           /\ \A g \in DOMAIN objects \ {h} : objects'[g] = objects[g]
           /\ \A k \in Kind :
                 /\ Owned(k) \in Nat /\ Owned(k)' \in Nat
                 /\ Owned(k)' + One(k, objects[h].gives) = Owned(k)
<1>1. /\ DOMAIN objects' = DOMAIN objects \ {h}
      /\ \A g \in DOMAIN objects \ {h} : objects'[g] = objects[g]
  BY DEF Drop
<1>2. /\ DOMAIN objects' \subseteq Handle /\ DOMAIN objects' \ {h} = DOMAIN objects \ {h}
      /\ lost \in [Kind -> Nat] /\ lost' \in [Kind -> Nat]
  BY <1>1 DEF DeviceIInv, DeviceTypeOK
<1>3. ASSUME NEW k \in Kind
      PROVE  /\ Owned(k) \in Nat /\ Owned(k)' \in Nat
             /\ Owned(k)' + One(k, objects[h].gives) = Owned(k)
  <2>1. /\ Owned(k) \in Nat /\ Owned(k)' \in Nat
        /\ Owned(k)' + One(h, Holders(k)) + lost[k] = Owned(k) + One(h, Holders(k)') + lost'[k]
    BY <1>1, <1>2, ObjectStep
  <2>2. One(h, Holders(k)) = One(k, objects[h].gives) /\ One(h, Holders(k)) \in Nat
    BY DEF One, Holders
  <2>3. One(h, Holders(k)') = 0
    BY <1>1 DEF One, Holders
  <2>4. lost[k] \in Nat /\ lost'[k] = lost[k]
    BY <1>2
  <2> QED
    BY <2>1, <2>2, <2>3, <2>4
<1> QED
  BY <1>1, <1>3

\* While the command lists stay, the rest of the invariant is about the others.
LEMMA ListsStay ==
    ASSUME DeviceIInv, api # "none", UNCHANGED <<api, lists>>,
           live' = [k \in Kind |-> live'[k]], \A k \in Kind : Balanced(k),
           lost' \in [Kind -> Nat], \A k \in PoolKind : lost'[k] = lost[k],
           DOMAIN objects' \subseteq Handle,
           \A h \in DOMAIN objects' :
               /\ \E row \in Objects[api] : objects'[h].type = row.type
               /\ objects'[h].gives \subseteq Kind
               /\ api = "vulkan" /\ objects'[h].type = "descriptorSet" => objects'[h].gives \subseteq PoolKind
    PROVE  DeviceIInv'
<1>1. /\ live' \in [Kind -> Nat]
      /\ \A k \in Kind : live'[k] >= Owned(k)' /\ (k \notin PoolKind => live'[k] = Owned(k)')
  BY BalancedStep
<1> QED
  BY <1>1 DEF DeviceIInv, DeviceTypeOK

\* An object comes with what it gives back, or a failure leaves all as it was.
LEMMA CreateObjectKeeps ==
    ASSUME DeviceIInv, api # "none", NEW h \in Handle, NEW row \in Objects[api],
           CreateObject(h, row.type, row.made)
    PROVE  DeviceIInv'
<1> DEFINE made == row.made
<1> PICK failed \in 1 .. Len(made.calls) + 1, extra \in SUBSET made.optional :
          /\ live' = Make(made, failed, extra)
          /\ IF Succeeds(made, failed) THEN Put(h, Object(row.type, GivesBack(made, extra)))
                                       ELSE UNCHANGED objects
  BY DEF CreateObject
<1>1. h \notin DOMAIN objects /\ UNCHANGED <<api, lists, lost>>
  BY DEF CreateObject
<1>2. api \in Api /\ live \in [Kind -> Nat] /\ lost \in [Kind -> Nat] /\ lost' \in [Kind -> Nat]
  BY <1>1 DEF DeviceIInv, DeviceTypeOK
<1>3. MadeSound(made) /\ Taken(made) \cup made.optional \subseteq Kind
  BY <1>2, ObjectsSound
<1>4. CASE ~Succeeds(made, failed)
  <2>1. live' = live /\ objects' = objects
    BY <1>2, <1>3, <1>4, MakeFails
  <2> QED
    BY <1>1, <2>1 DEF DeviceIInv, DeviceTypeOK, Owned, OwnedByList, Recorded
<1>5. CASE Succeeds(made, failed)
  <2> DEFINE gives == GivesBack(made, extra)
             o == Object(row.type, gives)
  <2>1. Put(h, o) /\ o.gives = gives /\ o.type = row.type
    BY <1>5 DEF Object
  <2>2. /\ DOMAIN objects' = DOMAIN objects \cup {h} /\ objects'[h] = o
        /\ \A g \in DOMAIN objects \ {h} : objects'[g] = objects[g]
    <3> HIDE DEF o
    <3> QED
      BY <2>1, PutIs
  <2> DEFINE takes == Taken(made) \cup extra
  <2>3. Grows(live', takes, gives) /\ gives \subseteq Kind
    BY <1>2, <1>3, <1>5, MakeSucceeds
  <2>4. ASSUME NEW k \in Kind PROVE Balanced(k)
    <3>1. Owned(k)' = Owned(k) + One(k, gives) /\ Owned(k) \in Nat /\ Owned(k)' \in Nat
      <4>1. lost[k] \in Nat /\ lost'[k] = lost[k] /\ One(k, gives) \in Nat
        BY <1>1, <1>2 DEF One
      <4>2. One(h, Holders(k)) = 0
        BY <1>1 DEF One, Holders
      <4>3. UNCHANGED <<api, lists>> /\ lost' \in [Kind -> Nat] /\ o.gives = gives /\ Put(h, o)
        BY <1>1, <1>2, <2>1
      <4> HIDE DEF o, gives
      <4>4. /\ Owned(k) \in Nat /\ Owned(k)' \in Nat
            /\ Owned(k)' + One(h, Holders(k)) + lost[k] = Owned(k) + One(k, o.gives) + lost'[k]
        BY <4>3, PutStep
      <4>5. One(k, o.gives) = One(k, gives)
        BY <4>3
      <4> QED
        BY ONLY <4>1, <4>2, <4>4, <4>5
    <3> HIDE DEF gives, takes
    <3> QED
      BY <1>2, <2>3, <3>1, GrowthBalances
  <2>5. api = "vulkan" /\ row.type = "descriptorSet" => gives \subseteq PoolKind
    <3>1. ASSUME api = "vulkan", row.type = "descriptorSet" PROVE made.gives = {"dynamicSet"}
      BY <3>1 DEF Objects, Api, Vulkan, Row, Made
    <3> QED
      BY <3>1 DEF GivesBack, PoolKind
  <2>6. ASSUME NEW g \in DOMAIN objects'
        PROVE  /\ \E r \in Objects[api] : objects'[g].type = r.type
               /\ objects'[g].gives \subseteq Kind
               /\ api = "vulkan" /\ objects'[g].type = "descriptorSet" => objects'[g].gives \subseteq PoolKind
    BY <2>1, <2>2, <2>3, <2>5 DEF DeviceIInv, DeviceTypeOK
  <2>7. DOMAIN objects' \subseteq Handle
    BY <2>2 DEF DeviceIInv, DeviceTypeOK
  <2>8. live' = [k \in Kind |-> live'[k]]
    BY <2>3 DEF Grows
  <2> QED
    BY <1>1, <1>2, <2>4, <2>6, <2>7, <2>8, ListsStay
<1> QED
  BY <1>4, <1>5

\* An object goes with what it gives back.
LEMMA DestroyObjectKeeps ==
    ASSUME DeviceIInv, NEW h \in DOMAIN objects, DestroyObject(h) PROVE DeviceIInv'
<1>1. /\ Drop(h) /\ UNCHANGED <<api, lists, lost>> /\ api # "none"
      /\ \/ live' = Change({}, objects[h].gives)
         \/ api = "vulkan" /\ objects[h].type = "descriptorSet" /\ UNCHANGED live
  BY DEF DestroyObject, DeviceIInv
<1>2. live \in [Kind -> Nat] /\ lost \in [Kind -> Nat]
  BY DEF DeviceIInv, DeviceTypeOK
<1>3. /\ DOMAIN objects' = DOMAIN objects \ {h}
      /\ \A g \in DOMAIN objects \ {h} : objects'[g] = objects[g]
      /\ \A k \in Kind : /\ Owned(k) \in Nat /\ Owned(k)' \in Nat
                         /\ Owned(k)' + One(k, objects[h].gives) = Owned(k)
  BY <1>1, DropStep
<1>4. ASSUME NEW k \in Kind PROVE Balanced(k)
  <2>1. live[k] \in Nat /\ One(k, objects[h].gives) \in 0 .. 1
    BY <1>2 DEF One
  <2>2. CASE live' = Change({}, objects[h].gives)
    <3>1. live'[k] = live[k] + 0 - One(k, objects[h].gives)
      BY <2>2, ChangeIs DEF One
    <3> QED
      BY <1>3, <2>1, <3>1 DEF Balanced
  <2>3. CASE api = "vulkan" /\ objects[h].type = "descriptorSet" /\ UNCHANGED live
    <3>1. k \notin PoolKind => One(k, objects[h].gives) = 0
      BY <2>3 DEF DeviceIInv, One
    <3> QED
      BY <1>3, <2>1, <2>3, <3>1 DEF Balanced
  <2> QED
    BY <1>1, <2>2, <2>3
<1>5. live' = [k \in Kind |-> live'[k]]
  BY <1>1, <1>2, ChangeIs
<1>6. ASSUME NEW g \in DOMAIN objects'
      PROVE  /\ \E row \in Objects[api] : objects'[g].type = row.type
             /\ objects'[g].gives \subseteq Kind
             /\ api = "vulkan" /\ objects'[g].type = "descriptorSet" => objects'[g].gives \subseteq PoolKind
  BY <1>3 DEF DeviceIInv, DeviceTypeOK
<1>7. DOMAIN objects' \subseteq Handle
  BY <1>3 DEF DeviceIInv, DeviceTypeOK
<1>8. lost' \in [Kind -> Nat] /\ \A k \in PoolKind : lost'[k] = lost[k]
  BY <1>1, <1>2
<1> QED
  BY <1>1, <1>4, <1>5, <1>6, <1>7, <1>8, ListsStay

\* The kinds that come after the creation, and the texture's view, are no pool's.
LEMMA LaterKinds ==
    /\ LaterKind \subseteq Kind /\ LaterKind \cap PoolKind = {}
    /\ "imageView" \in Kind /\ "imageView" \notin PoolKind
<1>1. Row("texture", VulkanTexture) \in Objects["vulkan"] /\ "vulkan" \in Api
  BY DEF Objects, Api, Vulkan
<1>2. Taken(VulkanTexture) = {"image", "memory", "imageView"}
  BY TextureCallsSound DEF CallsSound, Taken, VulkanTexture, Made
<1>3. "imageView" \in Kind
  BY <1>1, <1>2, ObjectsSound DEF Row
<1> QED
  BY <1>3 DEF Kind, LaterKind, PoolKind

\* One more is lost.
LEMMA LoseIs ==
    ASSUME DeviceIInv, NEW k \in Kind \ PoolKind, Lose(k)
    PROVE  /\ lost' \in [Kind -> Nat] /\ \A j \in PoolKind : lost'[j] = lost[j]
           /\ \A j \in Kind : lost'[j] = lost[j] + One(j, {k})
<1>1. lost \in [Kind -> Nat] /\ lost' = [lost EXCEPT ![k] = @ + 1]
  BY DEF DeviceIInv, DeviceTypeOK, Lose
<1> QED
  BY <1>1, PoolKinds DEF One

\* A view handed out is lost.
LEMMA CreateViewKeeps == ASSUME DeviceIInv, CreateView PROVE DeviceIInv'
<1>1. /\ api # "none" /\ Lose("imageView") /\ live' = Change({"imageView"}, {})
      /\ UNCHANGED <<api, objects, lists>>
  BY DEF CreateView
<1>2. live \in [Kind -> Nat] /\ lost \in [Kind -> Nat] /\ DOMAIN objects \subseteq Handle
  BY DEF DeviceIInv, DeviceTypeOK
<1>3. /\ lost' \in [Kind -> Nat] /\ \A k \in PoolKind : lost'[k] = lost[k]
      /\ \A k \in Kind : lost'[k] = lost[k] + One(k, {"imageView"})
  BY <1>1, LaterKinds, LoseIs
<1>4. ASSUME NEW k \in Kind PROVE Balanced(k)
  <2> DEFINE one == One(k, {"imageView"})
  <2>1. live[k] \in Nat /\ lost[k] \in Nat /\ one \in Nat
    BY <1>2 DEF One
  <2>2. live'[k] = live[k] + one
    <3>1. live'[k] = live[k] + one - One(k, {})
      BY <1>1, ChangeIs
    <3>2. One(k, {}) = 0
      BY DEF One
    <3> HIDE DEF one
    <3> QED
      BY <2>1, <3>1, <3>2
  <2>3. lost'[k] = lost[k] + one
    BY <1>3
  <2>4. Holders(k)' = Holders(k)
    BY <1>1 DEF Holders
  <2>5. /\ Owned(k) \in Nat /\ Owned(k)' \in Nat
        /\ Owned(k)' + One(k, Holders(k)) + lost[k] = Owned(k) + One(k, Holders(k)') + lost'[k]
    BY <1>1, <1>2, <1>3, ObjectStep
  <2>6. One(k, Holders(k)) \in Nat
    BY DEF One
  <2> HIDE DEF one
  <2>7. Owned(k)' = Owned(k) + one
    BY ONLY <2>1, <2>3, <2>4, <2>5, <2>6
  <2> QED
    BY <2>1, <2>2, <2>5, <2>7 DEF Balanced
<1>5. live' = [k \in Kind |-> live'[k]]
  BY <1>1, ChangeIs
<1> QED
  BY <1>1, <1>2, <1>3, <1>4, <1>5, ListsStay DEF DeviceIInv, DeviceTypeOK

\* Sets of D3D11 that hold other references.
LEMMA BoundObjects ==
    ASSUME DeviceIInv, NEW h \in D3D11Sets, NEW kinds \in SUBSET Kind, Put(h, Bound(kinds)), UNCHANGED api
    PROVE  /\ DOMAIN objects' \subseteq Handle
           /\ \A g \in DOMAIN objects' :
                 /\ \E row \in Objects[api] : objects'[g].type = row.type
                 /\ objects'[g].gives \subseteq Kind
                 /\ api = "vulkan" /\ objects'[g].type = "descriptorSet" => objects'[g].gives \subseteq PoolKind
<1>1. h \in DOMAIN objects /\ api = "d3d11" /\ DOMAIN objects \subseteq Handle
  BY DEF D3D11Sets, DeviceIInv, DeviceTypeOK
<1>2. DOMAIN objects' \subseteq Handle
  BY <1>1 DEF Put
<1>3. ASSUME NEW g \in DOMAIN objects'
      PROVE  (\E row \in Objects[api] : objects'[g].type = row.type) /\ objects'[g].gives \subseteq Kind
  <2>1. CASE g = h
    <3>1. objects'[g].type = "descriptorSet" /\ objects'[g].gives = kinds
      BY <2>1 DEF Put, Bound, Object
    <3>2. Row("descriptorSet", D3D11DescriptorSet) \in Objects[api]
      BY <1>1 DEF Objects, Api, D3D11
    <3> QED
      BY <3>1, <3>2 DEF Row
  <2>2. CASE g # h
    <3>1. g \in DOMAIN objects /\ objects'[g] = objects[g]
      BY <2>2 DEF Put
    <3> QED
      BY <3>1 DEF DeviceIInv, DeviceTypeOK
  <2> QED
    BY <2>1, <2>2
<1> QED
  BY <1>1, <1>2, <1>3

\* A reference is written over another or taken anew.
LEMMA BindKeeps ==
    ASSUME DeviceIInv, NEW h \in D3D11Sets, NEW b \in {"bufferRef", "samplerRef"}, Bind(h, b)
    PROVE  DeviceIInv'
<1> DEFINE had == objects[h].gives
           has == had \cup {b}
<1>1. /\ Put(h, Bound(has)) /\ live' = Change({b}, {}) /\ UNCHANGED <<api, lists>>
      /\ IF b \in had THEN Lose(b) ELSE UNCHANGED lost
  BY DEF Bind
<1>2. /\ h \in DOMAIN objects /\ h \in Handle /\ api # "none" /\ had \subseteq Kind
      /\ live \in [Kind -> Nat] /\ lost \in [Kind -> Nat]
  BY DEF D3D11Sets, DeviceIInv, DeviceTypeOK
<1>3. b \in Kind \ PoolKind
  BY LaterKinds DEF LaterKind
<1>4. /\ lost' \in [Kind -> Nat] /\ \A k \in PoolKind : lost'[k] = lost[k]
      /\ \A k \in Kind : lost'[k] = lost[k] + IF b \in had THEN One(k, {b}) ELSE 0
  <2>1. CASE b \in had
    BY <1>1, <1>3, <2>1, LoseIs
  <2>2. CASE b \notin had
    BY <1>1, <1>2, <2>2, PoolKinds
  <2> QED
    BY <2>1, <2>2
<1>5. Bound(has).gives = has
  BY DEF Bound, Object
<1>6. ASSUME NEW k \in Kind PROVE Balanced(k)
  <2>1. /\ Owned(k) \in Nat /\ Owned(k)' \in Nat
        /\ Owned(k)' + One(k, had) + lost[k] = Owned(k) + One(k, has) + lost'[k]
    <3> DEFINE o == Bound(has)
    <3>1. Put(h, o) /\ o.gives = has /\ UNCHANGED <<api, lists>> /\ lost' \in [Kind -> Nat]
      BY <1>1, <1>4, <1>5
    <3> HIDE DEF has, o
    <3>2. /\ Owned(k) \in Nat /\ Owned(k)' \in Nat
          /\ Owned(k)' + One(h, Holders(k)) + lost[k] = Owned(k) + One(k, o.gives) + lost'[k]
      BY <1>2, <3>1, PutStep
    <3>3. One(h, Holders(k)) = One(k, had)
      BY <1>2 DEF One, Holders
    <3> HIDE DEF had
    <3> QED
      BY <3>1, <3>2, <3>3
  <2>2. live'[k] = live[k] + One(k, {b}) - 0 /\ live[k] \in Nat /\ lost[k] \in Nat
    BY <1>1, <1>2, ChangeIs DEF One
  <2>3. One(k, has) = One(k, had) + (IF b \in had THEN 0 ELSE One(k, {b})) /\ One(k, had) \in Nat
    BY DEF One
  <2>4. lost'[k] = lost[k] + (IF b \in had THEN One(k, {b}) ELSE 0) /\ One(k, {b}) \in Nat
    BY <1>4 DEF One
  <2> HIDE DEF has, had
  <2> QED
    BY <2>1, <2>2, <2>3, <2>4 DEF Balanced
<1>7. live' = [k \in Kind |-> live'[k]] /\ has \in SUBSET Kind
  <2>1. live' = [k \in Kind |-> live'[k]]
    BY <1>1, ChangeIs
  <2> QED
    BY <1>2, <1>3, <2>1
<1>8. /\ DOMAIN objects' \subseteq Handle
      /\ \A g \in DOMAIN objects' :
            /\ \E row \in Objects[api] : objects'[g].type = row.type
            /\ objects'[g].gives \subseteq Kind
            /\ api = "vulkan" /\ objects'[g].type = "descriptorSet" => objects'[g].gives \subseteq PoolKind
  <2> HIDE DEF has
  <2> QED
    BY <1>1, <1>7, BoundObjects
<1> QED
  BY <1>1, <1>2, <1>4, <1>6, <1>7, <1>8, ListsStay

\* The view of a texture takes the place of another.
LEMMA BindTextureKeeps ==
    ASSUME DeviceIInv, NEW h \in D3D11Sets, BindTexture(h) PROVE DeviceIInv'
<1> DEFINE had == objects[h].gives
<1> PICK made \in SUBSET {"srv"} : /\ Put(h, Bound((had \ {"srv"}) \cup made))
                                   /\ live' = Change(made, had \cap {"srv"})
  BY DEF BindTexture
<1> DEFINE has == (had \ {"srv"}) \cup made
<1>1. UNCHANGED <<api, lists, lost>>
  BY DEF BindTexture
<1>2. /\ h \in DOMAIN objects /\ h \in Handle /\ api # "none" /\ had \subseteq Kind
      /\ live \in [Kind -> Nat] /\ lost \in [Kind -> Nat] /\ lost' \in [Kind -> Nat]
  BY <1>1 DEF D3D11Sets, DeviceIInv, DeviceTypeOK
<1>3. has \in SUBSET Kind /\ Bound(has).gives = has
  BY <1>2, LaterKinds DEF LaterKind, Bound, Object
<1>4. ASSUME NEW k \in Kind PROVE Balanced(k)
  <2>1. /\ Owned(k) \in Nat /\ Owned(k)' \in Nat
        /\ Owned(k)' + One(k, had) + lost[k] = Owned(k) + One(k, has) + lost'[k]
    <3> DEFINE o == Bound(has)
    <3>1. Put(h, o) /\ o.gives = has
      BY <1>3
    <3> HIDE DEF has, o
    <3>2. /\ Owned(k) \in Nat /\ Owned(k)' \in Nat
          /\ Owned(k)' + One(h, Holders(k)) + lost[k] = Owned(k) + One(k, o.gives) + lost'[k]
      BY <1>1, <1>2, <3>1, PutStep
    <3>3. One(h, Holders(k)) = One(k, had)
      BY <1>2 DEF One, Holders
    <3> HIDE DEF had
    <3> QED
      BY <3>1, <3>2, <3>3
  <2>2. live'[k] = live[k] + One(k, made) - One(k, had \cap {"srv"}) /\ live[k] \in Nat /\ lost[k] \in Nat
    BY <1>2, ChangeIs
  <2>3. One(k, has) + One(k, had \cap {"srv"}) = One(k, had) + One(k, made)
    <3>1. CASE k = "srv"
      <4>1. (k \in has <=> k \in made) /\ (k \in had \cap {"srv"} <=> k \in had)
        BY <3>1
      <4> QED
        BY <4>1 DEF One
    <3>2. CASE k # "srv"
      <4>1. (k \in has <=> k \in had) /\ k \notin had \cap {"srv"} /\ k \notin made
        BY <3>2
      <4> QED
        BY <4>1 DEF One
    <3> QED
      BY <3>1, <3>2
  <2>4. /\ One(k, has) \in Nat /\ One(k, had) \in Nat /\ One(k, made) \in Nat
        /\ One(k, had \cap {"srv"}) \in Nat /\ lost'[k] = lost[k]
    BY <1>1 DEF One
  <2> HIDE DEF has, had
  <2> QED
    BY <2>1, <2>2, <2>3, <2>4 DEF Balanced
<1>5. live' = [k \in Kind |-> live'[k]]
  BY ChangeIs
<1>6. /\ DOMAIN objects' \subseteq Handle
      /\ \A g \in DOMAIN objects' :
            /\ \E row \in Objects[api] : objects'[g].type = row.type
            /\ objects'[g].gives \subseteq Kind
            /\ api = "vulkan" /\ objects'[g].type = "descriptorSet" => objects'[g].gives \subseteq PoolKind
  <2>1. Put(h, Bound(has))
    OBVIOUS
  <2> HIDE DEF has
  <2> QED
    BY <1>1, <1>3, <2>1, BoundObjects
<1> QED
  BY <1>1, <1>2, <1>4, <1>5, <1>6, ListsStay

\* What a list has beside what it was made with.
Extras(state) == (IF state.recorded THEN {"recordedList"} ELSE {})
                     \cup (IF state.inRenderPass THEN {"framebuffer"} ELSE {})

ListSound(state) ==
    /\ state \in ListState
    /\ state.hasFramebuffer <=> state.inRenderPass
    /\ state.subpass < state.subpassCount
    /\ state.recording => ~state.recorded

\* The two do not overlap.
LEMMA ExtrasApart ==
    ASSUME NEW a \in Api, NEW state, NEW k
    PROVE  One(k, Lists[a].gives \cup Extras(state)) = One(k, Lists[a].gives) + One(k, Extras(state))
<1>1. Lists[a].gives \cap {"recordedList", "framebuffer"} = {}
  BY DEF Api, Lists, VulkanList, D3D11List, D3D12List, Made
<1>2. Extras(state) \subseteq {"recordedList", "framebuffer"}
  BY DEF Extras
<1>3. ~(k \in Lists[a].gives /\ k \in Extras(state))
  BY <1>1, <1>2
<1> QED
  BY <1>3 DEF One

\* While the objects stay, the rest of the invariant is about the lists.
LEMMA ObjectsStay ==
    ASSUME DeviceIInv, api # "none", UNCHANGED <<api, objects, lost>>,
           live' = [k \in Kind |-> live'[k]], \A k \in Kind : Balanced(k),
           DOMAIN lists' \subseteq List, lists' = [g \in DOMAIN lists' |-> lists'[g]],
           \A g \in DOMAIN lists' : ListSound(lists'[g])
    PROVE  DeviceIInv'
<1>1. /\ live' \in [Kind -> Nat]
      /\ \A k \in Kind : live'[k] >= Owned(k)' /\ (k \notin PoolKind => live'[k] = Owned(k)')
  BY BalancedStep
<1>2. lists' \in [DOMAIN lists' -> ListState]
  BY DEF ListSound
<1> QED
  BY <1>1, <1>2 DEF DeviceIInv, DeviceTypeOK, ListSound

\* The lists are sound.
LEMMA ListsAre ==
    ASSUME DeviceIInv
    PROVE  /\ DOMAIN lists \subseteq List /\ live \in [Kind -> Nat]
           /\ api # "none" => api \in Api
           /\ lists = [l \in DOMAIN lists |-> lists[l]]
           /\ \A l \in DOMAIN lists : ListSound(lists[l]) /\ api \in Api
  BY DEF DeviceIInv, DeviceTypeOK, ListSound

\* A list changes with what is alive.
LEMMA SetStep ==
    ASSUME DeviceIInv, NEW l \in DOMAIN lists, NEW state, ListSound(state), Set(l, state),
           UNCHANGED <<api, objects, lost>>, NEW takes, NEW gives, live' = Change(takes, gives),
           \A k \in Kind : One(k, takes) + One(k, Extras(lists[l])) = One(k, gives) + One(k, Extras(state))
    PROVE  DeviceIInv'
<1>1. /\ DOMAIN lists \subseteq List /\ \A g \in DOMAIN lists : ListSound(lists[g])
      /\ live \in [Kind -> Nat] /\ api \in Api /\ api # "none"
      /\ lists = [g \in DOMAIN lists |-> lists[g]]
  BY ListsAre DEF Api
<1>2. /\ DOMAIN lists' = DOMAIN lists /\ lists'[l] = state /\ lists' = [g \in DOMAIN lists' |-> lists'[g]]
      /\ \A g \in DOMAIN lists \ {l} : lists'[g] = lists[g]
  BY <1>1 DEF Set
<1>3. \A g \in DOMAIN lists' : ListSound(lists'[g])
  BY <1>1, <1>2
<1>4. ASSUME NEW k \in Kind PROVE Balanced(k)
  <2>1. /\ Owned(k) \in Nat /\ Owned(k)' \in Nat
        /\ Owned(k)' + One(l, Keepers(k)) = Owned(k) + One(l, Keepers(k)')
    BY <1>1, <1>2, ListStep
  <2>2. One(l, Keepers(k)) = One(k, Lists[api].gives) + One(k, Extras(lists[l]))
    <3>1. One(l, Keepers(k)) = One(k, OwnedByList(l))
      BY DEF One, Keepers
    <3>2. OwnedByList(l) = Lists[api].gives \cup Extras(lists[l])
      BY DEF OwnedByList, Extras, Recorded
    <3> QED
      BY <1>1, <3>1, <3>2, ExtrasApart
  <2>3. One(l, Keepers(k)') = One(k, Lists[api].gives) + One(k, Extras(state))
    <3>1. One(l, Keepers(k)') = One(k, OwnedByList(l)')
      BY <1>2 DEF One, Keepers
    <3>2. OwnedByList(l)' = Lists[api].gives \cup Extras(state)
      BY <1>2 DEF OwnedByList, Extras, Recorded
    <3> QED
      BY <1>1, <3>1, <3>2, ExtrasApart
  <2>4. live'[k] = live[k] + One(k, takes) - One(k, gives) /\ live[k] \in Nat
    BY <1>1, ChangeIs
  <2>5. /\ One(k, takes) \in Nat /\ One(k, gives) \in Nat /\ One(k, Lists[api].gives) \in Nat
        /\ One(k, Extras(lists[l])) \in Nat /\ One(k, Extras(state)) \in Nat
    BY DEF One
  <2> QED
    BY <2>1, <2>2, <2>3, <2>4, <2>5 DEF Balanced
<1>5. live' = [k \in Kind |-> live'[k]]
  BY ChangeIs
<1> QED
  BY <1>1, <1>2, <1>3, <1>4, <1>5, ObjectsStay

\* Recording begins: what was recorded goes.
LEMMA BeginListKeeps == ASSUME DeviceIInv, NEW l \in DOMAIN lists, BeginList(l) PROVE DeviceIInv'
<1> DEFINE state == [lists[l] EXCEPT !.recording = TRUE, !.recorded = FALSE]
<1>1. ListSound(lists[l])
  BY ListsAre
<1>2. ListSound(state) /\ ~state.recorded /\ state.inRenderPass = lists[l].inRenderPass
  BY <1>1 DEF ListSound, ListState
<1>3. /\ Set(l, state) /\ live' = Change({}, Recorded(l)) /\ UNCHANGED <<api, objects, lost>>
  BY DEF BeginList
<1>4. \A k \in Kind : One(k, {}) + One(k, Extras(lists[l])) = One(k, Recorded(l)) + One(k, Extras(state))
  BY <1>2 DEF One, Extras, Recorded
<1> HIDE DEF state
<1> QED
  BY <1>2, <1>3, <1>4, SetStep

\* Recording ends, with or without an object for what was recorded.
LEMMA EndListKeeps == ASSUME DeviceIInv, NEW l \in DOMAIN lists, EndList(l) PROVE DeviceIInv'
<1> PICK made \in BOOLEAN :
          /\ Set(l, [lists[l] EXCEPT !.recording = FALSE, !.recorded = made])
          /\ live' = Change(IF made THEN {"recordedList"} ELSE {}, {})
  BY DEF EndList
<1> DEFINE state == [lists[l] EXCEPT !.recording = FALSE, !.recorded = made]
           takes == IF made THEN {"recordedList"} ELSE {}
<1>1. ListSound(lists[l]) /\ ~lists[l].recorded /\ ~lists[l].inRenderPass
  BY ListsAre DEF EndList, ListSound
<1>2. ListSound(state) /\ (state.recorded <=> made) /\ ~state.inRenderPass
  BY <1>1 DEF ListSound, ListState
<1>3. Set(l, state) /\ live' = Change(takes, {}) /\ UNCHANGED <<api, objects, lost>>
  BY DEF EndList
<1>4. \A k \in Kind : One(k, takes) + One(k, Extras(lists[l])) = One(k, {}) + One(k, Extras(state))
  BY <1>1, <1>2 DEF One, Extras
<1> HIDE DEF state, takes
<1> QED
  BY <1>2, <1>3, <1>4, SetStep

\* A list with a pass begun is a list.
LEMMA PassState ==
    ASSUME NEW s \in ListState, NEW made \in BOOLEAN, NEW count \in Nat
    PROVE  [s EXCEPT !.subpass = 0, !.subpassCount = count, !.hasFramebuffer = made,
                     !.inRenderPass = made] \in ListState
  BY DEF ListState

\* A pass begins, with its framebuffer or not at all.
LEMMA BeginRenderPassKeeps ==
    ASSUME DeviceIInv, NEW l \in DOMAIN lists, NEW count \in 1 .. 2, BeginRenderPass(l, count)
    PROVE  DeviceIInv'
<1> PICK made \in BOOLEAN :
          /\ Set(l, [lists[l] EXCEPT !.subpass = 0, !.subpassCount = count,
                                     !.hasFramebuffer = made, !.inRenderPass = made])
          /\ live' = Change(IF made THEN {"framebuffer"} ELSE {}, {})
  BY DEF BeginRenderPass
<1> DEFINE state == [lists[l] EXCEPT !.subpass = 0, !.subpassCount = count,
                                     !.hasFramebuffer = made, !.inRenderPass = made]
           takes == IF made THEN {"framebuffer"} ELSE {}
<1>1. ListSound(lists[l]) /\ ~lists[l].inRenderPass
  BY ListsAre DEF BeginRenderPass, ListSound
<1>2. ListSound(state) /\ (state.inRenderPass <=> made) /\ state.recorded = lists[l].recorded
  <2>1. lists[l] \in ListState /\ (lists[l].recording => ~lists[l].recorded)
    BY <1>1 DEF ListSound
  <2>2. state \in ListState
    <3>1. count \in Nat
      OBVIOUS
    <3> QED
      BY <2>1, <3>1, PassState
  <2>3. /\ state.recording = lists[l].recording /\ state.recorded = lists[l].recorded
        /\ state.hasFramebuffer = made /\ state.inRenderPass = made
        /\ state.subpass = 0 /\ state.subpassCount = count
    BY <2>1 DEF ListState
  <2> HIDE DEF state
  <2> QED
    BY <2>1, <2>2, <2>3 DEF ListSound
<1>3. Set(l, state) /\ live' = Change(takes, {}) /\ UNCHANGED <<api, objects, lost>>
  BY DEF BeginRenderPass
<1>4. \A k \in Kind : One(k, takes) + One(k, Extras(lists[l])) = One(k, {}) + One(k, Extras(state))
  BY <1>1, <1>2 DEF One, Extras
<1> HIDE DEF state, takes
<1> QED
  BY <1>2, <1>3, <1>4, SetStep

\* The next subpass takes and gives nothing.
LEMMA NextSubpassKeeps == ASSUME DeviceIInv, NEW l \in DOMAIN lists, NextSubpass(l) PROVE DeviceIInv'
<1> DEFINE state == [lists[l] EXCEPT !.subpass = @ + 1]
<1>1. ListSound(lists[l]) /\ lists[l].subpass + 1 < lists[l].subpassCount
  BY ListsAre DEF NextSubpass
<1>2. /\ ListSound(state) /\ state.recorded = lists[l].recorded
      /\ state.inRenderPass = lists[l].inRenderPass
  BY <1>1 DEF ListSound, ListState
<1>3. Set(l, state) /\ UNCHANGED <<api, objects, lost, live>>
  BY DEF NextSubpass
<1>4. live' = Change({}, {})
  BY <1>3, ListsAre DEF Change, One
<1>5. \A k \in Kind : One(k, {}) + One(k, Extras(lists[l])) = One(k, {}) + One(k, Extras(state))
  BY <1>2 DEF Extras
<1> HIDE DEF state
<1> QED
  BY <1>2, <1>3, <1>4, <1>5, SetStep

\* A pass ends and its framebuffer goes.
LEMMA EndRenderPassKeeps == ASSUME DeviceIInv, NEW l \in DOMAIN lists, EndRenderPass(l) PROVE DeviceIInv'
<1> DEFINE state == [lists[l] EXCEPT !.inRenderPass = FALSE, !.subpass = 0, !.subpassCount = 1,
                                     !.hasFramebuffer = FALSE]
           gives == IF lists[l].hasFramebuffer THEN {"framebuffer"} ELSE {}
<1>1. ListSound(lists[l]) /\ lists[l].inRenderPass /\ lists[l].hasFramebuffer
  BY ListsAre DEF EndRenderPass, ListSound
<1>2. ListSound(state) /\ ~state.inRenderPass /\ state.recorded = lists[l].recorded
  <2>1. lists[l] \in ListState /\ (lists[l].recording => ~lists[l].recorded)
    BY <1>1 DEF ListSound
  <2>2. state \in ListState
    BY <2>1 DEF ListState
  <2>3. /\ state.recording = lists[l].recording /\ state.recorded = lists[l].recorded
        /\ ~state.hasFramebuffer /\ ~state.inRenderPass /\ state.subpass = 0 /\ state.subpassCount = 1
    BY <2>1 DEF ListState
  <2> HIDE DEF state
  <2> QED
    BY <2>1, <2>2, <2>3 DEF ListSound
<1>3. Set(l, state) /\ live' = Change({}, gives) /\ UNCHANGED <<api, objects, lost>>
  BY DEF EndRenderPass
<1>4. \A k \in Kind : One(k, {}) + One(k, Extras(lists[l])) = One(k, gives) + One(k, Extras(state))
  BY <1>1, <1>2 DEF One, Extras
<1> HIDE DEF state, gives
<1> QED
  BY <1>2, <1>3, <1>4, SetStep

\* A command list comes with all it needs, or a failure leaves all as it was.
LEMMA CreateCommandListKeeps ==
    ASSUME DeviceIInv, NEW l \in List, CreateCommandList(l) PROVE DeviceIInv'
<1> DEFINE made == Lists[api]
<1> PICK failed \in 1 .. Len(made.calls) + 1 :
          /\ live' = Make(made, failed, {})
          /\ lists' = IF Succeeds(made, failed)
                      THEN [k \in DOMAIN lists \cup {l} |-> IF k = l THEN NewList ELSE lists[k]]
                      ELSE lists
  BY DEF CreateCommandList
<1>1. api # "none" /\ l \notin DOMAIN lists /\ UNCHANGED <<api, objects, lost>>
  BY DEF CreateCommandList
<1>2. /\ DOMAIN lists \subseteq List /\ live \in [Kind -> Nat] /\ api \in Api
      /\ lists = [g \in DOMAIN lists |-> lists[g]]
      /\ \A g \in DOMAIN lists : ListSound(lists[g])
  BY <1>1, ListsAre
<1>3. MadeSound(made) /\ Taken(made) \subseteq Kind /\ made.optional = {}
  <2>1. made \in {Devices[api], Lists[api]}
    OBVIOUS
  <2>2. api \in Api
    BY <1>2
  <2>3. \A a \in Api : \A m \in {Devices[a], Lists[a]} :
            MadeSound(m) /\ Taken(m) \subseteq Kind /\ m.optional = {}
    BY OwnersSound
  <2> HIDE DEF made
  <2> QED
    BY ONLY <2>1, <2>2, <2>3
<1>4. CASE ~Succeeds(made, failed)
  <2>1. live' = live /\ lists' = lists
    <3>1. lists' = lists /\ live' = Make(made, failed, {})
      BY <1>4
    <3>2. Make(made, failed, {}) = live
      <4> HIDE DEF made
      <4> QED
        BY <1>2, <1>3, <1>4, MakeFails
    <3> QED
      BY <3>1, <3>2
  <2> QED
    BY <1>1, <2>1 DEF DeviceIInv, DeviceTypeOK, Owned, OwnedByList, Recorded
<1>5. CASE Succeeds(made, failed)
  <2>1. /\ DOMAIN lists' = DOMAIN lists \cup {l} /\ lists'[l] = NewList
        /\ \A g \in DOMAIN lists \ {l} : lists'[g] = lists[g]
        /\ lists' = [g \in DOMAIN lists' |-> lists'[g]]
    BY <1>5
  <2>2. ListSound(NewList) /\ Extras(NewList) = {}
    BY DEF ListSound, NewList, ListState, Extras
  <2>3. \A g \in DOMAIN lists' : ListSound(lists'[g])
    BY <1>2, <2>1, <2>2
  <2>4. Grows(live', Taken(made), made.gives)
    <3>1. live' = Make(made, failed, {})
      OBVIOUS
    <3> HIDE DEF made
    <3> QED
      BY <1>2, <1>3, <1>5, <3>1, MakeWhole
  <2>5. ASSUME NEW k \in Kind PROVE Balanced(k)
    <3>1. /\ Owned(k) \in Nat /\ Owned(k)' \in Nat
          /\ Owned(k)' + One(l, Keepers(k)) = Owned(k) + One(l, Keepers(k)')
      BY <1>1, <1>2, <2>1, ListStep
    <3>2. One(l, Keepers(k)) = 0
      BY <1>1 DEF One, Keepers
    <3>3. One(l, Keepers(k)') = One(k, made.gives)
      <4>1. OwnedByList(l)' = made.gives
        BY <1>1, <2>1 DEF OwnedByList, Recorded, NewList
      <4> QED
        BY <2>1, <4>1 DEF One, Keepers
    <3>4. One(k, made.gives) \in Nat
      BY DEF One
    <3> HIDE DEF made
    <3> QED
      BY <1>2, <2>4, <3>1, <3>2, <3>3, <3>4, GrowthBalances
  <2>6. DOMAIN lists' \subseteq List
    BY <1>2, <2>1
  <2>7. live' = [k \in Kind |-> live'[k]]
    BY <2>4 DEF Grows
  <2> QED
    BY <1>1, <2>1, <2>3, <2>5, <2>6, <2>7, ObjectsStay
<1> QED
  BY <1>4, <1>5

\* A command list goes with what it has recorded.
LEMMA DestroyCommandListKeeps ==
    ASSUME DeviceIInv, NEW l \in DOMAIN lists, DestroyCommandList(l) PROVE DeviceIInv'
<1>1. /\ ~lists[l].inRenderPass /\ lists' = [k \in DOMAIN lists \ {l} |-> lists[k]]
      /\ live' = Change({}, Lists[api].gives \cup Recorded(l)) /\ UNCHANGED <<api, objects, lost>>
  BY DEF DestroyCommandList
<1>2. /\ DOMAIN lists \subseteq List /\ \A g \in DOMAIN lists : ListSound(lists[g])
      /\ live \in [Kind -> Nat] /\ api # "none"
  BY ListsAre DEF DeviceIInv
<1>3. /\ DOMAIN lists' = DOMAIN lists \ {l} /\ \A g \in DOMAIN lists \ {l} : lists'[g] = lists[g]
      /\ lists' = [g \in DOMAIN lists' |-> lists'[g]]
  BY <1>1
<1>4. ASSUME NEW k \in Kind PROVE Balanced(k)
  <2>1. /\ Owned(k) \in Nat /\ Owned(k)' \in Nat
        /\ Owned(k)' + One(l, Keepers(k)) = Owned(k) + One(l, Keepers(k)')
    BY <1>1, <1>2, <1>3, ListStep
  <2>2. OwnedByList(l) = Lists[api].gives \cup Recorded(l)
    BY <1>1 DEF OwnedByList
  <2>3. One(l, Keepers(k)) = One(k, Lists[api].gives \cup Recorded(l))
    BY <2>2 DEF One, Keepers
  <2>4. One(l, Keepers(k)') = 0
    BY <1>3 DEF One, Keepers
  <2> DEFINE gives == Lists[api].gives \cup Recorded(l)
  <2>5. live' = Change({}, gives) /\ live[k] \in Nat /\ One(k, {}) = 0 /\ One(k, gives) \in Nat
    BY <1>1, <1>2 DEF One
  <2>6. One(l, Keepers(k)) = One(k, gives)
    BY <2>3
  <2> HIDE DEF gives
  <2>7. live'[k] = live[k] + One(k, {}) - One(k, gives)
    BY <2>5, ChangeIs
  <2> QED
    BY <2>1, <2>4, <2>5, <2>6, <2>7 DEF Balanced
<1>5. live' = [k \in Kind |-> live'[k]]
  BY <1>1, ChangeIs
<1>6. DOMAIN lists' \subseteq List /\ \A g \in DOMAIN lists' : ListSound(lists'[g])
  BY <1>2, <1>3
<1> QED
  BY <1>1, <1>2, <1>3, <1>4, <1>5, <1>6, ObjectsStay

\* The beginning: nothing is alive.
LEMMA DeviceBegins == ASSUME DeviceInit PROVE DeviceIInv
<1>1. /\ api = "none" /\ DOMAIN objects = {} /\ DOMAIN lists = {}
      /\ lists = [g \in {} |-> NewList]
      /\ lost = [k \in Kind |-> 0] /\ live = [k \in Kind |-> 0]
  BY DEF DeviceInit, NoObject, NoList
<1>2. ASSUME NEW k \in Kind PROVE Owned(k) = 0
  <2>1. Holders(k) = {} /\ Keepers(k) = {} /\ Cardinality({}) = 0
    BY <1>1, FS_EmptySet DEF Holders, Keepers
  <2> QED
    BY <1>1, <2>1 DEF Owned, Holders, Keepers
<1>3. DeviceTypeOK
  BY <1>1 DEF DeviceTypeOK
<1> QED
  BY <1>1, <1>2, <1>3, PoolKinds DEF DeviceIInv

\* Every step keeps what is alive owned.
LEMMA DeviceStep == ASSUME DeviceIInv, [DeviceNext]_deviceVars PROVE DeviceIInv'
<1>1. CASE UNCHANGED deviceVars
  BY <1>1 DEF deviceVars, DeviceIInv, DeviceTypeOK, Owned, OwnedByList, Recorded
<1>2. CASE CreateDevice \/ DestroyDevice
  BY <1>2, CreateDeviceKeeps, DestroyDeviceKeeps
<1>3. ASSUME api # "none", NEW h \in Handle, NEW row \in Objects[api], CreateObject(h, row.type, row.made)
      PROVE  DeviceIInv'
  BY <1>3, CreateObjectKeeps
<1>4. ASSUME NEW h \in DOMAIN objects, DestroyObject(h) PROVE DeviceIInv'
  BY <1>4, DestroyObjectKeeps
<1>5. ASSUME NEW h \in D3D11Sets, UpdateDescriptorSet(h) PROVE DeviceIInv'
  BY <1>5, BindKeeps, BindTextureKeeps DEF UpdateDescriptorSet
<1>6. CASE CreateView
  BY <1>6, CreateViewKeeps
<1>7. ASSUME NEW l \in List, CreateCommandList(l) PROVE DeviceIInv'
  BY <1>7, CreateCommandListKeeps
<1>8. ASSUME NEW l \in DOMAIN lists,
             \/ DestroyCommandList(l)
             \/ BeginList(l) \/ EndList(l)
             \/ \E count \in 1 .. 2 : BeginRenderPass(l, count)
             \/ NextSubpass(l) \/ EndRenderPass(l)
      PROVE  DeviceIInv'
  BY <1>8, DestroyCommandListKeeps, BeginListKeeps, EndListKeeps, BeginRenderPassKeeps,
     NextSubpassKeeps, EndRenderPassKeeps
<1> QED
  BY <1>1, <1>2, <1>3, <1>4, <1>5, <1>6, <1>7, <1>8 DEF DeviceNext

\* The invariant of GraphicsDevice holds throughout.
THEOREM DeviceInvariant == DeviceSpec => []DeviceIInv
  BY DeviceBegins, DeviceStep, PTL DEF DeviceSpec

\* For any command lists, objects and sizes of pools: whatever call of a creation
\* fails and in whatever order objects, lists, bindings and devices come and go, the
\* API objects alive are those that something alive gives back and what was lost.
THEOREM DeviceObjectsExact == DeviceSpec => []ApiObjectsExact
<1>1. DeviceIInv => ApiObjectsExact
  BY DEF DeviceIInv, ApiObjectsExact
<1> QED
  BY <1>1, DeviceInvariant, PTL
=============================================================================
