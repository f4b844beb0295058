---------------------------- MODULE Core_proofs ----------------------------
(***************************************************************************)
(* Proofs about the parts of 001-core: TaskExecutor for every number of    *)
(* tasks and every set of priorities, ConditionVariable for any set of     *)
(* threads, Allocation for any number of threads, addresses and blocks;    *)
(* and about 007-subsystems: SubsystemLifecycle for any number of          *)
(* subsystems, any declared dependencies and priorities, and any number of *)
(* passes.                                                                 *)
(***************************************************************************)
EXTENDS TaskExecutor, ConditionVariable, Allocation, SubsystemLifecycle,
        FiniteSetTheorems, SequenceTheorems, TLAPS

-----------------------------------------------------------------------------
(* TaskExecutor *)

\* The worker has an item in hand exactly between popping and erasing it, and
\* the item has left the queue.
ItemInHand ==
    /\ worker \in {"running", "returned", "stored"} <=> item # 0
    /\ item \notin priority_queue

\* Nothing is known of an id that was never handed out.
OnlyAccepted ==
    /\ priority_queue \subseteq Accepted
    /\ tasks \subseteq Accepted
    /\ cancelled \subseteq Accepted
    /\ item \in Accepted \cup {0}

\* A queued item has not been run, and the item about to be erased has.
StatusFollowsWorker ==
    /\ \A t \in priority_queue : status[t] # "Completed"
    /\ worker = "stored" => status[item] = "Completed"
    /\ \A t \in TaskId \ Accepted : status[t] = "Pending"

ExitedAndEmpty == worker = "exited" => shutdown /\ priority_queue = {}

IInv == /\ TypeOK
        /\ ItemInHand
        /\ OnlyAccepted
        /\ StatusFollowsWorker
        /\ ExitedAndEmpty
        /\ NoLostWakeup
        /\ TaskTableExact

-----------------------------------------------------------------------------

\* Every action keeps the variables in their types.
THEOREM TypeCorrect == Spec => []TypeOK
<1> USE MaxTasksAssumption, PriorityAssumption DEF TaskId, TypeOK
<1>1. Init => TypeOK
  <2> SUFFICES ASSUME Init PROVE TypeOK
    OBVIOUS
  <2>1. priority \in [TaskId -> Priority] /\ status \in [TaskId -> TaskStatus]
    BY DEF Init, TaskStatus
  <2>2. nextTaskId \in 1 .. (MaxTasks + 1)
    BY DEF Init
  <2> QED
    BY <2>1, <2>2 DEF Init, WorkerState
<1>2. TypeOK /\ [Next]_vars => TypeOK'
  <2> SUFFICES ASSUME TypeOK, [Next]_vars PROVE TypeOK'
    OBVIOUS
  <2>1. ASSUME NEW p \in Priority, NEW c \in BOOLEAN, SubmitTaskWithPriority(p, c)
        PROVE  TypeOK'
    BY <2>1 DEF SubmitTaskWithPriority, Notified, WorkerState
  <2>2. ASSUME NEW t \in TaskId, CancelTask(t) PROVE TypeOK'
    BY <2>2 DEF CancelTask, TaskStatus
  <2>3. CASE Shutdown
    BY <2>3 DEF Shutdown, table, Notified, WorkerState
  <2>4. CASE WaitForWork
    BY <2>4 DEF WaitForWork, table, WorkerState
  <2>5. ASSUME NEW t \in TaskId, SkipCancelled(t) PROVE TypeOK'
    BY <2>5 DEF SkipCancelled, Pop
  <2>6. ASSUME NEW t \in TaskId, StartTask(t) PROVE TypeOK'
    BY <2>6 DEF StartTask, Pop, TaskStatus, WorkerState
  <2>7. ASSUME NEW t \in TaskId, DropTask(t) PROVE TypeOK'
    BY <2>7 DEF DropTask, Pop, TaskStatus
  <2>8. CASE CallbackReturns
    BY <2>8 DEF CallbackReturns, table, WorkerState
  <2>9. CASE StoreCompleted
    BY <2>9 DEF StoreCompleted, table, WorkerState, TaskStatus
  <2>10. CASE EraseTask
    BY <2>10 DEF EraseTask, WorkerState
  <2>11. CASE Exit
    BY <2>11 DEF Exit, table, WorkerState
  <2>12. CASE SpuriousWakeup
    BY <2>12 DEF SpuriousWakeup, table, WorkerState
  <2>13. CASE UNCHANGED vars
    BY <2>13 DEF vars, table
  <2> QED
    BY <2>1, <2>2, <2>3, <2>4, <2>5, <2>6, <2>7, <2>8, <2>9, <2>10, <2>11,
       <2>12, <2>13 DEF Next, Caller, Worker
<1> QED
  BY <1>1, <1>2, PTL DEF Spec

-----------------------------------------------------------------------------
\* The inductive invariant holds in every reachable state.
THEOREM InductiveInvariant == Spec => []IInv
<1> USE MaxTasksAssumption, PriorityAssumption DEF TaskId, Accepted
<1> DEFINE Rest == /\ ItemInHand /\ OnlyAccepted /\ StatusFollowsWorker
                   /\ ExitedAndEmpty /\ NoLostWakeup /\ TaskTableExact
<1>1. Init => Rest
  BY DEF Init, ItemInHand, OnlyAccepted, StatusFollowsWorker, ExitedAndEmpty,
         NoLostWakeup, TaskTableExact
<1>2. TypeOK /\ Rest /\ [Next]_vars => Rest'
  <2> SUFFICES ASSUME TypeOK, Rest, [Next]_vars PROVE Rest'
    OBVIOUS
  <2> USE DEF TypeOK, ItemInHand, OnlyAccepted, StatusFollowsWorker,
              ExitedAndEmpty, NoLostWakeup, TaskTableExact
  <2>1. ASSUME NEW p \in Priority, NEW c \in BOOLEAN, SubmitTaskWithPriority(p, c)
        PROVE  Rest'
    BY <2>1 DEF SubmitTaskWithPriority, Notified
  <2>2. ASSUME NEW t \in TaskId, CancelTask(t)
        PROVE  Rest'
    BY <2>2 DEF CancelTask
  <2>3. CASE Shutdown
    BY <2>3 DEF Shutdown, table, Notified
  <2>4. CASE WaitForWork
    BY <2>4 DEF WaitForWork, table
  <2>5. ASSUME NEW t \in TaskId, SkipCancelled(t)
        PROVE  Rest'
    BY <2>5 DEF SkipCancelled, Pop
  <2>6. ASSUME NEW t \in TaskId, StartTask(t)
        PROVE  Rest'
    <3>1. t \in Accepted /\ t # 0 /\ Accepted' = Accepted
      BY <2>6 DEF StartTask, Pop, Highest
    <3>2. ItemInHand' /\ ExitedAndEmpty' /\ NoLostWakeup'
      BY <2>6, <3>1 DEF StartTask, Pop
    <3>3. OnlyAccepted'
      BY <2>6, <3>1 DEF StartTask, Pop
    <3>4. StatusFollowsWorker'
      BY <2>6, <3>1 DEF StartTask, Pop
    <3>5. TaskTableExact'
      BY <2>6 DEF StartTask, Pop
    <3> QED
      BY <3>2, <3>3, <3>4, <3>5
  <2>7. ASSUME NEW t \in TaskId, DropTask(t)
        PROVE  Rest'
    <3>1. t \in Accepted /\ t # 0 /\ Accepted' = Accepted
      BY <2>7 DEF DropTask, Pop, Highest
    <3>2. ItemInHand' /\ ExitedAndEmpty' /\ NoLostWakeup'
      BY <2>7, <3>1 DEF DropTask, Pop
    <3>3. OnlyAccepted'
      BY <2>7, <3>1 DEF DropTask, Pop
    <3>4. StatusFollowsWorker'
      BY <2>7, <3>1 DEF DropTask, Pop
    <3>5. TaskTableExact'
      BY <2>7 DEF DropTask, Pop
    <3> QED
      BY <3>2, <3>3, <3>4, <3>5
  <2>8. CASE CallbackReturns
    BY <2>8 DEF CallbackReturns, table
  <2>9. CASE StoreCompleted
    BY <2>9 DEF StoreCompleted, table
  <2>10. CASE EraseTask
    BY <2>10 DEF EraseTask
  <2>11. CASE Exit
    BY <2>11 DEF Exit, table
  <2>12. CASE SpuriousWakeup
    BY <2>12 DEF SpuriousWakeup, table
  <2>13. CASE UNCHANGED vars
    BY <2>13 DEF vars, table
  <2> QED
    BY <2>1, <2>2, <2>3, <2>4, <2>5, <2>6, <2>7, <2>8, <2>9, <2>10, <2>11,
       <2>12, <2>13 DEF Next, Caller, Worker
<1> QED
  BY <1>1, <1>2, TypeCorrect, PTL DEF Spec, IInv

-----------------------------------------------------------------------------

\* The worker never sleeps through a task or a shutdown.
THEOREM WorkerNeverOversleeps == Spec => []NoLostWakeup
BY InductiveInvariant, PTL DEF IInv

\* tasks_ holds exactly what can still be cancelled.
THEOREM TableIsExact == Spec => []TaskTableExact
BY InductiveInvariant, PTL DEF IInv

\* No accepted task is lost when the worker thread ends.
THEOREM NothingLostAtExit == Spec => []DrainedAtExit
<1>1. IInv => DrainedAtExit
  BY DEF IInv, ItemInHand, ExitedAndEmpty, DrainedAtExit, PhaseOf
<1> QED
  BY <1>1, InductiveInvariant, PTL

\* A task nobody cancelled leaves tasks_ only when it has run, and is marked
\* Completed only when its callback has returned.
MarkedWhenRun ==
    \A t \in Accepted \ cancelled :
       /\ t \notin tasks => status[t] = "Completed" /\ t # item
       /\ status[t] = "Completed" => ~(t = item /\ worker = "running")

\* GetTaskStatus answers Completed for a task that was not cancelled only when
\* its callback has returned.
THEOREM CompletedIsTrue == Spec => []CompletedIsOver
<1> USE DEF IInv, MarkedWhenRun
<1>1. Init => MarkedWhenRun
  BY DEF Init, Accepted
<1>2. IInv /\ MarkedWhenRun /\ [Next]_vars => MarkedWhenRun'
  <2> SUFFICES ASSUME IInv, MarkedWhenRun, [Next]_vars PROVE MarkedWhenRun'
    OBVIOUS
  <2> USE MaxTasksAssumption DEF TaskId, TypeOK, Accepted, ItemInHand, OnlyAccepted,
          StatusFollowsWorker, TaskTableExact
  <2>1. ASSUME NEW p \in Priority, NEW c \in BOOLEAN, SubmitTaskWithPriority(p, c)
        PROVE  MarkedWhenRun'
    BY <2>1 DEF SubmitTaskWithPriority, Notified
  <2>2. ASSUME NEW t \in TaskId, CancelTask(t) PROVE MarkedWhenRun'
    BY <2>2 DEF CancelTask
  <2>3. CASE Shutdown
    BY <2>3 DEF Shutdown, table, Notified
  <2>4. CASE WaitForWork \/ SpuriousWakeup \/ CallbackReturns \/ Exit
    BY <2>4 DEF WaitForWork, SpuriousWakeup, CallbackReturns, Exit, table
  <2>5. ASSUME NEW t \in TaskId, SkipCancelled(t) \/ DropTask(t) PROVE MarkedWhenRun'
    BY <2>5 DEF SkipCancelled, DropTask, Pop, Highest
  <2>6. ASSUME NEW t \in TaskId, StartTask(t) PROVE MarkedWhenRun'
    BY <2>6 DEF StartTask, Pop, Highest
  <2>7. CASE StoreCompleted
    BY <2>7 DEF StoreCompleted, table
  <2>8. CASE EraseTask
    BY <2>8 DEF EraseTask
  <2>9. CASE UNCHANGED vars
    BY <2>9 DEF vars, table
  <2> QED
    BY <2>1, <2>2, <2>3, <2>4, <2>5, <2>6, <2>7, <2>8, <2>9 DEF Next, Worker, Caller
<1>3. IInv /\ MarkedWhenRun => CompletedIsOver
  BY DEF CompletedIsOver, GetTaskStatus, PhaseOf, TaskTableExact, StatusFollowsWorker,
         OnlyAccepted, Accepted, TypeOK, TaskId
<1> QED
  BY <1>1, <1>2, <1>3, InductiveInvariant, PTL DEF Spec

\* The worker never oversleeps, the destructor loses no task and Completed is
\* never said too early, for any number of tasks and priorities.
THEOREM QueueAlwaysSound == Spec => []QueueSound
BY WorkerNeverOversleeps, NothingLostAtExit, CompletedIsTrue, PTL DEF QueueSound

-----------------------------------------------------------------------------

Mapped == [t \in TaskId |-> PhaseOf(t)]

\* A step that changes the phase of one task only.
LEMMA OnePhaseChanges ==
    ASSUME NEW t \in TaskId, NEW ph,
           PhaseOf(t)' = ph,
           \A u \in TaskId \ {t} : PhaseOf(u)' = PhaseOf(u)
    PROVE  Mapped' = [Mapped EXCEPT ![t] = ph]
BY DEF Mapped

\* A step that changes the phase of no task.
LEMMA NoPhaseChanges ==
    ASSUME \A u \in TaskId : PhaseOf(u)' = PhaseOf(u),
           priority' = priority
    PROVE  UNCHANGED Service!vars
BY DEF Service!vars

\* SingleThreadExecutor implements TaskService, whatever the number of tasks
\* and the priorities.
THEOREM Refinement == Spec => ImplementsService
<1> USE MaxTasksAssumption, PriorityAssumption
<1>1. Init => Service!Init
  BY DEF Init, Service!Init, PhaseOf, Accepted, Service!TaskId, TaskId
<1>2. IInv /\ [Next]_vars => [Service!Next]_(Service!vars)
  <2> SUFFICES ASSUME IInv, [Next]_vars
               PROVE  Service!Next \/ UNCHANGED Service!vars
    OBVIOUS
  <2> USE DEF IInv
  <2> USE DEF Mapped
  <2>0. Service!TaskId = TaskId
    BY DEF Service!TaskId, TaskId
  <2>1. ASSUME NEW p \in Priority, NEW c \in BOOLEAN, SubmitTaskWithPriority(p, c)
        PROVE  Service!Next
    <3>0. PICK n \in TaskId : n = nextTaskId
      BY <2>1 DEF TypeOK, SubmitTaskWithPriority, TaskId
    <3>1. n \in TaskId /\ n \notin Accepted /\ Accepted' = Accepted \cup {n}
      BY <2>1, <3>0 DEF TypeOK, SubmitTaskWithPriority, TaskId, Accepted
    <3>2. \A u \in TaskId : u < n => u \in Accepted
      BY <3>0 DEF TaskId, Accepted
    <3>3. PhaseOf(n) = "unused" /\ \A u \in TaskId : u < n => PhaseOf(u) # "unused"
      BY <3>1, <3>2 DEF PhaseOf
    <3>4. PhaseOf(n)' = "waiting"
      BY <2>1, <3>0, <3>1 DEF SubmitTaskWithPriority, PhaseOf, OnlyAccepted
    <3>5. \A u \in TaskId \ {n} : PhaseOf(u)' = PhaseOf(u)
      <4> SUFFICES ASSUME NEW u \in TaskId \ {n} PROVE PhaseOf(u)' = PhaseOf(u)
        OBVIOUS
      <4>1. CASE u = item
        BY <2>1, <3>0, <3>1, <4>1 DEF SubmitTaskWithPriority, PhaseOf, Notified, ItemInHand, TaskId
      <4>2. CASE u # item
        BY <2>1, <3>0, <3>1, <4>2 DEF SubmitTaskWithPriority, PhaseOf
      <4> QED
        BY <4>1, <4>2
    <3>6. Service!Accept(n, p)
      BY <2>0, <2>1, <3>0, <3>3, <3>4, <3>5, OnePhaseChanges
      DEF Service!Accept, SubmitTaskWithPriority
    <3> QED
      BY <2>0, <3>1, <3>6 DEF Service!Next
  <2>2. ASSUME NEW t \in TaskId, CancelTask(t)
        PROVE  Service!Next \/ UNCHANGED Service!vars
    <3>1. \A u \in TaskId \ {t} : PhaseOf(u)' = PhaseOf(u)
      BY <2>2 DEF CancelTask, PhaseOf, Accepted, TypeOK
    <3>2. CASE t \in priority_queue
      <4>1. PhaseOf(t) = "waiting" /\ PhaseOf(t)' = "withdrawn"
        BY <2>2, <3>2 DEF CancelTask, PhaseOf, TaskTableExact, OnlyAccepted, Accepted
      <4>2. Service!Withdraw(t)
        BY <2>0, <2>2, <3>1, <4>1, OnePhaseChanges DEF Service!Withdraw, CancelTask
      <4> QED
        BY <2>0, <4>2 DEF Service!Next
    <3>3. CASE t \notin priority_queue
      <4>1. PhaseOf(t)' = PhaseOf(t)
        BY <2>2, <3>3 DEF CancelTask, PhaseOf, Accepted, TypeOK
      <4> QED
        BY <2>2, <3>1, <4>1, NoPhaseChanges DEF CancelTask
    <3> QED
      BY <3>2, <3>3
  <2>3. ASSUME NEW t \in TaskId, SkipCancelled(t)
        PROVE  UNCHANGED Service!vars
    <3>1. \A u \in TaskId : PhaseOf(u)' = PhaseOf(u)
      BY <2>3 DEF SkipCancelled, Pop, Highest, PhaseOf, Accepted, StatusFollowsWorker,
                  ItemInHand
    <3> QED
      BY <2>3, <3>1, NoPhaseChanges DEF SkipCancelled, Pop
  <2>4. ASSUME NEW t \in TaskId, Pop(t), t \notin cancelled
        PROVE  /\ PhaseOf(t) = "waiting"
               /\ Service!First(t)
               /\ Service!Idle
    <3>1. PhaseOf(t) = "waiting"
      BY <2>4 DEF Pop, Highest, PhaseOf, OnlyAccepted
    <3>2. \A u \in TaskId : PhaseOf(u) = "waiting" => u \in priority_queue
      BY DEF PhaseOf
    <3>3. \A u \in TaskId : PhaseOf(u) # "running"
      BY <2>4 DEF PhaseOf, Pop
    <3>4. \A u \in priority_queue \ {t} : \/ priority[t] > priority[u]
                                          \/ priority[t] = priority[u] /\ t < u
      BY <2>4 DEF Pop, Highest, TypeOK, TaskId
    <3> QED
      BY <2>0, <3>1, <3>2, <3>3, <3>4
      DEF Service!First, Service!Waiting, Service!Before, Service!Idle
  <2>5. ASSUME NEW t \in TaskId, StartTask(t)
        PROVE  Service!Next
    <3>1. PhaseOf(t)' = "running"
      BY <2>5 DEF StartTask, Pop, PhaseOf, Accepted, Highest, OnlyAccepted
    <3>2. \A u \in TaskId \ {t} : PhaseOf(u)' = PhaseOf(u)
      BY <2>5 DEF StartTask, Pop, PhaseOf, Accepted, ItemInHand, TypeOK, TaskId
    <3>3. Service!Start(t)
      BY <2>0, <2>4, <2>5, <3>1, <3>2, OnePhaseChanges DEF Service!Start, StartTask, Pop
    <3> QED
      BY <2>0, <3>3 DEF Service!Next
  <2>6. ASSUME NEW t \in TaskId, DropTask(t)
        PROVE  Service!Next
    <3>1. PhaseOf(t)' = "withdrawn"
      BY <2>6 DEF DropTask, Pop, PhaseOf, Accepted, Highest, OnlyAccepted, ItemInHand, TypeOK
    <3>2. \A u \in TaskId \ {t} : PhaseOf(u)' = PhaseOf(u)
      BY <2>6 DEF DropTask, Pop, PhaseOf, Accepted, TypeOK
    <3>3. Service!Withdraw(t)
      BY <2>0, <2>4, <2>6, <3>1, <3>2, OnePhaseChanges DEF Service!Withdraw, DropTask, Pop
    <3> QED
      BY <2>0, <3>3 DEF Service!Next
  <2>7. CASE CallbackReturns
    <3>1. item \in TaskId /\ PhaseOf(item) = "running"
      BY <2>7 DEF CallbackReturns, ItemInHand, OnlyAccepted, PhaseOf, TypeOK
    <3>2. PhaseOf(item)' = "done"
      BY <2>7, <3>1 DEF CallbackReturns, table, PhaseOf, Accepted, OnlyAccepted, ItemInHand
    <3>3. \A u \in TaskId \ {item} : PhaseOf(u)' = PhaseOf(u)
      BY <2>7 DEF CallbackReturns, table, PhaseOf, Accepted
    <3>4. Service!Finish(item)
      BY <2>0, <2>7, <3>1, <3>2, <3>3, OnePhaseChanges
      DEF Service!Finish, CallbackReturns, table
    <3> QED
      BY <2>0, <3>1, <3>4 DEF Service!Next
  <2>8. CASE StoreCompleted
    <3>1. \A u \in TaskId : PhaseOf(u)' = PhaseOf(u)
      BY <2>8 DEF StoreCompleted, table, PhaseOf, Accepted, TypeOK
    <3> QED
      BY <2>8, <3>1, NoPhaseChanges DEF StoreCompleted, table
  <2>9. CASE EraseTask
    <3>1. \A u \in TaskId : PhaseOf(u)' = PhaseOf(u)
      BY <2>9 DEF EraseTask, PhaseOf, Accepted, StatusFollowsWorker, ItemInHand, TaskId
    <3> QED
      BY <2>9, <3>1, NoPhaseChanges DEF EraseTask
  <2>10. ASSUME Shutdown \/ WaitForWork \/ Exit \/ SpuriousWakeup \/ UNCHANGED vars
         PROVE  UNCHANGED Service!vars
    <3>1. \A u \in TaskId : PhaseOf(u)' = PhaseOf(u)
      BY <2>10 DEF Shutdown, WaitForWork, Exit, SpuriousWakeup, vars, table, Notified,
                   PhaseOf, Accepted, ItemInHand, TaskId
    <3>2. priority' = priority
      BY <2>10 DEF Shutdown, WaitForWork, Exit, SpuriousWakeup, vars, table
    <3> QED
      BY <3>1, <3>2, NoPhaseChanges
  <2> QED
    BY <2>1, <2>2, <2>3, <2>5, <2>6, <2>7, <2>8, <2>9, <2>10 DEF Next, Caller, Worker
<1> QED
  BY <1>1, <1>2, InductiveInvariant, PTL DEF Spec, ImplementsService, Service!Spec

-----------------------------------------------------------------------------
(* ConditionVariable *)

\* The mutex is held by the thread the code thinks holds it, and by no other;
\* only waiters are inside Wait.
VariableIInv ==
    /\ VariableTypeOK
    /\ WaitReturnsLocked
    /\ \A t \in Thread : owner = t => Holds(t)
    /\ \A t \in Thread :
          pc[t] \in {"test", "unlocked", "relocked", "asleep"} => t \in Waiter

\* Every variable keeps its type, and a thread past a Wait, or in its critical
\* section, holds the mutex.
THEOREM VariableInvariant == VariableSpec => []VariableIInv
<1>. USE ThreadsAssumption
<1>1. VariableInit => VariableIInv
  BY DEF VariableInit, VariableIInv, VariableTypeOK, Locations, WaitReturnsLocked, Holds
<1>2. VariableIInv /\ [VariableNext]_variableVars => VariableIInv'
  <2>. SUFFICES ASSUME VariableIInv, [VariableNext]_variableVars PROVE VariableIInv'  OBVIOUS
  <2>. USE DEF VariableIInv, VariableTypeOK, Locations, WaitReturnsLocked, Holds, Goto
  <2>1. ASSUME NEW t \in Thread, Enter(t) PROVE VariableIInv'
    BY <2>1 DEF Enter, Lock
  <2>2. ASSUME NEW t \in Thread, TestTrue(t) PROVE VariableIInv'
    BY <2>2 DEF TestTrue
  <2>3. ASSUME NEW t \in Thread, WaitUnlocks(t) PROVE VariableIInv'
    BY <2>3 DEF WaitUnlocks, Unlock
  <2>4. ASSUME NEW t \in Thread, WaitRelocks(t) PROVE VariableIInv'
    BY <2>4 DEF WaitRelocks, Lock
  <2>5. ASSUME NEW t \in Thread, WaitSleeps(t) PROVE VariableIInv'
    BY <2>5 DEF WaitSleeps, Unlock
  <2>6. ASSUME NEW t \in Thread, WaitWakes(t) PROVE VariableIInv'
    BY <2>6 DEF WaitWakes, Lock
  <2>7. ASSUME NEW t \in Thread, WakeSpuriously(t) PROVE VariableIInv'
    BY <2>7 DEF WakeSpuriously
  <2>8. ASSUME NEW t \in Thread, Leave(t) PROVE VariableIInv'
    BY <2>8 DEF Leave, Unlock
  <2>9. ASSUME NEW t \in Thread, SetCondition(t) PROVE VariableIInv'
    BY <2>9 DEF SetCondition
  <2>10. ASSUME NEW t \in Thread, NotifyAll(t) PROVE VariableIInv'
    BY <2>10 DEF NotifyAll
  <2>11. ASSUME NEW t \in Thread, NotifyOne(t) PROVE VariableIInv'
    BY <2>11 DEF NotifyOne
  <2>12. CASE UNCHANGED variableVars
    BY <2>12 DEF variableVars
  <2>. QED
    BY <2>1, <2>2, <2>3, <2>4, <2>5, <2>6, <2>7, <2>8, <2>9, <2>10, <2>11, <2>12
       DEF VariableNext, VariableStep
<1>. QED  BY <1>1, <1>2, PTL DEF VariableSpec

\* Wait returns with the mutex locked by its caller.
THEOREM WaitAlwaysReturnsLocked == VariableSpec => []WaitReturnsLocked
<1>1. VariableIInv => WaitReturnsLocked  BY DEF VariableIInv
<1>. QED  BY <1>1, VariableInvariant, PTL

-----------------------------------------------------------------------------
(* Allocation *)

\* An address that was never freed still has the block of every pointer to it;
\* the pointers on their way to the library are for addresses of their own, each
\* with the block it was made for.
HeapIInv ==
    /\ block \in [Address -> Nat] /\ blocks \in Nat
    /\ pointers \subseteq Address \X (Nat \ {0})
    /\ freeing \in [HeapUser -> pointers \cup {NoPointer}]
    /\ reallocating \in [HeapUser -> pointers \cup {NoPointer}]
    /\ \A p \in pointers : p[1] \notin g_freed => block[p[1]] = p[2]
    /\ \A t \in HeapUser : reallocating[t] # NoPointer => freeing[t] = NoPointer
    /\ \A t \in HeapUser : freeing[t] # NoPointer =>
          /\ freeing[t][1] \in g_freed
          /\ block[freeing[t][1]] = freeing[t][2]
          /\ \A u \in HeapUser \ {t} :
                freeing[u] # NoPointer => freeing[u][1] # freeing[t][1]

\* Allocating an address that is free disturbs no pointer that counts.
LEMMA AllocationKeeps ==
    ASSUME HeapIInv, NEW a \in Address, AlignedAllocImpl(a), UNCHANGED freeing,
           reallocating' \in [HeapUser -> pointers \cup {NoPointer}],
           \A t \in HeapUser : reallocating'[t] # NoPointer => freeing[t] = NoPointer
    PROVE  HeapIInv'
BY PointerAssumption DEF HeapIInv, AlignedAllocImpl

\* A pointer is given to the library only if its address was never freed.
LEMMA FreeingKeeps ==
    ASSUME HeapIInv, NEW t \in HeapUser, NEW p \in pointers, AlignedFreeImpl(t, p),
           freeing[t] = NoPointer, UNCHANGED <<block, blocks, pointers>>,
           \/ UNCHANGED reallocating /\ reallocating[t] = NoPointer
           \/ reallocating' = [reallocating EXCEPT ![t] = NoPointer]
    PROVE  HeapIInv'
BY PointerAssumption DEF HeapIInv, AlignedFreeImpl

\* Alloc, Free and Realloc of alloc.cpp keep the invariant: an address that is not in g_freed
\* has the block of every pointer to it.
THEOREM HeapInvariant == HeapSpec => []HeapIInv
<1>1. HeapInit => HeapIInv
  BY DEF HeapInit, HeapIInv
<1>2. HeapIInv /\ [HeapNext]_heapVars => HeapIInv'
  <2> SUFFICES ASSUME HeapIInv, [HeapNext]_heapVars PROVE HeapIInv'
    OBVIOUS
  <2>1. ASSUME NEW t \in HeapUser, Alloc(t) PROVE HeapIInv'
    BY <2>1, AllocationKeeps DEF Alloc, HeapIInv
  <2>2. ASSUME NEW t \in HeapUser, LibraryFree(t) PROVE HeapIInv'
    BY <2>2, PointerAssumption DEF LibraryFree, HeapIInv
  <2>3. ASSUME NEW t \in HeapUser, ReallocFrees(t) PROVE HeapIInv'
    <3>1. reallocating[t] \in pointers /\ freeing[t] = NoPointer
      BY <2>3 DEF ReallocFrees, HeapIInv
    <3> QED
      BY <2>3, <3>1, FreeingKeeps DEF ReallocFrees
  <2>4. ASSUME NEW t \in HeapUser, NEW p \in pointers, Free(t, p) PROVE HeapIInv'
    BY <2>4, FreeingKeeps DEF Free, Outside
  <2>5. ASSUME NEW t \in HeapUser, NEW p \in pointers, Realloc(t, p) PROVE HeapIInv'
    <3>1. reallocating' \in [HeapUser -> pointers \cup {NoPointer}]
      BY <2>5 DEF Realloc, HeapIInv
    <3>2. \A u \in HeapUser : reallocating'[u] # NoPointer => freeing[u] = NoPointer
      BY <2>5 DEF Realloc, Outside, HeapIInv
    <3> QED
      BY <2>5, <3>1, <3>2, AllocationKeeps DEF Realloc
  <2>6. CASE UNCHANGED heapVars
    BY <2>6 DEF heapVars, HeapIInv
  <2> QED
    BY <2>1, <2>2, <2>3, <2>4, <2>5, <2>6 DEF HeapNext
<1> QED
  BY <1>1, <1>2, PTL DEF HeapSpec

\* However late and often stale pointers are freed or reallocated, and by however
\* many threads, the library frees a block only for the pointer it was made for.
THEOREM LibraryFreesItsOwnBlock == HeapSpec => []FreesItsOwnBlock
<1>1. HeapIInv => FreesItsOwnBlock
  BY DEF HeapIInv, FreesItsOwnBlock
<1> QED
  BY <1>1, HeapInvariant, PTL

-----------------------------------------------------------------------------
(* SubsystemLifecycle.  The argument is that of Kahn's algorithm: inDeg    *)
(* counts the dependencies that are not in out yet, so that q holds        *)
(* exactly the entries which may be appended next; out is therefore always *)
(* ordered, and every set of its entries has one that depends on no other  *)
(* of the set.                                                             *)

Sorted == Range(out)

BetweenPasses == at = "idle" => ents = {} /\ q = {} /\ out = <<>> /\ visited = <<>>

Counted == at = "sort" => \A s \in Subsystem : inDeg[s] = Cardinality(Deps(s) \ Sorted)

Ready == at = "sort" =>
            /\ q \cap Sorted = {}
            /\ \A s \in ents : s \in q \/ s \in Sorted <=> Deps(s) \subseteq Sorted

OutDiffers == /\ \A i, j \in 1 .. Len(out) : out[i] = out[j] => i = j
              /\ Cardinality(Sorted) = Len(out)

OutOrdered == \A i \in 1 .. Len(out), s \in Subsystem :
                 out[i] = s => Deps(s) \subseteq {out[j] : j \in 1 .. i - 1}

WellFounded ==
    \A S \in SUBSET Sorted : S # {} => \E s \in S : Deps(s) \cap S = {}

Visits ==
    /\ at = "sort" => visited = <<>>
    /\ at = "hooks" /\ pass = "InitializeAll" =>
          /\ Len(visited) <= Len(out)
          /\ \A i \in 1 .. Len(visited) : visited[i] = out[i]
    /\ at = "hooks" /\ pass = "ShutdownAll" =>
          /\ Len(visited) <= Len(out)
          /\ \A i \in 1 .. Len(visited) : visited[i] = out[Len(out) + 1 - i]

HookOf == [Initialized |-> "Initialize", Started |-> "Start", Stopped |-> "Stop"]

StatesTrue == \A s \in Subsystem :
                 states[s] \in DOMAIN HookOf => lastHook[s] = HookOf[states[s]]

SortInv == Counted /\ Ready /\ OutDiffers /\ OutOrdered /\ WellFounded

LifecycleIInv == LifecycleTypeOK /\ BetweenPasses /\ SortInv /\ Visits /\ StatesTrue

-----------------------------------------------------------------------------
(* Sequences and dependencies *)

\* Append adds one element, at the end.
LEMMA Appended ==
  ASSUME NEW S, NEW f \in Seq(S), NEW e \in S
  PROVE  /\ Append(f, e) \in Seq(S)
         /\ Len(Append(f, e)) = Len(f) + 1
         /\ \A i \in 1 .. Len(f) : Append(f, e)[i] = f[i]
         /\ Append(f, e)[Len(f) + 1] = e
         /\ Range(Append(f, e)) = Range(f) \cup {e}
<1>. PICK g \in Seq(S) : g = Append(f, e)  BY AppendProperties
<1>1. /\ Len(g) = Len(f) + 1
      /\ \A i \in 1 .. Len(f) : g[i] = f[i]
      /\ g[Len(f) + 1] = e
  BY AppendProperties
<1>2. DOMAIN f = 1 .. Len(f) /\ DOMAIN g = 1 .. Len(f) + 1 /\ Len(f) \in Nat
  BY <1>1
<1>3. Range(g) = Range(f) \cup {e}
  BY <1>1, <1>2, SMT DEF Range
<1>. QED  BY <1>1, <1>3

\* The elements of a sequence over S are in S, those of the empty one none.
LEMMA Ranges ==
  /\ \A S : \A f \in Seq(S) : Range(f) \subseteq S
  /\ Range(<<>>) = {}
  BY DEF Range

\* Dependencies are entries of the snapshot, never the subsystem itself, and few.
LEMMA DepsType ==
  ASSUME LifecycleTypeOK, NEW s \in Subsystem
  PROVE  /\ Deps(s) \subseteq ents
         /\ s \notin Deps(s)
         /\ IsFiniteSet(Deps(s))
         /\ IsFiniteSet(ents)
<1>1. ents \subseteq Subsystem
  BY DEF LifecycleTypeOK
<1>2. IsFiniteSet(ents)
  BY <1>1, SubsystemAssumption, FS_Subset
<1>3. Deps(s) \subseteq ents /\ s \notin Deps(s)
  BY DEF Deps, Dependencies
<1>. QED  BY <1>2, <1>3, FS_Subset

\* A subset of the subsystems has no more elements than there are subsystems.
LEMMA SmallSets ==
  ASSUME NEW T \in SUBSET Subsystem
  PROVE  Cardinality(T) \in 0 .. Cardinality(Subsystem)
  BY SubsystemAssumption, FS_Subset, FS_CardinalityType

-----------------------------------------------------------------------------
(* Kahn's step *)

\* The popped entry was not sorted before, and all it depends on was.
LEMMA PopReady ==
  ASSUME LifecycleIInv, NEW u \in Subsystem, PopEntry(u)
  PROVE  /\ u \in ents /\ u \notin Sorted /\ Deps(u) \subseteq Sorted
         /\ Sorted \subseteq ents
         /\ Sorted' = Sorted \cup {u}
         /\ at' = "sort"
         /\ \A s \in Subsystem : Deps(s)' = Deps(s)
<1>1. u \in ents /\ u \notin Sorted /\ Deps(u) \subseteq Sorted
  BY DEF LifecycleIInv, LifecycleTypeOK, SortInv, Ready, PopEntry
<1>2. Sorted \subseteq ents
  BY Ranges DEF LifecycleIInv, LifecycleTypeOK, Sorted
<1>3. Sorted' = Sorted \cup {u}
  BY <1>1, Appended DEF LifecycleIInv, LifecycleTypeOK, Sorted, PopEntry
<1>. QED
  BY <1>1, <1>2, <1>3 DEF PopEntry, Deps, Dependencies, registryVars

\* inDeg goes on counting what is left.
LEMMA PopCounts ==
  ASSUME LifecycleIInv, NEW u \in Subsystem, PopEntry(u), NEW s \in Subsystem
  PROVE  /\ inDeg'[s] = Cardinality(Deps(s) \ (Sorted \cup {u}))
         /\ inDeg[s] = Cardinality(Deps(s) \ Sorted)
         /\ IsFiniteSet(Deps(s) \ Sorted)
<1>1. inDeg[s] = Cardinality(Deps(s) \ Sorted)
  BY DEF LifecycleIInv, SortInv, Counted, PopEntry
<1>2. IsFiniteSet(Deps(s) \ Sorted)
  BY DepsType, FS_Subset, Deps(s) \ Sorted \in SUBSET Deps(s) DEF LifecycleIInv
<1>3. inDeg'[s] = IF u \in Deps(s) THEN inDeg[s] - 1 ELSE inDeg[s]
  BY DEF PopEntry
<1>4. Deps(s) \ (Sorted \cup {u}) = (Deps(s) \ Sorted) \ {u}
  OBVIOUS
<1>5. Cardinality((Deps(s) \ Sorted) \ {u}) =
         IF u \in Deps(s) \ Sorted THEN Cardinality(Deps(s) \ Sorted) - 1
                                   ELSE Cardinality(Deps(s) \ Sorted)
  BY <1>2, FS_RemoveElement
<1>6. u \in Deps(s) \ Sorted <=> u \in Deps(s)
  BY PopReady
<1>. QED  BY <1>1, <1>2, <1>3, <1>4, <1>5, <1>6

\* q goes on holding the entries that may come next.
LEMMA PopKeepsReady ==
  ASSUME LifecycleIInv, NEW u \in Subsystem, PopEntry(u)
  PROVE  Ready'
<1>. DEFINE R == Sorted
<1>1. /\ q \cap R = {}
      /\ \A s \in ents : s \in q \/ s \in R <=> Deps(s) \subseteq R
  BY DEF LifecycleIInv, SortInv, Ready, PopEntry
<1>2. /\ u \in q /\ u \in ents /\ u \notin R /\ R \subseteq ents
      /\ q' = (q \ {u}) \cup {s \in ents : u \in Deps(s) /\ inDeg[s] = 1}
      /\ ents' = ents /\ Sorted' = R \cup {u}
  BY PopReady DEF PopEntry
<1>3. ASSUME NEW s \in ents
      PROVE  s \in q' \/ s \in R \cup {u} <=> Deps(s) \subseteq R \cup {u}
  <2>0. s \in Subsystem /\ s \notin Deps(s)
    BY DepsType DEF LifecycleIInv, LifecycleTypeOK
  <2>1. CASE u \notin Deps(s)
    BY <1>1, <1>2, <2>1
  <2>2. CASE u \in Deps(s)
    <3>1. s \notin q /\ s \notin R /\ s # u
      BY <1>1, <1>2, <2>0, <2>2
    <3>2. inDeg[s] = 1 <=> Deps(s) \ R = {u}
      <4>1. inDeg[s] = Cardinality(Deps(s) \ R) /\ IsFiniteSet(Deps(s) \ R)
        BY PopCounts, <2>0
      <4>2. Cardinality(Deps(s) \ R) = 1 <=> \E x : Deps(s) \ R = {x}
        BY <4>1, FS_Singleton
      <4>3. u \in Deps(s) \ R
        BY <2>2, <1>2
      <4>. QED  BY <4>1, <4>2, <4>3
    <3>. QED  BY <1>2, <2>2, <3>1, <3>2
  <2>. QED  BY <2>1, <2>2
<1>4. q' \cap (R \cup {u}) = {}
  <2>1. ASSUME NEW s \in ents, u \in Deps(s) PROVE s \notin R /\ s # u
    BY <1>1, <1>2, <2>1, DepsType DEF LifecycleIInv
  <2>. QED  BY <1>1, <1>2, <2>1
<1>5. \A s \in ents : Deps(s)' = Deps(s)
  BY PopReady DEF LifecycleIInv, LifecycleTypeOK
<1>. QED
  BY <1>2, <1>3, <1>4, <1>5 DEF Ready

\* out stays free of repetitions, ordered, and without cycles.
LEMMA PopKeepsOrder ==
  ASSUME LifecycleIInv, NEW u \in Subsystem, PopEntry(u)
  PROVE  OutDiffers' /\ OutOrdered' /\ WellFounded'
<1>1. /\ u \in ents /\ u \notin Sorted /\ Deps(u) \subseteq Sorted
      /\ Sorted \subseteq ents /\ Sorted' = Sorted \cup {u}
      /\ \A s \in ents : Deps(s)' = Deps(s)
  BY PopReady DEF LifecycleIInv, LifecycleTypeOK
<1>2. /\ out \in Seq(ents) /\ Len(out) \in Nat /\ out' = Append(out, u)
      /\ out' \in Seq(ents) /\ Len(out') = Len(out) + 1
      /\ \A i \in 1 .. Len(out) : out'[i] = out[i]
      /\ out'[Len(out) + 1] = u
      /\ \A i \in 1 .. Len(out) : out[i] \in ents
  BY <1>1, Appended DEF LifecycleIInv, LifecycleTypeOK, PopEntry
<1>3. /\ Sorted = {out[i] : i \in 1 .. Len(out)}
      /\ IsFiniteSet(Sorted)
  BY <1>1, <1>2, DepsType, FS_Subset DEF LifecycleIInv, Sorted, Range
<1>4. /\ \A i, j \in 1 .. Len(out) : out[i] = out[j] => i = j
      /\ Cardinality(Sorted) = Len(out)
  BY DEF LifecycleIInv, SortInv, OutDiffers
<1>5. \A i, j \in 1 .. Len(out') : out'[i] = out'[j] => i = j
  <2>. SUFFICES ASSUME NEW i \in 1 .. Len(out) + 1, NEW j \in 1 .. Len(out) + 1,
                       out'[i] = out'[j]
                PROVE  i = j
    BY <1>2
  <2>1. \A k \in 1 .. Len(out) : out[k] # u
    BY <1>1, <1>3
  <2>2. CASE i \in 1 .. Len(out) /\ j \in 1 .. Len(out)
    BY <1>2, <1>4, <2>2
  <2>3. CASE i = Len(out) + 1 \/ j = Len(out) + 1
    BY <1>2, <2>1, <2>3
  <2>. QED  BY <1>2, <2>2, <2>3
<1>6. OutDiffers'
  <2>1. Cardinality(Sorted \cup {u}) = Cardinality(Sorted) + 1
    BY <1>1, <1>3, FS_AddElement
  <2>. QED  BY <1>1, <1>2, <1>4, <1>5, <2>1 DEF OutDiffers
<1>7. OutOrdered'
  <2>. SUFFICES ASSUME NEW i \in 1 .. Len(out) + 1, NEW s \in Subsystem, out'[i] = s
                PROVE  Deps(s) \subseteq {out'[j] : j \in 1 .. i - 1}
    <3>1. \A s \in Subsystem : Deps(s)' = Deps(s)
      BY PopReady
    <3>. QED  BY <1>2, <3>1, Zenon DEF OutOrdered
  <2>1. CASE i \in 1 .. Len(out)
    <3>1. Deps(s) \subseteq {out[j] : j \in 1 .. i - 1}
      BY <1>2, <2>1 DEF LifecycleIInv, SortInv, OutOrdered
    <3>2. {out[j] : j \in 1 .. i - 1} = {out'[j] : j \in 1 .. i - 1}
      BY <1>2, <2>1
    <3>. QED  BY <3>1, <3>2
  <2>2. CASE i = Len(out) + 1
    <3>1. Sorted = {out'[j] : j \in 1 .. i - 1}
      BY <1>2, <1>3, <2>2
    <3>. QED  BY <1>1, <1>2, <2>2, <3>1
  <2>. QED  BY <1>2, <2>1, <2>2
<1>8. WellFounded'
  <2>. SUFFICES ASSUME NEW S \in SUBSET (Sorted \cup {u}), S # {}
                PROVE  \E s \in S : Deps(s) \cap S = {}
    BY <1>1 DEF WellFounded
  <2>1. CASE S = {u}
    BY <2>1, DepsType DEF LifecycleIInv
  <2>2. CASE S # {u}
    <3>0. S \ {u} \in SUBSET Sorted /\ S \ {u} # {}
      BY <2>2
    <3>1. PICK s \in S \ {u} : Deps(s) \cap (S \ {u}) = {}
      BY <3>0, Zenon DEF LifecycleIInv, SortInv, WellFounded
    <3>2. Deps(s) \subseteq Sorted
      BY <1>1, <3>1 DEF LifecycleIInv, SortInv, Ready, PopEntry
    <3>. QED  BY <1>1, <3>1, <3>2
  <2>. QED  BY <2>1, <2>2
<1>. QED  BY <1>6, <1>7, <1>8

\* Kahn's step keeps the invariant.
LEMMA PopKeeps ==
  ASSUME LifecycleIInv, NEW u \in Subsystem, PopEntry(u)
  PROVE  LifecycleIInv'
<1>1. /\ u \in ents /\ u \notin Sorted /\ Sorted \subseteq ents
      /\ Sorted' = Sorted \cup {u} /\ at' = "sort"
      /\ \A s \in Subsystem : Deps(s)' = Deps(s)
  BY PopReady
<1>2. Counted'
  BY <1>1, PopCounts DEF Counted
<1>3. LifecycleTypeOK'
  <2>1. out' \in Seq(ents)
    BY <1>1, Appended DEF LifecycleIInv, LifecycleTypeOK, PopEntry
  <2>2. inDeg' \in [Subsystem -> 0 .. Cardinality(Subsystem)]
    <3>1. \A s \in Subsystem : Deps(s) \ (Sorted \cup {u}) \in SUBSET Subsystem
      BY DepsType DEF LifecycleIInv, LifecycleTypeOK
    <3>2. \A s \in Subsystem : inDeg'[s] \in 0 .. Cardinality(Subsystem)
      BY <3>1, PopCounts, SmallSets
    <3>3. inDeg' = [s \in Subsystem |-> IF u \in Deps(s) THEN inDeg[s] - 1 ELSE inDeg[s]]
      BY DEF PopEntry
    <3>. QED  BY <3>2, <3>3, Zenon
  <2>3. q' \subseteq ents
    BY DEF PopEntry, LifecycleIInv, LifecycleTypeOK
  <2>. QED  BY <2>1, <2>2, <2>3 DEF PopEntry, LifecycleIInv, LifecycleTypeOK, registryVars
<1>4. BetweenPasses' /\ Visits'
  BY <1>1 DEF PopEntry, LifecycleIInv, BetweenPasses, Visits
<1>5. StatesTrue'
  BY DEF PopEntry, LifecycleIInv, StatesTrue, registryVars
<1>. QED
  BY <1>2, <1>3, <1>4, <1>5, PopKeepsReady, PopKeepsOrder DEF LifecycleIInv, SortInv

-----------------------------------------------------------------------------
(* The other steps *)

\* The initial state satisfies the invariant.
LEMMA InitHolds == LifecycleInit => LifecycleIInv
<1>. SUFFICES ASSUME LifecycleInit PROVE LifecycleIInv  OBVIOUS
<1>1. out = <<>> /\ Sorted = {} /\ Len(out) = 0
  BY Ranges DEF LifecycleInit, Sorted
<1>2. LifecycleTypeOK
  <2>1. 0 \in 0 .. Cardinality(Subsystem)
    BY SubsystemAssumption, FS_CardinalityType
  <2>2. passes \in 0 .. MaxPasses
    BY MaxPassesAssumption DEF LifecycleInit
  <2>3. out \in Seq(ents) /\ visited \in Seq(ents)
    BY DEF LifecycleInit
  <2>. QED  BY <2>1, <2>2, <2>3 DEF LifecycleInit, LifecycleTypeOK, State, Pass
<1>3. OutDiffers
  BY <1>1, FS_EmptySet DEF OutDiffers
<1>. QED
  BY <1>1, <1>2, <1>3 DEF LifecycleInit, LifecycleIInv, BetweenPasses, SortInv, Counted, Ready, OutOrdered,
     WellFounded, Visits, StatesTrue, HookOf

\* What does not touch the pass leaves the sort alone.
LEMMA SortUntouched ==
  ASSUME SortInv, UNCHANGED <<desc, pass, ents, sortVars>>,
         at' = at \/ at' # "sort"
  PROVE  SortInv'
<1>1. \A s \in Subsystem : Deps(s)' = Deps(s)
  BY DEF Deps, Dependencies
<1>2. /\ Sorted' = Sorted
      /\ ents' = ents /\ q' = q /\ inDeg' = inDeg /\ out' = out
  BY DEF sortVars, Sorted
<1>3. Counted'
  BY <1>1, <1>2 DEF SortInv, Counted
<1>4. Ready'
  BY <1>1, <1>2 DEF SortInv, Ready, Deps, Dependencies
<1>5. OutDiffers' /\ OutOrdered'
  <2>1. OutDiffers'
    BY <1>2 DEF SortInv, OutDiffers
  <2>2. OutOrdered'
    BY SMTT(30), <1>1, <1>2 DEF SortInv, OutOrdered
  <2>. QED  BY <2>1, <2>2
<1>6. WellFounded'
  BY <1>2 DEF SortInv, WellFounded, Deps, Dependencies
<1>. QED  BY <1>3, <1>4, <1>5, <1>6 DEF SortInv

\* Without entries there is nothing to sort.
LEMMA SortEmpty ==
  ASSUME at' # "sort", out' = <<>>
  PROVE  SortInv'
<1>1. Sorted' = {} /\ Len(out') = 0
  BY Ranges DEF Sorted
<1>2. OutDiffers'
  BY <1>1, FS_EmptySet DEF OutDiffers
<1>3. Counted' /\ Ready'
  BY DEF Counted, Ready
<1>4. OutOrdered'
  BY <1>1 DEF OutOrdered
<1>5. WellFounded'
  BY <1>1 DEF WellFounded
<1>. QED  BY <1>2, <1>3, <1>4, <1>5 DEF SortInv

\* A new pass starts with nothing sorted and the entries without dependencies ready.
LEMMA BeginPassKeeps ==
  ASSUME LifecycleIInv, NEW p \in Pass, BeginPass(p)
  PROVE  LifecycleIInv'
<1>1. /\ ents = {} /\ out = <<>> /\ visited = <<>> /\ at = "idle"
      /\ out' = <<>> /\ visited' = <<>> /\ ents' = registered /\ pass' = p
      /\ desc' = desc /\ registered' = registered /\ registered \subseteq Subsystem
  BY DEF LifecycleIInv, LifecycleTypeOK, BetweenPasses, BeginPass, registryVars
<1>2. Sorted' = {} /\ Len(out') = 0
  BY <1>1, Ranges DEF Sorted
<1>3. \A s \in Subsystem : /\ Deps(s)' = Dependencies(registered, p, s)
                           /\ Dependencies(registered, p, s) \in SUBSET Subsystem
  BY <1>1 DEF Deps, Dependencies
<1>4. LifecycleTypeOK'
  <2>1. inDeg' \in [Subsystem -> 0 .. Cardinality(Subsystem)]
    BY <1>3, SmallSets DEF BeginPass
  <2>2. at' \in {"idle", "sort", "hooks"} /\ q' \subseteq ents'
    BY <1>1 DEF BeginPass
  <2>3. passes' \in 0 .. MaxPasses
    BY MaxPassesAssumption DEF BeginPass, LifecycleIInv, LifecycleTypeOK
  <2>4. out' \in Seq(ents') /\ visited' \in Seq(ents')
    BY <1>1
  <2>. QED  BY <1>1, <2>1, <2>2, <2>3, <2>4 DEF BeginPass, LifecycleIInv, LifecycleTypeOK, registryVars
<1>5. Counted'
  <2>1. \A s \in Subsystem : inDeg'[s] = Cardinality(Dependencies(registered, p, s))
    BY DEF BeginPass
  <2>2. \A s \in Subsystem : Deps(s)' \ Sorted' = Dependencies(registered, p, s)
    BY <1>2, <1>3
  <2>. QED  BY <2>1, <2>2 DEF Counted
<1>6. Ready'
  <2>. SUFFICES ASSUME at' = "sort" PROVE Ready'
    BY DEF Ready
  <2>1. q' = {s \in registered : Dependencies(registered, p, s) = {}}
    BY DEF BeginPass
  <2>2. \A s \in ents' : Deps(s)' = Dependencies(registered, p, s)
    BY <1>1, <1>3
  <2>. QED  BY <1>1, <1>2, <2>1, <2>2 DEF Ready
<1>7. OutDiffers' /\ OutOrdered' /\ WellFounded'
  BY <1>2, FS_EmptySet DEF OutDiffers, OutOrdered, WellFounded
<1>8. BetweenPasses' /\ Visits'
  BY <1>1, <1>2 DEF BeginPass, BetweenPasses, Visits
<1>9. StatesTrue'
  BY DEF LifecycleIInv, StatesTrue, BeginPass, registryVars
<1>. QED  BY <1>4, <1>5, <1>6, <1>7, <1>8, <1>9 DEF LifecycleIInv, SortInv

\* The end of a pass leaves nothing behind.
LEMMA EndPassKeeps ==
  ASSUME LifecycleIInv, EndPass, m_shutdown' \in BOOLEAN
  PROVE  LifecycleIInv'
<1>1. SortInv'
  BY SortEmpty DEF EndPass
<1>2. LifecycleTypeOK'
  <2>1. 0 \in 0 .. Cardinality(Subsystem)
    BY SubsystemAssumption, FS_CardinalityType
  <2>. QED  BY <2>1 DEF EndPass, LifecycleIInv, LifecycleTypeOK
<1>3. BetweenPasses' /\ Visits' /\ StatesTrue'
  BY DEF EndPass, LifecycleIInv, BetweenPasses, Visits, StatesTrue
<1>. QED  BY <1>1, <1>2, <1>3 DEF LifecycleIInv

\* What becomes of one subsystem agrees with the hook that succeeded.
LEMMA BecomesTrue ==
  ASSUME LifecycleTypeOK, StatesTrue, NEW s \in Subsystem, NEW state \in State,
         NEW hook \in {"none", "Initialize", "Start", "Stop", "Shutdown"},
         state \in DOMAIN HookOf => hook = HookOf[state], Becomes(s, state, hook)
  PROVE  /\ StatesTrue'
         /\ states' \in [Subsystem -> State]
         /\ lastHook' \in [Subsystem -> {"none", "Initialize", "Start", "Stop", "Shutdown"}]
  BY DEF LifecycleTypeOK, StatesTrue, Becomes, HookOf

\* Calling hooks keeps the sort and the type of everything else.
LEMMA VisitKeeps ==
  ASSUME LifecycleIInv, NEW s \in ents, Visit(s)
  PROVE  /\ SortInv'
         /\ visited' = Append(visited, s) /\ visited' \in Seq(ents)
         /\ Len(visited') = Len(visited) + 1
         /\ \A i \in 1 .. Len(visited) : visited'[i] = visited[i]
         /\ visited'[Len(visited) + 1] = s
         /\ Len(visited) \in Nat
         /\ UNCHANGED <<desc, registered, m_shutdown, pass, at, ents, inDeg, q, out, passes>>
<1>1. UNCHANGED <<desc, registered, m_shutdown, pass, at, ents, inDeg, q, out, passes>>
  BY DEF Visit, sortVars
<1>2. SortInv'
  BY <1>1, SortUntouched DEF LifecycleIInv, sortVars
<1>3. visited \in Seq(ents)
  BY DEF LifecycleIInv, LifecycleTypeOK
<1>. QED  BY <1>1, <1>2, <1>3, Appended DEF Visit

\* A hook that is called, or not, keeps the rest of the invariant too.
LEMMA HookKeeps ==
  ASSUME LifecycleIInv, NEW s \in ents, Visit(s), at = "hooks", StatesTrue',
         states' \in [Subsystem -> State],
         lastHook' \in [Subsystem -> {"none", "Initialize", "Start", "Stop", "Shutdown"}],
         Visits'
  PROVE  LifecycleIInv'
<1>1. LifecycleTypeOK'
  BY VisitKeeps DEF LifecycleIInv, LifecycleTypeOK
<1>2. BetweenPasses'
  BY VisitKeeps DEF BetweenPasses
<1>. QED  BY <1>1, <1>2, VisitKeeps DEF LifecycleIInv

\* The entry that a pass in dependency order visits next is the next of out.
LEMMA SortedVisit ==
  ASSUME LifecycleIInv, at = "hooks", NEW s \in Subsystem, Len(visited) < Len(out),
         \/ pass = "InitializeAll" /\ s = out[Len(visited) + 1]
         \/ pass = "ShutdownAll" /\ s = out[Len(out) - Len(visited)],
         Visit(s)
  PROVE  s \in ents /\ Visits'
<1>1. /\ out \in Seq(ents) /\ visited \in Seq(ents)
      /\ Len(out) \in Nat /\ Len(visited) \in Nat
      /\ \A i \in 1 .. Len(out) : out[i] \in ents
  BY DEF LifecycleIInv, LifecycleTypeOK
<1>2. s \in ents
  BY <1>1
<1>3. /\ Len(visited') = Len(visited) + 1 /\ pass' = pass /\ out' = out /\ at' = at
      /\ \A i \in 1 .. Len(visited) : visited'[i] = visited[i]
      /\ visited'[Len(visited) + 1] = s
  BY <1>2, VisitKeeps
<1>4. CASE pass = "InitializeAll"
  <2>1. \A i \in 1 .. Len(visited) : visited[i] = out[i]
    BY <1>4 DEF LifecycleIInv, Visits
  <2>2. \A i \in 1 .. Len(visited') : visited'[i] = out'[i]
    BY <1>1, <1>3, <1>4, <2>1
  <2>. QED  BY <1>1, <1>2, <1>3, <1>4, <2>2 DEF Visits
<1>5. CASE pass = "ShutdownAll"
  <2>1. \A i \in 1 .. Len(visited) : visited[i] = out[Len(out) + 1 - i]
    BY <1>5 DEF LifecycleIInv, Visits
  <2>2. Len(out) - Len(visited) = Len(out) + 1 - (Len(visited) + 1)
    BY <1>1
  <2>3. ASSUME NEW i \in 1 .. Len(visited')
        PROVE  visited'[i] = out'[Len(out') + 1 - i]
    <3>1. CASE i \in 1 .. Len(visited)
      BY <1>3, <2>1, <3>1
    <3>2. CASE i = Len(visited) + 1
      BY <1>1, <1>3, <1>5, <2>2, <3>2
    <3>3. QED
      BY <1>1, <1>3, <3>1, <3>2
  <2>. QED  BY <1>1, <1>2, <1>3, <1>5, <2>3 DEF Visits
<1>. QED  BY <1>4, <1>5

\* A pass in priority order visits nothing that is sorted.
LEMMA UnsortedVisit ==
  ASSUME LifecycleIInv, at = "hooks", pass \notin Sorting, NEW s \in Left, Visit(s)
  PROVE  s \in ents /\ Visits'
<1>1. s \in ents
  BY DEF Left
<1>2. pass' = pass /\ at' = at
  BY <1>1, VisitKeeps
<1>. QED  BY <1>1, <1>2 DEF Visits, Sorting

\* Each hook that fails, or is not called, leaves the states true.
LEMMA StaysTrue ==
  ASSUME LifecycleIInv, StaysAsItIs
  PROVE  /\ StatesTrue'
         /\ states' \in [Subsystem -> State]
         /\ lastHook' \in [Subsystem -> {"none", "Initialize", "Start", "Stop", "Shutdown"}]
  BY DEF LifecycleIInv, LifecycleTypeOK, StatesTrue, StaysAsItIs

-----------------------------------------------------------------------------
(* The theorems *)

\* Every step keeps the invariant.
LEMMA NextHolds == LifecycleIInv /\ [LifecycleNext]_lifecycleVars => LifecycleIInv'
<1>. SUFFICES ASSUME LifecycleIInv, [LifecycleNext]_lifecycleVars PROVE LifecycleIInv'  OBVIOUS
<1>. USE DEF LifecycleIInv
<1>1. ASSUME NEW s \in Subsystem, RegisterInstance(s) PROVE LifecycleIInv'
  <2>1. SortInv'
    BY <1>1, SortUntouched DEF RegisterInstance
  <2>2. LifecycleTypeOK'
    BY <1>1 DEF RegisterInstance, LifecycleTypeOK, State, sortVars
  <2>3. BetweenPasses' /\ Visits' /\ StatesTrue'
    BY <1>1 DEF RegisterInstance, BetweenPasses, Visits, StatesTrue, HookOf, LifecycleTypeOK, sortVars
  <2>. QED  BY <2>1, <2>2, <2>3
<1>2. ASSUME NEW s \in Subsystem, UnregisterInstance(s) PROVE LifecycleIInv'
  <2>1. SortInv'
    BY <1>2, SortUntouched DEF UnregisterInstance
  <2>2. LifecycleTypeOK'
    BY <1>2 DEF UnregisterInstance, LifecycleTypeOK, State, sortVars, BetweenPasses
  <2>3. BetweenPasses' /\ Visits' /\ StatesTrue'
    BY <1>2 DEF UnregisterInstance, BetweenPasses, Visits, StatesTrue, HookOf, LifecycleTypeOK, sortVars
  <2>. QED  BY <2>1, <2>2, <2>3
<1>3. ASSUME NEW p \in Pass, BeginPass(p) PROVE LifecycleIInv'
  BY <1>3, BeginPassKeeps
<1>4. ASSUME NEW s \in Subsystem, PopEntry(s) PROVE LifecycleIInv'
  BY <1>4, PopKeeps
<1>5. CASE CallHooks
  <2>1. SortInv'
    BY <1>5, SortUntouched DEF CallHooks, registryVars
  <2>2. LifecycleTypeOK' /\ BetweenPasses' /\ StatesTrue'
    BY <1>5 DEF CallHooks, LifecycleTypeOK, BetweenPasses, StatesTrue, registryVars, sortVars
  <2>3. Visits'
    BY <1>5 DEF CallHooks, Visits, LifecycleTypeOK, registryVars, sortVars
  <2>. QED  BY <2>1, <2>2, <2>3
<1>6. CASE RejectCycle
  BY <1>6, EndPassKeeps DEF RejectCycle, LifecycleTypeOK
<1>7. ASSUME NEW s \in Subsystem, CallInitialize(s) PROVE LifecycleIInv'
  <2>1. s \in ents /\ Visits'
    BY <1>7, SortedVisit DEF CallInitialize
  <2>2. CASE Becomes(s, "Initialized", "Initialize")
    BY <1>7, <2>1, <2>2, BecomesTrue, HookKeeps DEF CallInitialize, State, HookOf
  <2>3. CASE Becomes(s, "Uninitialized", "none")
    BY <1>7, <2>1, <2>3, BecomesTrue, HookKeeps DEF CallInitialize, State, HookOf
  <2>. QED  BY <1>7, <2>2, <2>3 DEF CallInitialize
<1>8. ASSUME NEW s \in Subsystem, CallStart(s) PROVE LifecycleIInv'
  <2>1. s \in ents /\ Visits'
    BY <1>8, UnsortedVisit DEF CallStart, Sorting
  <2>2. CASE Becomes(s, "Started", "Start")
    BY <1>8, <2>1, <2>2, BecomesTrue, HookKeeps DEF CallStart, State, HookOf
  <2>3. CASE StaysAsItIs
    BY <1>8, <2>1, <2>3, StaysTrue, HookKeeps DEF CallStart
  <2>. QED  BY <1>8, <2>2, <2>3 DEF CallStart
<1>9. ASSUME NEW s \in Subsystem, CallStop(s) PROVE LifecycleIInv'
  <2>1. s \in ents /\ Visits'
    BY <1>9, UnsortedVisit DEF CallStop, Sorting
  <2>2. CASE Becomes(s, "Stopped", "Stop")
    BY <1>9, <2>1, <2>2, BecomesTrue, HookKeeps DEF CallStop, State, HookOf
  <2>3. CASE StaysAsItIs
    BY <1>9, <2>1, <2>3, StaysTrue, HookKeeps DEF CallStop
  <2>. QED  BY <1>9, <2>2, <2>3 DEF CallStop
<1>10. ASSUME NEW s \in Subsystem, CallShutdown(s) PROVE LifecycleIInv'
  <2>1. s \in ents /\ Visits'
    BY <1>10, SortedVisit DEF CallShutdown
  <2>2. CASE Becomes(s, "Shutdown", "Shutdown")
    BY <1>10, <2>1, <2>2, BecomesTrue, HookKeeps DEF CallShutdown, State, HookOf
  <2>3. CASE StaysAsItIs
    BY <1>10, <2>1, <2>3, StaysTrue, HookKeeps DEF CallShutdown
  <2>. QED  BY <1>10, <2>2, <2>3 DEF CallShutdown
<1>11. CASE ReturnFromPass
  BY <1>11, EndPassKeeps DEF ReturnFromPass, LifecycleTypeOK
<1>12. ASSUME NEW s \in Subsystem, ShutdownSubsystem(s) PROVE LifecycleIInv'
  <2>1. SortInv'
    BY <1>12, SortUntouched DEF ShutdownSubsystem
  <2>2. /\ StatesTrue' /\ states' \in [Subsystem -> State]
        /\ lastHook' \in [Subsystem -> {"none", "Initialize", "Start", "Stop", "Shutdown"}]
    BY <1>12, BecomesTrue DEF ShutdownSubsystem, State, HookOf
  <2>3. LifecycleTypeOK' /\ BetweenPasses' /\ Visits'
    BY <1>12, <2>2 DEF ShutdownSubsystem, LifecycleTypeOK, BetweenPasses, Visits, sortVars
  <2>. QED  BY <2>1, <2>2, <2>3
<1>13. CASE UNCHANGED lifecycleVars
  <2>1. SortInv'
    BY <1>13, SortUntouched DEF lifecycleVars, registryVars
  <2>. QED
    BY <1>13, <2>1 DEF lifecycleVars, registryVars, sortVars, LifecycleTypeOK, BetweenPasses, Visits, StatesTrue
<1>. QED
  BY <1>1, <1>2, <1>3, <1>4, <1>5, <1>6, <1>7, <1>8, <1>9, <1>10, <1>11, <1>12, <1>13
     DEF LifecycleNext, PassStep

\* The invariant holds in every reachable state.
THEOREM Invariant == LifecycleSpec => []LifecycleIInv
  BY InitHolds, NextHolds, PTL DEF LifecycleSpec

\* Every table and every list of a pass has its type, and never names a subsystem
\* that is not in the snapshot.
THEOREM LifecycleTypeCorrect == LifecycleSpec => []LifecycleTypeOK
<1>1. LifecycleIInv => LifecycleTypeOK
  BY DEF LifecycleIInv
<1>. QED  BY <1>1, Invariant, PTL

\* In an ordered list without repetitions, what an element depends on comes before it.
LEMMA DependencyBefore ==
  ASSUME LifecycleIInv, NEW i \in 1 .. Len(out), NEW k \in 1 .. Len(out), out[k] \in Deps(out[i])
  PROVE  k < i
<1>1. out[i] \in Subsystem
  BY DEF LifecycleIInv, LifecycleTypeOK
<1>2. PICK j \in 1 .. i - 1 : out[j] = out[k]
  BY <1>1 DEF LifecycleIInv, SortInv, OutOrdered
<1>3. Len(out) \in Nat
  BY DEF LifecycleIInv, LifecycleTypeOK
<1>4. j = k
  BY <1>2, <1>3 DEF LifecycleIInv, SortInv, OutDiffers
<1>. QED  BY <1>2, <1>3, <1>4

\* InitializeAll initializes in dependency order, for every graph and all priorities.
THEOREM InitializesInDependencyOrder == LifecycleSpec => []InitializeInDependencyOrder
<1>1. LifecycleIInv => InitializeInDependencyOrder
  <2>. SUFFICES ASSUME LifecycleIInv, pass = "InitializeAll", NEW i \in 1 .. Len(visited)
                PROVE  Deps(visited[i]) \subseteq Before(i)
    <3>1. LifecycleIInv => DOMAIN visited = 1 .. Len(visited)
      BY DEF LifecycleIInv, LifecycleTypeOK
    <3>. QED  BY <3>1, Zenon DEF InitializeInDependencyOrder
  <2>1. /\ Len(visited) \in Nat /\ Len(out) \in Nat
        /\ out \in Seq(ents) /\ ents \subseteq Subsystem
    BY DEF LifecycleIInv, LifecycleTypeOK
  <2>2. at = "hooks"
    BY <2>1 DEF LifecycleIInv, LifecycleTypeOK, BetweenPasses, Visits
  <2>3. /\ Len(visited) <= Len(out)
        /\ \A k \in 1 .. Len(visited) : visited[k] = out[k]
    BY <2>2 DEF LifecycleIInv, Visits
  <2>4. i \in 1 .. Len(out) /\ visited[i] = out[i] /\ out[i] \in Subsystem
    BY <2>1, <2>3
  <2>5. Deps(visited[i]) \subseteq {out[j] : j \in 1 .. i - 1}
    BY <2>4 DEF LifecycleIInv, SortInv, OutOrdered
  <2>6. {out[j] : j \in 1 .. i - 1} = Before(i)
    BY <2>1, <2>3 DEF Before
  <2>. QED  BY <2>5, <2>6
<1>. QED  BY <1>1, Invariant, PTL

\* ShutdownAll shuts down in reverse dependency order, for every graph and all
\* priorities.
THEOREM ShutsDownInReverseOrder == LifecycleSpec => []ShutdownInReverseDependencyOrder
<1>1. ASSUME LifecycleIInv, pass = "ShutdownAll", NEW i \in 1 .. Len(visited),
             NEW k \in 1 .. Len(out), visited[i] \in Deps(out[k])
      PROVE  out[k] \in Before(i)
  <2>. USE <1>1
  <2>1. Len(visited) \in Nat /\ Len(out) \in Nat
    BY DEF LifecycleIInv, LifecycleTypeOK
  <2>2. at = "hooks"
    BY <2>1 DEF LifecycleIInv, LifecycleTypeOK, BetweenPasses, Visits
  <2>3. /\ Len(visited) <= Len(out)
        /\ \A j \in 1 .. Len(visited) : visited[j] = out[Len(out) + 1 - j]
    BY <2>2 DEF LifecycleIInv, Visits
  <2>4. /\ Len(out) + 1 - i \in 1 .. Len(out)
        /\ visited[i] = out[Len(out) + 1 - i]
    BY <2>1, <2>3
  <2>5. Len(out) + 1 - i < k
    BY <2>4, DependencyBefore
  <2>6. PICK j \in 1 .. i - 1 : Len(out) + 1 - j = k
    <3>1. Len(out) + 1 - k \in 1 .. i - 1 /\ Len(out) + 1 - (Len(out) + 1 - k) = k
      BY <2>1, <2>5
    <3>. QED  BY <3>1
  <2>7. visited[j] = out[k]
    <3>1. j \in 1 .. Len(visited)
      BY <2>1
    <3>. QED  BY <2>3, <2>6, <3>1, Zenon
  <2>. QED  BY <2>7 DEF Before
<1>2. ASSUME LifecycleIInv, pass = "ShutdownAll", NEW i \in DOMAIN visited,
             NEW t \in Range(out), visited[i] \in Deps(t)
      PROVE  t \in Before(i)
  <2>1. i \in 1 .. Len(visited)
    BY <1>2 DEF LifecycleIInv, LifecycleTypeOK
  <2>2. PICK k \in 1 .. Len(out) : t = out[k]
    BY <1>2 DEF LifecycleIInv, LifecycleTypeOK, Range
  <2>3. visited[i] \in Deps(out[k])
    BY <1>2, <2>2
  <2>. QED  BY <1>1, <1>2, <2>1, <2>2, <2>3
<1>3. LifecycleIInv => ShutdownInReverseDependencyOrder
  BY <1>2 DEF ShutdownInReverseDependencyOrder
<1>. QED  BY <1>3, Invariant, PTL

\* Both passes call the hooks in the order of the dependencies, for any number of
\* subsystems, any graph and any priorities.
THEOREM HooksInDependencyOrder == LifecycleSpec => []DependencyOrder
BY InitializesInDependencyOrder, ShutsDownInReverseOrder, PTL DEF DependencyOrder

\* TopoSort accepts exactly the graphs without a cycle.
THEOREM AcceptsExactlyAcyclic == LifecycleSpec => []SortedIffAcyclic
<1>1. LifecycleIInv => SortedIffAcyclic
  <2>. SUFFICES ASSUME LifecycleIInv, at = "sort", q = {} PROVE SortedAll <=> Acyclic
    BY DEF SortedIffAcyclic
  <2>1. Sorted \in SUBSET ents /\ ents \subseteq Subsystem
    BY Ranges DEF LifecycleIInv, LifecycleTypeOK, Sorted
  <2>2. IsFiniteSet(ents)
    BY <2>1, SubsystemAssumption, FS_Subset
  <2>3. Cardinality(Sorted) = Len(out)
    BY DEF LifecycleIInv, SortInv, OutDiffers
  <2>4. SortedAll <=> Sorted = ents
    BY <2>1, <2>2, <2>3, FS_Subset DEF SortedAll
  <2>5. ASSUME Sorted = ents PROVE Acyclic
    BY <2>5, Zenon DEF LifecycleIInv, SortInv, WellFounded, Acyclic
  <2>6. ASSUME Acyclic PROVE Sorted = ents
    <3>. SUFFICES ASSUME ents \ Sorted # {} PROVE FALSE
      BY <2>1
    <3>1. PICK s \in ents \ Sorted : Deps(s) \intersect (ents \ Sorted) = {}
      <4>1. ents \ Sorted \in SUBSET ents
        OBVIOUS
      <4>. QED  BY <2>6, <4>1, Zenon DEF Acyclic
    <3>2. Deps(s) \subseteq Sorted
      BY <3>1 DEF Deps, Dependencies
    <3>. QED  BY <3>1, <3>2 DEF LifecycleIInv, SortInv, Ready
  <2>. QED  BY <2>4, <2>5, <2>6
<1>. QED  BY <1>1, Invariant, PTL

\* No Start or Stop is called on an instance that is not in the state for it.
THEOREM HooksComeInSequence == LifecycleSpec => HooksInSequence
<1>. DEFINE Change == \A s \in Subsystem :
          /\ lastHook'[s] = "Start" /\ lastHook[s] # "Start" =>
                lastHook[s] \in {"Initialize", "Stop"}
          /\ lastHook'[s] = "Stop" /\ lastHook[s] # "Stop" => lastHook[s] = "Start"
<1>1. LifecycleIInv /\ [LifecycleNext]_lifecycleVars => [Change]_lifecycleVars
  <2>. SUFFICES ASSUME LifecycleIInv, LifecycleNext, NEW s \in Subsystem,
                       lastHook'[s] \in {"Start", "Stop"}, lastHook'[s] # lastHook[s]
                PROVE  \/ lastHook'[s] = "Start" /\ lastHook[s] \in {"Initialize", "Stop"}
                       \/ lastHook'[s] = "Stop" /\ lastHook[s] = "Start"
    BY Zenon DEF lifecycleVars
  <2>1. /\ lastHook \in [Subsystem -> {"none", "Initialize", "Start", "Stop", "Shutdown"}]
        /\ StatesTrue
    BY DEF LifecycleIInv, LifecycleTypeOK
  <2>2. ASSUME NEW t \in Subsystem, NEW state, NEW hook, Becomes(t, state, hook)
        PROVE  lastHook'[s] # lastHook[s] => s = t /\ lastHook'[s] = hook
    BY <2>1, <2>2 DEF Becomes
  <2>3. ASSUME NEW t \in Subsystem, CallStart(t)
        PROVE  lastHook'[s] = "Start" /\ lastHook[s] \in {"Initialize", "Stop"}
    BY <2>1, <2>2, <2>3 DEF CallStart, StaysAsItIs, StatesTrue, HookOf
  <2>4. ASSUME NEW t \in Subsystem, CallStop(t)
        PROVE  lastHook'[s] = "Stop" /\ lastHook[s] = "Start"
    BY <2>1, <2>2, <2>4 DEF CallStop, StaysAsItIs, StatesTrue, HookOf
  <2>5. ASSUME NEW t \in Subsystem, CallInitialize(t) \/ CallShutdown(t) \/ ShutdownSubsystem(t)
        PROVE  FALSE
    BY <2>2, <2>5 DEF CallInitialize, CallShutdown, ShutdownSubsystem, StaysAsItIs
  <2>6. ASSUME NEW t \in Subsystem, RegisterInstance(t)
        PROVE  FALSE
    BY <2>1, <2>6 DEF RegisterInstance
  <2>7. ASSUME \/ \E t \in Subsystem : UnregisterInstance(t) \/ PopEntry(t)
               \/ \E p \in Pass : BeginPass(p)
               \/ CallHooks \/ RejectCycle \/ ReturnFromPass
        PROVE  FALSE
    BY <2>7 DEF UnregisterInstance, PopEntry, BeginPass, CallHooks, RejectCycle, ReturnFromPass,
                EndPass
  <2>. QED  BY <2>3, <2>4, <2>5, <2>6, <2>7 DEF LifecycleNext, PassStep
<1>. QED  BY <1>1, Invariant, PTL DEF LifecycleSpec, HooksInSequence
=============================================================================
