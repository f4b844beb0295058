-------------------- MODULE DeviceUpload_proofs --------------------
(***************************************************************************)
(* Proofs about DeviceUpload, for any number of uploads of any sizes, any  *)
(* of them asynchronous and any of those cancelled at any time, any limits *)
(* of the two pools, any number of calls of CleanupDevice, each of the     *)
(* three backends and any number of uploads that the device loses.         *)
(***************************************************************************)
EXTENDS DeviceUpload, FiniteSetTheorems, SequenceTheorems, WellFoundedInduction, TLAPS

-----------------------------------------------------------------------------
(* The invariant *)

CreateLines == {"begin", "uploading", "staged", "acquired", "submitted", "handOver"}
FinishLines == {"waiting", "woken", "cleanup", "answering", "unregister", "deleting"}

WorkerAt(u, states) == worker.upload = u /\ worker.at \in states

Queued(u) == createTask[u] # NoTask /\ phase[createTask[u]] = "waiting"
Handed(u) == finishTask[u] # NoTask /\ phase[finishTask[u]] = "waiting"

TasksOwned ==
    /\ \A t, s \in 1 .. MaxTasks : phase[t] = "running" /\ phase[s] = "running" => t = s
    /\ worker.at = "idle" <=> \A t \in 1 .. MaxTasks : phase[t] # "running"
    /\ \A u \in Async : createTask[u] # NoTask => phase[createTask[u]] # "unused"
    /\ \A u \in Async : finishTask[u] # NoTask =>
          /\ phase[finishTask[u]] # "unused"
          /\ createTask[u] # NoTask /\ phase[createTask[u]] \in {"running", "done"}
    /\ \A u, v \in Async : createTask[u] # NoTask /\ createTask[u] = createTask[v] => u = v
    /\ \A u, v \in Async : finishTask[u] # NoTask /\ finishTask[u] = finishTask[v] => u = v
    /\ \A u, v \in Async : createTask[u] # NoTask => createTask[u] # finishTask[v]
    /\ worker.at \in CreateLines =>
          /\ createTask[worker.upload] # NoTask
          /\ phase[createTask[worker.upload]] = "running"
          /\ finishTask[worker.upload] = NoTask
    /\ worker.at \in FinishLines =>
          /\ finishTask[worker.upload] # NoTask
          /\ phase[finishTask[worker.upload]] = "running"

HasBuffer == {"staged", "acquired", "submitted", "handOver", "waiting", "woken", "cleanup"}
HasList == HasBuffer \ {"staged"}
HasFence == HasList \ {"acquired"}
Unanswered == CreateLines \cup {"waiting", "woken", "cleanup", "answering"}

AsyncTrue(u) ==
    /\ call[u] = "none" <=> answer[u] = "unasked"
    /\ call[u] \in {"none", "returned"}
    /\ createTask[u] # NoTask => call[u] = "returned"
    /\ answer[u] = "pending" <=> Queued(u) \/ Handed(u) \/ WorkerAt(u, Unanswered)
    /\ staging[u] # NoBuffer <=> Handed(u) \/ WorkerAt(u, HasBuffer)
    /\ cmd[u] # NoList <=> Handed(u) \/ WorkerAt(u, HasList)
    /\ fence[u] # "none" <=> Handed(u) \/ WorkerAt(u, HasFence)
    /\ WorkerAt(u, {"woken", "cleanup"}) => fence[u] = "signaled"
    /\ fence[u] = "never" => u \in lost
    /\ fence[u] = "signaled" \/ WorkerAt(u, {"answering"}) => content[u] = u \/ u \in lost
    /\ content[u] # NoData /\ answer[u] = "pending" =>
          u \in lost \/ fence[u] = "signaled" \/ WorkerAt(u, {"answering"})
    /\ answer[u] = "unasked" => content[u] = NoData /\ u \notin lost
    /\ WorkerAt(u, {"cleanup", "answering"}) /\ ~worker.wasCancelled => status[u] = "Completed"

SyncTrue(u) ==
    /\ call[u] = "none" <=> answer[u] = "unasked"
    /\ answer[u] = "pending" <=> call[u] \in {"staged", "listed", "submitted"}
    /\ staging[u] # NoBuffer <=> call[u] \in {"staged", "listed", "submitted"}
    /\ cmd[u] # NoList <=> call[u] \in {"listed", "submitted"}
    /\ call[u] \in {"none", "staged", "listed"} => content[u] = NoData
    /\ call[u] = "submitted" => content[u] \in {NoData, u} \/ u \in lost
    /\ answer[u] = "unasked" => u \notin lost

OnGpu(u) == \E i \in 1 .. Len(gpuQueue) : gpuQueue[i].upload = u

QueueTrue ==
    /\ \A i, j \in 1 .. Len(gpuQueue) : gpuQueue[i].upload = gpuQueue[j].upload => i = j
    /\ \A u \in Async : /\ fence[u] = "unsignaled" => OnGpu(u)
                        /\ OnGpu(u) => fence[u] \in {"unsignaled", "never"}
    /\ \A u \in Upload \ Async :
          /\ u \notin lost => (OnGpu(u) <=> call[u] = "submitted" /\ content[u] = NoData)
          /\ OnGpu(u) => call[u] \in {"submitted", "returned"}

\* A submission is as its upload left it.
Untouched(s) ==
    /\ Alive(s.list)
    /\ cmd[s.upload] = s.list
    /\ recorded[s.list] = [from |-> staging[s.upload], to |-> s.upload]
    /\ staging[s.upload] \in DOMAIN buffers_
    /\ buffers_[staging[s.upload]].data = s.upload \/ s.upload \in lost

\* The device creates its lists with new numbers: one that is gone stays gone.
Gone(l) == l \in 1 .. created /\ ~Alive(l)

\* The submission of a call that Direct3D 12 has let return too early.
Leftover(s) ==
    /\ s.upload \in lost /\ s.upload \notin Async
    /\ call[s.upload] = "returned" /\ answer[s.upload] = "success"
    /\ Gone(s.list) /\ recorded[s.list].to = s.upload

\* The GPU has nothing else to execute.
QueueSound == \A i \in DOMAIN gpuQueue : Untouched(gpuQueue[i]) \/ Leftover(gpuQueue[i])

FreshLists == \A l \in CommandList : l > created => destroyed[l] = 0

\* The buffer of an upload has its data, or the data is lost: always on Direct3D.
OwnData ==
    \A u \in Upload : staging[u] # NoBuffer =>
       /\ staging[u] \in DOMAIN buffers_
       /\ buffers_[staging[u]].data = u \/ u \in lost
       /\ backend = "Vulkan" \/ u \in lost

BuffersTyped ==
    /\ buffers_ \in Seq(BufferEntry) /\ currentTotalSize_ \in 0 .. MaxTotalSize
    /\ staging \in [Upload -> Buffer \union {NoBuffer}]

ListsTyped ==
    /\ available_ \in Seq(CommandList) /\ all_ \subseteq CommandList
    /\ created \in 0 .. Cardinality(Upload) /\ destroyed \in [CommandList -> 0 .. 2]
    /\ cmd \in [Upload -> CommandList \union {NoList}]

TasksTyped ==
    /\ phase \in [1 .. MaxTasks -> WorkerEx!Phase] /\ priority \in [1 .. MaxTasks -> {0}]
    /\ createTask \in [Async -> 0 .. MaxTasks] /\ finishTask \in [Async -> 0 .. MaxTasks]
    /\ worker \in [at : WorkerState, upload : Async, wasCancelled : BOOLEAN]

RestTyped ==
    /\ recorded \in [CommandList -> Recording] /\ backend \in Backend
    /\ call \in [Upload -> CallState]
    /\ operations \subseteq Async /\ contexts \subseteq Async /\ cancelled \subseteq Async
    /\ status \in [Async -> Status]
    /\ fence \in [Async -> FenceState]
    /\ cancelling \in [Async -> {"no", "found", "flagged"}]
    /\ gpuQueue \in Seq(Submission) /\ cleanups \in 0 .. MaxCleanups
    /\ Service!TypeOK

Buffers == BuffersTyped /\ StagingExact /\ OwnData
Lists == ListsTyped /\ ListsExact /\ FreshLists
Tasks == TasksTyped /\ TasksOwned

IInv == /\ Buffers /\ Lists /\ Tasks /\ RestTyped
        /\ \A u \in Async : AsyncTrue(u)
        /\ \A u \in Upload \ Async : SyncTrue(u)
        /\ QueueTrue /\ QueueSound /\ SuccessMeansCompleted

-----------------------------------------------------------------------------
(* Buffers *)

\* Every nonempty set of natural numbers has a least element.
LEMMA Smallest ==
  ASSUME NEW T \in SUBSET Nat, T # {}
  PROVE  \E m \in T : \A k \in T : m <= k
<1>1. PICK m \in T : \A k \in T : ~ (<<k, m>> \in OpToRel(<, Nat))
  BY WFMin, NatLessThanWellFounded, Zenon
<1>2. \A k \in T : ~ (k < m)
  BY <1>1, Zenon DEF OpToRel
<1>3. \A k \in T : m <= k
  BY <1>2
<1>4. QED
  BY <1>3

\* The uploads and the tasks of the worker can be counted.
LEMMA Uploads ==
  Cardinality(Upload) \in Nat /\ Cardinality(Async) \in Nat /\ MaxTasks \in Nat
<1>1. IsFiniteSet(Async)
  BY UploadAssumption, AsyncAssumption, FS_Subset
<1>2. QED
  BY <1>1, UploadAssumption, FS_CardinalityType DEF MaxTasks

\* A buffer as an upload finds it: what the upload holds stays, whatever happens
\* to the others.
BufferKept(v) ==
    /\ staging'[v] = staging[v]
    /\ staging[v] # NoBuffer =>
          /\ staging[v] \in DOMAIN buffers_ /\ staging[v] \in DOMAIN buffers_'
          /\ buffers_'[staging[v]] = buffers_[staging[v]]

\* StagingExact said buffer by buffer.
InUse(b) == b \in DOMAIN buffers_ /\ buffers_[b].inUse

BuffersExact ==
    /\ \A u \in Upload : staging[u] # NoBuffer =>
          InUse(staging[u]) /\ buffers_[staging[u]].size >= Size[u]
    /\ \A b : InUse(b) => \E u \in Upload : staging[u] = b
    /\ \A u, v \in Upload : staging[u] # NoBuffer /\ staging[u] = staging[v] => u = v

\* StagingExact can be said buffer by buffer.
LEMMA ExactBuffers == BuffersTyped => (StagingExact <=> BuffersExact)
<1> SUFFICES ASSUME BuffersTyped PROVE StagingExact <=> BuffersExact
  OBVIOUS
<1>0. buffers_ \in Seq(BufferEntry) /\ DOMAIN buffers_ = 1 .. Len(buffers_) /\ Len(buffers_) \in Nat
  BY LenProperties DEF BuffersTyped
<1>1. ~InUse(NoBuffer)
  BY <1>0 DEF InUse, NoBuffer
<1>2. \A b : b \in {c \in DOMAIN buffers_ : buffers_[c].inUse} <=> InUse(b)
  BY DEF InUse
<1>3. \A b : b \in Held(staging) <=> b # NoBuffer /\ \E u \in Upload : staging[u] = b
  BY DEF Held, NoBuffer
<1>4. QED
  BY <1>1, <1>2, <1>3 DEF StagingExact, BuffersExact

\* What the device does to the data it keeps: it may lose more of it.
DeviceKept == backend' = backend /\ lost \subseteq lost'

\* A buffer has what was written to it, or the device has lost that.
LEMMA UpdateLoses ==
  ASSUME NEW u \in Upload, NEW held, NEW data, UpdateBuffer(u, held, data)
  PROVE  /\ data = u \/ u \in lost'
         /\ backend = "Vulkan" \/ u \in lost'
         /\ lost' = lost \/ lost' = lost \union {u}
BY DEF UpdateBuffer, Lose

\* StagingBufferManager::Allocate and the copy: the upload has a buffer of its own with
\* its data in it unless that is lost, and the buffers of the others are as they were.
LEMMA AllocateKeeps ==
  ASSUME BuffersTyped, StagingExact, NEW u \in Upload, staging[u] = NoBuffer,
         NEW b \in Buffer, AllocateSucceeds(u, b), staging' = [staging EXCEPT ![u] = b]
  PROVE  /\ BuffersTyped' /\ StagingExact'
         /\ staging'[u] = b /\ b # NoBuffer
         /\ b \in DOMAIN buffers_' /\ (buffers_'[b].data = u \/ u \in lost')
         /\ backend = "Vulkan" \/ u \in lost'
         /\ lost' = lost \/ lost' = lost \union {u}
         /\ \A v \in Upload \ {u} : BufferKept(v)
<1>0. /\ buffers_ \in Seq(BufferEntry) /\ DOMAIN buffers_ = 1 .. Len(buffers_) /\ Len(buffers_) \in Nat
      /\ \A c \in DOMAIN buffers_ : buffers_[c] \in BufferEntry
      /\ staging \in [Upload -> Buffer \union {NoBuffer}]
      /\ currentTotalSize_ \in 0 .. MaxTotalSize
  BY LenProperties DEF BuffersTyped
<1>a. Size[u] \in Nat \ {0} /\ MaxTotalSize \in Nat
  BY SizeAssumption, LimitsAssumption
<1>1. b # NoBuffer
  BY Uploads DEF Buffer, NoBuffer
<1>2. /\ buffers_' \in Seq(BufferEntry) /\ currentTotalSize_' \in 0 .. MaxTotalSize
      /\ DOMAIN buffers_' = DOMAIN buffers_ \cup {b}
      /\ \A c \in DOMAIN buffers_ \ {b} : buffers_'[c] = buffers_[c]
      /\ buffers_'[b].inUse /\ buffers_'[b].size >= Size[u]
      /\ ~InUse(b)
      /\ buffers_'[b].data = u \/ u \in lost'
      /\ backend = "Vulkan" \/ u \in lost'
      /\ lost' = lost \/ lost' = lost \union {u}
  <2>1. CASE Reuse(u, b)
    <3>1. Fitting(u) \in SUBSET Nat /\ Fitting(u) # {}
      BY <1>0, <2>1 DEF Reuse, Fitting
    <3>2. \E m \in Fitting(u) : \A k \in Fitting(u) : m <= k
      BY <3>1, Smallest
    <3>3. b \in Fitting(u)
      BY <2>1, <3>2 DEF Reuse, Min
    <3>4. /\ b \in 1 .. Len(buffers_) /\ ~buffers_[b].inUse /\ buffers_[b].size >= Size[u]
      BY <1>0, <3>3 DEF Fitting
    <3>9. buffers_[b] \in BufferEntry
      BY <1>0, <3>4
    <3>a. PICK data \in {u, buffers_[b].data} :
             /\ UpdateBuffer(u, buffers_[b].data, data)
             /\ buffers_' = [buffers_ EXCEPT ![b].inUse = TRUE, ![b].data = data]
      BY <2>1 DEF Reuse
    <3> DEFINE e == [buffers_[b] EXCEPT !.inUse = TRUE, !.data = data]
    <3>5. /\ e \in BufferEntry /\ e.inUse = TRUE /\ e.data = data /\ e.size = buffers_[b].size
      BY <3>9, <3>a DEF BufferEntry
    <3>6. buffers_' = [buffers_ EXCEPT ![b] = e]
      BY <1>0, <3>4, <3>9, <3>a DEF BufferEntry
    <3> HIDE DEF e
    <3>7. /\ buffers_' \in Seq(BufferEntry) /\ Len(buffers_') = Len(buffers_)
          /\ \A c \in 1 .. Len(buffers_) : buffers_'[c] = IF c = b THEN e ELSE buffers_[c]
      BY <1>0, <3>4, <3>5, <3>6, ExceptSeq
    <3>8. DOMAIN buffers_' = DOMAIN buffers_
      BY <1>0, <3>7, LenProperties
    <3>10. /\ buffers_'[b].inUse = TRUE /\ buffers_'[b].data = data /\ buffers_'[b].size = buffers_[b].size
      BY <3>4, <3>5, <3>7
    <3>11. buffers_'[b].size >= Size[u]
      BY <3>4, <3>10
    <3>b. /\ buffers_'[b].data = u \/ u \in lost'
          /\ backend = "Vulkan" \/ u \in lost'
          /\ lost' = lost \/ lost' = lost \union {u}
      BY <3>10, <3>a, UpdateLoses
    <3>12. ~InUse(b) /\ currentTotalSize_' = currentTotalSize_
      BY <2>1, <3>4 DEF Reuse, InUse
    <3>13. DOMAIN buffers_' = DOMAIN buffers_ \cup {b}
      BY <1>0, <3>4, <3>8
    <3>14. \A c \in DOMAIN buffers_ \ {b} : buffers_'[c] = buffers_[c]
      BY <1>0, <3>7
    <3>15. QED
      BY <1>0, <3>7, <3>10, <3>11, <3>12, <3>13, <3>14, <3>b
  <2>2. CASE CreateStaging(u, b)
    <3>a. PICK data \in {u, NoData} :
             /\ UpdateBuffer(u, NoData, data)
             /\ buffers_' = Append(buffers_, [size |-> Size[u], inUse |-> TRUE, data |-> data])
      BY <2>2 DEF CreateStaging
    <3> DEFINE e == [size |-> Size[u], inUse |-> TRUE, data |-> data]
    <3>1. e \in BufferEntry
      BY <1>0, <1>a, <3>a DEF BufferEntry
    <3>2. buffers_' = Append(buffers_, e) /\ b = Len(buffers_) + 1
      BY <2>2, <3>a DEF CreateStaging
    <3>b. /\ data = u \/ u \in lost'
          /\ backend = "Vulkan" \/ u \in lost'
          /\ lost' = lost \/ lost' = lost \union {u}
      BY <3>a, UpdateLoses
    <3>3. /\ buffers_' \in Seq(BufferEntry) /\ Len(buffers_') = Len(buffers_) + 1
          /\ \A c \in 1 .. Len(buffers_) : buffers_'[c] = buffers_[c]
          /\ buffers_'[b] = e
      BY <1>0, <3>1, <3>2, AppendProperties
    <3>4. DOMAIN buffers_' = 1 .. Len(buffers_) + 1
      BY <3>3, LenProperties
    <3>5. currentTotalSize_' \in 0 .. MaxTotalSize
      BY <1>0, <1>a, <2>2 DEF CreateStaging
    <3>6. b \notin DOMAIN buffers_
      BY <1>0, <3>2
    <3>7. QED
      BY <1>0, <1>a, <3>2, <3>3, <3>4, <3>5, <3>6, <3>b DEF InUse
  <2>3. QED
    BY <2>1, <2>2 DEF AllocateSucceeds
<1>3. staging' \in [Upload -> Buffer \union {NoBuffer}] /\ staging'[u] = b
      /\ \A v \in Upload \ {u} : staging'[v] = staging[v]
  BY <1>0
<1>4. BuffersTyped'
  BY <1>2, <1>3 DEF BuffersTyped
<1>5. BuffersExact
  BY ExactBuffers
<1>6. \A v \in Upload \ {u} : BufferKept(v)
  BY <1>2, <1>3, <1>5 DEF BufferKept, InUse, BuffersExact
<1>7. \A v \in Upload : staging'[v] # NoBuffer =>
                 InUse(staging[v])' /\ buffers_'[staging'[v]].size >= Size[v]
  BY <1>2, <1>3, <1>5, <1>6 DEF BufferKept, InUse, BuffersExact
<1>8. \A c : InUse(c)' => \E v \in Upload : staging'[v] = c
  <2> SUFFICES ASSUME NEW c, InUse(c)' PROVE \E v \in Upload : staging'[v] = c
    OBVIOUS
  <2>1. CASE c = b
    BY <2>1, <1>3
  <2>2. CASE c # b
    <3>1. InUse(c)
      BY <2>2, <1>2 DEF InUse
    <3>2. PICK v \in Upload : staging[v] = c
      BY <3>1, <1>5 DEF BuffersExact
    <3>3. c # NoBuffer
      BY <3>1, <1>0 DEF InUse, NoBuffer
    <3>4. QED
      BY <3>2, <3>3, <1>3
  <2>3. QED
    BY <2>1, <2>2
<1>9. \A v, w \in Upload : staging'[v] # NoBuffer /\ staging'[v] = staging'[w] => v = w
  BY <1>1, <1>2, <1>3, <1>5 DEF BuffersExact
<1>10. StagingExact'
  <2>1. BuffersExact'
    BY <1>7, <1>8, <1>9 DEF BuffersExact
  <2>2. (BuffersTyped => (StagingExact <=> BuffersExact))'
    BY ExactBuffers, PTL
  <2>3. QED
    BY <1>4, <2>1, <2>2
<1>11. QED
  BY <1>1, <1>2, <1>3, <1>4, <1>6, <1>10

\* StagingBufferManager::Release of what the upload holds.
LEMMA ReleaseKeeps ==
  ASSUME BuffersTyped, StagingExact, NEW u \in Upload,
         ReleaseStaging(staging[u]), staging' = [staging EXCEPT ![u] = NoBuffer]
  PROVE  /\ BuffersTyped' /\ StagingExact'
         /\ staging'[u] = NoBuffer
         /\ \A v \in Upload \ {u} : BufferKept(v)
<1>0. /\ buffers_ \in Seq(BufferEntry) /\ DOMAIN buffers_ = 1 .. Len(buffers_) /\ Len(buffers_) \in Nat
      /\ \A c \in DOMAIN buffers_ : buffers_[c] \in BufferEntry
      /\ staging \in [Upload -> Buffer \union {NoBuffer}]
      /\ currentTotalSize_ \in 0 .. MaxTotalSize
  BY LenProperties DEF BuffersTyped
<1>1. BuffersExact
  BY ExactBuffers
<1>2. /\ buffers_' \in Seq(BufferEntry) /\ currentTotalSize_' = currentTotalSize_
      /\ DOMAIN buffers_' = DOMAIN buffers_
      /\ \A c \in DOMAIN buffers_ \ {staging[u]} : buffers_'[c] = buffers_[c]
      /\ \A c : c = staging[u] => ~InUse(c)'
  <2>1. CASE staging[u] = NoBuffer
    BY <1>0, <2>1 DEF ReleaseStaging, Released, InUse, NoBuffer
  <2>2. CASE staging[u] # NoBuffer
    <3> DEFINE b == staging[u]
               e == [buffers_[b] EXCEPT !.inUse = FALSE]
    <3>1. b \in 1 .. Len(buffers_) /\ buffers_[b] \in BufferEntry
      BY <1>0, <1>1, <2>2 DEF BuffersExact, InUse
    <3>2. e \in BufferEntry /\ e.inUse = FALSE
      BY <3>1 DEF BufferEntry
    <3>3. buffers_' = [buffers_ EXCEPT ![b] = e]
      BY <1>0, <2>2, <3>1 DEF ReleaseStaging, Released
    <3> HIDE DEF e
    <3>4. /\ buffers_' \in Seq(BufferEntry) /\ Len(buffers_') = Len(buffers_)
          /\ \A c \in 1 .. Len(buffers_) : buffers_'[c] = IF c = b THEN e ELSE buffers_[c]
      BY <1>0, <3>1, <3>2, <3>3, ExceptSeq
    <3>5. DOMAIN buffers_' = DOMAIN buffers_
      BY <1>0, <3>4, LenProperties
    <3>6. \A c : c = b => ~InUse(c)'
      BY <3>1, <3>2, <3>4, <3>5 DEF InUse
    <3>7. QED
      BY <1>0, <3>4, <3>5, <3>6 DEF ReleaseStaging
  <2>3. QED
    BY <2>1, <2>2
<1>3. staging' \in [Upload -> Buffer \union {NoBuffer}] /\ staging'[u] = NoBuffer
      /\ \A v \in Upload \ {u} : staging'[v] = staging[v]
  BY <1>0
<1>4. BuffersTyped'
  BY <1>0, <1>2, <1>3 DEF BuffersTyped
<1>5. \A v \in Upload \ {u} : BufferKept(v)
  BY <1>1, <1>2, <1>3 DEF BufferKept, InUse, BuffersExact
<1>6. \A v \in Upload : staging'[v] # NoBuffer =>
                 InUse(staging[v])' /\ buffers_'[staging'[v]].size >= Size[v]
  BY <1>1, <1>2, <1>3, <1>5 DEF BufferKept, InUse, BuffersExact
<1>7. \A c : InUse(c)' => \E v \in Upload : staging'[v] = c
  BY <1>1, <1>2, <1>3 DEF InUse, BuffersExact
<1>8. \A v, w \in Upload : staging'[v] # NoBuffer /\ staging'[v] = staging'[w] => v = w
  BY <1>1, <1>3 DEF BuffersExact
<1>9. BuffersExact'
  BY <1>6, <1>7, <1>8 DEF BuffersExact
<1>10. (BuffersTyped => (StagingExact <=> BuffersExact))'
  BY ExactBuffers, PTL
<1>11. QED
  BY <1>3, <1>4, <1>5, <1>9, <1>10

-----------------------------------------------------------------------------
(* Command lists *)

\* No list that is gone comes back.
GoneStay == \A l : Gone(l) => Gone(l)'

Idle(l) == l \in Range(available_)

HeldIn(l, uploads) == l # NoList /\ \E u \in uploads : cmd[u] = l

\* ListsExact said list by list.
ListsEach ==
    /\ IsInjective(available_)
    /\ \A l : Idle(l) => ~HeldIn(l, Upload)
    /\ \A u, v \in Upload : cmd[u] # NoList /\ cmd[u] = cmd[v] => u = v
    /\ \A l : Alive(l) <=> Idle(l) \/ HeldIn(l, Upload)
    /\ \A l : l \in all_ <=> Alive(l) /\ ~HeldIn(l, Upload \ Async)

\* ListsExact can be said list by list.
LEMMA ExactLists == ListsTyped => (ListsExact <=> ListsEach)
<1> SUFFICES ASSUME ListsTyped PROVE ListsExact <=> ListsEach
  OBVIOUS
<1>1. \A l : Alive(l) => l \in CommandList /\ l # NoList
  BY Uploads DEF Alive, ListsTyped, CommandList, NoList
<1>2. \A l : l \in Held(cmd) <=> HeldIn(l, Upload)
  BY DEF Held, HeldIn, NoList
<1>3. \A l : l \in {cmd[u] : u \in Upload \ Async} /\ l # NoList <=> HeldIn(l, Upload \ Async)
  BY DEF HeldIn
<1>4. \A l : l \in {k \in CommandList : Alive(k)} <=> Alive(l)
  BY <1>1
<1>5. Range(available_) \intersect Held(cmd) = {} <=> \A l : Idle(l) => ~HeldIn(l, Upload)
  BY <1>2 DEF Idle
<1>6. {l \in CommandList : Alive(l)} = Range(available_) \union Held(cmd)
        <=> \A l : Alive(l) <=> Idle(l) \/ HeldIn(l, Upload)
  BY <1>2, <1>4 DEF Idle
<1>7. all_ = {l \in CommandList : Alive(l)} \ {cmd[u] : u \in Upload \ Async}
        <=> \A l : l \in all_ <=> Alive(l) /\ ~HeldIn(l, Upload \ Async)
  BY <1>1, <1>3, <1>4
<1>8. QED
  BY <1>5, <1>6, <1>7 DEF ListsExact, ListsEach

\* The lists are as they should be exactly if every list is.
LEMMA ListsParts == Lists <=> ListsTyped /\ ListsEach /\ FreshLists
BY ExactLists DEF Lists

\* The same after a step.
LEMMA ListsPartsNext == (Lists <=> ListsTyped /\ ListsEach /\ FreshLists)'
BY ListsParts, PTL

\* A list that an upload holds stays and is not destroyed.
ListKept(v) ==
    /\ cmd'[v] = cmd[v]
    /\ cmd[v] # NoList => Alive(cmd[v]) /\ \A l : l = cmd[v] => Alive(l)'

\* The queue of the pool when a list is put in and when one is taken out.
LEMMA PutIn ==
  ASSUME NEW S, NEW s \in Seq(S), NEW e \in S, IsInjective(s), e \notin Range(s)
  PROVE  /\ Append(s, e) \in Seq(S) /\ IsInjective(Append(s, e))
         /\ Range(Append(s, e)) = Range(s) \cup {e}
<1>0. /\ Len(s) \in Nat /\ DOMAIN s = 1 .. Len(s)
      /\ Append(s, e) \in Seq(S) /\ Len(Append(s, e)) = Len(s) + 1
      /\ \A i \in 1 .. Len(s) : Append(s, e)[i] = s[i]
      /\ Append(s, e)[Len(s) + 1] = e
  BY AppendProperties, LenProperties
<1>1. DOMAIN Append(s, e) = 1 .. Len(s) + 1
  BY <1>0, LenProperties
<1> DEFINE t == Append(s, e)
<1> HIDE DEF t
<1>2. DOMAIN t = DOMAIN s \cup {Len(s) + 1} /\ Len(s) + 1 \notin DOMAIN s
  BY <1>0, <1>1 DEF t
<1>3. t[Len(s) + 1] = e /\ \A i \in DOMAIN s : t[i] = s[i]
  BY <1>0 DEF t
<1>4. Range(t) = Range(s) \cup {e}
  BY <1>2, <1>3 DEF Range
<1>5. IsInjective(t)
  BY <1>2, <1>3 DEF IsInjective, Range
<1>6. QED
  BY <1>0, <1>4, <1>5 DEF t

\* What is left of the pool's queue without its first list.
LEMMA TakeOut ==
  ASSUME NEW S, NEW s \in Seq(S), s # <<>>, IsInjective(s)
  PROVE  /\ Head(s) \in S /\ Tail(s) \in Seq(S) /\ IsInjective(Tail(s))
         /\ Range(Tail(s)) = Range(s) \ {Head(s)} /\ Head(s) \in Range(s)
<1>0. /\ Len(s) \in Nat \ {0} /\ DOMAIN s = 1 .. Len(s) /\ Head(s) = s[1]
      /\ Head(s) \in S /\ Tail(s) \in Seq(S) /\ Len(Tail(s)) = Len(s) - 1
      /\ \A i \in 1 .. Len(Tail(s)) : Tail(s)[i] = s[i + 1]
  BY HeadTailProperties, LenProperties, EmptySeq
<1>1. DOMAIN Tail(s) = 1 .. Len(s) - 1
  BY <1>0, LenProperties
<1> DEFINE t == Tail(s)
<1> HIDE DEF t
<1>2. DOMAIN t = 1 .. Len(s) - 1 /\ \A i \in DOMAIN t : i + 1 \in DOMAIN s /\ i + 1 # 1 /\ t[i] = s[i + 1]
  BY <1>0, <1>1 DEF t
<1>3. \A j \in DOMAIN s : j # 1 => j - 1 \in DOMAIN t /\ t[j - 1] = s[j]
  <2> SUFFICES ASSUME NEW j \in DOMAIN s, j # 1 PROVE j - 1 \in DOMAIN t /\ t[j - 1] = s[j]
    OBVIOUS
  <2>1. j \in Nat /\ j - 1 \in 1 .. Len(s) - 1 /\ (j - 1) + 1 = j
    BY <1>0
  <2>2. QED
    BY <2>1, <1>2
<1>4. 1 \in DOMAIN s
  BY <1>0
<1>5. Range(t) = Range(s) \ {s[1]}
  <2>1. ASSUME NEW x \in Range(t) PROVE x \in Range(s) /\ x # s[1]
    BY <1>2, <1>4 DEF Range, IsInjective
  <2>2. ASSUME NEW x \in Range(s), x # s[1] PROVE x \in Range(t)
    <3>1. PICK j \in DOMAIN s : s[j] = x
      BY DEF Range
    <3>2. j - 1 \in DOMAIN t /\ t[j - 1] = x
      BY <1>3, <2>2, <3>1
    <3>3. QED
      BY <3>2 DEF Range
  <2>3. QED
    BY <2>1, <2>2
<1>6. IsInjective(t)
  <2> SUFFICES ASSUME NEW i \in DOMAIN t, NEW j \in DOMAIN t, t[i] = t[j] PROVE i = j
    BY DEF IsInjective
  <2>1. i + 1 = j + 1
    BY <1>2 DEF IsInjective
  <2>2. i \in Nat /\ j \in Nat
    BY <1>0, <1>2
  <2>3. QED
    BY <2>1, <2>2
<1>7. s[1] \in Range(s)
  BY <1>4 DEF Range
<1>8. QED
  BY <1>0, <1>5, <1>6, <1>7 DEF t

\* The list that the device creates next.
LEMMA NewList ==
  ASSUME Lists, NEW l \in CommandList, CreateCommandList(l), UNCHANGED destroyed
  PROVE  /\ created' \in 0 .. Cardinality(Upload)
         /\ ~Alive(l) /\ l # NoList /\ FreshLists' /\ GoneStay
         /\ \A k : Alive(k)' <=> Alive(k) \/ k = l
<1>1. /\ created \in 0 .. Cardinality(Upload) /\ l \in Nat \ {0} /\ l <= Cardinality(Upload)
      /\ l = created + 1 /\ created' = created + 1 /\ destroyed' = destroyed /\ destroyed[l] = 0
  BY Uploads DEF CreateCommandList, CommandList, Lists, ListsTyped, FreshLists
<1>2. created' \in 0 .. Cardinality(Upload) /\ ~Alive(l) /\ l # NoList
  BY <1>1, Uploads DEF Alive, NoList
<1>3. FreshLists'
  <2> SUFFICES ASSUME NEW k \in CommandList, k > created' PROVE destroyed'[k] = 0
    BY DEF FreshLists
  <2>1. k \in Nat /\ k > created
    BY <1>1, Uploads DEF CommandList
  <2>2. QED
    BY <1>1, <2>1 DEF Lists, FreshLists
<1>4. \A k : k \in 1 .. created' <=> k \in 1 .. created \/ k = l
  BY <1>1
<1>5. l \notin 1 .. created
  BY <1>1
<1>6. QED
  BY <1>1, <1>2, <1>3, <1>4, <1>5 DEF Alive, Gone, GoneStay

\* CommandListPool::Acquire for an upload that has no list.
LEMMA AcquireKeeps ==
  ASSUME Lists, NEW u \in Async, cmd[u] = NoList,
         NEW l \in CommandList, Acquire(l), cmd' = [cmd EXCEPT ![u] = l]
  PROVE  /\ Lists' /\ cmd'[u] = l /\ l # NoList /\ GoneStay
         /\ \A v \in Upload \ {u} : ListKept(v)
<1>0. ListsTyped /\ ListsEach /\ FreshLists /\ u \in Upload
  BY ListsParts, AsyncAssumption
<1>1. /\ cmd' \in [Upload -> CommandList \union {NoList}] /\ cmd'[u] = l
      /\ \A v \in Upload \ {u} : cmd'[v] = cmd[v]
  BY <1>0 DEF ListsTyped
<1>2. /\ l # NoList /\ ~HeldIn(l, Upload) /\ FreshLists' /\ GoneStay
      /\ available_' \in Seq(CommandList) /\ all_' \subseteq CommandList
      /\ created' \in 0 .. Cardinality(Upload) /\ destroyed' = destroyed
      /\ IsInjective(available_')
      /\ \A k : Idle(k)' <=> Idle(k) /\ k # l
      /\ \A k : Alive(k)' <=> Alive(k) \/ k = l
      /\ \A k : k \in all_' <=> k \in all_ \/ k = l
      /\ Idle(l) \/ ~Alive(l)
  <2>1. CASE available_ # <<>> /\ l = Head(available_) /\ available_' = Tail(available_)
               /\ UNCHANGED <<all_, created, destroyed>>
    <3>1. /\ available_' \in Seq(CommandList) /\ IsInjective(available_')
          /\ Range(available_') = Range(available_) \ {l} /\ l \in Range(available_)
      BY <1>0, <2>1, TakeOut DEF ListsTyped, ListsEach
    <3>2. \A k : Alive(k)' <=> Alive(k)
      BY <2>1 DEF Alive
    <3>3. Idle(l) /\ Alive(l) /\ ~HeldIn(l, Upload) /\ ~HeldIn(l, Upload \ Async) /\ l \in all_
      BY <1>0, <3>1 DEF Idle, ListsEach, HeldIn
    <3>4. l # NoList
      BY <3>3, Uploads DEF CommandList, NoList
    <3>5. FreshLists'
      BY <1>0, <2>1 DEF FreshLists
    <3>6. \A k : Idle(k)' <=> Idle(k) /\ k # l
      BY <3>1 DEF Idle
    <3>7. GoneStay
      BY <2>1, <3>2 DEF GoneStay, Gone
    <3>8. QED
      BY <1>0, <2>1, <3>1, <3>2, <3>3, <3>4, <3>5, <3>6, <3>7 DEF ListsTyped
  <2>2. CASE available_ = <<>> /\ CreateCommandList(l) /\ all_' = all_ \union {l}
               /\ UNCHANGED <<available_, destroyed>>
    <3>1. /\ created' \in 0 .. Cardinality(Upload) /\ ~Alive(l) /\ l # NoList /\ FreshLists' /\ GoneStay
          /\ \A k : Alive(k)' <=> Alive(k) \/ k = l
      BY <2>2, NewList
    <3>2. ~HeldIn(l, Upload) /\ ~Idle(l)
      BY <1>0, <3>1 DEF ListsEach
    <3>3. \A k : Idle(k)' <=> Idle(k)
      BY <2>2 DEF Idle
    <3>4. QED
      BY <1>0, <2>2, <3>1, <3>2, <3>3 DEF ListsTyped, ListsEach
  <2>3. QED
    BY <2>1, <2>2 DEF Acquire
<1>3. ListsTyped'
  BY <1>0, <1>1, <1>2 DEF ListsTyped
<1>4. \A k : HeldIn(k, Upload)' <=> HeldIn(k, Upload) \/ k = l
  BY <1>0, <1>1, <1>2 DEF HeldIn
<1>5. \A k : HeldIn(k, Upload \ Async)' <=> HeldIn(k, Upload \ Async)
  BY <1>1 DEF HeldIn
<1>6. ~HeldIn(l, Upload \ Async)
  BY <1>2 DEF HeldIn
<1>7. \A v, w \in Upload : cmd'[v] # NoList /\ cmd'[v] = cmd'[w] => v = w
  BY <1>0, <1>1, <1>2 DEF ListsEach, HeldIn
<1>8. ListsEach'
  BY <1>0, <1>2, <1>4, <1>5, <1>6, <1>7 DEF ListsEach
<1>9. \A v \in Upload \ {u} : ListKept(v)
  BY <1>0, <1>1, <1>2 DEF ListKept, ListsEach, HeldIn
<1>10. QED
  BY <1>1, <1>2, <1>3, <1>8, <1>9, ListsPartsNext

\* IDevice::CreateCommandList for a synchronous upload.
LEMMA CreateListKeeps ==
  ASSUME Lists, NEW u \in Upload \ Async, cmd[u] = NoList,
         NEW l \in CommandList, CreateCommandList(l), cmd' = [cmd EXCEPT ![u] = l],
         UNCHANGED <<available_, all_, destroyed>>
  PROVE  /\ Lists' /\ cmd'[u] = l /\ l # NoList /\ GoneStay
         /\ \A v \in Upload \ {u} : ListKept(v)
<1>0. ListsTyped /\ ListsEach /\ FreshLists
  BY ListsParts
<1>1. /\ cmd' \in [Upload -> CommandList \union {NoList}] /\ cmd'[u] = l
      /\ \A v \in Upload \ {u} : cmd'[v] = cmd[v]
  BY <1>0 DEF ListsTyped
<1>2. /\ created' \in 0 .. Cardinality(Upload) /\ ~Alive(l) /\ l # NoList /\ FreshLists' /\ GoneStay
      /\ \A k : Alive(k)' <=> Alive(k) \/ k = l
  BY NewList
<1>3. ~HeldIn(l, Upload) /\ ~Idle(l) /\ l \notin all_
  BY <1>0, <1>2 DEF ListsEach
<1>4. ListsTyped'
  BY <1>0, <1>1, <1>2 DEF ListsTyped
<1>5. \A k : HeldIn(k, Upload)' <=> HeldIn(k, Upload) \/ k = l
  BY <1>0, <1>1, <1>2 DEF HeldIn
<1>6. \A k : HeldIn(k, Upload \ Async)' <=> HeldIn(k, Upload \ Async) \/ k = l
  BY <1>0, <1>1, <1>2 DEF HeldIn
<1>7. \A v, w \in Upload : cmd'[v] # NoList /\ cmd'[v] = cmd'[w] => v = w
  BY <1>0, <1>1, <1>2, <1>3 DEF ListsEach, HeldIn
<1>8. \A k : Idle(k)' <=> Idle(k)
  BY DEF Idle
<1>9. ListsEach'
  BY <1>0, <1>2, <1>3, <1>5, <1>6, <1>7, <1>8 DEF ListsEach
<1>10. \A v \in Upload \ {u} : ListKept(v)
  BY <1>0, <1>1, <1>2 DEF ListKept, ListsEach, HeldIn
<1>11. QED
  BY <1>1, <1>2, <1>4, <1>9, <1>10, ListsPartsNext

\* A list that is destroyed.
LEMMA GoneList ==
  ASSUME Lists, NEW l, Alive(l), DestroyCommandList(l), UNCHANGED created
  PROVE  /\ destroyed' \in [CommandList -> 0 .. 2] /\ FreshLists' /\ GoneStay
         /\ \A k : Alive(k)' <=> Alive(k) /\ k # l
<1>1. /\ created \in 0 .. Cardinality(Upload) /\ l \in CommandList /\ l <= created /\ destroyed[l] = 0
      /\ destroyed \in [CommandList -> 0 .. 2] /\ created' = created
      /\ destroyed' = [destroyed EXCEPT ![l] = @ + 1]
  BY Uploads DEF Alive, CommandList, Lists, ListsTyped, DestroyCommandList
<1>2. destroyed'[l] = 1 /\ \A k \in CommandList \ {l} : destroyed'[k] = destroyed[k]
  BY <1>1
<1>3. destroyed' \in [CommandList -> 0 .. 2]
  BY <1>1
<1>4. FreshLists'
  <2> SUFFICES ASSUME NEW k \in CommandList, k > created PROVE destroyed'[k] = 0
    BY <1>1 DEF FreshLists
  <2>1. k # l
    BY <1>1, Uploads DEF CommandList
  <2>2. QED
    BY <1>2, <2>1 DEF Lists, FreshLists
<1>5. \A k : k \in 1 .. created => k \in CommandList
  BY <1>1, Uploads DEF CommandList
<1>6. \A k : Alive(k)' <=> Alive(k) /\ k # l
  BY <1>1, <1>2, <1>5 DEF Alive
<1>7. GoneStay
  BY <1>1, <1>6 DEF GoneStay, Gone
<1>8. QED
  BY <1>3, <1>4, <1>6, <1>7

\* CommandListPool::Release of what the upload holds, into the pool or, when it is full, not.
LEMMA ReleaseListKeeps ==
  ASSUME Lists, NEW u \in Async, ReleaseList(cmd[u]), cmd' = [cmd EXCEPT ![u] = NoList]
  PROVE  /\ Lists' /\ cmd'[u] = NoList /\ GoneStay
         /\ \A v \in Upload \ {u} : ListKept(v)
<1>0. ListsTyped /\ ListsEach /\ FreshLists /\ u \in Upload
  BY ListsParts, AsyncAssumption
<1>1. /\ cmd' \in [Upload -> CommandList \union {NoList}] /\ cmd'[u] = NoList
      /\ \A v \in Upload \ {u} : cmd'[v] = cmd[v]
  BY <1>0 DEF ListsTyped
<1> DEFINE l == cmd[u]
<1>2. l # NoList => /\ l \in CommandList /\ HeldIn(l, Upload) /\ Alive(l) /\ ~Idle(l)
                    /\ ~HeldIn(l, Upload \ Async) /\ l \in all_
  BY <1>0 DEF ListsTyped, ListsEach, HeldIn
<1>3. \A k : HeldIn(k, Upload)' <=> HeldIn(k, Upload) /\ k # l
  BY <1>0, <1>1 DEF HeldIn, ListsEach
<1>4. \A k : HeldIn(k, Upload \ Async)' <=> HeldIn(k, Upload \ Async)
  BY <1>0, <1>1 DEF HeldIn
<1>5. \A v, w \in Upload : cmd'[v] # NoList /\ cmd'[v] = cmd'[w] => v = w
  BY <1>0, <1>1 DEF ListsEach
<1>6. CASE l = NoList
  <2>1. UNCHANGED listVars
    BY <1>6 DEF ReleaseList
  <2>2. /\ \A k : Idle(k)' <=> Idle(k)
        /\ \A k : Alive(k)' <=> Alive(k)
        /\ FreshLists' /\ GoneStay
    BY <1>0, <2>1 DEF Idle, Alive, listVars, FreshLists, Gone, GoneStay
  <2>3. \A k : HeldIn(k, Upload)' <=> HeldIn(k, Upload)
    BY <1>3, <1>6 DEF HeldIn
  <2>4. ListsTyped'
    BY <1>0, <1>1, <2>1 DEF ListsTyped, listVars
  <2>5. ListsEach'
    BY <1>0, <1>4, <1>5, <2>1, <2>2, <2>3 DEF ListsEach, listVars
  <2>6. \A v \in Upload \ {u} : ListKept(v)
    BY <1>0, <1>1, <2>2 DEF ListKept, ListsEach, HeldIn
  <2>7. QED
    BY <1>1, <2>2, <2>4, <2>5, <2>6, ListsPartsNext
<1>7. CASE l # NoList /\ available_' = Append(available_, l) /\ UNCHANGED <<all_, created, destroyed>>
  <2>1. /\ available_' \in Seq(CommandList) /\ IsInjective(available_')
        /\ \A k : Idle(k)' <=> Idle(k) \/ k = l
    BY <1>0, <1>2, <1>7, PutIn DEF ListsTyped, ListsEach, Idle
  <2>2. /\ \A k : Alive(k)' <=> Alive(k)
        /\ FreshLists' /\ GoneStay
    BY <1>0, <1>7 DEF Alive, FreshLists, Gone, GoneStay
  <2>3. ListsTyped'
    BY <1>0, <1>1, <1>7, <2>1 DEF ListsTyped
  <2>4. ListsEach'
    BY <1>0, <1>2, <1>3, <1>4, <1>5, <1>7, <2>1, <2>2 DEF ListsEach
  <2>5. \A v \in Upload \ {u} : ListKept(v)
    BY <1>0, <1>1, <2>2 DEF ListKept, ListsEach, HeldIn
  <2>6. QED
    BY <1>1, <2>2, <2>3, <2>4, <2>5, ListsPartsNext
<1>8. CASE /\ l # NoList /\ DestroyCommandList(l) /\ all_' = all_ \ {l}
           /\ UNCHANGED <<available_, created>>
  <2>1. /\ destroyed' \in [CommandList -> 0 .. 2] /\ FreshLists' /\ GoneStay
        /\ \A k : Alive(k)' <=> Alive(k) /\ k # l
    BY <1>2, <1>8, GoneList
  <2>2. \A k : Idle(k)' <=> Idle(k)
    BY <1>8 DEF Idle
  <2>3. ListsTyped'
    BY <1>0, <1>1, <1>8, <2>1 DEF ListsTyped
  <2>4. ListsEach'
    BY <1>0, <1>2, <1>3, <1>4, <1>5, <1>8, <2>1, <2>2 DEF ListsEach
  <2>5. \A v \in Upload \ {u} : ListKept(v)
    BY <1>0, <1>1, <1>8, <2>1 DEF ListKept, ListsEach, HeldIn
  <2>6. QED
    BY <1>1, <2>1, <2>3, <2>4, <2>5, ListsPartsNext
<1>9. QED
  BY <1>6, <1>7, <1>8 DEF ReleaseList

\* The end of a synchronous call.
LEMMA DropListKeeps ==
  ASSUME Lists, NEW u \in Upload \ Async,
         IF cmd[u] = NoList THEN UNCHANGED destroyed ELSE DestroyCommandList(cmd[u]),
         cmd' = [cmd EXCEPT ![u] = NoList], UNCHANGED <<available_, all_, created>>
  PROVE  /\ Lists' /\ cmd'[u] = NoList /\ GoneStay
         /\ \A l : l = cmd[u] /\ l # NoList => Gone(l)'
         /\ \A v \in Upload \ {u} : ListKept(v)
<1>0. ListsTyped /\ ListsEach /\ FreshLists
  BY ListsParts
<1>1. /\ cmd' \in [Upload -> CommandList \union {NoList}] /\ cmd'[u] = NoList
      /\ \A v \in Upload \ {u} : cmd'[v] = cmd[v]
  BY <1>0 DEF ListsTyped
<1> DEFINE l == cmd[u]
<1>2. l # NoList => HeldIn(l, Upload) /\ Alive(l) /\ ~Idle(l) /\ l \notin all_
  BY <1>0 DEF ListsTyped, ListsEach, HeldIn
<1>3. \A k : HeldIn(k, Upload)' <=> HeldIn(k, Upload) /\ k # l
  BY <1>0, <1>1 DEF HeldIn, ListsEach
<1>4. \A k : HeldIn(k, Upload \ Async)' <=> HeldIn(k, Upload \ Async) /\ k # l
  BY <1>0, <1>1 DEF HeldIn, ListsEach
<1>5. \A v, w \in Upload : cmd'[v] # NoList /\ cmd'[v] = cmd'[w] => v = w
  BY <1>0, <1>1 DEF ListsEach
<1>6. \A k : Idle(k)' <=> Idle(k)
  BY DEF Idle
<1>7. /\ destroyed' \in [CommandList -> 0 .. 2] /\ FreshLists'
      /\ \A k : k # NoList => (Alive(k)' <=> Alive(k) /\ k # l)
      /\ ~Alive(NoList)' /\ ~Alive(NoList)
  <2>0. ~Alive(NoList)' /\ ~Alive(NoList)
    BY DEF Alive, NoList
  <2>1. CASE l = NoList
    BY <1>0, <2>0, <2>1 DEF ListsTyped, Alive, FreshLists
  <2>2. CASE l # NoList
    BY <1>2, <2>0, <2>2, GoneList
  <2>3. QED
    BY <2>1, <2>2
<1>8. ListsTyped'
  BY <1>0, <1>1, <1>7 DEF ListsTyped
<1>9. ListsEach'
  <2>1. \A k : Alive(k)' <=> Idle(k)' \/ HeldIn(k, Upload)'
    <3> SUFFICES ASSUME NEW k PROVE Alive(k)' <=> Idle(k)' \/ HeldIn(k, Upload)'
      OBVIOUS
    <3>1. CASE k = NoList
      BY <1>0, <1>3, <1>6, <1>7, <3>1 DEF ListsEach
    <3>2. CASE k # NoList
      BY <1>0, <1>2, <1>3, <1>6, <1>7, <3>2 DEF ListsEach
    <3>3. QED
      BY <3>1, <3>2
  <2>2. \A k : k \in all_' <=> Alive(k)' /\ ~HeldIn(k, Upload \ Async)'
    <3> SUFFICES ASSUME NEW k PROVE k \in all_' <=> Alive(k)' /\ ~HeldIn(k, Upload \ Async)'
      OBVIOUS
    <3>1. CASE k = NoList
      BY <1>0, <1>7, <3>1 DEF ListsEach
    <3>2. CASE k # NoList
      BY <1>0, <1>2, <1>4, <1>7, <3>2 DEF ListsEach
    <3>3. QED
      BY <3>1, <3>2
  <2>3. QED
    BY <1>0, <1>3, <1>5, <1>6, <2>1, <2>2 DEF ListsEach
<1>10. \A v \in Upload \ {u} : ListKept(v)
  BY <1>0, <1>1, <1>7 DEF ListKept, ListsEach, HeldIn
<1>11. GoneStay /\ \A k : k = l /\ k # NoList => Gone(k)'
  <2>1. NoList \notin 1 .. created
    BY <1>0 DEF ListsTyped, NoList
  <2>2. QED
    BY <1>2, <1>7, <2>1 DEF GoneStay, Gone, Alive
<1>12. QED
  BY <1>1, <1>7, <1>8, <1>9, <1>10, <1>11, ListsPartsNext

\* CleanupDevice, when nobody holds a buffer or a list.
LEMMA ClearKeeps ==
  ASSUME BuffersTyped, Lists, Clear, UNCHANGED <<staging, cmd>>,
         \A u \in Upload : staging[u] = NoBuffer,
         \A u \in Upload \ Async : cmd[u] = NoList, \A u \in Async : cmd[u] = NoList
  PROVE  BuffersTyped' /\ StagingExact' /\ Lists' /\ GoneStay
<1>0. ListsTyped /\ ListsEach /\ FreshLists
  BY ListsParts
<1>1. BuffersTyped' /\ StagingExact'
  <2>1. buffers_' = <<>> /\ currentTotalSize_' = 0
    BY DEF Clear
  <2>2. BuffersTyped'
    BY <2>1, LimitsAssumption, EmptySeq DEF BuffersTyped
  <2>3. \A b : ~InUse(b)'
    BY <2>1 DEF InUse
  <2>4. BuffersExact'
    BY <2>3 DEF BuffersExact
  <2>5. (BuffersTyped => (StagingExact <=> BuffersExact))'
    BY ExactBuffers, PTL
  <2>6. QED
    BY <2>2, <2>4, <2>5
<1>2. \A k : ~HeldIn(k, Upload) /\ ~HeldIn(k, Upload)'
  BY DEF HeldIn
<1>3. \A k : Alive(k) => Idle(k) /\ k \in all_ /\ k \in CommandList
  BY <1>0, <1>2 DEF ListsEach, HeldIn, ListsTyped
<1>4. \A k : Idle(k) <=> Alive(k)
  BY <1>0, <1>2 DEF ListsEach
<1>5. \A k : k \in all_ <=> Alive(k)
  BY <1>0, <1>2 DEF ListsEach, HeldIn
<1>6. /\ available_' = <<>> /\ all_' = {} /\ created' = created
      /\ destroyed' = [l \in CommandList |-> destroyed[l] + (IF Alive(l) THEN 1 ELSE 0)
                                                          + (IF Alive(l) THEN 1 ELSE 0)]
  BY <1>4, <1>5 DEF Clear, Idle
<1>7. created \in 0 .. Cardinality(Upload) /\ destroyed \in [CommandList -> 0 .. 2]
  BY <1>0 DEF ListsTyped
<1>8. \A l \in CommandList : destroyed'[l] = IF Alive(l) THEN 2 ELSE destroyed[l]
  BY <1>6, <1>7 DEF Alive
<1>9. destroyed' \in [CommandList -> 0 .. 2]
  BY <1>6, <1>7, <1>8
<1>10. \A k : ~Alive(k)'
  <2>1. \A k : k \in 1 .. created => k \in CommandList
    BY <1>7, Uploads DEF CommandList
  <2>2. QED
    BY <1>6, <1>8, <2>1 DEF Alive
<1>11. FreshLists'
  BY <1>0, <1>6, <1>7, <1>8, Uploads DEF FreshLists, Alive, CommandList
<1>12. ListsTyped'
  BY <1>0, <1>6, <1>7, <1>9, EmptySeq DEF ListsTyped
<1>13. IsInjective(available_') /\ \A k : ~Idle(k)'
  BY <1>6 DEF IsInjective, Idle, Range
<1>14. ListsEach'
  BY <1>2, <1>6, <1>10, <1>13 DEF ListsEach
<1>15. GoneStay
  BY <1>6, <1>10 DEF GoneStay, Gone
<1>16. QED
  BY <1>1, <1>11, <1>12, <1>14, <1>15, ListsPartsNext

-----------------------------------------------------------------------------
(* Tasks of the worker *)

\* The tasks of an upload are where they were.
TaskKept(v) ==
    /\ createTask'[v] = createTask[v] /\ finishTask'[v] = finishTask[v]
    /\ Queued(v)' <=> Queued(v)
    /\ Handed(v)' <=> Handed(v)

\* The tasks of an upload are tasks of the worker.
LEMMA TaskNumbers ==
  ASSUME TasksTyped
  PROVE  /\ \A u \in Async : createTask[u] # NoTask => createTask[u] \in 1 .. MaxTasks
         /\ \A u \in Async : finishTask[u] # NoTask => finishTask[u] \in 1 .. MaxTasks
         /\ NoTask \notin 1 .. MaxTasks /\ WorkerEx!TaskId = 1 .. MaxTasks
BY Uploads DEF TasksTyped, NoTask, WorkerEx!TaskId

\* The worker goes from line to line of one task.
LEMMA WorkerMoves ==
  ASSUME Tasks, UNCHANGED taskVars, worker' \in [at : WorkerState, upload : Async, wasCancelled : BOOLEAN],
         worker'.upload = worker.upload, worker.at # "idle", worker'.at # "idle",
         worker'.at \in CreateLines => worker.at \in CreateLines,
         worker'.at \in FinishLines => worker.at \in FinishLines
  PROVE  /\ Tasks'
         /\ \A v \in Async : TaskKept(v)
<1>1. \A v \in Async : TaskKept(v)
  BY DEF TaskKept, Queued, Handed, taskVars
<1>2. TasksTyped'
  BY DEF Tasks, TasksTyped, taskVars
<1>3. TasksOwned'
  BY DEF Tasks, TasksOwned, taskVars
<1>4. QED
  BY <1>1, <1>2, <1>3 DEF Tasks

\* The worker stays where it is.
LEMMA TasksStay ==
  ASSUME Tasks, UNCHANGED <<taskVars, worker>>
  PROVE  /\ Tasks'
         /\ \A v \in Async : TaskKept(v)
<1>1. \A v \in Async : TaskKept(v)
  BY DEF TaskKept, Queued, Handed, taskVars
<1>2. TasksTyped'
  BY DEF Tasks, TasksTyped, taskVars
<1>3. TasksOwned'
  BY DEF Tasks, TasksOwned, taskVars
<1>4. QED
  BY <1>1, <1>2, <1>3 DEF Tasks

\* The first task of an upload is submitted.
LEMMA CreateAccepted ==
  ASSUME Tasks, NEW u \in Async, createTask[u] = NoTask,
         NEW t \in WorkerEx!TaskId, WorkerEx!Accept(t, 0),
         createTask' = [createTask EXCEPT ![u] = t], UNCHANGED <<finishTask, worker>>
  PROVE  /\ Tasks' /\ Queued(u)' /\ ~Handed(u)' /\ createTask'[u] # NoTask
         /\ \A v \in Async \ {u} : TaskKept(v)
<1>0. TasksTyped /\ TasksOwned
  BY DEF Tasks
<1>1. /\ t \in 1 .. MaxTasks /\ t # NoTask /\ phase[t] = "unused"
      /\ phase' = [phase EXCEPT ![t] = "waiting"] /\ priority' = [priority EXCEPT ![t] = 0]
  BY <1>0, TaskNumbers DEF WorkerEx!Accept
<1>2. /\ phase'[t] = "waiting" /\ \A s \in 1 .. MaxTasks : s # t => phase'[s] = phase[s]
      /\ createTask'[u] = t /\ \A v \in Async \ {u} : createTask'[v] = createTask[v]
      /\ finishTask' = finishTask /\ worker' = worker
  BY <1>0, <1>1 DEF TasksTyped
<1>3. TasksTyped'
  BY <1>0, <1>1 DEF TasksTyped, WorkerEx!Phase
<1>4. /\ \A v \in Async : createTask[v] # NoTask => createTask[v] \in 1 .. MaxTasks /\ createTask[v] # t
      /\ \A v \in Async : finishTask[v] # NoTask => finishTask[v] \in 1 .. MaxTasks /\ finishTask[v] # t
  BY <1>0, <1>1, TaskNumbers DEF TasksOwned
<1>5. \A v \in Async \ {u} : TaskKept(v)
  BY <1>2, <1>4 DEF TaskKept, Queued, Handed
<1>6. finishTask[u] = NoTask
  BY <1>0 DEF TasksOwned
<1>7. TasksOwned'
  <2>1. /\ \A s, r \in 1 .. MaxTasks : phase'[s] = "running" /\ phase'[r] = "running" => s = r
        /\ worker'.at = "idle" <=> \A s \in 1 .. MaxTasks : phase'[s] # "running"
    BY <1>0, <1>1, <1>2 DEF TasksOwned
  <2>2. /\ \A v \in Async : createTask'[v] # NoTask => phase'[createTask'[v]] # "unused"
        /\ \A v \in Async : finishTask'[v] # NoTask =>
          /\ phase'[finishTask'[v]] # "unused"
          /\ createTask'[v] # NoTask /\ phase'[createTask'[v]] \in {"running", "done"}
    BY <1>0, <1>1, <1>2, <1>4, <1>6 DEF TasksOwned
  <2>3. /\ \A v, x \in Async : createTask'[v] # NoTask /\ createTask'[v] = createTask'[x] => v = x
        /\ \A v, x \in Async : finishTask'[v] # NoTask /\ finishTask'[v] = finishTask'[x] => v = x
        /\ \A v, x \in Async : createTask'[v] # NoTask => createTask'[v] # finishTask'[x]
    BY <1>0, <1>1, <1>2, <1>4, <1>6 DEF TasksOwned
  <2>4. worker.upload \in Async
    BY <1>0 DEF TasksTyped
  <2>5. /\ worker'.at \in CreateLines =>
          /\ createTask'[worker'.upload] # NoTask
          /\ phase'[createTask'[worker'.upload]] = "running"
          /\ finishTask'[worker'.upload] = NoTask
        /\ worker'.at \in FinishLines =>
          /\ finishTask'[worker'.upload] # NoTask
          /\ phase'[finishTask'[worker'.upload]] = "running"
    BY <1>0, <1>1, <1>2, <1>4, <1>6, <2>4 DEF TasksOwned
  <2>6. QED
    BY <2>1, <2>2, <2>3, <2>5 DEF TasksOwned
<1>8. QED
  BY <1>1, <1>2, <1>3, <1>5, <1>6, <1>7 DEF Tasks, Queued, Handed

\* The worker submits the second task of its upload.
LEMMA FinishAccepted ==
  ASSUME Tasks, worker.at = "handOver",
         NEW t \in WorkerEx!TaskId, WorkerEx!Accept(t, 0),
         finishTask' = [finishTask EXCEPT ![worker.upload] = t], UNCHANGED createTask,
         worker' = [worker EXCEPT !.at = "return"]
  PROVE  /\ Tasks' /\ ~Queued(worker.upload) /\ ~Handed(worker.upload)
         /\ createTask[worker.upload] # NoTask
         /\ \A v : v = worker.upload => ~Queued(v)' /\ Handed(v)'
         /\ \A v \in Async \ {worker.upload} : TaskKept(v)
<1>0. TasksTyped /\ TasksOwned
  BY DEF Tasks
<1> DEFINE u == worker.upload
<1>1. /\ t \in 1 .. MaxTasks /\ t # NoTask /\ phase[t] = "unused" /\ u \in Async
      /\ phase' = [phase EXCEPT ![t] = "waiting"] /\ priority' = [priority EXCEPT ![t] = 0]
  BY <1>0, TaskNumbers DEF WorkerEx!Accept, TasksTyped
<1>2. /\ phase'[t] = "waiting" /\ \A s \in 1 .. MaxTasks : s # t => phase'[s] = phase[s]
      /\ finishTask'[u] = t /\ \A v \in Async \ {u} : finishTask'[v] = finishTask[v]
      /\ createTask' = createTask /\ worker'.at = "return" /\ worker'.upload = u
  BY <1>0, <1>1 DEF TasksTyped
<1>3. TasksTyped'
  <2>1. worker' \in [at : WorkerState, upload : Async, wasCancelled : BOOLEAN]
    BY <1>0 DEF TasksTyped, WorkerState
  <2>2. finishTask' \in [Async -> 0 .. MaxTasks]
    BY <1>0, <1>1 DEF TasksTyped
  <2>3. QED
    BY <1>0, <1>1, <2>1, <2>2 DEF TasksTyped, WorkerEx!Phase
<1>4. /\ \A v \in Async : createTask[v] # NoTask => createTask[v] \in 1 .. MaxTasks /\ createTask[v] # t
      /\ \A v \in Async : finishTask[v] # NoTask => finishTask[v] \in 1 .. MaxTasks /\ finishTask[v] # t
  BY <1>0, <1>1, TaskNumbers DEF TasksOwned
<1>5. \A v \in Async \ {u} : TaskKept(v)
  BY <1>2, <1>4 DEF TaskKept, Queued, Handed
<1>6. createTask[u] # NoTask /\ phase[createTask[u]] = "running" /\ finishTask[u] = NoTask
  BY <1>0 DEF TasksOwned, CreateLines
<1>7. TasksOwned'
  <2>1. /\ \A s, r \in 1 .. MaxTasks : phase'[s] = "running" /\ phase'[r] = "running" => s = r
        /\ worker'.at = "idle" <=> \A s \in 1 .. MaxTasks : phase'[s] # "running"
    BY <1>0, <1>1, <1>2, <1>4, <1>6 DEF TasksOwned
  <2>2. /\ \A v \in Async : createTask'[v] # NoTask => phase'[createTask'[v]] # "unused"
        /\ \A v \in Async : finishTask'[v] # NoTask =>
          /\ phase'[finishTask'[v]] # "unused"
          /\ createTask'[v] # NoTask /\ phase'[createTask'[v]] \in {"running", "done"}
    BY <1>0, <1>1, <1>2, <1>4, <1>6 DEF TasksOwned
  <2>3. /\ \A v, x \in Async : createTask'[v] # NoTask /\ createTask'[v] = createTask'[x] => v = x
        /\ \A v, x \in Async : finishTask'[v] # NoTask /\ finishTask'[v] = finishTask'[x] => v = x
        /\ \A v, x \in Async : createTask'[v] # NoTask => createTask'[v] # finishTask'[x]
    BY <1>0, <1>1, <1>2, <1>4, <1>6 DEF TasksOwned
  <2>4. QED
    BY <1>2, <2>1, <2>2, <2>3 DEF TasksOwned, CreateLines, FinishLines
<1>8. QED
  BY <1>1, <1>2, <1>3, <1>4, <1>5, <1>6, <1>7 DEF Tasks, Queued, Handed

\* A task of an upload starts: the worker was idle.
LEMMA TaskStarts ==
  ASSUME Tasks, NEW u \in Async, NEW t, NEW state, UNCHANGED <<createTask, finishTask>>,
         t # NoTask, WorkerEx!Start(t),
         \/ t = createTask[u] /\ state = "begin"
         \/ t = finishTask[u] /\ state = "waiting",
         worker' = [at |-> state, upload |-> u, wasCancelled |-> FALSE]
  PROVE  /\ Tasks' /\ worker.at = "idle"
         /\ IF t = createTask[u] THEN Queued(u) /\ ~Handed(u) ELSE Handed(u) /\ ~Queued(u)
         /\ createTask[u] # NoTask
         /\ ~Queued(u)' /\ ~Handed(u)'
         /\ \A v \in Async \ {u} : TaskKept(v)
<1>0. TasksTyped /\ TasksOwned
  BY DEF Tasks
<1>1. /\ t \in 1 .. MaxTasks /\ phase[t] = "waiting"
      /\ phase' = [phase EXCEPT ![t] = "running"] /\ priority' = priority
      /\ \A s \in 1 .. MaxTasks : phase[s] # "running"
  BY <1>0, TaskNumbers DEF WorkerEx!Start, WorkerEx!First, WorkerEx!Waiting, WorkerEx!Idle
<1>2. /\ phase'[t] = "running" /\ \A s \in 1 .. MaxTasks : s # t => phase'[s] = phase[s]
      /\ worker'.at = state /\ worker'.upload = u /\ worker.at = "idle"
  BY <1>0, <1>1 DEF TasksTyped, TasksOwned
<1>3. TasksTyped'
  <2>1. state \in WorkerState
    BY DEF WorkerState
  <2>2. worker' \in [at : WorkerState, upload : Async, wasCancelled : BOOLEAN]
    BY <2>1
  <2>3. QED
    BY <1>0, <1>1, <2>2 DEF TasksTyped, WorkerEx!Phase
<1>4. /\ \A v \in Async : createTask[v] # NoTask => createTask[v] \in 1 .. MaxTasks
      /\ \A v \in Async : finishTask[v] # NoTask => finishTask[v] \in 1 .. MaxTasks
      /\ \A v \in Async \ {u} : createTask[v] # t /\ finishTask[v] # t
      /\ createTask[u] # NoTask /\ (finishTask[u] # NoTask => finishTask[u] # createTask[u])
  BY <1>0, TaskNumbers DEF TasksOwned
<1>5. \A v \in Async \ {u} : TaskKept(v)
  BY <1>2, <1>4 DEF TaskKept, Queued, Handed
<1>6. /\ t = createTask[u] => finishTask[u] = NoTask
      /\ t = finishTask[u] => phase[createTask[u]] = "done"
  BY <1>0, <1>1, <1>4 DEF TasksOwned
<1>7. IF t = createTask[u] THEN state = "begin" ELSE t = finishTask[u] /\ state = "waiting"
  BY <1>4
<1>8. TasksOwned'
  <2>1. /\ \A s, r \in 1 .. MaxTasks : phase'[s] = "running" /\ phase'[r] = "running" => s = r
        /\ worker'.at = "idle" <=> \A s \in 1 .. MaxTasks : phase'[s] # "running"
    BY <1>0, <1>1, <1>2, <1>7 DEF TasksOwned
  <2>2. /\ \A v \in Async : createTask[v] # NoTask => phase'[createTask[v]] # "unused"
        /\ \A v \in Async : finishTask[v] # NoTask =>
          /\ phase'[finishTask[v]] # "unused"
          /\ createTask[v] # NoTask /\ phase'[createTask[v]] \in {"running", "done"}
    BY <1>0, <1>1, <1>2, <1>4, <1>6 DEF TasksOwned
  <2>3. /\ state \in CreateLines => createTask[u] = t /\ finishTask[u] = NoTask
        /\ state \in FinishLines => finishTask[u] = t
    BY <1>6, <1>7 DEF CreateLines, FinishLines
  <2>4. QED
    BY <1>0, <1>2, <2>1, <2>2, <2>3 DEF TasksOwned
<1>9. QED
  BY <1>1, <1>2, <1>3, <1>4, <1>5, <1>6, <1>7, <1>8 DEF Tasks, Queued, Handed

\* The worker comes to the end of a task.
LEMMA TaskEnds ==
  ASSUME Tasks, worker.at = "return", NEW t \in WorkerEx!TaskId, WorkerEx!Finish(t),
         UNCHANGED <<createTask, finishTask>>, worker' = [worker EXCEPT !.at = "idle"]
  PROVE  /\ Tasks'
         /\ \A v \in Async : TaskKept(v)
<1>0. TasksTyped /\ TasksOwned
  BY DEF Tasks
<1>1. /\ t \in 1 .. MaxTasks /\ phase[t] = "running"
      /\ phase' = [phase EXCEPT ![t] = "done"] /\ priority' = priority
  BY <1>0, TaskNumbers DEF WorkerEx!Finish
<1>2. /\ phase'[t] = "done" /\ \A s \in 1 .. MaxTasks : s # t => phase'[s] = phase[s]
      /\ worker'.at = "idle" /\ worker'.upload = worker.upload
  BY <1>0, <1>1 DEF TasksTyped
<1>3. TasksTyped'
  BY <1>0, <1>1 DEF TasksTyped, WorkerEx!Phase, WorkerState
<1>4. /\ \A v \in Async : createTask[v] # NoTask => createTask[v] \in 1 .. MaxTasks
      /\ \A v \in Async : finishTask[v] # NoTask => finishTask[v] \in 1 .. MaxTasks
  BY <1>0, TaskNumbers
<1>5. \A v \in Async : TaskKept(v)
  BY <1>1, <1>2, <1>4 DEF TaskKept, Queued, Handed
<1>6. TasksOwned'
  <2>1. /\ \A s, r \in 1 .. MaxTasks : phase'[s] = "running" /\ phase'[r] = "running" => s = r
        /\ worker'.at = "idle" <=> \A s \in 1 .. MaxTasks : phase'[s] # "running"
    BY <1>0, <1>1, <1>2 DEF TasksOwned
  <2>2. /\ \A v \in Async : createTask[v] # NoTask => phase'[createTask[v]] # "unused"
        /\ \A v \in Async : finishTask[v] # NoTask =>
          /\ phase'[finishTask[v]] # "unused"
          /\ createTask[v] # NoTask /\ phase'[createTask[v]] \in {"running", "done"}
    BY <1>0, <1>1, <1>2, <1>4 DEF TasksOwned
  <2>3. QED
    BY <1>0, <1>2, <2>1, <2>2 DEF TasksOwned, CreateLines, FinishLines
<1>7. QED
  BY <1>3, <1>5, <1>6 DEF Tasks

-----------------------------------------------------------------------------
(* What stays *)

\* A step that changes no buffer.
LEMMA BuffersStay ==
  ASSUME Buffers, DeviceKept, UNCHANGED <<stagingVars, staging>>
  PROVE  Buffers' /\ \A v \in Upload : BufferKept(v)
<1>1. BuffersTyped' /\ StagingExact' /\ OwnData'
  BY DEF Buffers, BuffersTyped, StagingExact, OwnData, Held, stagingVars, DeviceKept
<1>2. \A v \in Upload : BufferKept(v)
  BY DEF BufferKept, Buffers, OwnData, stagingVars
<1>3. QED
  BY <1>1, <1>2 DEF Buffers

\* A step that changes no list.
LEMMA ListsStay ==
  ASSUME Lists, UNCHANGED <<listVars, cmd>>
  PROVE  Lists' /\ GoneStay /\ \A v \in Upload : ListKept(v)
<1>1. ListsTyped' /\ ListsExact' /\ FreshLists'
  BY DEF Lists, ListsTyped, ListsExact, FreshLists, Held, Alive, listVars
<1>2. ListsEach
  BY ListsParts
<1>3. \A v \in Upload : ListKept(v)
  BY <1>2 DEF ListKept, ListsEach, HeldIn, Alive, listVars
<1>4. GoneStay
  BY DEF GoneStay, Gone, Alive, listVars
<1>5. QED
  BY <1>1, <1>3, <1>4 DEF Lists

\* The worker is at a line of one of u's tasks.
Working(u) == WorkerAt(u, CreateLines \cup FinishLines)

\* What an upload's own variables are to everybody else's steps.
Apart(v) ==
    /\ call'[v] = call[v] /\ answer'[v] = answer[v] /\ content'[v] = content[v]
    /\ staging'[v] = staging[v] /\ cmd'[v] = cmd[v]
    /\ v \in lost' <=> v \in lost

AsyncApart(v) ==
    /\ TaskKept(v) /\ fence'[v] = fence[v]
    /\ status[v] = "Completed" => status'[v] = "Completed"
    /\ worker' = worker \/ (~Working(v) /\ ~Working(v)')

\* What is true of an asynchronous upload stays true at the steps of the others.
LEMMA AsyncElsewhere ==
  ASSUME NEW v \in Async, AsyncTrue(v), Apart(v), AsyncApart(v)
  PROVE  AsyncTrue(v)'
<1>1. /\ WorkerAt(v, Unanswered)' <=> WorkerAt(v, Unanswered)
      /\ WorkerAt(v, HasBuffer)' <=> WorkerAt(v, HasBuffer)
      /\ WorkerAt(v, HasList)' <=> WorkerAt(v, HasList)
      /\ WorkerAt(v, HasFence)' <=> WorkerAt(v, HasFence)
      /\ WorkerAt(v, {"woken", "cleanup"})' <=> WorkerAt(v, {"woken", "cleanup"})
      /\ WorkerAt(v, {"answering"})' <=> WorkerAt(v, {"answering"})
      /\ WorkerAt(v, {"cleanup", "answering"})' <=> WorkerAt(v, {"cleanup", "answering"})
      /\ WorkerAt(v, {"cleanup", "answering"}) => worker' = worker
  BY DEF AsyncApart, Working, WorkerAt, CreateLines, FinishLines, Unanswered, HasBuffer,
         HasList, HasFence
<1>2. QED
  BY <1>1 DEF AsyncTrue, Apart, AsyncApart, TaskKept

\* The same of a synchronous one.
LEMMA SyncElsewhere ==
  ASSUME NEW v \in Upload \ Async, SyncTrue(v), Apart(v)
  PROVE  SyncTrue(v)'
BY DEF SyncTrue, Apart

\* A step that concerns one upload.
LEMMA OneUpload ==
  ASSUME IInv, NEW u \in Upload,
         Buffers', Lists', Tasks', RestTyped', QueueTrue', QueueSound',
         \A v \in Upload \ {u} : Apart(v),
         \A v \in Async \ {u} : AsyncApart(v),
         u \in Async => AsyncTrue(u)' /\ (answer'[u] = "success" => status'[u] = "Completed"),
         u \notin Async => SyncTrue(u)'
  PROVE  IInv'
<1>0. Async \subseteq Upload
  BY AsyncAssumption
<1>1. \A v \in Async : AsyncTrue(v)'
  <2> SUFFICES ASSUME NEW v \in Async, v # u PROVE AsyncTrue(v)'
    OBVIOUS
  <2>1. QED
    BY <1>0, AsyncElsewhere DEF IInv
<1>2. \A v \in Upload \ Async : SyncTrue(v)'
  <2> SUFFICES ASSUME NEW v \in Upload \ Async, v # u PROVE SyncTrue(v)'
    OBVIOUS
  <2>1. QED
    BY <1>0, SyncElsewhere DEF IInv
<1>3. SuccessMeansCompleted'
  <2> SUFFICES ASSUME NEW v \in Async, answer'[v] = "success", v # u PROVE status'[v] = "Completed"
    BY DEF SuccessMeansCompleted
  <2>1. QED
    BY <1>0 DEF IInv, SuccessMeansCompleted, Apart, AsyncApart
<1>4. QED
  BY <1>1, <1>2, <1>3 DEF IInv

\* Who is on the GPU waits for its answer, and waits with a buffer and a list, except a call
\* that has returned too early.
LEMMA OnGpuHolds ==
  ASSUME IInv, NEW u \in Upload, OnGpu(u)
  PROVE  /\ u \in Async \/ call[u] # "returned" =>
               staging[u] # NoBuffer /\ cmd[u] # NoList /\ answer[u] = "pending"
         /\ u \notin lost => answer[u] = "pending" /\ content[u] = NoData
<1>1. CASE u \in Async
  <2>1. fence[u] \in {"unsignaled", "never"} /\ AsyncTrue(u)
    BY <1>1 DEF IInv, QueueTrue
  <2>2. Handed(u) \/ WorkerAt(u, HasFence)
    BY <2>1 DEF AsyncTrue
  <2>3. /\ WorkerAt(u, HasFence) => WorkerAt(u, HasList) /\ WorkerAt(u, HasBuffer)
                                    /\ WorkerAt(u, Unanswered)
        /\ WorkerAt(u, HasFence) => ~WorkerAt(u, {"answering"})
    BY DEF WorkerAt, HasFence, HasList, HasBuffer, Unanswered, CreateLines
  <2>4. ~WorkerAt(u, {"answering"})
    <3>1. CASE WorkerAt(u, {"answering"})
      <4>1. fence[u] # "none" /\ ~WorkerAt(u, HasFence)
        BY <2>1, <3>1 DEF WorkerAt, HasFence, HasList, HasBuffer
      <4>2. Handed(u)
        BY <2>2, <4>1
      <4>3. finishTask[u] # NoTask /\ phase[finishTask[u]] = "running"
        BY <3>1 DEF WorkerAt, FinishLines, IInv, Tasks, TasksOwned
      <4>4. QED
        BY <4>2, <4>3 DEF Handed
    <3>2. QED
      BY <3>1
  <2>5. QED
    BY <2>1, <2>2, <2>3, <2>4 DEF AsyncTrue
<1>2. CASE u \notin Async
  BY <1>2 DEF IInv, QueueTrue, SyncTrue
<1>3. QED
  BY <1>1, <1>2

\* A call returns although the GPU has not executed its copy.
LeftBehind(v) ==
    /\ v \in lost /\ v \notin Async
    /\ call'[v] = "returned" /\ answer'[v] = "success"
    /\ \A l : l = cmd[v] => Gone(l)'

\* What a step may do to an upload that is on the GPU.
Stays(v) ==
    \/ /\ BufferKept(v) /\ ListKept(v)
       /\ v \in Async \/ (call'[v] = call[v] /\ answer'[v] = answer[v])
    \/ LeftBehind(v)

\* The GPU's queue stays while what it needs is kept.
LEMMA QueueStays ==
  ASSUME IInv, UNCHANGED gpuQueue, DeviceKept, GoneStay,
         \A v \in Upload : OnGpu(v) =>
            Stays(v) /\ (cmd[v] # NoList => recorded'[cmd[v]] = recorded[cmd[v]]),
         \A l : Gone(l) => recorded'[l] = recorded[l],
         \A v \in Async : fence'[v] = fence[v] \/ (~OnGpu(v) /\ fence'[v] # "unsignaled"),
         \A v \in Upload \ Async :
            /\ v \notin lost' => (call'[v] = "submitted" /\ content'[v] = NoData
                                   <=> call[v] = "submitted" /\ content[v] = NoData)
            /\ OnGpu(v) => call'[v] \in {"submitted", "returned"}
  PROVE  QueueTrue' /\ QueueSound'
<1>1. QueueTrue'
  <2>1. \A v : OnGpu(v)' <=> OnGpu(v)
    BY DEF OnGpu
  <2>2. \A v \in Async : /\ fence'[v] = "unsignaled" => OnGpu(v)
                         /\ OnGpu(v) => fence'[v] \in {"unsignaled", "never"}
    BY DEF IInv, QueueTrue
  <2>3. \A v \in Upload \ Async :
           v \notin lost' => (OnGpu(v) <=> call'[v] = "submitted" /\ content'[v] = NoData)
    BY DEF IInv, QueueTrue, DeviceKept
  <2>4. QED
    BY <2>1, <2>2, <2>3 DEF IInv, QueueTrue
<1>2. \A i \in DOMAIN gpuQueue : gpuQueue[i].upload \in Upload /\ OnGpu(gpuQueue[i].upload)
  <2>1. gpuQueue \in Seq(Submission) /\ DOMAIN gpuQueue = 1 .. Len(gpuQueue)
    BY LenProperties DEF IInv, RestTyped
  <2>2. \A i \in DOMAIN gpuQueue : gpuQueue[i] \in Submission
    BY <2>1, LenProperties
  <2>3. \A i \in DOMAIN gpuQueue : gpuQueue[i].upload \in Upload
    BY <2>2 DEF Submission
  <2>4. \A i \in DOMAIN gpuQueue : OnGpu(gpuQueue[i].upload)
    BY <2>1 DEF OnGpu
  <2>5. QED
    BY <2>3, <2>4
<1>3. ASSUME NEW s, s.upload \in Upload, OnGpu(s.upload), Untouched(s) \/ Leftover(s)
      PROVE  Untouched(s)' \/ Leftover(s)'
  <2> DEFINE v == s.upload
  <2>0. /\ Stays(v) /\ lost \subseteq lost' /\ (Gone(s.list) => Gone(s.list)')
        /\ Gone(s.list) => recorded'[s.list] = recorded[s.list]
    BY <1>3 DEF DeviceKept, GoneStay
  <2>1. CASE Leftover(s)
    BY <2>0, <2>1 DEF Leftover, Stays, LeftBehind
  <2>2. CASE Untouched(s)
    <3>1. /\ Alive(s.list) /\ cmd[v] = s.list /\ cmd[v] # NoList
          /\ recorded[s.list] = [from |-> staging[v], to |-> v]
          /\ staging[v] \in DOMAIN buffers_ /\ staging[v] # NoBuffer
          /\ buffers_[staging[v]].data = v \/ v \in lost
          /\ recorded'[s.list] = recorded[s.list]
      <4>1. DOMAIN buffers_ = 1 .. Len(buffers_) /\ Len(buffers_) \in Nat
        BY LenProperties DEF IInv, Buffers, BuffersTyped
      <4>2. cmd[v] # NoList
        BY <2>2 DEF Untouched, Alive, NoList, IInv, Lists, ListsTyped
      <4>3. QED
        BY <1>3, <2>2, <4>1, <4>2 DEF Untouched, NoBuffer
    <3>2. CASE BufferKept(v) /\ ListKept(v)
      BY <2>0, <3>1, <3>2 DEF BufferKept, ListKept, Untouched
    <3>3. CASE LeftBehind(v)
      BY <2>0, <3>1, <3>3 DEF LeftBehind, Leftover
    <3>4. QED
      BY <2>0, <3>2, <3>3 DEF Stays
  <2>3. QED
    BY <1>3, <2>1, <2>2
<1>4. QueueSound'
  BY <1>2, <1>3 DEF IInv, QueueSound
<1>5. QED
  BY <1>1, <1>4

-----------------------------------------------------------------------------
(* The queue of the GPU *)

\* A submission by an upload that has a buffer and a list of its own, on any backend.
LEMMA Submitting ==
  ASSUME IInv, NEW u \in Upload, ~OnGpu(u), staging[u] # NoBuffer, cmd[u] # NoList,
         Record(cmd[u], staging[u], u), NEW f, Submit(u, f),
         UNCHANGED <<stagingVars, listVars, staging, cmd, backend>>,
         \A v \in Async \ {u} : fence'[v] = fence[v],
         \A v \in Upload \ {u} : call'[v] = call[v] /\ answer'[v] = answer[v] /\ content'[v] = content[v],
         u \in Async => fence'[u] = f,
         u \notin Async => call'[u] = "submitted" /\ content'[u] = NoData
  PROVE  /\ QueueTrue' /\ QueueSound' /\ gpuQueue' \in Seq(Submission)
         /\ recorded' \in [CommandList -> Recording]
         /\ DeviceKept /\ GoneStay
         /\ lost' = lost \/ lost' = lost \union {u}
         /\ f = "unsignaled" \/ (f \in {"signaled", "never"} /\ u \in lost')
<1> DEFINE e == [list |-> cmd[u], upload |-> u]
<1>0. /\ cmd[u] \in CommandList /\ staging[u] \in Buffer /\ e \in Submission
      /\ recorded \in [CommandList -> Recording] /\ gpuQueue \in Seq(Submission)
      /\ Len(gpuQueue) \in Nat /\ DOMAIN gpuQueue = 1 .. Len(gpuQueue)
      /\ Async \subseteq Upload
  BY LenProperties, AsyncAssumption
     DEF IInv, Buffers, Lists, BuffersTyped, ListsTyped, RestTyped, Submission
<1>1. /\ recorded' \in [CommandList -> Recording]
      /\ recorded'[cmd[u]] = [from |-> staging[u], to |-> u]
      /\ \A l \in CommandList : l # cmd[u] => recorded'[l] = recorded[l]
  BY <1>0 DEF Record, Recording
<1>2. /\ DeviceKept
      /\ lost' = lost \/ lost' = lost \union {u}
      /\ f = "unsignaled" \/ (f \in {"signaled", "never"} /\ u \in lost')
  BY DEF DeviceKept, Submit, Enqueue, ExecuteAtOnce, Drop, Lose, IInv, Buffers, OwnData
<1>3. /\ Buffers' /\ \A v \in Upload : BufferKept(v)
      /\ Lists' /\ GoneStay /\ \A v \in Upload : ListKept(v)
  BY <1>2, BuffersStay, ListsStay DEF IInv
<1>4. ListsEach /\ Alive(cmd[u])
  BY ListsParts DEF IInv, ListsEach, HeldIn
<1>5. \A l : Gone(l) => recorded'[l] = recorded[l]
  <2>1. \A l : Gone(l) => l \in CommandList /\ l # cmd[u]
    BY <1>4, Uploads DEF Gone, CommandList, IInv, Lists, ListsTyped
  <2>2. QED
    BY <1>1, <2>1
<1>6. \A v \in Upload \ {u} : cmd[v] # NoList => recorded'[cmd[v]] = recorded[cmd[v]]
  <2>1. \A v \in Upload \ {u} : cmd[v] # NoList => cmd[v] \in CommandList /\ cmd[v] # cmd[u]
    BY <1>4 DEF ListsEach, IInv, Lists, ListsTyped
  <2>2. QED
    BY <1>1, <2>1
<1>7. CASE UNCHANGED gpuQueue /\ f # "unsignaled" /\ u \in lost'
  <2>1. \A v \in Upload : OnGpu(v) =>
            Stays(v) /\ (cmd[v] # NoList => recorded'[cmd[v]] = recorded[cmd[v]])
    BY <1>3, <1>6 DEF Stays
  <2>2. \A v \in Async : fence'[v] = fence[v] \/ (~OnGpu(v) /\ fence'[v] # "unsignaled")
    BY <1>7
  <2>3. \A v \in Upload \ Async :
            /\ v \notin lost' => (call'[v] = "submitted" /\ content'[v] = NoData
                                   <=> call[v] = "submitted" /\ content[v] = NoData)
            /\ OnGpu(v) => call'[v] \in {"submitted", "returned"}
    BY <1>7 DEF IInv, QueueTrue
  <2>4. QueueTrue' /\ QueueSound'
    BY <1>2, <1>3, <1>5, <1>7, <2>1, <2>2, <2>3, QueueStays
  <2>5. QED
    BY <1>0, <1>1, <1>2, <1>3, <1>7, <2>4
<1>8. CASE Enqueue(u, f)
  <2>1. /\ gpuQueue' = Append(gpuQueue, e) /\ lost' = lost /\ f \in {"unsignaled", "never"}
    BY <1>8 DEF Enqueue
  <2>2. /\ gpuQueue' \in Seq(Submission) /\ Len(gpuQueue') = Len(gpuQueue) + 1
        /\ \A i \in 1 .. Len(gpuQueue) : gpuQueue'[i] = gpuQueue[i]
        /\ gpuQueue'[Len(gpuQueue) + 1] = e
    BY <1>0, <2>1, AppendProperties
  <2>3. DOMAIN gpuQueue' = 1 .. Len(gpuQueue) + 1
    BY <2>2, LenProperties
  <2>4. \A i \in 1 .. Len(gpuQueue) :
           gpuQueue[i].upload # u /\ gpuQueue[i].upload \in Upload /\ OnGpu(gpuQueue[i].upload)
    <3>1. \A i \in 1 .. Len(gpuQueue) : gpuQueue[i] \in Submission
      BY <1>0, LenProperties
    <3>2. QED
      BY <3>1 DEF OnGpu, Submission
  <2>5. \A v : OnGpu(v)' <=> OnGpu(v) \/ v = u
    BY <1>0, <2>2 DEF OnGpu
  <2>6. QueueTrue'
    <3>1. \A i, j \in 1 .. Len(gpuQueue') : gpuQueue'[i].upload = gpuQueue'[j].upload => i = j
      <4> SUFFICES ASSUME NEW i \in 1 .. Len(gpuQueue'), NEW j \in 1 .. Len(gpuQueue'),
                          gpuQueue'[i].upload = gpuQueue'[j].upload
                   PROVE  i = j
        OBVIOUS
      <4>1. CASE i \in 1 .. Len(gpuQueue) /\ j \in 1 .. Len(gpuQueue)
        BY <2>2, <4>1 DEF IInv, QueueTrue
      <4>2. CASE i \in 1 .. Len(gpuQueue) /\ j = Len(gpuQueue) + 1
        BY <2>2, <2>4, <4>2
      <4>3. CASE j \in 1 .. Len(gpuQueue) /\ i = Len(gpuQueue) + 1
        BY <2>2, <2>4, <4>3
      <4>4. QED
        BY <1>0, <2>2, <4>1, <4>2, <4>3
    <3>2. \A v \in Async : /\ fence'[v] = "unsignaled" => OnGpu(v)'
                           /\ OnGpu(v)' => fence'[v] \in {"unsignaled", "never"}
      BY <2>1, <2>5 DEF IInv, QueueTrue
    <3>3. \A v \in Upload \ Async :
            /\ v \notin lost' => (OnGpu(v)' <=> call'[v] = "submitted" /\ content'[v] = NoData)
            /\ OnGpu(v)' => call'[v] \in {"submitted", "returned"}
      BY <2>1, <2>5 DEF IInv, QueueTrue
    <3>4. QED
      BY <3>1, <3>2, <3>3 DEF QueueTrue
  <2>7. ASSUME NEW i \in DOMAIN gpuQueue'
        PROVE  Untouched(gpuQueue[i])' \/ Leftover(gpuQueue[i])'
    <3>1. CASE i \in 1 .. Len(gpuQueue)
      <4> DEFINE s == gpuQueue[i]
                 v == s.upload
      <4>1. /\ gpuQueue'[i] = s /\ v \in Upload /\ v # u
            /\ Untouched(s) \/ Leftover(s)
        BY <1>0, <2>2, <2>4, <3>1 DEF IInv, QueueSound
      <4>2. CASE Untouched(s)
        <5>1. recorded'[s.list] = recorded[s.list]
          <6>1. cmd[v] = s.list /\ s.list # NoList
            BY <4>2 DEF Untouched, Alive, NoList, IInv, Lists, ListsTyped
          <6>2. QED
            BY <1>6, <4>1, <6>1
        <5>2. QED
          BY <2>1, <4>1, <4>2, <5>1 DEF Untouched, Alive, listVars, stagingVars
      <4>3. CASE Leftover(s)
        BY <1>5, <2>1, <4>1, <4>3 DEF Leftover, Gone, Alive, listVars
      <4>4. QED
        BY <4>1, <4>2, <4>3
    <3>2. CASE i = Len(gpuQueue) + 1
      <4>1. staging[u] \in DOMAIN buffers_ /\ (buffers_[staging[u]].data = u \/ u \in lost)
        BY DEF IInv, Buffers, OwnData
      <4>2. gpuQueue'[i] = e /\ e.list = cmd[u] /\ e.upload = u
        BY <2>2, <3>2
      <4>3. QED
        BY <1>1, <1>4, <2>1, <4>1, <4>2 DEF Untouched, Alive, listVars, stagingVars
    <3>3. QED
      BY <1>0, <2>3, <3>1, <3>2
  <2>8. QueueSound'
    BY <2>7 DEF QueueSound
  <2>9. QED
    BY <1>1, <1>2, <1>3, <2>2, <2>6, <2>8
<1>9. QED
  BY <1>7, <1>8 DEF Submit, ExecuteAtOnce, Drop, Lose

\* The GPU executes the copy of one upload: of its own data, unless that is lost.
LEMMA QueuePop ==
  ASSUME IInv, GpuExecutes
  PROVE  \E u \in Upload, data \in Upload \union {NoData} :
            /\ OnGpu(u) /\ content' = [content EXCEPT ![u] = data]
            /\ data = u \/ u \in lost
            /\ fence' = IF u \in Async /\ fence[u] = "unsignaled"
                        THEN [fence EXCEPT ![u] = "signaled"]
                        ELSE fence
            /\ gpuQueue' \in Seq(Submission) /\ QueueTrue' /\ QueueSound'
<1> DEFINE s == Head(gpuQueue)
           u == s.upload
<1>0. /\ gpuQueue \in Seq(Submission) /\ gpuQueue # <<>> /\ Len(gpuQueue) \in Nat \ {0}
      /\ DOMAIN gpuQueue = 1 .. Len(gpuQueue) /\ s = gpuQueue[1] /\ 1 \in 1 .. Len(gpuQueue)
      /\ s \in Submission
  BY LenProperties, EmptySeq, HeadTailProperties DEF GpuExecutes, IInv, RestTyped
<1>1. u \in Upload /\ OnGpu(u)
  BY <1>0 DEF Submission, OnGpu
<1>2. Untouched(s) \/ Leftover(s)
  BY <1>0 DEF IInv, QueueSound
<1>3. fence' = IF u \in Async /\ fence[u] = "unsignaled"
               THEN [fence EXCEPT ![u] = "signaled"]
               ELSE fence
  BY DEF GpuExecutes
<1>a. \E data \in Upload \union {NoData} :
         content' = [content EXCEPT ![u] = data] /\ (data = u \/ u \in lost)
  <2>0. /\ content \in [Upload -> Upload \union {NoData}]
        /\ \A b \in DOMAIN buffers_ : buffers_[b].data \in Upload \union {NoData}
    <3>1. \A b \in DOMAIN buffers_ : buffers_[b] \in BufferEntry
      BY LenProperties DEF IInv, Buffers, BuffersTyped
    <3>2. QED
      BY <3>1 DEF BufferEntry, IInv, RestTyped, Service!TypeOK
  <2>1. CASE Untouched(s)
    <3>1. /\ recorded[s.list].from = staging[u] /\ recorded[s.list].to = u
          /\ staging[u] \in DOMAIN buffers_
          /\ buffers_[staging[u]].data = u \/ u \in lost
      BY <2>1 DEF Untouched
    <3>2. content' = [content EXCEPT ![u] = buffers_[staging[u]].data]
      BY <3>1 DEF GpuExecutes
    <3>3. QED
      BY <2>0, <3>1, <3>2
  <2>2. CASE Leftover(s)
    <3>1. recorded[s.list].to = u /\ u \in lost
      BY <2>2 DEF Leftover
    <3>2. CASE recorded[s.list].from \in DOMAIN buffers_
      <4>1. content' = [content EXCEPT ![u] = buffers_[recorded[s.list].from].data]
        BY <3>1, <3>2 DEF GpuExecutes
      <4>2. QED
        BY <2>0, <3>1, <3>2, <4>1
    <3>3. CASE recorded[s.list].from \notin DOMAIN buffers_
      <4>1. content' = [content EXCEPT ![u] = content[u]]
        BY <1>1, <2>0, <3>3 DEF GpuExecutes
      <4>2. QED
        BY <1>1, <2>0, <3>1, <4>1
    <3>4. QED
      BY <3>2, <3>3
  <2>3. QED
    BY <1>2, <2>1, <2>2
<1>4. /\ gpuQueue' \in Seq(Submission) /\ Len(gpuQueue') = Len(gpuQueue) - 1
      /\ \A i \in 1 .. Len(gpuQueue) - 1 : gpuQueue'[i] = gpuQueue[i + 1]
  BY <1>0, HeadTailProperties DEF GpuExecutes
<1>5. DOMAIN gpuQueue' = 1 .. Len(gpuQueue) - 1
  BY <1>4, LenProperties
<1>6. \A i \in 1 .. Len(gpuQueue) - 1 : i + 1 \in 1 .. Len(gpuQueue) /\ i + 1 # 1
  BY <1>0
<1>7. \A v : OnGpu(v)' <=> OnGpu(v) /\ v # u
  <2> SUFFICES ASSUME NEW v PROVE OnGpu(v)' <=> OnGpu(v) /\ v # u
    OBVIOUS
  <2>1. ASSUME OnGpu(v)' PROVE OnGpu(v) /\ v # u
    <3>1. PICK i \in 1 .. Len(gpuQueue) - 1 : gpuQueue'[i].upload = v
      BY <1>4, <2>1 DEF OnGpu
    <3>2. i + 1 \in 1 .. Len(gpuQueue) /\ i + 1 # 1 /\ gpuQueue[i + 1].upload = v
      BY <1>4, <1>6, <3>1
    <3>3. QED
      BY <1>0, <3>2 DEF OnGpu, IInv, QueueTrue
  <2>2. ASSUME OnGpu(v), v # u PROVE OnGpu(v)'
    <3>1. PICK j \in 1 .. Len(gpuQueue) : gpuQueue[j].upload = v
      BY <2>2 DEF OnGpu
    <3>2. j # 1
      BY <1>0, <2>2, <3>1
    <3>3. j - 1 \in 1 .. Len(gpuQueue) - 1 /\ (j - 1) + 1 = j
      BY <1>0, <3>1, <3>2
    <3>4. gpuQueue'[j - 1].upload = v
      BY <1>4, <3>1, <3>3
    <3>5. QED
      BY <1>4, <3>3, <3>4 DEF OnGpu
  <2>3. QED
    BY <2>1, <2>2
<1>8. QueueTrue'
  <2>1. \A i, j \in 1 .. Len(gpuQueue') : gpuQueue'[i].upload = gpuQueue'[j].upload => i = j
    <3> SUFFICES ASSUME NEW i \in 1 .. Len(gpuQueue'), NEW j \in 1 .. Len(gpuQueue'),
                        gpuQueue'[i].upload = gpuQueue'[j].upload
                 PROVE  i = j
      OBVIOUS
    <3>1. i + 1 = j + 1
      BY <1>4, <1>6 DEF IInv, QueueTrue
    <3>2. QED
      BY <1>0, <1>4, <3>1
  <2>2. /\ fence \in [Async -> FenceState]
        /\ content \in [Upload -> Upload \union {NoData}]
        /\ lost' = lost /\ call' = call
    BY DEF IInv, RestTyped, Service!TypeOK, GpuExecutes, poolVars, deviceVars
  <2>3. \A v \in Async : /\ fence'[v] = "unsignaled" => OnGpu(v)'
                         /\ OnGpu(v)' => fence'[v] \in {"unsignaled", "never"}
    BY <1>1, <1>3, <1>7, <2>2 DEF IInv, QueueTrue
  <2>4. \A v \in Upload \ Async :
           /\ v \notin lost' => (OnGpu(v)' <=> call'[v] = "submitted" /\ content'[v] = NoData)
           /\ OnGpu(v)' => call'[v] \in {"submitted", "returned"}
    BY <1>1, <1>a, <1>7, <2>2, NoDataAssumption DEF IInv, QueueTrue
  <2>5. QED
    BY <2>1, <2>3, <2>4 DEF QueueTrue
<1>9. QueueSound'
  <2>1. UNCHANGED <<poolVars, staging, cmd, call, answer>>
    BY DEF GpuExecutes
  <2>2. ASSUME NEW i \in DOMAIN gpuQueue'
        PROVE  Untouched(gpuQueue[i])' \/ Leftover(gpuQueue[i])'
    <3>1. i \in 1 .. Len(gpuQueue) - 1 /\ i + 1 \in DOMAIN gpuQueue
      BY <1>0, <1>5, <1>6
    <3>2. /\ Untouched(gpuQueue[i + 1]) \/ Leftover(gpuQueue[i + 1])
          /\ gpuQueue'[i] = gpuQueue[i + 1]
      BY <1>4, <3>1 DEF IInv, QueueSound
    <3>3. QED
      BY <2>1, <3>2 DEF Untouched, Leftover, Gone, Alive, poolVars, stagingVars, listVars, deviceVars
  <2>3. QED
    BY <2>2 DEF QueueSound
<1>10. QED
  BY <1>1, <1>3, <1>a, <1>4, <1>8, <1>9

-----------------------------------------------------------------------------
(* One step, one upload *)

\* The types of the variables, as the steps need them.
LEMMA Typed ==
  ASSUME IInv
  PROVE  /\ call \in [Upload -> CallState] /\ status \in [Async -> Status]
         /\ fence \in [Async -> FenceState]
         /\ answer \in [Upload -> {"unasked", "pending", "success", "failure"}]
         /\ content \in [Upload -> Upload \union {NoData}]
         /\ staging \in [Upload -> Buffer \union {NoBuffer}]
         /\ cmd \in [Upload -> CommandList \union {NoList}]
         /\ worker \in [at : WorkerState, upload : Async, wasCancelled : BOOLEAN]
         /\ createTask \in [Async -> 0 .. MaxTasks] /\ finishTask \in [Async -> 0 .. MaxTasks]
         /\ Async \subseteq Upload /\ lost \subseteq Upload /\ backend \in Backend
BY AsyncAssumption DEF IInv, RestTyped, Service!TypeOK, Buffers, BuffersTyped, Lists, ListsTyped,
   Tasks, TasksTyped

\* The buffers when one upload's buffer changes.
LEMMA OwnDataKept ==
  ASSUME Buffers, NEW u \in Upload, BuffersTyped', StagingExact', DeviceKept,
         \A v \in Upload \ {u} : BufferKept(v),
         staging'[u] # NoBuffer => /\ staging'[u] \in DOMAIN buffers_'
                                   /\ buffers_'[staging'[u]].data = u \/ u \in lost'
                                   /\ backend = "Vulkan" \/ u \in lost'
  PROVE  Buffers'
<1>1. OwnData'
  <2> SUFFICES ASSUME NEW v \in Upload, staging'[v] # NoBuffer, v # u
               PROVE  /\ staging'[v] \in DOMAIN buffers_'
                      /\ buffers_'[staging'[v]].data = v \/ v \in lost'
                      /\ backend' = "Vulkan" \/ v \in lost'
    BY DEF OwnData, DeviceKept
  <2>1. BufferKept(v) /\ staging[v] # NoBuffer
    BY DEF BufferKept
  <2>2. /\ buffers_[staging[v]].data = v \/ v \in lost
        /\ backend = "Vulkan" \/ v \in lost
    BY <2>1 DEF Buffers, OwnData
  <2>3. QED
    BY <2>1, <2>2 DEF BufferKept, DeviceKept
<1>2. QED
  BY <1>1 DEF Buffers

\* A step that concerns one upload and leaves the GPU's queue alone.
LEMMA QuietStep ==
  ASSUME IInv, NEW u \in Upload,
         Buffers', Lists', Tasks', RestTyped', UNCHANGED <<gpuQueue, recorded>>,
         DeviceKept, GoneStay,
         \A v \in Upload \ {u} : Apart(v) /\ BufferKept(v) /\ ListKept(v),
         \A v \in Async \ {u} : AsyncApart(v),
         OnGpu(u) => Stays(u),
         u \in Async => /\ AsyncTrue(u)' /\ (answer'[u] = "success" => status'[u] = "Completed")
                        /\ fence'[u] = fence[u] \/ (~OnGpu(u) /\ fence'[u] # "unsignaled"),
         u \notin Async =>
            /\ SyncTrue(u)'
            /\ u \notin lost' => (call'[u] = "submitted" /\ content'[u] = NoData
                                   <=> call[u] = "submitted" /\ content[u] = NoData)
            /\ OnGpu(u) => call'[u] \in {"submitted", "returned"}
  PROVE  IInv'
<1>0. Async \subseteq Upload
  BY AsyncAssumption
<1>1. \A v \in Upload : OnGpu(v) =>
         Stays(v) /\ (cmd[v] # NoList => recorded'[cmd[v]] = recorded[cmd[v]])
  <2> SUFFICES ASSUME NEW v \in Upload, OnGpu(v), v # u PROVE Stays(v)
    OBVIOUS
  <2>1. QED
    BY DEF Stays, Apart
<1>2. \A v \in Async : fence'[v] = fence[v] \/ (~OnGpu(v) /\ fence'[v] # "unsignaled")
  <2> SUFFICES ASSUME NEW v \in Async, v # u PROVE fence'[v] = fence[v]
    OBVIOUS
  <2>1. QED
    BY DEF AsyncApart
<1>3. \A v \in Upload \ Async :
         /\ v \notin lost' => (call'[v] = "submitted" /\ content'[v] = NoData
                                <=> call[v] = "submitted" /\ content[v] = NoData)
         /\ OnGpu(v) => call'[v] \in {"submitted", "returned"}
  <2> SUFFICES ASSUME NEW v \in Upload \ Async, v # u
               PROVE  /\ call'[v] = call[v] /\ content'[v] = content[v]
                      /\ OnGpu(v) => call[v] \in {"submitted", "returned"}
    OBVIOUS
  <2>1. QED
    BY DEF Apart, IInv, QueueTrue
<1>4. QueueTrue' /\ QueueSound'
  BY <1>1, <1>2, <1>3, QueueStays
<1>5. QED
  BY <1>4, OneUpload

\* What is true of an upload at whose task the worker is.
AsyncAt(u) ==
    /\ call[u] = "none" <=> answer[u] = "unasked"
    /\ call[u] \in {"none", "returned"}
    /\ createTask[u] # NoTask => call[u] = "returned"
    /\ answer[u] = "pending" <=> worker.at \in Unanswered
    /\ staging[u] # NoBuffer <=> worker.at \in HasBuffer
    /\ cmd[u] # NoList <=> worker.at \in HasList
    /\ fence[u] # "none" <=> worker.at \in HasFence
    /\ worker.at \in {"woken", "cleanup"} => fence[u] = "signaled"
    /\ fence[u] = "never" => u \in lost
    /\ fence[u] = "signaled" \/ worker.at = "answering" => content[u] = u \/ u \in lost
    /\ content[u] # NoData /\ answer[u] = "pending" =>
          u \in lost \/ fence[u] = "signaled" \/ worker.at = "answering"
    /\ answer[u] = "unasked" => content[u] = NoData /\ u \notin lost
    /\ worker.at \in {"cleanup", "answering"} /\ ~worker.wasCancelled => status[u] = "Completed"

AtWork(u) == worker.upload = u /\ ~Queued(u) /\ ~Handed(u)

\* While the worker is at an upload, only its line counts.
LEMMA AsyncAtWork == \A u \in Async : AtWork(u) => (AsyncTrue(u) <=> AsyncAt(u))
BY DEF AtWork, AsyncTrue, AsyncAt, WorkerAt

\* The same after a step.
LEMMA AsyncAtWorkNext == (\A u \in Async : AtWork(u) => (AsyncTrue(u) <=> AsyncAt(u)))'
BY AsyncAtWork, PTL

\* The upload whose task the worker runs has no task waiting.
LEMMA WorkersUpload ==
  ASSUME IInv, NEW u \in Async, worker.upload = u, worker.at \in CreateLines \cup FinishLines
  PROVE  AtWork(u) /\ AsyncAt(u) /\ createTask[u] # NoTask /\ call[u] = "returned"
<1>1. AtWork(u) /\ createTask[u] # NoTask
  <2>1. CASE worker.at \in CreateLines
    BY <2>1 DEF IInv, Tasks, TasksOwned, AtWork, Queued, Handed
  <2>2. CASE worker.at \in FinishLines
    BY <2>2 DEF IInv, Tasks, TasksOwned, AtWork, Queued, Handed
  <2>3. QED
    BY <2>1, <2>2
<1>2. AsyncAt(u)
  BY <1>1, AsyncAtWork DEF IInv
<1>3. QED
  BY <1>1, <1>2 DEF AsyncAt

\* What the worker's step leaves alone: everything of the other uploads.
OthersApart(u) ==
    /\ DeviceKept /\ GoneStay
    /\ \A v \in Upload \ {u} : Apart(v) /\ BufferKept(v) /\ ListKept(v)
    /\ \A v \in Async \ {u} : fence'[v] = fence[v] /\ status'[v] = status[v]

\* The worker goes from one line of u's task to the next.
LEMMA WorkerStep ==
  ASSUME IInv, NEW u \in Async, worker.upload = u, worker.at \in CreateLines \cup FinishLines,
         UNCHANGED taskVars, worker'.upload = u, worker'.at \in CreateLines \cup FinishLines \cup {"return"},
         worker'.at \in CreateLines => worker.at \in CreateLines,
         worker'.at \in FinishLines => worker.at \in FinishLines,
         worker' \in [at : WorkerState, upload : Async, wasCancelled : BOOLEAN],
         OthersApart(u), Buffers', Lists', RestTyped', UNCHANGED <<gpuQueue, recorded>>,
         fence[u] \in {"unsignaled", "never"} => UNCHANGED <<fence, buffers_, staging, listVars, cmd>>,
         fence'[u] = "unsignaled" => fence[u] = "unsignaled",
         AsyncAt(u)', answer'[u] = "success" => status'[u] = "Completed"
  PROVE  IInv'
<1>1. worker.at # "idle" /\ worker'.at # "idle"
  BY DEF CreateLines, FinishLines
<1>2. Tasks' /\ \A v \in Async : TaskKept(v)
  <2>1. Tasks
    BY DEF IInv
  <2>2. QED
    BY <1>1, <2>1, WorkerMoves
<1>3. AtWork(u)
  BY WorkersUpload
<1>4. AtWork(u)'
  BY <1>2, <1>3 DEF AtWork, TaskKept
<1>5. AsyncTrue(u)'
  BY <1>4, AsyncAtWorkNext
<1>6. \A v \in Async \ {u} : AsyncApart(v)
  BY <1>2 DEF AsyncApart, OthersApart, Working, WorkerAt
<1>7. OnGpu(u) => Stays(u) /\ fence'[u] = fence[u]
  <2> SUFFICES ASSUME OnGpu(u) PROVE Stays(u) /\ fence'[u] = fence[u]
    OBVIOUS
  <2>1. fence[u] \in {"unsignaled", "never"} /\ u \in Upload
    BY AsyncAssumption DEF IInv, QueueTrue
  <2>2. buffers_' = buffers_ /\ staging' = staging /\ listVars' = listVars /\ cmd' = cmd
    BY <2>1
  <2>3. BufferKept(u)
    BY <2>1, <2>2 DEF BufferKept, IInv, Buffers, OwnData
  <2>4. ListsEach
    BY ListsParts DEF IInv
  <2>5. ListKept(u)
    BY <2>1, <2>2, <2>4 DEF ListKept, ListsEach, HeldIn, Alive, listVars
  <2>6. QED
    BY <2>1, <2>3, <2>5 DEF Stays
<1>8. fence'[u] = fence[u] \/ (~OnGpu(u) /\ fence'[u] # "unsignaled")
  BY <1>7 DEF IInv, QueueTrue
<1>9. QED
  BY <1>2, <1>5, <1>6, <1>7, <1>8, AsyncAssumption, QuietStep DEF OthersApart

-----------------------------------------------------------------------------
(* The worker's lines *)

\* A step of the worker that changes no more than status, answer and the registrations.
LEMMA WorkerNotes ==
  ASSUME IInv, NEW u \in Async, worker.upload = u, worker.at \in CreateLines \cup FinishLines,
         UNCHANGED taskVars, worker'.upload = u, worker'.at \in CreateLines \cup FinishLines \cup {"return"},
         worker'.at \in CreateLines => worker.at \in CreateLines,
         worker'.at \in FinishLines => worker.at \in FinishLines,
         worker' \in [at : WorkerState, upload : Async, wasCancelled : BOOLEAN],
         UNCHANGED <<poolVars, call, staging, cmd, fence, gpuQueue, content>>,
         \A v \in Async \ {u} : status'[v] = status[v],
         \A v \in Upload \ {u} : answer'[v] = answer[v],
         RestTyped', AsyncAt(u)', answer'[u] = "success" => status'[u] = "Completed"
  PROVE  IInv'
<1>0. DeviceKept
  BY DEF DeviceKept, poolVars, deviceVars
<1>1. Buffers' /\ \A v \in Upload : BufferKept(v)
  BY <1>0, BuffersStay DEF IInv, poolVars
<1>2. Lists' /\ GoneStay /\ \A v \in Upload : ListKept(v)
  BY ListsStay DEF IInv, poolVars
<1>3. OthersApart(u)
  BY <1>0, <1>1, <1>2 DEF OthersApart, Apart, poolVars, deviceVars
<1>4. UNCHANGED <<buffers_, listVars, recorded>>
  BY DEF poolVars, deviceVars, stagingVars
<1>5. QED
  BY <1>1, <1>2, <1>3, <1>4, WorkerStep

\* The status becomes Uploading.
LEMMA MarkUploadingKeeps ==
  ASSUME IInv, NEW u \in Async, worker.upload = u, MarkUploading PROVE IInv'
<1>1. /\ worker' \in [at : WorkerState, upload : Async, wasCancelled : BOOLEAN]
      /\ worker'.at = "uploading" /\ worker'.upload = u /\ worker.at = "begin"
      /\ \A v \in Async \ {u} : status'[v] = status[v]
  BY Typed DEF MarkUploading, At, WorkerState
<1>2. RestTyped'
  BY DEF MarkUploading, IInv, RestTyped, Service!TypeOK, poolVars, deviceVars, Status
<1>3. AsyncAt(u) /\ worker.at \in CreateLines
  BY <1>1, WorkersUpload DEF CreateLines
<1>4. AsyncAt(u)' /\ answer'[u] # "success"
  BY <1>1, <1>3 DEF MarkUploading, AsyncAt, poolVars,
     deviceVars, taskVars, Unanswered, CreateLines, HasBuffer,
     HasList, HasFence
<1>5. QED
  BY <1>1, <1>2, <1>3, <1>4, WorkerNotes DEF MarkUploading, CreateLines, FinishLines

\* The status becomes Submitted.
LEMMA MarkSubmittedKeeps ==
  ASSUME IInv, NEW u \in Async, worker.upload = u, MarkSubmitted PROVE IInv'
<1>1. /\ worker' \in [at : WorkerState, upload : Async, wasCancelled : BOOLEAN]
      /\ worker'.at = "handOver" /\ worker'.upload = u /\ worker.at = "submitted"
      /\ \A v \in Async \ {u} : status'[v] = status[v]
  BY Typed DEF MarkSubmitted, At, WorkerState
<1>2. RestTyped'
  BY DEF MarkSubmitted, IInv, RestTyped, Service!TypeOK, poolVars, deviceVars, Status
<1>3. AsyncAt(u) /\ worker.at \in CreateLines
  BY <1>1, WorkersUpload DEF CreateLines
<1>4. AsyncAt(u)' /\ answer'[u] # "success"
  BY <1>1, <1>3 DEF MarkSubmitted, AsyncAt, poolVars,
     deviceVars, taskVars, Unanswered, CreateLines, HasBuffer,
     HasList, HasFence
<1>5. QED
  BY <1>1, <1>2, <1>3, <1>4, WorkerNotes DEF MarkSubmitted, CreateLines, FinishLines

\* The fence is signaled, so the GPU object has the upload's data.
LEMMA FenceWaitKeeps ==
  ASSUME IInv, NEW u \in Async, worker.upload = u, FenceWait PROVE IInv'
<1>1. /\ worker' \in [at : WorkerState, upload : Async, wasCancelled : BOOLEAN]
      /\ worker'.at = "woken" /\ worker'.upload = u /\ worker.at = "waiting"
  <2>1. worker \in [at : WorkerState, upload : Async, wasCancelled : BOOLEAN] /\ "woken" \in WorkerState
    BY Typed DEF WorkerState
  <2>2. (worker.upload \in cancelled) \in BOOLEAN
    OBVIOUS
  <2>3. \A b \in BOOLEAN : worker' = [worker EXCEPT !.at = "woken", !.wasCancelled = b] =>
           /\ worker' \in [at : WorkerState, upload : Async, wasCancelled : BOOLEAN]
           /\ worker'.at = "woken" /\ worker'.upload = worker.upload
    BY <2>1
  <2>4. QED
    BY <2>2, <2>3 DEF FenceWait
<1>2. RestTyped'
  BY DEF FenceWait, IInv, RestTyped, Service!TypeOK, poolVars, deviceVars, contextVars
<1>3. AsyncAt(u) /\ worker.at \in FinishLines
  BY <1>1, WorkersUpload DEF FinishLines
<1>4. AsyncAt(u)' /\ answer'[u] # "success"
  BY <1>1, <1>3 DEF FenceWait, AsyncAt, poolVars,
     deviceVars, taskVars, contextVars, Unanswered, CreateLines,
     HasBuffer, HasList, HasFence
<1>5. QED
  BY <1>1, <1>2, <1>3, <1>4, WorkerNotes DEF FenceWait, FinishLines, CreateLines, contextVars

\* Unless it was cancelled, an upload that will be a success is Completed from here on.
LEMMA StoreCompletedKeeps ==
  ASSUME IInv, NEW u \in Async, worker.upload = u, StoreCompleted PROVE IInv'
<1>1. /\ worker' \in [at : WorkerState, upload : Async, wasCancelled : BOOLEAN]
      /\ worker'.at = "cleanup" /\ worker'.upload = u /\ worker.at = "woken"
      /\ worker'.wasCancelled = worker.wasCancelled
      /\ \A v \in Async \ {u} : status'[v] = status[v]
      /\ ~worker.wasCancelled => status'[u] = "Completed"
  BY Typed DEF StoreCompleted, At, WorkerState
<1>2. RestTyped'
  BY DEF StoreCompleted, IInv, RestTyped, Service!TypeOK, poolVars, deviceVars, Status
<1>3. AsyncAt(u) /\ worker.at \in FinishLines
  BY <1>1, WorkersUpload DEF FinishLines
<1>4. AsyncAt(u)' /\ answer'[u] # "success"
  BY <1>1, <1>3 DEF StoreCompleted, AsyncAt, poolVars,
     deviceVars, taskVars, Unanswered, CreateLines,
     HasBuffer, HasList, HasFence
<1>5. QED
  BY <1>1, <1>2, <1>3, <1>4, WorkerNotes DEF StoreCompleted, FinishLines, CreateLines

\* The callback is called.
LEMMA AnswerKeeps ==
  ASSUME IInv, NEW u \in Async, worker.upload = u, Answer PROVE IInv'
<1>1. /\ worker' \in [at : WorkerState, upload : Async, wasCancelled : BOOLEAN]
      /\ worker'.at = "unregister" /\ worker'.upload = u /\ worker.at = "answering"
      /\ answer'[u] = IF worker.wasCancelled THEN "failure" ELSE "success"
      /\ \A v \in Upload \ {u} : answer'[v] = answer[v]
  BY Typed DEF Answer, At, Tell, WorkerState
<1>2. RestTyped'
  BY DEF Answer, Tell, IInv, RestTyped, Service!TypeOK, poolVars, deviceVars, contextVars
<1>3. AsyncAt(u) /\ worker.at \in FinishLines
  BY <1>1, WorkersUpload DEF FinishLines
<1>4. AsyncAt(u)' /\ (answer'[u] = "success" => status'[u] = "Completed")
  BY <1>1, <1>3 DEF Answer, AsyncAt, taskVars, contextVars, Unanswered, CreateLines,
     HasBuffer, HasList, HasFence
<1>5. QED
  BY <1>1, <1>2, <1>3, <1>4, WorkerNotes DEF Answer, FinishLines, CreateLines, contextVars

\* The handle is forgotten.
LEMMA UnregisterKeeps ==
  ASSUME IInv, NEW u \in Async, worker.upload = u, UnregisterOperation PROVE IInv'
<1>1. /\ worker' \in [at : WorkerState, upload : Async, wasCancelled : BOOLEAN]
      /\ worker'.at = "deleting" /\ worker'.upload = u /\ worker.at = "unregister"
  BY Typed DEF UnregisterOperation, At, WorkerState
<1>2. RestTyped'
  BY DEF UnregisterOperation, IInv, RestTyped, Service!TypeOK, poolVars, deviceVars, contextVars
<1>3. AsyncAt(u) /\ worker.at \in FinishLines
  BY <1>1, WorkersUpload DEF FinishLines
<1>4. AsyncAt(u)' /\ (answer'[u] = "success" => status'[u] = "Completed")
  BY <1>1, <1>3 DEF UnregisterOperation, AsyncAt, poolVars,
     deviceVars, taskVars, contextVars, Unanswered,
     CreateLines, HasBuffer, HasList, HasFence, IInv, SuccessMeansCompleted
<1>5. QED
  BY <1>1, <1>2, <1>3, <1>4, WorkerNotes DEF UnregisterOperation, FinishLines, CreateLines,
     contextVars

\* The context is deleted.
LEMMA DeleteContextKeeps ==
  ASSUME IInv, NEW u \in Async, worker.upload = u, DeleteContext PROVE IInv'
<1>1. /\ worker' \in [at : WorkerState, upload : Async, wasCancelled : BOOLEAN]
      /\ worker'.at = "return" /\ worker'.upload = u /\ worker.at = "deleting"
  BY Typed DEF DeleteContext, At, WorkerState
<1>2. RestTyped'
  BY DEF DeleteContext, IInv, RestTyped, Service!TypeOK, poolVars, deviceVars
<1>3. AsyncAt(u) /\ worker.at \in FinishLines
  BY <1>1, WorkersUpload DEF FinishLines
<1>4. AsyncAt(u)' /\ (answer'[u] = "success" => status'[u] = "Completed")
  BY <1>1, <1>3 DEF DeleteContext, AsyncAt, poolVars,
     deviceVars, taskVars, Unanswered,
     CreateLines, HasBuffer, HasList, HasFence, IInv, SuccessMeansCompleted
<1>5. QED
  BY <1>1, <1>2, <1>3, <1>4, WorkerNotes DEF DeleteContext, FinishLines, CreateLines

-----------------------------------------------------------------------------
(* What the worker takes and gives back *)

\* Buffer and list of u go back to their pools.
LEMMA GivenBack ==
  ASSUME IInv, NEW u \in Async, ReleaseList(cmd[u]), ReleaseStaging(staging[u]),
         cmd' = [cmd EXCEPT ![u] = NoList], staging' = [staging EXCEPT ![u] = NoBuffer],
         UNCHANGED deviceVars
  PROVE  /\ DeviceKept /\ GoneStay
         /\ \A v \in Upload : v \in lost' <=> v \in lost
         /\ Buffers' /\ Lists' /\ staging'[u] = NoBuffer /\ cmd'[u] = NoList
         /\ \A v \in Upload \ {u} : BufferKept(v) /\ ListKept(v)
         /\ \A v \in Upload \ {u} : staging'[v] = staging[v] /\ cmd'[v] = cmd[v]
<1>0. u \in Upload
  BY AsyncAssumption
<1>1. /\ BuffersTyped' /\ StagingExact' /\ staging'[u] = NoBuffer
      /\ \A v \in Upload \ {u} : BufferKept(v)
  BY <1>0, ReleaseKeeps DEF IInv, Buffers
<1>2. Lists' /\ cmd'[u] = NoList /\ GoneStay /\ \A v \in Upload \ {u} : ListKept(v)
  BY ReleaseListKeeps DEF IInv
<1>3. DeviceKept /\ lost' = lost
  BY DEF DeviceKept, deviceVars
<1>4. Buffers'
  BY <1>0, <1>1, <1>3, OwnDataKept DEF IInv
<1>5. QED
  BY <1>1, <1>2, <1>3, <1>4 DEF BufferKept, ListKept

\* Every early return: the fence is not yet there, so the GPU has nothing of the upload.
LEMMA GiveUpKeeps ==
  ASSUME IInv, NEW u \in Async, worker.upload = u, NEW s \in {"Failed", "Cancelled"},
         worker.at \in {"begin", "uploading", "staged", "acquired"}, GiveUp(s)
  PROVE  IInv'
<1>0. u \in Upload /\ worker.at \in CreateLines
  BY AsyncAssumption DEF CreateLines
<1>1. /\ worker' \in [at : WorkerState, upload : Async, wasCancelled : BOOLEAN]
      /\ worker'.at = "return" /\ worker'.upload = u
      /\ \A v \in Async \ {u} : status'[v] = status[v] /\ fence'[v] = fence[v]
      /\ \A v \in Upload \ {u} : answer'[v] = answer[v]
      /\ fence'[u] = "none" /\ answer'[u] = "failure"
  BY <1>0, Typed DEF GiveUp, At, Tell, WorkerState
<1>2. RestTyped'
  BY <1>0 DEF GiveUp, Tell, IInv, RestTyped, Service!TypeOK, Status, FenceState, deviceVars
<1>3. AsyncAt(u)
  BY <1>0, WorkersUpload
<1>4. fence[u] = "none"
  BY <1>3 DEF AsyncAt, HasFence, HasList, HasBuffer
<1>5. /\ DeviceKept /\ GoneStay
      /\ \A v \in Upload : v \in lost' <=> v \in lost
      /\ Buffers' /\ Lists' /\ staging'[u] = NoBuffer /\ cmd'[u] = NoList
      /\ \A v \in Upload \ {u} : BufferKept(v) /\ ListKept(v)
      /\ \A v \in Upload \ {u} : staging'[v] = staging[v] /\ cmd'[v] = cmd[v]
  BY GivenBack DEF GiveUp
<1>6. OthersApart(u)
  BY <1>1, <1>5 DEF OthersApart, Apart, GiveUp
<1>7. AsyncAt(u)'
  <2>1. call' = call /\ createTask' = createTask /\ content' = content
    BY DEF GiveUp, taskVars
  <2>2. call[u] = "returned"
    BY <1>0, WorkersUpload
  <2>3. QED
    BY <1>1, <1>3, <1>5, <2>1, <2>2 DEF AsyncAt, Unanswered, CreateLines, HasBuffer, HasList, HasFence
<1>8. UNCHANGED <<taskVars, gpuQueue, recorded>>
  BY DEF GiveUp, deviceVars
<1>9. QED
  BY <1>0, <1>1, <1>2, <1>4, <1>5, <1>6, <1>7, <1>8, WorkerStep DEF CreateLines, FinishLines

\* Buffer and list are given back after the fence, when the GPU is done with them.
LEMMA CleanupKeeps ==
  ASSUME IInv, NEW u \in Async, worker.upload = u, Cleanup PROVE IInv'
<1>0. u \in Upload /\ worker.at = "cleanup" /\ worker.at \in FinishLines
  BY AsyncAssumption DEF FinishLines, Cleanup
<1>1. /\ worker' \in [at : WorkerState, upload : Async, wasCancelled : BOOLEAN]
      /\ worker'.at = "answering" /\ worker'.upload = u /\ worker'.wasCancelled = worker.wasCancelled
      /\ \A v \in Async \ {u} : fence'[v] = fence[v]
      /\ fence'[u] = "none"
  BY <1>0, Typed DEF Cleanup, At, WorkerState
<1>2. RestTyped'
  BY <1>0 DEF Cleanup, IInv, RestTyped, Service!TypeOK, FenceState, deviceVars
<1>3. AsyncAt(u) /\ call[u] = "returned"
  BY <1>0, WorkersUpload
<1>4. fence[u] = "signaled"
  BY <1>0, <1>3 DEF AsyncAt
<1>5. /\ DeviceKept /\ GoneStay
      /\ \A v \in Upload : v \in lost' <=> v \in lost
      /\ Buffers' /\ Lists' /\ staging'[u] = NoBuffer /\ cmd'[u] = NoList
      /\ \A v \in Upload \ {u} : BufferKept(v) /\ ListKept(v)
      /\ \A v \in Upload \ {u} : staging'[v] = staging[v] /\ cmd'[v] = cmd[v]
  BY GivenBack DEF Cleanup
<1>6. OthersApart(u)
  BY <1>1, <1>5 DEF OthersApart, Apart, Cleanup
<1>7. call' = call /\ createTask' = createTask /\ content' = content /\ answer' = answer /\ status' = status
  BY DEF Cleanup, taskVars
<1>8. AsyncAt(u)'
  BY <1>0, <1>1, <1>3, <1>4, <1>5, <1>7 DEF AsyncAt, Unanswered, CreateLines, HasBuffer, HasList, HasFence
<1>9. UNCHANGED <<taskVars, gpuQueue, recorded>>
  BY DEF Cleanup, deviceVars
<1>10. answer'[u] # "success"
  BY <1>1, <1>8 DEF AsyncAt, Unanswered
<1>11. QED
  BY <1>0, <1>1, <1>2, <1>4, <1>5, <1>6, <1>8, <1>9, <1>10, WorkerStep DEF CreateLines, FinishLines

\* The worker takes a buffer.
LEMMA AllocateStagingKeeps ==
  ASSUME IInv, NEW u \in Async, worker.upload = u, AllocateStaging PROVE IInv'
<1>0. u \in Upload /\ worker.at = "uploading" /\ worker.at \in CreateLines
  BY AsyncAssumption DEF CreateLines, AllocateStaging
<1>1. /\ worker' \in [at : WorkerState, upload : Async, wasCancelled : BOOLEAN]
      /\ worker'.at = "staged" /\ worker'.upload = u
  BY <1>0, Typed DEF AllocateStaging, At, WorkerState
<1>3. AsyncAt(u) /\ call[u] = "returned"
  BY <1>0, WorkersUpload
<1>4. staging[u] = NoBuffer /\ fence[u] = "none"
  BY <1>0, <1>3 DEF AsyncAt, HasBuffer, HasList, HasFence
<1>5. PICK b \in Buffer : AllocateSucceeds(u, b) /\ staging' = [staging EXCEPT ![u] = b]
  BY DEF AllocateStaging
<1>6. /\ BuffersTyped' /\ StagingExact'
      /\ staging'[u] = b /\ b # NoBuffer
      /\ b \in DOMAIN buffers_' /\ (buffers_'[b].data = u \/ u \in lost')
      /\ backend = "Vulkan" \/ u \in lost'
      /\ lost' = lost \/ lost' = lost \union {u}
      /\ \A v \in Upload \ {u} : BufferKept(v)
  BY <1>0, <1>4, <1>5, AllocateKeeps DEF IInv, Buffers
<1>a. DeviceKept
  BY <1>6 DEF AllocateStaging, DeviceKept
<1>2. RestTyped'
  BY <1>0, <1>6 DEF AllocateStaging, IInv, RestTyped, Service!TypeOK
<1>7. Buffers'
  BY <1>0, <1>6, <1>a, OwnDataKept DEF IInv
<1>8. Lists' /\ GoneStay /\ \A v \in Upload : ListKept(v)
  BY ListsStay DEF IInv, AllocateStaging
<1>9. OthersApart(u)
  BY <1>6, <1>8, <1>a DEF OthersApart, Apart, AllocateStaging, BufferKept
<1>10. AsyncAt(u)'
  BY <1>0, <1>1, <1>3, <1>6 DEF AsyncAt, AllocateStaging, taskVars, Unanswered, CreateLines, HasBuffer, HasList, HasFence
<1>11. answer'[u] # "success"
  BY <1>1, <1>10 DEF AsyncAt, Unanswered, CreateLines
<1>12. UNCHANGED <<taskVars, gpuQueue, recorded, fence>>
  BY DEF AllocateStaging
<1>13. QED
  BY <1>0, <1>1, <1>2, <1>4, <1>7, <1>8, <1>9, <1>10, <1>11, <1>12, WorkerStep DEF CreateLines, FinishLines

\* The worker takes a list.
LEMMA AcquireListStepKeeps ==
  ASSUME IInv, NEW u \in Async, worker.upload = u, AcquireList PROVE IInv'
<1>0. u \in Upload /\ worker.at = "staged" /\ worker.at \in CreateLines
  BY AsyncAssumption DEF CreateLines, AcquireList
<1>1. /\ worker' \in [at : WorkerState, upload : Async, wasCancelled : BOOLEAN]
      /\ worker'.at = "acquired" /\ worker'.upload = u
  BY <1>0, Typed DEF AcquireList, At, WorkerState
<1>2. RestTyped' /\ DeviceKept
  BY DEF AcquireList, IInv, RestTyped, Service!TypeOK, deviceVars, DeviceKept
<1>3. AsyncAt(u) /\ call[u] = "returned"
  BY <1>0, WorkersUpload
<1>4. cmd[u] = NoList /\ fence[u] = "none"
  BY <1>0, <1>3 DEF AsyncAt, HasBuffer, HasList, HasFence
<1>5. PICK l \in CommandList : Acquire(l) /\ cmd' = [cmd EXCEPT ![u] = l]
  BY DEF AcquireList
<1>6. Lists' /\ cmd'[u] = l /\ l # NoList /\ GoneStay /\ \A v \in Upload \ {u} : ListKept(v)
  BY <1>4, <1>5, AcquireKeeps DEF IInv
<1>8. Buffers' /\ \A v \in Upload : BufferKept(v)
  BY <1>2, BuffersStay DEF IInv, AcquireList
<1>9. OthersApart(u)
  BY <1>2, <1>6, <1>8 DEF OthersApart, Apart, AcquireList, ListKept, deviceVars
<1>10. AsyncAt(u)'
  BY <1>0, <1>1, <1>3, <1>6 DEF AsyncAt, AcquireList, deviceVars, taskVars, Unanswered, CreateLines, HasBuffer, HasList, HasFence
<1>11. answer'[u] # "success"
  BY <1>1, <1>10 DEF AsyncAt, Unanswered, CreateLines
<1>12. UNCHANGED <<taskVars, gpuQueue, recorded, fence>>
  BY DEF AcquireList, deviceVars
<1>13. QED
  BY <1>0, <1>1, <1>2, <1>4, <1>6, <1>8, <1>9, <1>10, <1>11, <1>12, WorkerStep DEF CreateLines, FinishLines

\* The worker gives its upload to the GPU.
LEMMA SubmitListKeeps ==
  ASSUME IInv, NEW u \in Async, worker.upload = u, SubmitCommandListAsync PROVE IInv'
<1>0. u \in Upload /\ worker.at = "acquired" /\ worker.at \in CreateLines
  BY AsyncAssumption DEF CreateLines, SubmitCommandListAsync
<1>a. PICK f \in FenceState : Submit(u, f) /\ fence' = [fence EXCEPT ![u] = f]
  BY DEF SubmitCommandListAsync
<1>1. /\ worker' \in [at : WorkerState, upload : Async, wasCancelled : BOOLEAN]
      /\ worker'.at = "submitted" /\ worker'.upload = u
      /\ fence'[u] = f /\ \A v \in Async \ {u} : fence'[v] = fence[v]
  BY <1>0, <1>a, Typed DEF SubmitCommandListAsync, At, WorkerState
<1>2. AsyncAt(u) /\ call[u] = "returned" /\ AtWork(u)
  BY <1>0, WorkersUpload
<1>3. staging[u] # NoBuffer /\ cmd[u] # NoList /\ fence[u] = "none" /\ answer[u] = "pending"
  BY <1>0, <1>2 DEF AsyncAt, HasBuffer, HasList, HasFence, Unanswered, CreateLines
<1>4. ~OnGpu(u)
  BY <1>3 DEF IInv, QueueTrue
<1>5. UNCHANGED <<taskVars, stagingVars, listVars, backend, staging, cmd, call, status, answer, content>>
  BY DEF SubmitCommandListAsync
<1>6. Tasks' /\ \A v \in Async : TaskKept(v)
  <2>1. worker.at # "idle" /\ worker'.at # "idle" /\ worker'.at \notin FinishLines
    BY <1>0, <1>1 DEF FinishLines
  <2>2. QED
    BY <1>0, <1>1, <1>5, <2>1, WorkerMoves DEF IInv
<1>7. /\ QueueTrue' /\ QueueSound' /\ gpuQueue' \in Seq(Submission)
      /\ recorded' \in [CommandList -> Recording]
      /\ DeviceKept /\ GoneStay
      /\ lost' = lost \/ lost' = lost \union {u}
      /\ f = "unsignaled" \/ (f \in {"signaled", "never"} /\ u \in lost')
  <2>1. Record(cmd[u], staging[u], u)
    BY DEF SubmitCommandListAsync
  <2>2. QED
    BY <1>0, <1>1, <1>3, <1>4, <1>5, <1>a, <2>1, Submitting
<1>8. RestTyped'
  BY <1>0, <1>7, <1>a DEF SubmitCommandListAsync, IInv, RestTyped, Service!TypeOK
<1>9. Buffers' /\ Lists'
  BY <1>5, <1>7, BuffersStay, ListsStay DEF IInv
<1>10. AtWork(u)' /\ AsyncAt(u)'
  <2>1. AtWork(u)'
    BY <1>1, <1>2, <1>6 DEF AtWork, TaskKept
  <2>2. content[u] = NoData \/ u \in lost
    BY <1>0, <1>2, <1>3 DEF AsyncAt
  <2>3. AsyncAt(u)'
    BY <1>0, <1>1, <1>2, <1>3, <1>5, <1>7, <2>2
       DEF AsyncAt, taskVars, Unanswered, CreateLines, HasBuffer, HasList, HasFence, DeviceKept
  <2>4. QED
    BY <2>1, <2>3
<1>11. AsyncTrue(u)'
  BY <1>10, AsyncAtWorkNext
<1>12. \A v \in Upload \ {u} : Apart(v)
  BY <1>5, <1>7 DEF Apart
<1>13. \A v \in Async \ {u} : AsyncApart(v)
  BY <1>1, <1>5, <1>6 DEF AsyncApart, Working, WorkerAt
<1>14. answer'[u] # "success"
  BY <1>3, <1>5
<1>15. QED
  BY <1>0, <1>6, <1>7, <1>8, <1>9, <1>11, <1>12, <1>13, <1>14, OneUpload

\* The worker between its tasks: pools, objects and answers stay.
LEMMA TaskStep ==
  ASSUME IInv, NEW u \in Async, Tasks', \A v \in Async \ {u} : TaskKept(v),
         UNCHANGED <<poolVars, call, operations, contextVars, cancelling, gpuQueue, cleanups, answer, content>>,
         \A v \in Async \ {u} : ~Working(v) /\ ~Working(v)',
         AsyncTrue(u)'
  PROVE  IInv'
<1>0. u \in Upload
  BY AsyncAssumption
<1>1. RestTyped'
  BY DEF IInv, RestTyped, Service!TypeOK, poolVars, deviceVars, contextVars
<1>a. DeviceKept
  BY DEF DeviceKept, poolVars, deviceVars
<1>2. Buffers' /\ \A v \in Upload : BufferKept(v)
  BY <1>a, BuffersStay DEF IInv, poolVars, contextVars
<1>3. Lists' /\ GoneStay /\ \A v \in Upload : ListKept(v)
  BY ListsStay DEF IInv, poolVars, contextVars
<1>4. UNCHANGED <<recorded, lost, fence, status, staging, cmd>>
  BY DEF poolVars, deviceVars, contextVars
<1>5. \A v \in Upload : Apart(v)
  BY <1>4 DEF Apart
<1>6. \A v \in Async \ {u} : AsyncApart(v)
  BY <1>4 DEF AsyncApart
<1>7. answer'[u] = "success" => status'[u] = "Completed"
  BY <1>4 DEF IInv, SuccessMeansCompleted
<1>8. OnGpu(u) => Stays(u)
  BY <1>0, <1>2, <1>3 DEF Stays
<1>9. QED
  BY <1>0, <1>1, <1>2, <1>3, <1>4, <1>5, <1>6, <1>7, <1>8, <1>a, QuietStep

\* The worker begins the first task of an upload.
LEMMA BeginCreateTaskKeeps ==
  ASSUME IInv, NEW u \in Async, BeginCreateTask(u) PROVE IInv'
<1>0. /\ createTask[u] # NoTask /\ WorkerEx!Start(createTask[u]) /\ UNCHANGED <<createTask, finishTask>>
      /\ worker' = [at |-> "begin", upload |-> u, wasCancelled |-> FALSE]
      /\ UNCHANGED <<poolVars, call, operations, contextVars, cancelling, gpuQueue, cleanups, answer, content>>
  BY DEF BeginCreateTask
<1>1. /\ Tasks' /\ worker.at = "idle" /\ Queued(u) /\ ~Handed(u)
      /\ ~Queued(u)' /\ ~Handed(u)'
      /\ \A v \in Async \ {u} : TaskKept(v)
  BY <1>0, TaskStarts DEF IInv
<1>2. \A v \in Async \ {u} : ~Working(v) /\ ~Working(v)'
  BY <1>0, <1>1 DEF Working, WorkerAt, CreateLines, FinishLines
<1>3. AsyncAt(u)'
  <2>1. \A S \in {Unanswered, HasBuffer, HasList, HasFence, {"woken", "cleanup"}, {"answering"}} : ~WorkerAt(u, S)
    BY <1>1 DEF WorkerAt, Unanswered, CreateLines, HasBuffer, HasList, HasFence
  <2>2. AsyncTrue(u)
    BY DEF IInv
  <2>3. /\ answer[u] = "pending" /\ staging[u] = NoBuffer /\ cmd[u] = NoList /\ fence[u] = "none"
        /\ call[u] = "returned" /\ (content[u] = NoData \/ u \in lost)
    BY <1>0, <1>1, <2>1, <2>2 DEF AsyncTrue
  <2>4. QED
    BY <1>0, <2>3 DEF AsyncAt, poolVars, deviceVars, contextVars, Unanswered, CreateLines, HasBuffer, HasList, HasFence
<1>4. AtWork(u)'
  BY <1>0, <1>1 DEF AtWork
<1>5. AsyncTrue(u)'
  BY <1>3, <1>4, AsyncAtWorkNext
<1>6. QED
  BY <1>0, <1>1, <1>2, <1>5, TaskStep

\* The worker begins the second task of an upload.
LEMMA BeginFinishTaskKeeps ==
  ASSUME IInv, NEW u \in Async, BeginFinishTask(u) PROVE IInv'
<1>0. /\ finishTask[u] # NoTask /\ WorkerEx!Start(finishTask[u]) /\ UNCHANGED <<createTask, finishTask>>
      /\ worker' = [at |-> "waiting", upload |-> u, wasCancelled |-> FALSE]
      /\ UNCHANGED <<poolVars, call, operations, contextVars, cancelling, gpuQueue, cleanups, answer, content>>
  BY DEF BeginFinishTask
<1>1. /\ Tasks' /\ worker.at = "idle" /\ Handed(u) /\ ~Queued(u) /\ createTask[u] # NoTask
      /\ ~Queued(u)' /\ ~Handed(u)'
      /\ \A v \in Async \ {u} : TaskKept(v)
  <2>1. finishTask[u] # createTask[u]
    BY <1>0 DEF IInv, Tasks, TasksOwned
  <2>2. QED
    BY <1>0, <2>1, TaskStarts DEF IInv
<1>2. \A v \in Async \ {u} : ~Working(v) /\ ~Working(v)'
  BY <1>0, <1>1 DEF Working, WorkerAt, CreateLines, FinishLines
<1>3. AsyncAt(u)'
  <2>1. \A S \in {Unanswered, HasBuffer, HasList, HasFence, {"woken", "cleanup"}, {"answering"}} : ~WorkerAt(u, S)
    BY <1>1 DEF WorkerAt, Unanswered, CreateLines, HasBuffer, HasList, HasFence
  <2>2. AsyncTrue(u)
    BY DEF IInv
  <2>3. /\ answer[u] = "pending" /\ staging[u] # NoBuffer /\ cmd[u] # NoList /\ fence[u] # "none"
        /\ call[u] = "returned"
        /\ fence[u] = "never" => u \in lost
        /\ fence[u] = "signaled" => content[u] = u \/ u \in lost
        /\ content[u] # NoData => u \in lost \/ fence[u] = "signaled"
    BY <1>0, <1>1, <2>1, <2>2 DEF AsyncTrue
  <2>4. QED
    BY <1>0, <2>3 DEF AsyncAt, poolVars, deviceVars, contextVars, Unanswered, CreateLines, HasBuffer, HasList, HasFence
<1>4. AtWork(u)'
  BY <1>0, <1>1 DEF AtWork
<1>5. AsyncTrue(u)'
  BY <1>3, <1>4, AsyncAtWorkNext
<1>6. QED
  BY <1>0, <1>1, <1>2, <1>5, TaskStep

\* The upload goes from the worker's hands into the queue again.
LEMMA SubmitFinishTaskKeeps ==
  ASSUME IInv, NEW u \in Async, worker.upload = u, SubmitFinishTask PROVE IInv'
<1>0. /\ worker.at = "handOver" /\ UNCHANGED createTask /\ worker' = [worker EXCEPT !.at = "return"]
      /\ UNCHANGED <<poolVars, call, operations, contextVars, cancelling, gpuQueue, cleanups, answer, content>>
  BY DEF SubmitFinishTask, At
<1>1. /\ Tasks' /\ ~Queued(u)' /\ Handed(u)' /\ createTask[u] # NoTask
      /\ \A v \in Async \ {u} : TaskKept(v)
  BY <1>0, FinishAccepted DEF IInv, SubmitFinishTask
<1>2. /\ worker'.at = "return" /\ worker'.upload = u
  BY <1>0, Typed
<1>3. \A v \in Async \ {u} : ~Working(v) /\ ~Working(v)'
  BY <1>0, <1>1, <1>2 DEF Working, WorkerAt
<1>4. AsyncTrue(u)'
  <2>1. AsyncAt(u)
    BY <1>0, WorkersUpload DEF CreateLines
  <2>2. /\ answer[u] = "pending" /\ staging[u] # NoBuffer /\ cmd[u] # NoList /\ fence[u] # "none"
        /\ call[u] = "returned"
        /\ fence[u] = "never" => u \in lost
        /\ fence[u] = "signaled" => content[u] = u \/ u \in lost
        /\ content[u] # NoData => u \in lost \/ fence[u] = "signaled"
    BY <1>0, <1>1, <2>1 DEF AsyncAt, Unanswered, CreateLines, HasBuffer, HasList, HasFence
  <2>3. QED
    BY <1>0, <1>1, <1>2, <2>2 DEF AsyncTrue, WorkerAt, poolVars, deviceVars, contextVars
<1>5. QED
  BY <1>0, <1>1, <1>3, <1>4, TaskStep

\* The worker is idle again.
LEMMA EndTaskKeeps ==
  ASSUME IInv, NEW u \in Async, worker.upload = u, EndTask PROVE IInv'
<1>0. /\ worker.at = "return" /\ UNCHANGED <<createTask, finishTask>> /\ worker' = [worker EXCEPT !.at = "idle"]
      /\ UNCHANGED <<poolVars, call, operations, contextVars, cancelling, gpuQueue, cleanups, answer, content>>
  BY DEF EndTask, At
<1>1. Tasks' /\ \A v \in Async : TaskKept(v)
  BY <1>0, TaskEnds DEF IInv, EndTask
<1>2. worker'.at = "idle"
  BY <1>0, Typed
<1>3. \A v \in Async : ~Working(v) /\ ~Working(v)'
  BY <1>0, <1>2 DEF Working, WorkerAt, CreateLines, FinishLines
<1>4. AsyncTrue(u)'
  <2>1. Apart(u) /\ AsyncApart(u)
    BY <1>0, <1>1, <1>3 DEF Apart, AsyncApart, poolVars, deviceVars, contextVars
  <2>2. QED
    BY <2>1, AsyncElsewhere DEF IInv
<1>5. QED
  BY <1>0, <1>1, <1>3, <1>4, TaskStep

-----------------------------------------------------------------------------
(* The callers *)

\* A call that is refused.
LEMMA RefuseKeeps ==
  ASSUME IInv, NEW u \in Upload, Refuse(u) PROVE IInv'
<1>0. /\ call[u] = "none" /\ call' = [call EXCEPT ![u] = "returned"]
      /\ answer' = [answer EXCEPT ![u] = "failure"]
      /\ UNCHANGED <<poolVars, operations, contextVars, taskVars, worker, cancelling,
                     gpuQueue, cleanups, content>>
  BY DEF Refuse, Tell
<1>1. /\ UNCHANGED <<stagingVars, listVars, recorded, backend, lost>>
      /\ UNCHANGED <<staging, cmd, fence, status, contexts, cancelled>> /\ DeviceKept
  BY <1>0 DEF poolVars, deviceVars, contextVars, DeviceKept
<1>2. /\ call'[u] = "returned" /\ answer'[u] = "failure"
      /\ \A v \in Upload \ {u} : call'[v] = call[v] /\ answer'[v] = answer[v]
  BY <1>0, Typed
<1>3. RestTyped'
  BY <1>0, <1>1 DEF IInv, RestTyped, Service!TypeOK, CallState
<1>4. Buffers' /\ \A v \in Upload : BufferKept(v)
  BY <1>1, BuffersStay DEF IInv
<1>5. Lists' /\ GoneStay /\ \A v \in Upload : ListKept(v)
  BY <1>1, ListsStay DEF IInv
<1>6. Tasks' /\ \A v \in Async : TaskKept(v)
  BY <1>0, TasksStay DEF IInv
<1>7. u \in Async => AsyncTrue(u)'
  <2> SUFFICES ASSUME u \in Async PROVE AsyncTrue(u)'
    OBVIOUS
  <2>1. AsyncTrue(u)
    BY DEF IInv
  <2>2. \A S : WorkerAt(u, S)' <=> WorkerAt(u, S)
    BY <1>0 DEF WorkerAt
  <2>3. createTask' = createTask /\ content' = content /\ worker' = worker
    BY <1>0 DEF taskVars
  <2>4. QED
    BY <1>0, <1>1, <1>2, <1>6, <2>1, <2>2, <2>3 DEF AsyncTrue, TaskKept
<1>8. u \notin Async => /\ SyncTrue(u)' /\ call[u] # "submitted" /\ call'[u] # "submitted"
                         /\ ~OnGpu(u)
  BY <1>0, <1>1, <1>2 DEF SyncTrue, IInv, QueueTrue
<1>9. \A v \in Upload \ {u} : Apart(v)
  BY <1>0, <1>1, <1>2 DEF Apart
<1>10. \A v \in Async \ {u} : AsyncApart(v)
  BY <1>0, <1>1, <1>6 DEF AsyncApart
<1>11. OnGpu(u) => Stays(u)
  BY <1>4, <1>5, <1>8 DEF Stays
<1>12. QED
  BY <1>0, <1>1, <1>2, <1>3, <1>4, <1>5, <1>6, <1>7, <1>8, <1>9, <1>10, <1>11, QuietStep

\* A call that starts an asynchronous upload.
LEMMA CreateAsyncKeeps ==
  ASSUME IInv, NEW u \in Upload, CreateAsync(u) PROVE IInv'
<1>0. /\ u \in Async /\ call[u] = "none" /\ call' = [call EXCEPT ![u] = "returned"]
      /\ answer' = [answer EXCEPT ![u] = "pending"]
      /\ UNCHANGED <<poolVars, status, cancelled, staging, cmd, fence, finishTask, worker,
                     cancelling, gpuQueue, cleanups, content>>
  BY DEF CreateAsync, Tell
<1>1. UNCHANGED <<stagingVars, listVars, recorded, backend, lost>> /\ DeviceKept
  BY <1>0 DEF poolVars, deviceVars, DeviceKept
<1>2. /\ call'[u] = "returned" /\ answer'[u] = "pending"
      /\ \A v \in Upload \ {u} : call'[v] = call[v] /\ answer'[v] = answer[v]
  BY <1>0, Typed
<1>3. RestTyped'
  BY <1>0, <1>1 DEF IInv, RestTyped, Service!TypeOK, CallState, CreateAsync
<1>4. Buffers' /\ \A v \in Upload : BufferKept(v)
  BY <1>0, <1>1, BuffersStay DEF IInv
<1>5. Lists' /\ GoneStay /\ \A v \in Upload : ListKept(v)
  BY <1>0, <1>1, ListsStay DEF IInv
<1>6. AsyncTrue(u) /\ createTask[u] = NoTask
  BY <1>0 DEF IInv, AsyncTrue
<1>7. PICK t \in WorkerEx!TaskId : WorkerEx!Accept(t, 0) /\ createTask' = [createTask EXCEPT ![u] = t]
  BY DEF CreateAsync
<1>8. /\ Tasks' /\ Queued(u)' /\ ~Handed(u)' /\ createTask'[u] # NoTask
      /\ \A v \in Async \ {u} : TaskKept(v)
  BY <1>0, <1>6, <1>7, CreateAccepted DEF IInv
<1>9. ~Handed(u) /\ \A S : WorkerAt(u, S)' <=> WorkerAt(u, S)
  BY <1>0, <1>6 DEF IInv, Tasks, TasksOwned, Handed, WorkerAt
<1>10. AsyncTrue(u)'
  <2>1. ~WorkerAt(u, Unanswered) /\ answer[u] = "unasked"
    BY <1>0, <1>6 DEF AsyncTrue
  <2>2. ~WorkerAt(u, {"answering"}) /\ ~WorkerAt(u, {"cleanup", "answering"})
    BY <2>1 DEF WorkerAt, Unanswered
  <2>3. QED
    BY <1>0, <1>1, <1>2, <1>6, <1>8, <1>9, <2>1, <2>2 DEF AsyncTrue
<1>11. \A v \in Upload \ {u} : Apart(v)
  BY <1>0, <1>1, <1>2 DEF Apart
<1>12. \A v \in Async \ {u} : AsyncApart(v)
  BY <1>0, <1>8 DEF AsyncApart
<1>13. OnGpu(u) => Stays(u)
  BY <1>0, <1>4, <1>5 DEF Stays
<1>14. QED
  BY <1>0, <1>1, <1>2, <1>3, <1>4, <1>5, <1>8, <1>10, <1>11, <1>12, <1>13, QuietStep

\* A step of a synchronous call leaves the asynchronous uploads alone.
LEMMA SyncLeaves ==
  ASSUME IInv, NEW u \in Upload \ Async, UNCHANGED syncUnchanged,
         \A v \in Upload \ {u} : staging'[v] = staging[v] /\ cmd'[v] = cmd[v],
         \A v \in Upload \ {u} : call'[v] = call[v] /\ answer'[v] = answer[v],
         lost' = lost \/ lost' = lost \union {u}
  PROVE  /\ DeviceKept /\ Tasks' /\ \A v \in Upload \ {u} : Apart(v)
         /\ \A v \in Async \ {u} : AsyncApart(v)
<1>1. Tasks' /\ \A v \in Async : TaskKept(v)
  BY TasksStay DEF IInv, syncUnchanged
<1>2. DeviceKept /\ \A v \in Upload \ {u} : Apart(v)
  BY DEF Apart, syncUnchanged, DeviceKept
<1>3. \A v \in Async \ {u} : AsyncApart(v)
  BY <1>1 DEF AsyncApart, syncUnchanged
<1>4. QED
  BY <1>1, <1>2, <1>3

\* Only a synchronous upload has a call in progress.
LEMMA CallInProgress ==
  ASSUME IInv, NEW u \in Upload, call[u] \in {"staged", "listed", "submitted"}
  PROVE  /\ u \in Upload \ Async /\ SyncTrue(u) /\ answer[u] = "pending"
         /\ staging[u] # NoBuffer
<1>1. u \notin Async
  BY DEF IInv, AsyncTrue
<1>2. SyncTrue(u)
  BY <1>1 DEF IInv
<1>3. QED
  BY <1>1, <1>2 DEF SyncTrue

\* A synchronous call takes a buffer.
LEMMA CallSyncKeeps ==
  ASSUME IInv, NEW u \in Upload, CallSync(u) PROVE IInv'
<1>0. /\ u \in Upload \ Async /\ call[u] = "none" /\ call' = [call EXCEPT ![u] = "staged"]
      /\ answer' = [answer EXCEPT ![u] = "pending"]
      /\ UNCHANGED syncUnchanged /\ UNCHANGED <<created, destroyed, recorded, cmd, gpuQueue>>
  BY DEF CallSync, Tell
<1>1. SyncTrue(u) /\ staging[u] = NoBuffer /\ cmd[u] = NoList
  BY <1>0 DEF IInv, SyncTrue
<1>2. /\ call'[u] = "staged" /\ answer'[u] = "pending"
      /\ \A v \in Upload \ {u} : call'[v] = call[v] /\ answer'[v] = answer[v]
  BY <1>0, Typed
<1>3. PICK b \in Buffer : AllocateSucceeds(u, b) /\ staging' = [staging EXCEPT ![u] = b]
  BY DEF CallSync
<1>4. /\ BuffersTyped' /\ StagingExact'
      /\ staging'[u] = b /\ b # NoBuffer
      /\ b \in DOMAIN buffers_' /\ (buffers_'[b].data = u \/ u \in lost')
      /\ backend = "Vulkan" \/ u \in lost'
      /\ lost' = lost \/ lost' = lost \union {u}
      /\ \A v \in Upload \ {u} : BufferKept(v)
  BY <1>1, <1>3, AllocateKeeps DEF IInv, Buffers
<1>5. RestTyped'
  BY <1>0, <1>4 DEF IInv, RestTyped, Service!TypeOK, CallState, syncUnchanged
<1>6. Lists' /\ GoneStay /\ \A v \in Upload : ListKept(v)
  BY <1>0, ListsStay DEF IInv, syncUnchanged, listVars
<1>7. \A v \in Upload \ {u} : staging'[v] = staging[v] /\ cmd'[v] = cmd[v]
  BY <1>0, <1>4 DEF BufferKept
<1>8. /\ DeviceKept /\ Tasks' /\ \A v \in Upload \ {u} : Apart(v)
      /\ \A v \in Async \ {u} : AsyncApart(v)
  BY <1>0, <1>2, <1>4, <1>7, SyncLeaves
<1>9. Buffers'
  BY <1>4, <1>8, OwnDataKept DEF IInv
<1>10. SyncTrue(u)'
  BY <1>0, <1>1, <1>2, <1>4 DEF SyncTrue, syncUnchanged
<1>11. ~OnGpu(u)
  BY <1>0 DEF IInv, QueueTrue
<1>12. QED
  BY <1>0, <1>2, <1>4, <1>5, <1>6, <1>8, <1>9, <1>10, <1>11, QuietStep

\* A synchronous call creates a list.
LEMMA CreateListSyncKeeps ==
  ASSUME IInv, NEW u \in Upload, CreateListSync(u) PROVE IInv'
<1>0. /\ call[u] = "staged" /\ call' = [call EXCEPT ![u] = "listed"]
      /\ UNCHANGED syncUnchanged /\ UNCHANGED <<stagingVars, destroyed, recorded, lost, staging, gpuQueue, answer>>
  BY DEF CreateListSync
<1>1. u \in Upload \ Async /\ SyncTrue(u) /\ answer[u] = "pending" /\ staging[u] # NoBuffer
  BY <1>0, CallInProgress
<1>2. /\ call'[u] = "listed" /\ answer' = answer /\ cmd[u] = NoList
      /\ \A v \in Upload \ {u} : call'[v] = call[v]
  BY <1>0, <1>1, Typed DEF SyncTrue
<1>3. RestTyped'
  BY <1>0 DEF IInv, RestTyped, Service!TypeOK, CallState, syncUnchanged
<1>4. PICK l \in CommandList : CreateCommandList(l) /\ cmd' = [cmd EXCEPT ![u] = l]
  BY DEF CreateListSync
<1>5. Lists' /\ cmd'[u] = l /\ l # NoList /\ GoneStay /\ \A v \in Upload \ {u} : ListKept(v)
  <2>1. UNCHANGED <<available_, all_, destroyed>>
    BY <1>0 DEF syncUnchanged
  <2>2. QED
    BY <1>1, <1>2, <1>4, <2>1, CreateListKeeps DEF IInv
<1>7. \A v \in Upload \ {u} : staging'[v] = staging[v] /\ cmd'[v] = cmd[v]
  BY <1>0, <1>5 DEF ListKept
<1>8. /\ DeviceKept /\ Tasks' /\ \A v \in Upload \ {u} : Apart(v)
      /\ \A v \in Async \ {u} : AsyncApart(v)
  BY <1>0, <1>1, <1>2, <1>7, SyncLeaves
<1>6. Buffers' /\ \A v \in Upload : BufferKept(v)
  BY <1>0, <1>8, BuffersStay DEF IInv
<1>9. SyncTrue(u)'
  BY <1>0, <1>1, <1>2, <1>5 DEF SyncTrue, syncUnchanged
<1>10. ~OnGpu(u)
  BY <1>0, <1>1 DEF IInv, QueueTrue
<1>11. QED
  BY <1>0, <1>1, <1>2, <1>3, <1>5, <1>6, <1>8, <1>9, <1>10, QuietStep

\* A synchronous call gives its upload to the GPU.
LEMMA SubmitSyncKeeps ==
  ASSUME IInv, NEW u \in Upload, SubmitSync(u) PROVE IInv'
<1>0. /\ call[u] = "listed" /\ call' = [call EXCEPT ![u] = "submitted"]
      /\ UNCHANGED syncUnchanged /\ UNCHANGED <<stagingVars, created, destroyed, staging, cmd, answer>>
      /\ Record(cmd[u], staging[u], u)
  BY DEF SubmitSync
<1>a. PICK f \in FenceState : Submit(u, f)
  BY DEF SubmitSync
<1>1. u \in Upload \ Async /\ SyncTrue(u) /\ answer[u] = "pending" /\ staging[u] # NoBuffer
  BY <1>0, CallInProgress
<1>2. /\ call'[u] = "submitted" /\ answer' = answer /\ cmd[u] # NoList /\ content[u] = NoData
      /\ \A v \in Upload \ {u} : call'[v] = call[v]
  BY <1>0, <1>1, Typed DEF SyncTrue
<1>3. ~OnGpu(u)
  BY <1>0, <1>1 DEF IInv, QueueTrue
<1>4. UNCHANGED <<stagingVars, listVars, backend, staging, cmd, fence, content>>
  BY <1>0 DEF syncUnchanged, listVars
<1>5. /\ QueueTrue' /\ QueueSound' /\ gpuQueue' \in Seq(Submission)
      /\ recorded' \in [CommandList -> Recording]
      /\ lost' = lost \/ lost' = lost \union {u}
  BY <1>0, <1>1, <1>2, <1>3, <1>4, <1>a, Submitting
<1>6. RestTyped'
  BY <1>0, <1>5 DEF IInv, RestTyped, Service!TypeOK, CallState, syncUnchanged
<1>7. /\ DeviceKept /\ Tasks' /\ \A v \in Upload \ {u} : Apart(v)
      /\ \A v \in Async \ {u} : AsyncApart(v)
  BY <1>0, <1>1, <1>2, <1>4, <1>5, SyncLeaves
<1>8. Buffers' /\ Lists'
  BY <1>4, <1>7, BuffersStay, ListsStay DEF IInv
<1>9. SyncTrue(u)'
  BY <1>1, <1>2, <1>4 DEF SyncTrue
<1>10. QED
  BY <1>1, <1>5, <1>6, <1>7, <1>8, <1>9, OneUpload

\* A synchronous call returns; what it leaves on the GPU is lost.
LEMMA ReturnSyncKeeps ==
  ASSUME IInv, NEW u \in Upload \ Async, NEW a \in {"success", "failure"}, ReturnSync(u, a),
         call[u] \in {"staged", "listed", "submitted"},
         OnGpu(u) => u \in lost /\ a = "success"
  PROVE  IInv'
<1>0. /\ IF cmd[u] = NoList THEN UNCHANGED destroyed ELSE DestroyCommandList(cmd[u])
      /\ ReleaseStaging(staging[u]) /\ staging' = [staging EXCEPT ![u] = NoBuffer]
      /\ cmd' = [cmd EXCEPT ![u] = NoList]
      /\ call' = [call EXCEPT ![u] = "returned"] /\ answer' = [answer EXCEPT ![u] = a]
      /\ UNCHANGED syncUnchanged /\ UNCHANGED <<created, recorded, lost, gpuQueue>>
  BY DEF ReturnSync, Tell
<1>1. /\ call'[u] = "returned" /\ answer'[u] = a
      /\ \A v \in Upload \ {u} : call'[v] = call[v] /\ answer'[v] = answer[v]
  BY <1>0, Typed
<1>2. RestTyped'
  BY <1>0 DEF IInv, RestTyped, Service!TypeOK, CallState, syncUnchanged
<1>3. /\ BuffersTyped' /\ StagingExact' /\ staging'[u] = NoBuffer
      /\ \A v \in Upload \ {u} : BufferKept(v)
  BY <1>0, ReleaseKeeps DEF IInv, Buffers
<1>4. /\ Lists' /\ cmd'[u] = NoList /\ GoneStay
      /\ \A l : l = cmd[u] /\ l # NoList => Gone(l)'
      /\ \A v \in Upload \ {u} : ListKept(v)
  <2>1. UNCHANGED <<available_, all_, created>>
    BY <1>0 DEF syncUnchanged
  <2>2. QED
    BY <1>0, <2>1, DropListKeeps DEF IInv
<1>5. \A v \in Upload \ {u} : staging'[v] = staging[v] /\ cmd'[v] = cmd[v]
  BY <1>3, <1>4 DEF BufferKept, ListKept
<1>6. /\ DeviceKept /\ Tasks' /\ \A v \in Upload \ {u} : Apart(v)
      /\ \A v \in Async \ {u} : AsyncApart(v)
  BY <1>0, <1>1, <1>5, SyncLeaves
<1>7. Buffers'
  BY <1>3, <1>6, OwnDataKept DEF IInv
<1>8. SyncTrue(u) /\ SyncTrue(u)'
  BY <1>1, <1>3, <1>4 DEF SyncTrue, IInv
<1>9. OnGpu(u) => Stays(u)
  <2> SUFFICES ASSUME OnGpu(u) PROVE LeftBehind(u)
    BY DEF Stays
  <2>1. cmd[u] # NoList
    BY <1>8 DEF IInv, QueueTrue, SyncTrue
  <2>2. QED
    BY <1>1, <1>4, <2>1 DEF LeftBehind
<1>10. u \notin lost => ~(call[u] = "submitted" /\ content[u] = NoData)
  BY DEF IInv, QueueTrue
<1>11. QED
  BY <1>0, <1>1, <1>2, <1>3, <1>4, <1>6, <1>7, <1>8, <1>9, <1>10, QuietStep

\* A synchronous call fails before it has submitted anything.
LEMMA SyncFailsKeeps ==
  ASSUME IInv, NEW u \in Upload, SyncFails(u) PROVE IInv'
<1>1. u \in Upload \ Async /\ call[u] \in {"staged", "listed"}
  BY CallInProgress DEF SyncFails
<1>2. ~OnGpu(u)
  BY <1>1 DEF IInv, QueueTrue
<1>3. QED
  BY <1>1, <1>2, ReturnSyncKeeps DEF SyncFails

\* A synchronous call returns when the GPU has executed everything, or on Direct3D 12, where
\* its data is lost.
LEMMA WaitIdleKeeps ==
  ASSUME IInv, NEW u \in Upload, WaitIdle(u) PROVE IInv'
<1>1. /\ u \in Upload \ Async /\ call[u] = "submitted" /\ staging[u] # NoBuffer
      /\ gpuQueue = <<>> \/ backend = "D3D12"
  BY CallInProgress DEF WaitIdle
<1>2. OnGpu(u) => u \in lost
  BY <1>1, EmptySeq DEF OnGpu, IInv, Buffers, OwnData
<1>3. QED
  BY <1>1, <1>2, ReturnSyncKeeps DEF WaitIdle

-----------------------------------------------------------------------------
(* CancelOperation, the GPU, CleanupDevice *)

\* A step that changes no more than the flags and statuses of operations that are not Completed.
LEMMA CancelKeeps ==
  ASSUME IInv, RestTyped',
         UNCHANGED <<poolVars, call, staging, cmd, fence, taskVars, worker, gpuQueue, answer, content>>,
         \A v \in Async : status[v] = "Completed" => status'[v] = "Completed"
  PROVE  IInv'
<1>1. UNCHANGED <<stagingVars, listVars, recorded, lost>> /\ DeviceKept
  BY DEF poolVars, deviceVars, DeviceKept
<1>2. Buffers' /\ \A v \in Upload : BufferKept(v)
  BY <1>1, BuffersStay DEF IInv
<1>3. Lists' /\ GoneStay /\ \A v \in Upload : ListKept(v)
  BY <1>1, ListsStay DEF IInv
<1>4. Tasks' /\ \A v \in Async : TaskKept(v)
  BY TasksStay DEF IInv
<1>5. \A v \in Upload : Apart(v)
  BY <1>1 DEF Apart
<1>6. \A v \in Async : AsyncApart(v)
  BY <1>4 DEF AsyncApart
<1>7. PICK u \in Async : TRUE
  BY AsyncAssumption
<1>8. u \in Upload /\ AsyncTrue(u)'
  BY <1>5, <1>6, AsyncElsewhere, AsyncAssumption DEF IInv
<1>9. answer'[u] = "success" => status'[u] = "Completed"
  BY DEF IInv, SuccessMeansCompleted
<1>10. OnGpu(u) => Stays(u)
  BY <1>2, <1>3, <1>8 DEF Stays, Apart
<1>11. QED
  BY <1>1, <1>2, <1>3, <1>4, <1>5, <1>6, <1>8, <1>9, <1>10, QuietStep

\* The three steps of CancelOperation.
LEMMA CancellerKeeps ==
  ASSUME IInv, NEW u \in Async, Canceller(u) PROVE IInv'
<1>1. CASE FindContext(u)
  <2>1. RestTyped'
    BY <1>1 DEF FindContext, IInv, RestTyped, Service!TypeOK, poolVars, deviceVars, contextVars
  <2>2. QED
    BY <1>1, <2>1, CancelKeeps DEF FindContext, contextVars
<1>2. CASE SetCancelled(u)
  <2>1. RestTyped'
    BY <1>2 DEF SetCancelled, IInv, RestTyped, Service!TypeOK, poolVars, deviceVars
  <2>2. QED
    BY <1>2, <2>1, CancelKeeps DEF SetCancelled
<1>3. CASE StoreCancelled(u)
  <2>1. RestTyped'
    BY <1>3 DEF StoreCancelled, IInv, RestTyped, Service!TypeOK, poolVars, deviceVars, Status
  <2>2. \A v \in Async : status[v] = "Completed" => status'[v] = "Completed"
    BY <1>3, Typed DEF StoreCancelled
  <2>3. QED
    BY <1>3, <2>1, <2>2, CancelKeeps DEF StoreCancelled
<1>4. QED
  BY <1>1, <1>2, <1>3 DEF Canceller

\* The GPU executes the first submission.
LEMMA GpuExecutesKeeps ==
  ASSUME IInv, GpuExecutes PROVE IInv'
<1>1. PICK u \in Upload, data \in Upload \union {NoData} :
            /\ OnGpu(u) /\ content' = [content EXCEPT ![u] = data]
            /\ data = u \/ u \in lost
            /\ fence' = IF u \in Async /\ fence[u] = "unsignaled"
                        THEN [fence EXCEPT ![u] = "signaled"]
                        ELSE fence
            /\ gpuQueue' \in Seq(Submission) /\ QueueTrue' /\ QueueSound'
  BY QueuePop
<1>2. /\ UNCHANGED <<stagingVars, listVars, recorded, backend, lost>>
      /\ UNCHANGED <<staging, cmd, call, status, answer, taskVars, worker>> /\ DeviceKept
  BY DEF GpuExecutes, poolVars, deviceVars, DeviceKept
<1>3. /\ content'[u] = data /\ \A v \in Upload \ {u} : content'[v] = content[v]
      /\ u \in Async => fence'[u] = IF fence[u] = "unsignaled" THEN "signaled" ELSE fence[u]
      /\ \A v \in Async \ {u} : fence'[v] = fence[v]
  BY <1>1, Typed
<1>4. RestTyped'
  <2>1. content' \in [Upload -> Upload \union {NoData}]
    BY <1>1, Typed
  <2>2. fence' \in [Async -> FenceState]
    BY <1>1, Typed DEF FenceState
  <2>3. QED
    BY <1>1, <1>2, <2>1, <2>2 DEF GpuExecutes, IInv, RestTyped, Service!TypeOK
<1>5. Buffers' /\ Lists'
  BY <1>2, BuffersStay, ListsStay DEF IInv
<1>6. Tasks' /\ \A v \in Async : TaskKept(v)
  BY <1>2, TasksStay DEF IInv
<1>7. \A v \in Upload \ {u} : Apart(v)
  BY <1>2, <1>3 DEF Apart
<1>8. \A v \in Async \ {u} : AsyncApart(v)
  BY <1>2, <1>3, <1>6 DEF AsyncApart
<1>9. u \in Async => answer[u] = "pending"
  BY <1>1, OnGpuHolds
<1>10. u \in Async => AsyncTrue(u)'
  <2> SUFFICES ASSUME u \in Async PROVE AsyncTrue(u)'
    OBVIOUS
  <2>1. AsyncTrue(u) /\ fence[u] \in {"unsignaled", "never"}
    BY <1>1 DEF IInv, QueueTrue
  <2>2. \A S : WorkerAt(u, S)' <=> WorkerAt(u, S)
    BY <1>2 DEF WorkerAt
  <2>3. /\ createTask' = createTask
        /\ Queued(u)' <=> Queued(u)
        /\ Handed(u)' <=> Handed(u)
    BY <1>2, <1>6 DEF taskVars, TaskKept
  <2>4. answer'[u] = "pending"
    BY <1>2, <1>9
  <2>5. QED
    BY <1>1, <1>2, <1>3, <2>1, <2>2, <2>3, <2>4 DEF AsyncTrue
<1>11. u \notin Async => SyncTrue(u)'
  BY <1>1, <1>2, <1>3 DEF IInv, QueueTrue, SyncTrue
<1>12. u \in Async => answer'[u] # "success"
  BY <1>2, <1>9
<1>13. QED
  BY <1>1, <1>4, <1>5, <1>6, <1>7, <1>8, <1>10, <1>11, <1>12, OneUpload

\* While no caller waits, nothing is held, and the GPU has nothing of the asynchronous uploads.
LEMMA NothingHeld ==
  ASSUME IInv, NEW u \in Upload, answer[u] # "pending"
  PROVE  /\ staging[u] = NoBuffer /\ cmd[u] = NoList
         /\ OnGpu(u) => u \notin Async /\ call[u] = "returned"
<1>1. OnGpu(u) => u \notin Async /\ call[u] = "returned"
  BY OnGpuHolds
<1>2. CASE u \in Async
  <2>1. AsyncTrue(u)
    BY <1>2 DEF IInv
  <2>2. WorkerAt(u, HasBuffer) \/ WorkerAt(u, HasList) => WorkerAt(u, Unanswered)
    BY DEF WorkerAt, HasBuffer, HasList, Unanswered, CreateLines
  <2>3. QED
    BY <1>1, <2>1, <2>2 DEF AsyncTrue
<1>3. CASE u \notin Async
  BY <1>1, <1>3 DEF IInv, SyncTrue
<1>4. QED
  BY <1>2, <1>3

\* CleanupDevice takes nothing from anybody.
LEMMA CleanupDeviceKeeps ==
  ASSUME IInv, CleanupDevice PROVE IInv'
<1>1. \A u \in Upload : /\ staging[u] = NoBuffer /\ cmd[u] = NoList
                        /\ OnGpu(u) => u \notin Async /\ call[u] = "returned"
  BY NothingHeld DEF CleanupDevice
<1>2. /\ UNCHANGED <<call, staging, cmd, fence, status, taskVars, worker, gpuQueue, answer, content>>
      /\ UNCHANGED <<recorded, backend, lost>> /\ DeviceKept
  BY DEF CleanupDevice, contextVars, Clear, deviceVars, DeviceKept
<1>3. BuffersTyped' /\ StagingExact' /\ Lists' /\ GoneStay
  <2>1. \A u \in Async : cmd[u] = NoList
    BY <1>1, AsyncAssumption
  <2>2. QED
    BY <1>1, <1>2, <2>1, ClearKeeps DEF IInv, Buffers, CleanupDevice
<1>4. Buffers'
  BY <1>1, <1>2, <1>3 DEF Buffers, OwnData
<1>5. RestTyped'
  <2>1. cleanups' \in 0 .. MaxCleanups
    BY CleanupsAssumption DEF CleanupDevice, IInv, RestTyped
  <2>2. QED
    BY <1>2, <2>1 DEF CleanupDevice, contextVars, IInv, RestTyped, Service!TypeOK
<1>6. Tasks' /\ \A v \in Async : TaskKept(v)
  BY <1>2, TasksStay DEF IInv
<1>7. \A v \in Upload : Apart(v)
  BY <1>2 DEF Apart
<1>8. \A v \in Async : AsyncApart(v)
  BY <1>2, <1>6 DEF AsyncApart
<1>9. PICK u \in Async : TRUE
  BY AsyncAssumption
<1>10. u \in Upload /\ AsyncTrue(u)'
  BY <1>7, <1>8, AsyncElsewhere, AsyncAssumption DEF IInv
<1>11. QueueTrue' /\ QueueSound'
  <2>1. \A v \in Upload : Stays(v)
    BY <1>1, <1>2 DEF Stays, BufferKept, ListKept
  <2>2. \A v \in Upload \ Async : OnGpu(v) => call'[v] \in {"submitted", "returned"}
    BY <1>1, <1>2
  <2>3. QED
    BY <1>2, <1>3, <2>1, <2>2, QueueStays
<1>12. answer'[u] = "success" => status'[u] = "Completed"
  BY <1>2 DEF IInv, SuccessMeansCompleted
<1>13. QED
  BY <1>3, <1>4, <1>5, <1>6, <1>7, <1>8, <1>10, <1>11, <1>12, OneUpload

-----------------------------------------------------------------------------
(* The invariant, from the beginning and at every step *)

\* In the beginning nobody holds anything.
LEMMA InitInvariant == Init => IInv
<1> SUFFICES ASSUME Init PROVE IInv
  OBVIOUS
<1>0. /\ worker \in [at : WorkerState, upload : Async, wasCancelled : BOOLEAN]
      /\ worker.at = "idle"
  <2>1. PICK u \in Async : worker = [at |-> "idle", upload |-> u, wasCancelled |-> FALSE]
    <3>1. (CHOOSE u \in Async : TRUE) \in Async
      BY AsyncAssumption
    <3>2. QED
      BY <3>1 DEF Init
  <2>2. QED
    BY <2>1 DEF WorkerState
<1>1. /\ buffers_ = <<>> /\ currentTotalSize_ = 0 /\ available_ = <<>> /\ all_ = {} /\ created = 0
      /\ destroyed = [l \in CommandList |-> 0]
      /\ staging = [u \in Upload |-> NoBuffer] /\ cmd = [u \in Upload |-> NoList]
  BY DEF Init, InitPools
<1>2. Buffers
  <2>1. BuffersTyped
    BY <1>1, LimitsAssumption, EmptySeq DEF BuffersTyped
  <2>2. BuffersExact
    BY <1>1 DEF BuffersExact, InUse
  <2>3. StagingExact
    BY <2>1, <2>2, ExactBuffers
  <2>4. OwnData
    BY <1>1 DEF OwnData
  <2>5. QED
    BY <2>1, <2>3, <2>4 DEF Buffers
<1>3. Lists
  <2>1. ListsTyped
    BY <1>1, Uploads, EmptySeq DEF ListsTyped
  <2>2. \A l : ~Alive(l) /\ ~Idle(l)
    BY <1>1 DEF Alive, Idle, Range
  <2>3. \A l : ~HeldIn(l, Upload) /\ ~HeldIn(l, Upload \ Async)
    BY <1>1 DEF HeldIn
  <2>4. IsInjective(available_)
    BY <1>1 DEF IsInjective
  <2>5. ListsEach
    BY <1>1, <2>2, <2>3, <2>4 DEF ListsEach
  <2>6. FreshLists
    BY <1>1 DEF FreshLists
  <2>7. QED
    BY <2>1, <2>5, <2>6, ListsParts
<1>4. Tasks
  <2>1. /\ phase = [t \in 1 .. MaxTasks |-> "unused"] /\ priority = [t \in 1 .. MaxTasks |-> 0]
        /\ createTask = [u \in Async |-> NoTask] /\ finishTask = [u \in Async |-> NoTask]
    BY DEF Init, WorkerEx!Init, WorkerEx!TaskId
  <2>2. TasksTyped
    BY <1>0, <2>1, Uploads DEF TasksTyped, WorkerEx!Phase, NoTask
  <2>3. TasksOwned
    BY <1>0, <2>1 DEF TasksOwned, CreateLines, FinishLines
  <2>4. QED
    BY <2>2, <2>3 DEF Tasks
<1>5. /\ call = [u \in Upload |-> "none"] /\ answer = [u \in Upload |-> "unasked"]
      /\ content = [u \in Upload |-> NoData] /\ fence = [u \in Async |-> "none"]
      /\ createTask = [u \in Async |-> NoTask] /\ finishTask = [u \in Async |-> NoTask]
      /\ gpuQueue = <<>> /\ worker.at = "idle" /\ Async \subseteq Upload
      /\ backend \in Backend /\ lost = {}
  BY <1>0, AsyncAssumption DEF Init, InitPools, Service!Init
<1>6. RestTyped
  <2>1. recorded \in [CommandList -> Recording]
    <3>1. (CHOOSE u \in Upload : TRUE) \in Upload
      BY AsyncAssumption
    <3>2. QED
      BY <3>1 DEF Init, InitPools, Recording
  <2>2. gpuQueue \in Seq(Submission) /\ cleanups \in 0 .. MaxCleanups
    BY <1>5, CleanupsAssumption, EmptySeq DEF Init
  <2>3. QED
    BY <1>5, <2>1, <2>2 DEF Init, RestTyped, CallState, Status, FenceState, Service!TypeOK
<1>7. \A u \in Async : AsyncTrue(u)
  BY <1>1, <1>5 DEF AsyncTrue, Queued, Handed, WorkerAt, CreateLines, Unanswered, HasBuffer,
     HasList, HasFence
<1>8. \A u \in Upload \ Async : SyncTrue(u)
  BY <1>1, <1>5 DEF SyncTrue
<1>9. QueueTrue /\ QueueSound
  <2>1. Len(gpuQueue) = 0 /\ DOMAIN gpuQueue = {}
    BY <1>5
  <2>2. QED
    BY <1>5, <2>1 DEF QueueTrue, OnGpu, QueueSound
<1>10. SuccessMeansCompleted
  BY <1>5 DEF SuccessMeansCompleted
<1>11. QED
  BY <1>2, <1>3, <1>4, <1>6, <1>7, <1>8, <1>9, <1>10 DEF IInv

\* Every step of a caller.
LEMMA CallerKeeps ==
  ASSUME IInv, NEW u \in Upload, Caller(u) PROVE IInv'
BY RefuseKeeps, CreateAsyncKeeps, CallSyncKeeps, CreateListSyncKeeps, SubmitSyncKeeps,
   SyncFailsKeeps, WaitIdleKeeps DEF Caller

\* Every step of the worker.
LEMMA WorkerKeeps ==
  ASSUME IInv, Worker PROVE IInv'
<1>0. PICK u \in Async : worker.upload = u
  BY Typed
<1>1. CASE \E v \in Async : BeginCreateTask(v) \/ BeginFinishTask(v)
  BY <1>1, BeginCreateTaskKeeps, BeginFinishTaskKeeps
<1>2. CASE SeesCancelled
  BY <1>0, <1>2, GiveUpKeeps DEF SeesCancelled
<1>3. CASE AllocateStagingFails
  BY <1>0, <1>3, GiveUpKeeps DEF AllocateStagingFails
<1>4. CASE AcquireListFails
  BY <1>0, <1>4, GiveUpKeeps DEF AcquireListFails
<1>5. CASE SubmitFails
  BY <1>0, <1>5, GiveUpKeeps DEF SubmitFails
<1>6. CASE MarkUploading \/ AllocateStaging \/ AcquireList \/ SubmitCommandListAsync \/ MarkSubmitted
  BY <1>0, <1>6, MarkUploadingKeeps, AllocateStagingKeeps, AcquireListStepKeeps, SubmitListKeeps,
     MarkSubmittedKeeps
<1>7. CASE SubmitFinishTask \/ EndTask
  BY <1>0, <1>7, SubmitFinishTaskKeeps, EndTaskKeeps
<1>8. CASE FenceWait \/ StoreCompleted \/ Cleanup \/ Answer \/ UnregisterOperation \/ DeleteContext
  BY <1>0, <1>8, FenceWaitKeeps, StoreCompletedKeeps, CleanupKeeps, AnswerKeeps, UnregisterKeeps,
     DeleteContextKeeps
<1>9. QED
  BY <1>1, <1>2, <1>3, <1>4, <1>5, <1>6, <1>7, <1>8 DEF Worker

\* Every step.
LEMMA NextInvariant == IInv /\ [Next]_vars => IInv'
<1> SUFFICES ASSUME IInv, [Next]_vars PROVE IInv'
  OBVIOUS
<1>1. CASE \E u \in Upload : Caller(u)
  BY <1>1, CallerKeeps
<1>2. CASE Worker
  BY <1>2, WorkerKeeps
<1>3. CASE \E u \in Cancellable : Canceller(u)
  BY <1>3, CancellerKeeps, AsyncAssumption
<1>4. CASE GpuExecutes
  BY <1>4, GpuExecutesKeeps
<1>5. CASE CleanupDevice
  BY <1>5, CleanupDeviceKeeps
<1>6. CASE UNCHANGED vars
  <2>1. UNCHANGED <<poolVars, call, staging, cmd, fence, taskVars, worker, gpuQueue, answer, content>>
    BY <1>6 DEF vars, contextVars
  <2>2. UNCHANGED <<recorded, backend, lost, status, operations, contexts, cancelled, cancelling,
                    cleanups>>
    BY <1>6 DEF vars, contextVars, poolVars, deviceVars
  <2>3. RestTyped'
    BY <2>1, <2>2 DEF IInv, RestTyped, Service!TypeOK
  <2>4. QED
    BY <2>1, <2>2, <2>3, CancelKeeps
<1>7. QED
  BY <1>1, <1>2, <1>3, <1>4, <1>5, <1>6 DEF Next

\* What each upload holds follows from where its call or the worker is, one task runs at a
\* time, and the GPU's queue has the uploads with an unsignaled fence and the synchronous
\* ones that are submitted: the invariant behind everything that follows.
THEOREM InductiveInvariant == Spec => []IInv
BY InitInvariant, NextInvariant, PTL DEF Spec

\* The invariant says more than UploadsSound.
LEMMA InvariantSound == IInv => UploadsSound
<1> SUFFICES ASSUME IInv PROVE UploadsSound
  OBVIOUS
<1>1. PoolsTypeOK
  BY DEF IInv, Buffers, BuffersTyped, Lists, ListsTyped, RestTyped, PoolsTypeOK,
     Service!TypeOK
<1>2. WorkerEx!TypeOK
  BY DEF IInv, Tasks, TasksTyped, WorkerEx!TypeOK, WorkerEx!TaskId
<1>3. TypeOK
  BY <1>1, <1>2, Typed DEF TypeOK, IInv, RestTyped
<1>4. InFlightUntouched
  BY DEF IInv, QueueSound, Untouched, Leftover, InFlightUntouched
<1>5. QED
  BY <1>3, <1>4 DEF IInv, Buffers, Lists, UploadsSound

\* No staging buffer and no command list is lost or given to two uploads, on any early
\* return, at any failure of the device and at any moment of a cancellation; the GPU
\* executes every list as its upload recorded it, from a buffer with that upload's data
\* unless the device has lost it; and a callback that says success comes after the status Completed.
THEOREM UploadsAlwaysSound == Spec => []UploadsSound
BY InductiveInvariant, InvariantSound, PTL

-----------------------------------------------------------------------------
(* The uploads are UploadService *)

\* The upload at which the worker is waits for its answer.
LEMMA WorkersAnswer ==
  ASSUME IInv, NEW u \in Async, worker.upload = u, worker.at \in CreateLines \cup {"answering"}
  PROVE  /\ answer[u] = "pending" /\ u \in Upload
         /\ worker.at = "answering" => content[u] = u \/ u \in lost
         /\ worker.at \in {"uploading", "acquired"} => content[u] = NoData \/ u \in lost
<1>1. worker.at \in CreateLines \cup FinishLines
  BY DEF FinishLines
<1>2. AsyncAt(u)
  BY <1>1, WorkersUpload
<1>3. QED
  BY <1>2, AsyncAssumption DEF AsyncAt, Unanswered, HasBuffer, HasList, HasFence

\* An early return is a failure of the service.
LEMMA GiveUpFails ==
  ASSUME IInv, NEW s, GiveUp(s), worker.at \in {"begin", "uploading", "staged", "acquired"}
  PROVE  Service!Next
<1>0. PICK u \in Async : worker.upload = u
  BY Typed
<1>1. answer[u] = "pending" /\ u \in Upload
  BY <1>0, WorkersAnswer DEF CreateLines
<1>2. Service!Fail(u)
  BY <1>0, <1>1 DEF GiveUp, Tell, Service!Fail, deviceVars
<1>3. QED
  BY <1>1, <1>2 DEF Service!Next

\* What may be lost is lost by the service too.
LEMMA LossIsLose ==
  ASSUME NEW u \in Upload, answer[u] = "pending", content[u] = NoData \/ u \in lost,
         UNCHANGED <<answer, content>>, lost' = lost \/ lost' = lost \union {u}
  PROVE  [Service!Next]_(Service!vars)
<1>1. CASE u \in lost \/ lost' = lost
  BY <1>1 DEF Service!vars
<1>2. CASE u \notin lost /\ lost' = lost \union {u}
  <2>1. Service!Lose(u)
    BY <1>2 DEF Service!Lose
  <2>2. QED
    BY <2>1 DEF Service!Next
<1>3. QED
  BY <1>1, <1>2

\* Of submissions only the loss is seen.
LEMMA SubmitLoses ==
  ASSUME NEW u, NEW f, Submit(u, f)
  PROVE  lost' = lost \/ lost' = lost \union {u}
BY DEF Submit, Enqueue, ExecuteAtOnce, Drop, Lose

\* And of the allocation of a buffer.
LEMMA AllocateLoses ==
  ASSUME NEW u \in Upload, NEW b, AllocateSucceeds(u, b)
  PROVE  lost' = lost \/ lost' = lost \union {u}
BY UpdateLoses DEF AllocateSucceeds, Reuse, CreateStaging

\* Every step is one of the service or changes nothing its callers see.
LEMMA StepRefines == IInv /\ [Next]_vars => [Service!Next]_(Service!vars)
<1> SUFFICES ASSUME IInv, [Next]_vars PROVE [Service!Next]_(Service!vars)
  OBVIOUS
<1>1. CASE \E u \in Upload : Caller(u)
  <2> PICK u \in Upload : Caller(u)
    BY <1>1
  <2>0. call[u] = "none" => answer[u] = "unasked"
    BY DEF IInv, AsyncTrue, SyncTrue
  <2>1. CASE Refuse(u)
    BY <2>0, <2>1 DEF Refuse, Tell, Service!Next, Service!Refuse, poolVars, deviceVars
  <2>2. CASE CreateAsync(u)
    <3>1. Service!Request(u)
      BY <2>0, <2>2 DEF CreateAsync, Tell, Service!Request, poolVars, deviceVars
    <3>2. QED
      BY <3>1 DEF Service!Next
  <2>3. CASE CallSync(u)
    <3>1. lost' \in {lost, lost \union {u}}
      BY <2>3, AllocateLoses DEF CallSync
    <3>2. Service!Request(u)
      BY <2>0, <2>3, <3>1 DEF CallSync, Tell, syncUnchanged, Service!Request
    <3>3. QED
      BY <3>2 DEF Service!Next
  <2>4. CASE CreateListSync(u)
    BY <2>4 DEF CreateListSync, syncUnchanged, Service!vars
  <2>5. CASE SubmitSync(u)
    <3>1. answer[u] = "pending" /\ content[u] = NoData
      BY <2>5, CallInProgress DEF SubmitSync, SyncTrue
    <3>2. UNCHANGED <<answer, content>> /\ (lost' = lost \/ lost' = lost \union {u})
      BY <2>5, SubmitLoses DEF SubmitSync, syncUnchanged
    <3>3. QED
      BY <3>1, <3>2, LossIsLose
  <2>6. CASE SyncFails(u)
    <3>1. answer[u] = "pending"
      BY <2>6, CallInProgress DEF SyncFails
    <3>2. Service!Fail(u)
      BY <2>6, <3>1 DEF SyncFails, ReturnSync, Tell, syncUnchanged, Service!Fail
    <3>3. QED
      BY <3>2 DEF Service!Next
  <2>7. CASE WaitIdle(u)
    <3>1. answer[u] = "pending" /\ u \in Upload \ Async /\ SyncTrue(u) /\ staging[u] # NoBuffer
      BY <2>7, CallInProgress DEF WaitIdle
    <3>2. content[u] = u \/ u \in lost
      <4>1. CASE backend = "D3D12"
        BY <3>1, <4>1 DEF IInv, Buffers, OwnData
      <4>2. CASE gpuQueue = <<>>
        <5>1. ~OnGpu(u)
          BY <4>2, EmptySeq DEF OnGpu
        <5>2. QED
          BY <2>7, <3>1, <5>1 DEF WaitIdle, SyncTrue, IInv, QueueTrue
      <4>3. QED
        BY <2>7, <4>1, <4>2 DEF WaitIdle
    <3>3. Service!Succeed(u)
      BY <2>7, <3>1, <3>2 DEF WaitIdle, ReturnSync, Tell, syncUnchanged, Service!Succeed
    <3>4. QED
      BY <3>3 DEF Service!Next
  <2>8. QED
    BY <2>1, <2>2, <2>3, <2>4, <2>5, <2>6, <2>7 DEF Caller
<1>2. CASE Worker
  <2>0. PICK u \in Async : worker.upload = u
    BY Typed
  <2>1. CASE SeesCancelled \/ AllocateStagingFails \/ AcquireListFails \/ SubmitFails
    BY <2>1, GiveUpFails DEF SeesCancelled, AllocateStagingFails, AcquireListFails, SubmitFails
  <2>2. CASE Answer
    <3>1. answer[u] = "pending" /\ u \in Upload /\ (content[u] = u \/ u \in lost)
      BY <2>0, <2>2, WorkersAnswer DEF Answer
    <3>2. Service!Succeed(u) \/ Service!Fail(u)
      BY <2>0, <2>2, <3>1 DEF Answer, Tell, Service!Succeed, Service!Fail, poolVars, deviceVars
    <3>3. QED
      BY <3>1, <3>2 DEF Service!Next
  <2>3. CASE AllocateStaging
    <3>1. answer[u] = "pending" /\ u \in Upload /\ (content[u] = NoData \/ u \in lost)
      BY <2>0, <2>3, WorkersAnswer DEF AllocateStaging, CreateLines
    <3>2. UNCHANGED <<answer, content>> /\ (lost' = lost \/ lost' = lost \union {u})
      BY <2>0, <2>3, <3>1, AllocateLoses DEF AllocateStaging
    <3>3. QED
      BY <3>1, <3>2, LossIsLose
  <2>4. CASE SubmitCommandListAsync
    <3>1. answer[u] = "pending" /\ u \in Upload /\ (content[u] = NoData \/ u \in lost)
      BY <2>0, <2>4, WorkersAnswer DEF SubmitCommandListAsync, CreateLines
    <3>2. UNCHANGED <<answer, content>> /\ (lost' = lost \/ lost' = lost \union {u})
      BY <2>0, <2>4, SubmitLoses DEF SubmitCommandListAsync
    <3>3. QED
      BY <3>1, <3>2, LossIsLose
  <2>5. CASE \/ \E v \in Async : BeginCreateTask(v) \/ BeginFinishTask(v)
             \/ MarkUploading \/ AcquireList \/ MarkSubmitted \/ SubmitFinishTask \/ EndTask
             \/ FenceWait \/ StoreCompleted \/ Cleanup \/ UnregisterOperation \/ DeleteContext
    BY <2>5 DEF BeginCreateTask, BeginFinishTask, MarkUploading, AcquireList, MarkSubmitted,
       SubmitFinishTask, EndTask, FenceWait, StoreCompleted, Cleanup, UnregisterOperation,
       DeleteContext, poolVars, deviceVars, Service!vars
  <2>6. QED
    BY <1>2, <2>1, <2>2, <2>3, <2>4, <2>5 DEF Worker
<1>3. CASE \E u \in Cancellable : Canceller(u)
  BY <1>3 DEF Canceller, FindContext, SetCancelled, StoreCancelled, poolVars, deviceVars, Service!vars
<1>4. CASE GpuExecutes
  <2>1. PICK u \in Upload, data \in Upload \union {NoData} :
            /\ OnGpu(u) /\ content' = [content EXCEPT ![u] = data]
            /\ data = u \/ u \in lost
    BY <1>4, QueuePop
  <2>2. answer' = answer /\ lost' = lost
    BY <1>4 DEF GpuExecutes, poolVars, deviceVars
  <2>3. CASE u \in lost
    <3>1. Service!Spoil(u, data)
      BY <2>1, <2>2, <2>3 DEF Service!Spoil
    <3>2. QED
      BY <3>1 DEF Service!Next
  <2>4. CASE u \notin lost
    <3>1. answer[u] = "pending" /\ content[u] = NoData /\ data = u
      BY <2>1, <2>4, OnGpuHolds
    <3>2. Service!Copy(u)
      BY <2>1, <2>2, <3>1 DEF Service!Copy
    <3>3. QED
      BY <3>2 DEF Service!Next
  <2>5. QED
    BY <2>3, <2>4
<1>5. CASE CleanupDevice
  BY <1>5 DEF CleanupDevice, Clear, deviceVars, Service!vars
<1>6. CASE UNCHANGED vars
  BY <1>6 DEF vars, poolVars, deviceVars, Service!vars
<1>7. QED
  BY <1>1, <1>2, <1>3, <1>4, <1>5, <1>6 DEF Next

\* The callers see what UploadService promises: one answer for each request, success only
\* with the caller's own data in the GPU object, and no copy after the answer, on every
\* backend, except to the uploads whose own data the device has lost.
THEOREM UploadsImplementService == Spec => ImplementsUploads
<1>1. Init => Service!Init
  BY DEF Init, InitPools, Service!Init
<1>2. QED
  BY <1>1, InductiveInvariant, StepRefines, PTL DEF Spec, ImplementsUploads, Service!Spec

=============================================================================
