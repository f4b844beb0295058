----------------------------- MODULE UploadPools -----------------------------
(***************************************************************************)
(* The per-device pools of TenEngine-030-device-resource-manager:          *)
(* StagingBufferManager (src/StagingBufferManager.cpp), CommandListPool    *)
(* (src/CommandListPool.cpp) and the command lists an IDevice creates.     *)
(*                                                                         *)
(* Every operation of a pool holds that pool's mutex from beginning to     *)
(* end, so each is one action, used by DeviceUpload.  The operations of    *)
(* the device may fail whenever they are called.  Where one fails without  *)
(* saying so, the upload it was for is in the history lost.                *)
(***************************************************************************)
EXTENDS Integers, Sequences, FiniteSets, FiniteSetsExt, SequencesExt, Functions

CONSTANTS Upload,         \* the uploads: each needs a staging buffer and a list
          Size,           \* the bytes of each upload's data
          MaxTotalSize,   \* StagingBufferManager::maxTotalSize_
          MaxPoolSize,    \* CommandListPool::maxSize_
          NoData,         \* what a new object of the device holds
          MaxLost         \* bound: uploads a Vulkan device loses

ASSUME UploadAssumption == IsFiniteSet(Upload)
ASSUME SizeAssumption == Size \in [Upload -> Nat \ {0}]
ASSUME LimitsAssumption == MaxTotalSize \in Nat /\ MaxPoolSize \in Nat /\ MaxLost \in Nat
ASSUME NoDataAssumption == NoData \notin Upload

Backend == {"Vulkan", "D3D11", "D3D12"}

NoBuffer == 0     \* nullptr
NoList == 0
CommandList == 1 .. Cardinality(Upload)
Buffer == 1 .. Cardinality(Upload)

VARIABLES buffers_,           \* StagingBufferManager::buffers_; a buffer is its index
          currentTotalSize_,  \* StagingBufferManager::currentTotalSize_
          available_, all_,   \* CommandListPool: its queue and its vector, as a set
          created,            \* how many command lists the device has created
          destroyed,          \* how often each has been destroyed
          recorded,           \* the copy each command list holds
          backend,            \* the device's, from SelectBackend
          lost                \* history: the uploads whose data the device drops

stagingVars == <<buffers_, currentTotalSize_>>
listVars == <<available_, all_, created, destroyed>>
deviceVars == <<recorded, backend, lost>>
poolVars == <<stagingVars, listVars, deviceVars>>

BufferEntry == [size : Nat, inUse : BOOLEAN, data : Upload \union {NoData}]
Recording == [from : Buffer \union {NoBuffer}, to : Upload]

PoolsTypeOK ==
    /\ buffers_ \in Seq(BufferEntry)
    /\ currentTotalSize_ \in 0 .. MaxTotalSize
    /\ available_ \in Seq(CommandList)
    /\ all_ \subseteq CommandList
    /\ created \in 0 .. Cardinality(Upload)
    /\ destroyed \in [CommandList -> 0 .. 2]
    /\ recorded \in [CommandList -> Recording]
    /\ backend \in Backend
    /\ lost \subseteq Upload

InitPools ==
    /\ buffers_ = <<>>
    /\ currentTotalSize_ = 0
    /\ available_ = <<>>
    /\ all_ = {}
    /\ created = 0
    /\ destroyed = [l \in CommandList |-> 0]
    /\ recorded = [l \in CommandList |-> [from |-> NoBuffer, to |-> CHOOSE u \in Upload : TRUE]]
    /\ backend \in Backend
    /\ lost = {}

Alive(l) == l \in 1 .. created /\ destroyed[l] = 0

-----------------------------------------------------------------------------
(* StagingBufferManager *)

Fitting(u) == {b \in DOMAIN buffers_ : ~buffers_[b].inUse /\ buffers_[b].size >= Size[u]}

\* The device drops u's data.
MayLose(u) == backend = "Vulkan" => Cardinality(lost \union {u}) <= MaxLost
Lose(u) == MayLose(u) /\ lost' = lost \union {u}

\* IDevice::UpdateBuffer, of a buffer that held something, leaves it with data.  It
\* answers nothing.  The map of a staging buffer fails on Direct3D, whose staging
\* buffers the CPU cannot reach, and may fail on Vulkan: the buffer is as it was.
UpdateBuffer(u, held, data) ==
    \/ backend = "Vulkan" /\ data = u /\ UNCHANGED lost
    \/ data = held /\ Lose(u)

\* Slip: takes the first buffer that is large enough.
ReuseInUse(u, b) ==
    /\ \E c \in DOMAIN buffers_ : buffers_[c].size >= Size[u]
    /\ b = Min({c \in DOMAIN buffers_ : buffers_[c].size >= Size[u]})
    /\ \E data \in {u, buffers_[b].data} :
          /\ UpdateBuffer(u, buffers_[b].data, data)
          /\ buffers_' = [buffers_ EXCEPT ![b].inUse = TRUE, ![b].data = data]
    /\ UNCHANGED currentTotalSize_

\* Allocate and the copy of u's data into the buffer (AllocateAndCopyStagingBuffer):
\* the first idle buffer that is large enough, or a new one within the limit.
Reuse(u, b) ==
    /\ Fitting(u) # {}
    /\ b = Min(Fitting(u))
    /\ \E data \in {u, buffers_[b].data} :
          /\ UpdateBuffer(u, buffers_[b].data, data)
          /\ buffers_' = [buffers_ EXCEPT ![b].inUse = TRUE, ![b].data = data]
    /\ UNCHANGED currentTotalSize_

CreateStaging(u, b) ==
    /\ Fitting(u) = {}
    /\ currentTotalSize_ + Size[u] <= MaxTotalSize
    /\ b = Len(buffers_) + 1
    /\ \E data \in {u, NoData} :
          /\ UpdateBuffer(u, NoData, data)
          /\ buffers_' = Append(buffers_, [size |-> Size[u], inUse |-> TRUE, data |-> data])
    /\ currentTotalSize_' = currentTotalSize_ + Size[u]

AllocateSucceeds(u, b) == Reuse(u, b) \/ CreateStaging(u, b)

\* Over the limit, or the device has no buffer to give.
AllocateFails(u) == Fitting(u) = {} /\ UNCHANGED stagingVars

Released(b) == IF b = NoBuffer THEN buffers_ ELSE [buffers_ EXCEPT ![b].inUse = FALSE]

ReleaseStaging(b) == buffers_' = Released(b) /\ UNCHANGED currentTotalSize_

-----------------------------------------------------------------------------
(* The device's command lists, and CommandListPool *)

CreateCommandList(l) == l = created + 1 /\ created' = l

DestroyCommandList(l) == destroyed' = [destroyed EXCEPT ![l] = @ + 1]

Acquire(l) ==
    \/ /\ available_ # <<>>
       /\ l = Head(available_)
       /\ available_' = Tail(available_)
       /\ UNCHANGED <<all_, created, destroyed>>
    \/ /\ available_ = <<>>
       /\ CreateCommandList(l)
       /\ all_' = all_ \union {l}
       /\ UNCHANGED <<available_, destroyed>>

AcquireFails == available_ = <<>> /\ UNCHANGED listVars

\* A list that was recorded and submitted, or only acquired, goes back; a full
\* pool destroys it.
ReleaseList(l) ==
    \/ l = NoList /\ UNCHANGED listVars
    \/ /\ l # NoList
       /\ Len(available_) < MaxPoolSize
       /\ available_' = Append(available_, l)
       /\ UNCHANGED <<all_, created, destroyed>>
    \/ /\ l # NoList
       /\ Len(available_) >= MaxPoolSize
       /\ DestroyCommandList(l)
       /\ all_' = all_ \ {l}
       /\ UNCHANGED <<available_, created>>

Record(l, b, u) == recorded' = [recorded EXCEPT ![l] = [from |-> b, to |-> u]]

\* ~DeviceResources: both managers' Clear.  CommandListPool::Clear destroys what
\* is in the queue and then everything in all_, which holds the same lists.
Clear ==
    /\ buffers_' = <<>>
    /\ currentTotalSize_' = 0
    /\ available_' = <<>>
    /\ all_' = {}
    /\ destroyed' = [l \in CommandList |->
                       destroyed[l] + (IF l \in Range(available_) THEN 1 ELSE 0)
                                    + (IF l \in all_ THEN 1 ELSE 0)]
    /\ UNCHANGED <<created, deviceVars>>

=============================================================================
