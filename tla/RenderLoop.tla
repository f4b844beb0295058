------------------------------ MODULE RenderLoop ------------------------------
(***************************************************************************)
(* The frame loop: RenderPipelineImpl and PipelineContext                  *)
(* (TenEngine-020-pipeline) over SubmitContext (TenEngine-019-pipeline-    *)
(* core) and the fences of the backends (TenEngine-008-rhi).               *)
(*                                                                         *)
(* One thread renders frame after frame, with RenderFrame, with            *)
(* TickPipeline, or with TriggerRender and then TickPipeline.  A frame     *)
(* waits for the fence of its slot, records, submits, signals the slot,    *)
(* presents, and advances the submission, which waits for the oldest fence *)
(* of every queue.  The GPU completes submissions in order.                *)
(* The D3D12 backend is left out: its fences are never set at creation.    *)
(***************************************************************************)
EXTENDS Naturals, Sequences

CONSTANTS Backend,             \* the backends, of "Vulkan" and "D3D11"
          MaxFramesInFlight,   \* RenderingConfig::maxFramesInFlight
          KMaxFramesInFlight,  \* kMaxFramesInFlight of SubmitContext
          HasGraph,            \* whether a frame graph has been set
          MaxFrames            \* bound: frames that are rendered

VARIABLES backend,
          pc,             \* what the rendering thread does next
          call,           \* the call that is running
          currentPhase,   \* RenderPipelineImpl::currentPhase_
          frameIndex,     \* frameIndex_
          slotFences,     \* slotFences_, each set or not
          frameFences,    \* QueueData::frameFences, for each queue
          currentFrame,   \* SubmitContext::Impl::currentFrame
          pending,        \* pendingCommands of the graphics queue: how many
          gpu             \* fences of the submissions that the GPU has not
                          \* completed, NoFence for none

loop == <<pc, call, currentPhase, frameIndex>>
vars == <<backend, loop, slotFences, frameFences, currentFrame, pending, gpu>>

Queues == {"Graphics", "Compute", "Copy"}
Slots == 0..MaxFramesInFlight - 1
Frames == 0..KMaxFramesInFlight - 1
NoFence == KMaxFramesInFlight

\* Fences are created signaled: by InitFrameFences and by InitQueues.
Init ==
    /\ backend \in Backend
    /\ pc = "idle"
    /\ call = "RenderFrame"
    /\ currentPhase = "Idle"
    /\ frameIndex = 0
    /\ slotFences = [s \in Slots |-> TRUE]
    /\ frameFences = [q \in Queues |-> [i \in Frames |-> TRUE]]
    /\ currentFrame = 0
    /\ pending = 0
    /\ gpu = <<>>

Slot == frameIndex % MaxFramesInFlight

-----------------------------------------------------------------------------
(* The caller *)

RenderFrame ==
    /\ pc = "idle" /\ currentPhase = "Idle" /\ frameIndex < MaxFrames
    /\ pc' = "waitForSlot"
    /\ call' = "RenderFrame"
    /\ UNCHANGED <<backend, currentPhase, frameIndex, slotFences, frameFences, currentFrame, pending, gpu>>

\* TriggerRender returns once the frame has begun, and TickPipeline takes it
\* from there.
TriggerRender ==
    /\ pc = "idle" /\ currentPhase = "Idle" /\ frameIndex < MaxFrames
    /\ pc' = "waitForSlot"
    /\ call' = "TriggerRender"
    /\ UNCHANGED <<backend, currentPhase, frameIndex, slotFences, frameFences, currentFrame, pending, gpu>>

TickPipeline ==
    /\ pc = "idle" /\ frameIndex < MaxFrames
    /\ pc' = IF currentPhase = "Idle" THEN "waitForSlot" ELSE "record"
    /\ call' = "TickPipeline"
    /\ UNCHANGED <<backend, currentPhase, frameIndex, slotFences, frameFences, currentFrame, pending, gpu>>

-----------------------------------------------------------------------------
(* A frame *)

\* IFence::Wait and Reset in one step: both kinds of fence are not set after it.
WaitForSlot ==
    /\ pc = "waitForSlot"
    /\ slotFences[Slot]
    /\ slotFences' = [slotFences EXCEPT ![Slot] = FALSE]
    /\ currentPhase' = IF call = "RenderFrame" THEN currentPhase ELSE "BuildPipeline"
    /\ pc' = IF call = "TriggerRender" THEN "idle" ELSE "record"
    /\ UNCHANGED <<backend, call, frameIndex, frameFences, currentFrame, pending, gpu>>

\* From BuildLogicalPipeline to ExecutePasses, which records one command list
\* if there is a frame graph, and EndCommandList.
ExecutePasses ==
    /\ pc = "record"
    /\ pending' = IF HasGraph THEN pending + 1 ELSE pending
    /\ pc' = "submit"
    /\ UNCHANGED <<backend, call, currentPhase, frameIndex, slotFences, frameFences, currentFrame, gpu>>

\* SubmitQueue: the last command list carries the fence, which D3D11 signals at
\* once and Vulkan when the list has completed.
SubmitQueue ==
    /\ pc = "submit"
    /\ pc' = "signalSlot"
    /\ pending' = 0
    /\ gpu' = gpu \o [i \in 1..pending |->
                        IF i = pending /\ backend = "Vulkan" THEN currentFrame ELSE NoFence]
    /\ frameFences' = IF pending > 0 /\ backend = "D3D11"
                      THEN [frameFences EXCEPT !["Graphics"][currentFrame] = TRUE]
                      ELSE frameFences
    /\ UNCHANGED <<backend, call, currentPhase, frameIndex, slotFences, currentFrame>>

\* SignalSlot: IFence::Signal sets the event of a D3D11 fence; FenceVulkan's
\* does nothing.
SignalSlot ==
    /\ pc = "signalSlot"
    /\ slotFences' = IF backend = "D3D11" THEN [slotFences EXCEPT ![Slot] = TRUE] ELSE slotFences
    /\ pc' = "Graphics"
    /\ UNCHANGED <<backend, call, currentPhase, frameIndex, frameFences, currentFrame, pending, gpu>>

OldestFrame == (currentFrame + 1) % KMaxFramesInFlight

AfterQueue == [Graphics |-> "Compute", Compute |-> "Copy", Copy |-> "endFrame"]

\* EndFrame, AdvanceFrame: waits for the oldest fence of queue q and resets it.
AdvanceFrame(q) ==
    /\ pc = q
    /\ frameFences[q][OldestFrame]
    /\ frameFences' = [frameFences EXCEPT ![q][OldestFrame] = FALSE]
    /\ pc' = AfterQueue[q]
    /\ UNCHANGED <<backend, call, currentPhase, frameIndex, slotFences, currentFrame, pending, gpu>>

EndFrame ==
    /\ pc = "endFrame"
    /\ currentFrame' = OldestFrame
    /\ frameIndex' = frameIndex + 1
    /\ currentPhase' = "Idle"
    /\ pc' = "idle"
    /\ UNCHANGED <<backend, call, slotFences, frameFences, pending, gpu>>

-----------------------------------------------------------------------------
(* The GPU *)

Complete ==
    /\ gpu # <<>>
    /\ gpu' = Tail(gpu)
    /\ frameFences' = IF Head(gpu) = NoFence THEN frameFences
                      ELSE [frameFences EXCEPT !["Graphics"][Head(gpu)] = TRUE]
    /\ UNCHANGED <<backend, loop, slotFences, currentFrame, pending>>

\* Every frame that was asked for has been rendered.
Finished ==
    /\ pc = "idle" /\ frameIndex = MaxFrames
    /\ UNCHANGED vars

Step ==
    \/ WaitForSlot
    \/ ExecutePasses
    \/ SubmitQueue
    \/ SignalSlot
    \/ \E q \in Queues : AdvanceFrame(q)
    \/ EndFrame

Next == RenderFrame \/ TriggerRender \/ TickPipeline \/ Step \/ Complete \/ Finished

\* The thread goes on when it can and the GPU completes what was submitted.
Spec == Init /\ [][Next]_vars /\ WF_vars(Step) /\ WF_vars(Complete)

-----------------------------------------------------------------------------

\* A call to render returns: no frame waits for a fence that nothing will
\* signal (RenderPipelineImpl::WaitForSlot, SubmitContext::AdvanceFrame).
CallsReturn == pc # "idle" ~> pc = "idle"
===============================================================================
