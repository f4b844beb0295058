--------------------------- MODULE GraphicsDevice ---------------------------
(***************************************************************************)
(* The devices of 008 for Vulkan, D3D11 and D3D12 (TenEngine-008-rhi/src/  *)
(* vulkan/device_vulkan.cpp, d3d11/device_d3d11.cpp and                    *)
(* d3d12/device_d3d12.cpp).  A device creates objects that own objects of  *)
(* its API.  A creation is a series of calls any of which may fail; on     *)
(* Vulkan the path of each failure gives back, by hand, what the calls     *)
(* before it took.                                                         *)
(*                                                                         *)
(* API objects, and references to those of D3D11, are counted by their     *)
(* kind, which is the member of its owner that holds one: one given back   *)
(* that was not taken makes a count too small, one forgotten too large.    *)
(***************************************************************************)
EXTENDS Integers, Sequences, FiniteSets, FiniteSetsExt

CONSTANTS List,         \* command lists
          Handle,       \* addresses of other objects
          MaxLost,      \* bound: API objects that lose their owner
          MaxSets       \* maxSets of the two descriptor pools

ASSUME DeviceAssumption ==
    IsFiniteSet(List) /\ IsFiniteSet(Handle) /\ MaxLost \in Nat /\ MaxSets \in Nat

VARIABLES api,          \* that of the device, or "none"
          objects,      \* the device's objects alive: their type and what they give back
          lists,        \* the command lists alive and their state
          lost,         \* per kind, API objects alive that no object owns
          live          \* per kind, how many API objects are alive

deviceVars == <<api, objects, lists, lost, live>>

-----------------------------------------------------------------------------
(* What creations take and destructors give back *)

\* A call, the API objects it takes and those its failure gives back.
Call(takes, gives) == [takes |-> takes, gives |-> gives]

DeviceCalls ==
    << Call({"instance"}, {}),
       Call({}, {"instance"}),   \* no physical device
       Call({"device"}, {"instance"}),
       Call({"commandPool"}, {"device", "instance"}),
       Call({"setLayout"}, {"commandPool", "device", "instance"}),
       Call({"listPool"}, {"setLayout", "commandPool", "device", "instance"}),
       Call({"dynamicPool"}, {"listPool", "setLayout", "commandPool", "device", "instance"}),
       Call({"pipelineLayout"}, {"dynamicPool", "listPool", "setLayout", "commandPool",
                                 "device", "instance"}),
       Call({"renderPass"}, {"pipelineLayout", "dynamicPool", "listPool", "setLayout",
                             "commandPool", "device", "instance"}) >>

BufferCalls ==
    << Call({"buffer"}, {}),
       Call({}, {"buffer"}),     \* no type of memory
       Call({"memory"}, {"buffer"}),
       Call({}, {"memory", "buffer"}) >>

\* Slip: the failure of the view forgets the memory.
TextureCallsForgetful ==
    << Call({"image"}, {}),
       Call({}, {"image"}),
       Call({"memory"}, {"image"}),
       Call({}, {"memory", "image"}),
       Call({"imageView"}, {"image"}) >>

TextureCalls ==
    << Call({"image"}, {}),
       Call({}, {"image"}),      \* no type of memory
       Call({"memory"}, {"image"}),
       Call({}, {"memory", "image"}),
       Call({"imageView"}, {"image", "memory"}) >>

\* A failure deletes the half-made PSO, which gives back what it has.
ModuleCalls(layout) ==
    << Call({"vertModule"}, layout),
       Call({"fragModule"}, layout \cup {"vertModule"}),
       Call({"pipeline"}, layout \cup {"vertModule", "fragModule"}) >>

\* With the caller's layout of descriptor sets, or the pipeline layout of the device.
PSOCalls == <<Call({"pipelineLayout"}, {})>> \o ModuleCalls({"pipelineLayout"})
DefaultPSOCalls == ModuleCalls({})

\* No pipeline is made.
ComputePSOCalls == <<Call({"computeModule"}, {})>>

CommandListCalls == <<Call({"commandBuffer"}, {}), Call({"listSet"}, {"commandBuffer"})>>

RenderPassCalls == <<Call({"renderPass"}, {})>>
SetLayoutCalls == <<Call({"setLayout"}, {})>>
DescriptorSetCalls == <<Call({"dynamicSet"}, {})>>

\* Objects made with one call that takes one API object.
OneCall(kind) == <<Call({kind}, {})>>

\* What an object is made with: calls that must succeed, API objects it does without
\* when their calls fail, and its destructor, which passes over those it has not.
Made(calls, optional, gives) == [calls |-> calls, optional |-> optional, gives |-> gives]

VulkanBuffer == Made(BufferCalls, {}, {"buffer", "memory"})
VulkanTexture == Made(TextureCalls, {}, {"imageView", "image", "memory"})
VulkanPSO == Made(PSOCalls, {}, {"pipeline", "pipelineLayout", "vertModule", "fragModule"})
VulkanDefaultPSO == Made(DefaultPSOCalls, {}, {"pipeline", "vertModule", "fragModule"})
VulkanDevice ==
    Made(DeviceCalls, {}, {"renderPass", "commandPool", "pipelineLayout", "dynamicPool",
                           "listPool", "setLayout", "device", "instance"})
VulkanList == Made(CommandListCalls, {}, {"commandBuffer"})
VulkanSampler == Made(OneCall("sampler"), {}, {"sampler"})
VulkanFence == Made(OneCall("fence"), {}, {"fence"})
VulkanSemaphore == Made(OneCall("semaphore"), {}, {"semaphore"})
VulkanSwapChain == VulkanTexture

\* What the device can create, and how.
Row(type, made) == [type |-> type, made |-> made]

Vulkan ==
    {Row("buffer", VulkanBuffer), Row("texture", VulkanTexture), Row("sampler", VulkanSampler),
     Row("pso", VulkanPSO), Row("defaultPso", VulkanDefaultPSO),
     Row("computePso", Made(ComputePSOCalls, {}, {"computeModule"})),
     Row("renderPass", Made(RenderPassCalls, {}, {"renderPass"})),
     Row("fence", VulkanFence), Row("semaphore", VulkanSemaphore),
     Row("swapChain", VulkanSwapChain),
     Row("setLayout", Made(SetLayoutCalls, {}, {"setLayout"})),
     Row("descriptorSet", Made(DescriptorSetCalls, {}, {"dynamicSet"}))}

\* D3D11: the failures of views, shaders and states leave the object without them.
D3D11Device == Made(<<Call({"device", "context"}, {})>>, {}, {"context", "device"})
D3D11List == Made(OneCall("deferredContext"), {}, {"deferredContext"})
D3D11Buffer == Made(OneCall("buffer"), {}, {"buffer"})
D3D11Texture == Made(OneCall("texture2D"), {"dsv", "rtv"}, {"dsv", "rtv", "texture2D"})
D3D11Sampler == Made(OneCall("sampler"), {}, {"sampler"})

D3D11State == {"vertexShader", "pixelShader", "blendState", "depthStencilState", "rasterizerState"}
D3D11PSO == Made(<<>>, D3D11State, D3D11State)

D3D11ComputePSO == Made(OneCall("computeShader"), {}, {"computeShader"})
D3D11Fence == Made(OneCall("event"), {}, {"event"})
D3D11SwapChain ==
    Made(OneCall("texture2D") \o <<Call({"rtv"}, {"texture2D"})>>, {}, {"rtv", "texture2D"})

\* A layout is a description, and a set begins with nothing bound.
D3D11SetLayout == Made(<<>>, {}, {})
D3D11DescriptorSet == Made(<<>>, {}, {})

D3D11 ==
    {Row("buffer", D3D11Buffer), Row("texture", D3D11Texture), Row("sampler", D3D11Sampler),
     Row("pso", D3D11PSO), Row("computePso", D3D11ComputePSO), Row("fence", D3D11Fence),
     Row("swapChain", D3D11SwapChain), Row("setLayout", D3D11SetLayout),
     Row("descriptorSet", D3D11DescriptorSet)}

\* D3D12: smart pointers hold all but the event of a fence; samplers and PSOs own nothing.
D3D12Device ==
    Made(<< Call({"device"}, {}), Call({"queue"}, {"device"}),
            Call({}, {"queue", "device"}),     \* the signature is not serialized
            Call({"rootSignature"}, {"queue", "device"}) >>,
         {}, {"rootSignature", "queue", "device"})
D3D12List ==
    Made(OneCall("allocator") \o <<Call({"list"}, {"allocator"})>>, {}, {"allocator", "list"})
D3D12Buffer == Made(OneCall("resource"), {}, {"resource"})
D3D12Texture == Made(OneCall("resource"), {}, {"resource"})
D3D12Sampler == Made(<<>>, {}, {})
D3D12PSO == Made(<<>>, {}, {})
D3D12Fence ==
    Made(OneCall("fence") \o <<Call({"event"}, {"fence"})>>, {}, {"event", "fence"})
D3D12Semaphore == Made(OneCall("fence"), {}, {"fence"})

D3D12 ==
    {Row("buffer", D3D12Buffer), Row("texture", D3D12Texture), Row("sampler", D3D12Sampler),
     Row("pso", D3D12PSO), Row("computePso", D3D12PSO), Row("fence", D3D12Fence),
     Row("semaphore", D3D12Semaphore), Row("swapChain", D3D12Texture)}

Api == {"vulkan", "d3d11", "d3d12"}

Devices == [a \in Api |-> CASE a = "vulkan" -> VulkanDevice [] a = "d3d11" -> D3D11Device
                             [] a = "d3d12" -> D3D12Device]
Lists == [a \in Api |-> CASE a = "vulkan" -> VulkanList [] a = "d3d11" -> D3D11List
                           [] a = "d3d12" -> D3D12List]
Objects == [a \in Api |-> CASE a = "vulkan" -> Vulkan [] a = "d3d11" -> D3D11
                             [] a = "d3d12" -> D3D12]

\* Sets of Vulkan go with their pool.
PoolKind == {"listSet", "dynamicSet"}

\* What comes after the creation.
LaterKind == {"framebuffer", "recordedList", "bufferRef", "samplerRef", "srv"}

\* What the calls before the one numbered i take.
TakenBefore(calls, i) == UNION {calls[j].takes : j \in 1 .. i - 1}

Taken(made) == TakenBefore(made.calls, Len(made.calls) + 1)

Kind == LaterKind \cup UNION {Taken(made) \cup made.optional :
            made \in UNION {{Devices[a], Lists[a]} \cup {row.made : row \in Objects[a]} : a \in Api}}

One(k, kinds) == IF k \in kinds THEN 1 ELSE 0

Change(takes, gives) == [k \in Kind |-> live[k] + One(k, takes) - One(k, gives)]

\* The calls one by one; the one at failed fails, or none does, and of the optional
\* ones those in extra succeed.
Succeeds(made, failed) == failed > Len(made.calls)

Make(made, failed, extra) ==
    IF Succeeds(made, failed) THEN Change(Taken(made) \cup extra, {})
                              ELSE Change(TakenBefore(made.calls, failed), made.calls[failed].gives)

GivesBack(made, extra) == made.gives \ (made.optional \ extra)

-----------------------------------------------------------------------------

ListState == [recording : BOOLEAN, recorded : BOOLEAN, inRenderPass : BOOLEAN,
              hasFramebuffer : BOOLEAN, subpass : Nat, subpassCount : Nat]

NewList == [recording |-> FALSE, recorded |-> FALSE, inRenderPass |-> FALSE,
            hasFramebuffer |-> FALSE, subpass |-> 0, subpassCount |-> 1]

NoList == [l \in {} |-> NewList]

Object(t, gives) == [type |-> t, gives |-> gives]

NoObject == [h \in {} |-> Object("none", {})]

DeviceInit ==
    /\ api = "none"
    /\ objects = NoObject
    /\ lists = NoList
    /\ lost = [k \in Kind |-> 0]
    /\ live = [k \in Kind |-> 0]

CreateDevice ==
    /\ api = "none"
    /\ \E a \in Api : \E failed \in 1 .. Len(Devices[a].calls) + 1 :
          /\ live' = Make(Devices[a], failed, {})
          /\ api' = IF Succeeds(Devices[a], failed) THEN a ELSE "none"
    /\ UNCHANGED <<objects, lists, lost>>

\* The owner has destroyed the objects before, as the API requires; what is left
\* of sets goes with the pools.
DestroyDevice ==
    /\ api # "none"
    /\ DOMAIN objects = {} /\ DOMAIN lists = {}
    /\ api' = "none"
    /\ live' = [k \in Kind |-> IF k \in PoolKind THEN 0 ELSE Change({}, Devices[api].gives)[k]]
    /\ UNCHANGED <<objects, lists, lost>>

\* An object comes, or one becomes another, or one goes.
Put(h, o) == objects' = [g \in DOMAIN objects \cup {h} |-> IF g = h THEN o ELSE objects[g]]
Drop(h) == objects' = [g \in DOMAIN objects \ {h} |-> objects[g]]

Has(t) == \E h \in DOMAIN objects : objects[h].type = t

\* The create functions of the device, AllocateDescriptorSet included.  What a
\* backend has no objects for is not in its table.
CreateObject(h, t, made) ==
    /\ h \notin DOMAIN objects
    /\ t = "descriptorSet" => Has("setLayout")
    /\ \E failed \in 1 .. Len(made.calls) + 1, extra \in SUBSET made.optional :
          /\ t = "descriptorSet" /\ Succeeds(made, failed) => live["dynamicSet"] < MaxSets
          /\ live' = Make(made, failed, extra)
          /\ IF Succeeds(made, failed) THEN Put(h, Object(t, GivesBack(made, extra)))
                                       ELSE UNCHANGED objects
    /\ UNCHANGED <<api, lists, lost>>

\* Vulkan's pool of descriptor sets was not made to take single sets back.
DestroyObject(h) ==
    /\ Drop(h)
    /\ \/ live' = Change({}, objects[h].gives)
       \/ api = "vulkan" /\ objects[h].type = "descriptorSet" /\ UNCHANGED live
    /\ UNCHANGED <<api, lists, lost>>

AllLost == MapThenSumSet(LAMBDA k : lost[k], Kind)
Lose(k) == /\ AllLost < MaxLost
           /\ lost' = [lost EXCEPT ![k] = @ + 1]

\* The view is handed out as a number; nothing destroys it.  Only Vulkan makes one.
CreateView ==
    /\ api = "vulkan"
    /\ Has("texture")
    /\ Lose("imageView")
    /\ live' = Change({"imageView"}, {})
    /\ UNCHANGED <<api, objects, lists>>

-----------------------------------------------------------------------------
(* Descriptor sets of D3D11, with one binding: it holds references *)

Bindings == {"srv", "bufferRef", "samplerRef"}
Bound(kinds) == Object("descriptorSet", kinds)

D3D11Sets == {h \in DOMAIN objects : api = "d3d11" /\ objects[h].type = "descriptorSet"}

\* Slip: the reference is not counted.
BindUncounted(h, k) ==
    /\ Has(IF k = "bufferRef" THEN "buffer" ELSE "sampler")
    /\ Put(h, Bound(objects[h].gives \cup {k}))
    /\ IF k \in objects[h].gives THEN Lose(k) ELSE UNCHANGED lost
    /\ UNCHANGED <<api, lists, live>>

\* A buffer or a sampler: the binding forgets the reference it had.
Bind(h, k) ==
    /\ Has(IF k = "bufferRef" THEN "buffer" ELSE "sampler")
    /\ Put(h, Bound(objects[h].gives \cup {k}))
    /\ IF k \in objects[h].gives THEN Lose(k) ELSE UNCHANGED lost
    /\ live' = Change({k}, {})
    /\ UNCHANGED <<api, lists>>

\* A texture: the old view is released, the new one may fail.
BindTexture(h) ==
    /\ Has("texture")
    /\ \E made \in SUBSET {"srv"} :
          /\ Put(h, Bound((objects[h].gives \ {"srv"}) \cup made))
          /\ live' = Change(made, objects[h].gives \cap {"srv"})
    /\ UNCHANGED <<api, lists, lost>>

UpdateDescriptorSet(h) == Bind(h, "bufferRef") \/ Bind(h, "samplerRef") \/ BindTexture(h)

-----------------------------------------------------------------------------
(* Command lists *)

CreateCommandList(l) ==
    /\ api # "none"
    /\ l \notin DOMAIN lists
    /\ \E failed \in 1 .. Len(Lists[api].calls) + 1 :
          /\ Succeeds(Lists[api], failed) => live["listSet"] < MaxSets
          /\ live' = Make(Lists[api], failed, {})
          /\ lists' = IF Succeeds(Lists[api], failed)
                      THEN [k \in DOMAIN lists \cup {l} |-> IF k = l THEN NewList ELSE lists[k]]
                      ELSE lists
    /\ UNCHANGED <<api, objects, lost>>

Recorded(l) == IF lists[l].recorded THEN {"recordedList"} ELSE {}

\* Its descriptor set stays in the pool.  The framebuffer of an open pass would
\* be lost, but no caller destroys a list there.
DestroyCommandList(l) ==
    /\ ~lists[l].inRenderPass
    /\ lists' = [k \in DOMAIN lists \ {l} |-> lists[k]]
    /\ live' = Change({}, Lists[api].gives \cup Recorded(l))
    /\ UNCHANGED <<api, objects, lost>>

Set(l, state) == lists' = [lists EXCEPT ![l] = state]

\* D3D11 drops what was recorded, even while it records.
BeginList(l) ==
    /\ lists[l].recording => api = "d3d11"
    /\ Set(l, [lists[l] EXCEPT !.recording = TRUE, !.recorded = FALSE])
    /\ live' = Change({}, Recorded(l))
    /\ UNCHANGED <<api, objects, lost>>

\* The callers end the pass first, which the API requires.  On D3D11 what was
\* recorded becomes an object, or fails to.
EndList(l) ==
    /\ lists[l].recording
    /\ ~lists[l].inRenderPass
    /\ \E made \in BOOLEAN :
          /\ made => api = "d3d11"
          /\ Set(l, [lists[l] EXCEPT !.recording = FALSE, !.recorded = made])
          /\ live' = Change(IF made THEN {"recordedList"} ELSE {}, {})
    /\ UNCHANGED <<api, objects, lost>>

\* With the framebuffer of an open pass nothing happens; its creation may fail.
\* D3D11 and D3D12 only bind the targets of a pass.
BeginRenderPass(l, count) ==
    /\ api = "vulkan"
    /\ lists[l].recording
    /\ ~lists[l].hasFramebuffer
    /\ \E made \in BOOLEAN :
          /\ Set(l, [lists[l] EXCEPT !.subpass = 0, !.subpassCount = count,
                                     !.hasFramebuffer = made, !.inRenderPass = made])
          /\ live' = Change(IF made THEN {"framebuffer"} ELSE {}, {})
    /\ UNCHANGED <<api, objects, lost>>

NextSubpass(l) ==
    /\ lists[l].recording /\ lists[l].inRenderPass
    /\ lists[l].subpass + 1 < lists[l].subpassCount
    /\ Set(l, [lists[l] EXCEPT !.subpass = @ + 1])
    /\ UNCHANGED <<api, objects, lost, live>>

EndRenderPass(l) ==
    /\ lists[l].recording /\ lists[l].inRenderPass
    /\ Set(l, [lists[l] EXCEPT !.inRenderPass = FALSE, !.subpass = 0, !.subpassCount = 1,
                               !.hasFramebuffer = FALSE])
    /\ live' = Change({}, IF lists[l].hasFramebuffer THEN {"framebuffer"} ELSE {})
    /\ UNCHANGED <<api, objects, lost>>

DeviceNext ==
    \/ CreateDevice \/ DestroyDevice
    \/ /\ api # "none"
       /\ \E h \in Handle, row \in Objects[api] : CreateObject(h, row.type, row.made)
    \/ \E h \in DOMAIN objects : DestroyObject(h)
    \/ \E h \in D3D11Sets : UpdateDescriptorSet(h)
    \/ CreateView
    \/ \E l \in List : CreateCommandList(l)
    \/ \E l \in DOMAIN lists :
          \/ DestroyCommandList(l)
          \/ BeginList(l) \/ EndList(l)
          \/ \E count \in 1 .. 2 : BeginRenderPass(l, count)
          \/ NextSubpass(l) \/ EndRenderPass(l)

DeviceSpec == DeviceInit /\ [][DeviceNext]_deviceVars

-----------------------------------------------------------------------------
(* Properties *)

DeviceTypeOK ==
    /\ api \in Api \cup {"none"}
    /\ DOMAIN objects \subseteq Handle
    /\ \A h \in DOMAIN objects : /\ \E row \in Objects[api] : objects[h].type = row.type
                                /\ objects[h].gives \subseteq Kind
    /\ DOMAIN lists \subseteq List /\ lists \in [DOMAIN lists -> ListState]
    /\ lost \in [Kind -> Nat]
    /\ live \in [Kind -> Nat]

\* What a list alive owns.
OwnedByList(l) ==
    Lists[api].gives \cup Recorded(l) \cup (IF lists[l].inRenderPass THEN {"framebuffer"} ELSE {})

\* What the device, its objects and its lists own of a kind, and what is lost.
Owned(k) ==
    (IF api = "none" THEN 0 ELSE One(k, Devices[api].gives))
    + Cardinality({h \in DOMAIN objects : k \in objects[h].gives})
    + Cardinality({l \in DOMAIN lists : k \in OwnedByList(l)})
    + lost[k]

\* Whatever call fails and in whatever order objects, lists, bindings and devices
\* come and go, the API objects alive are those that an object alive gives back, a
\* framebuffer for every open pass, a recorded list for every finished one, and the
\* views and rewritten references that are lost: no failure path forgets one or gives
\* back one it has not taken, and a destroyed device leaves only what was lost.
ApiObjectsExact ==
    /\ DeviceTypeOK
    /\ \A k \in Kind \ PoolKind : live[k] = Owned(k)
    /\ \A l \in DOMAIN lists : /\ lists[l].hasFramebuffer <=> lists[l].inRenderPass
                               /\ lists[l].subpass < lists[l].subpassCount
=============================================================================
