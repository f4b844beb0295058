# TLA+ models of TenEngine

TenEngine is a C++ game engine of thirty modules (`src/Engine/TenEngine-NNN-name`).
This directory holds TLA+ specifications of the parts of it that are hard to test: the
threads and their queues, the main loop and its input, the asynchronous loads and uploads
and the caches and pools they share, the files of the asset repositories, the lifecycle of
the subsystems, the scene under an editing session and its spatial index, the editor's histories and settings, the frame with its
graph, the objects of the graphics device, the serializers, and the allocator's table of freed pointers. TLC checks
each on a small instance; TLAPS proves what matters most for every size.

All paths below are relative to `src/Engine/`.

## 1. The system

### Parts that are modelled

| Part | State | Operations | Talks to |
|---|---|---|---|
| **001 `SingleThreadExecutor`** (`TenEngine-001-core/src/thread.cpp`) | vector of items, table `tasks_`, `shutdown_`, one worker thread; all under `m_` | submit with priority, cancel, status, the worker loop, destructor | called by `DefaultThreadPool`, 013 and 030, which get it as the IO and the Worker executor |
| **001 `DefaultThreadPool`** | `callbackThreadType_`, main-thread queue under `main_m_`, worker executor | `SetCallbackThread`, `SubmitTask`, `ProcessMainThreadCallbacks` | 013 answers through it; the loop of 003 drains it |
| **001 `ConditionVariable`, `Mutex`** | `std::mutex`, `std::condition_variable` | `Wait`, `NotifyOne`, `NotifyAll`, lock, unlock | offered to every module |
| **001 allocation** (`TenEngine-001-core/src/alloc.cpp`) | the set `g_freed`; the heap of the C library | `Alloc`, `Free`, `Realloc` | every module, from any thread |
| **002 type registry, property bags, serializers** (`TenEngine-002-object/src`) | descriptors of types; an object; a buffer or file | register, create, set; serialize and deserialize in binary, JSON and XML | the resource types of 010 to 012 and 028, which register their types and save their descriptors |
| **003 `Application`** (`TenEngine-003-application/src/Application.cpp`) | running and paused flags, windows, main window, tick callbacks, event queue | `Run`, `PumpEvents`, windows, tick callbacks, pause, exit | the window system; callbacks of the pool; the code of the user |
| **006 `Input`** (`TenEngine-006-input/src`) | current and previous keys and buttons, touches | `ProcessEvents` | the event queue of 003 |
| **013 `ResourceManagerImpl`, asynchronous loads** (`TenEngine-013-resource/src/ResourceManager.cpp`) | a request: status, cancelled, result, task id | `RequestLoadAsync`, the load task, `CancelLoad` | IO executor, callback pool, cache |
| **013, the cache** | `cache_`, `resource_to_id_`, `id_to_path_` under `cache_mutex_` | `LoadSync`, the hit path, `GetCached`, `CacheResource`, `Unload` | the loaders of 011, 012, 028 and 010 |
| **013, manifests and repositories** | `repositories.json`, a `manifest.json` and the resources' directories in each repository; the same in memory | load, import, move, edits of folders, new repository | the resource browser of 024; the file system |
| **030 device resource manager** | operations by handle, contexts, staging buffers, a pool of command lists | create buffer or texture (both ways), update, cancel, cleanup, two worker tasks for each upload | Worker executor; queue, fence and lists of 008 |
| **007 subsystems** | registry, states, a snapshot and Kahn's lists in each pass | register, unregister, `InitializeAll`, `StartAll`, `StopAll`, `ShutdownAll`, `ShutdownSubsystem` | hooks of every subsystem |
| **004, 005, 029 scene** | worlds, roots, nodes, the world of each node, entities by name, levels | register, reparent, create, destroy, open and unload levels | drawn and edited by 024 |
| **004 spatial index** (`TenEngine-004-scene/src`) | managed and moved nodes, a tree of cells with the nodes of each leaf | add, remove, update, rebuild; searches by box, frustum, ray and distance | owners of nodes report their boxes; 020 may cull with it |
| **024 editing session** (`TenEngine-024-editor/src/Editor.cpp`, `SceneViewImpl.cpp`) | level handle and path, selection, clipboard, play state and snapshot | menu, dialogs, panels, play mode, answers of loads | scene, asynchronous loads |
| **024 undo system and history** (`UndoSystemImpl.cpp`, `HistoryManager.cpp`) | two stacks of commands; a vector of actions with a position, compound, bookmarks, limit | push, undo, redo; record, compounds, jumps, bookmarks, clear, compress | whoever edits, through `IUndoSystem` and `IHistoryManager`; the editor does not yet |
| **024 settings** (`KeyBindingSystem.cpp`, `LayoutManager.cpp`, `EditorPreferences.cpp`) | bindings and their table by keys; layouts and the one shown; preferences; a file each | register, bind, rebind, reset; apply, save, add and remove layouts; set, reset; save and load | panels of the editor |
| **008 devices** of Vulkan, D3D11 and D3D12 (`TenEngine-008-rhi/src`) | objects that own objects of the API, command lists, pools of descriptor sets, references held by bindings | every creation and destruction, begin and end of lists and passes | 030, 019 and 020 |
| **020 `PipelineScheduler`** | phase, thread pools, `SingleThreadQueue` for the GPU | `Initialize`, `Tick`, `StartFrame`, `AdvancePhase`, `PostTask`, `Shutdown` | game updates in pool A post to the GPU queue |
| **019, 020 frame graph** (`TenEngine-019-pipeline-core/src/FrameGraph.cpp`) | passes, what they declare, attachments, the sorted order | `AddPass`, declarations, `Compile`, `ExecutePass` | `PipelineContext` of 020 |
| **020, 019, 008 frame loop** (`RenderPipeline.cpp`, `SubmitContext.cpp`, the devices) | slots and their fences, frames of each queue, pending lists | `RenderFrame`, `TriggerRender`, `TickPipeline`, `AdvanceFrame` | the GPU |

What is hard in them, and what makes them correct:

* *Executor.* Cancelling races with the worker at every line outside the lock;
  destruction races with both. Correct if it is a priority queue whose tasks run at most
  once, alone and never after withdrawal, with nothing forgotten at exit.
* *Allocation.* A pointer may be freed twice, by two threads, while its address is handed out again. Correct if the
  library is given each block back at most once, and while it is there.
* *Serializers.* Six recursive procedures must agree on what a property is, which depends on the types registered at
  the time. Correct if what is read back is what was written as far as the format carries it, and what was
  written as something else is refused or leaves the object alone.
* *Callback pool.* The chosen thread may change between a decision and its execution, and
  callbacks arrive while a batch runs. Correct if each callback runs once, in one thread,
  and those of the main thread in order.
* *Condition variable.* `Wait` gives its mutex away and takes it back before it sleeps.
* *Application and input.* Code in callbacks creates and destroys windows, pauses and exits in
  the middle of a frame; messages, events and state are three copies of what the user does.
  Correct if nothing ticks on a closed window, the main window is an open one, callbacks of the
  pool are served even while paused, and the input ends up at what is really held.
* *Asynchronous loads.* The load task and `CancelLoad` share atomics and no lock; each may
  answer. Correct if a request is always answered, a bounded number of times, consistently.
* *Cache.* Three tables and a count must agree while loads overlap outside the lock, and
  resources disagree on which GUID they are known by.
* *Repositories.* One operation writes several files and two tables; the program may crash
  between any two. Correct if on disk no resource is in two repositories or without its files,
  memory agrees with the disk, and a finished import is not lost.
* *Uploads.* Three threads and the GPU share buffers and lists; eight early returns give
  them back by hand; cancellation comes at any line. Correct if nothing is leaked, nothing
  is reused while the GPU reads it, and success means that the data arrived, or that the device lost it and
  told nobody.
* *Subsystems.* The registry changes between passes; graphs have cycles and missing
  members, hooks fail. Correct if hooks come in dependency order and in life-cycle order.
* *Scene and session.* Four tables, the selection, the clipboard and the snapshot refer to
  entities by address, and addresses are used again; a level's answer arrives between any two
  handlers. Correct if no handler dereferences what was deleted, unloading leaves nothing
  active behind, and Stop restores the transforms that play mode began with.
* *Spatial index.* A node is filed by the centre of its box and may move, lose its box or become inactive
  between two rebuildings. Correct if a search reports what the same search without an index would.
* *Settings.* Two tables must agree on what a key means, and a file on what a session shows. Correct if a key
  runs the action it is shown with, and a new session shows what the last one saved.
* *Histories.* Positions, ids and limits are moved by hand, in any order the interface allows. Correct
  if what undo, redo and jumps show are the states the document went through, in their order.
* *Devices.* Any call may fail, and each failure has its own path back. Correct if the objects
  of the API alive are those that an object alive will give back.
* *Pipeline scheduler.* Two hand-written queues with different rules for stopping.
* *Frame graph.* Edges are counted for each pair of declarations; cycles leave passes out;
  attachments are linked in place. Correct if writers run before readers, only what a cycle
  blocks is left out, and chains of links end at their source.
* *Frame loop.* Every wait must be for a fence that somebody signals.

### Parts that are not modelled

`PROJECT.json` lists every one with its reason. In short:

* 002: the text of GUIDs, object references, the items of XML arrays, which nothing writes, and migration: every
  serializer is at version 1 and writes it, so no buffer is ever old. The node hierarchy is modelled where entities
  use it.
* 001: the log, dynamic libraries, files, time and arithmetic on floats.
* 008: the contents of Vulkan's descriptors, and the draws, copies and barriers that a list passes on to the API; Metal,
  whose objects Objective-C counts in part by itself.
* 010, 011, 012, 028: file formats, importers and external compilers behind the cache.
* 009, 017, 018 and the collection of 020: layouts, geometry and data of one frame.
* 024: panels that hold no state of their own, the selection manager, prefabs, plugins and macros.
* 014 to 016, 021 to 023, 025 to 027: build files without code.

The specifications stand for about 10900 lines of the source, one in six.
Most of the rest is headers and interfaces, calls of graphics APIs, drawing of the user interface
and conversions of data, which have no order of steps to get wrong.

## 2. The modules

| Module | Models | Uses |
|---|---|---|
| `TaskService` | abstract: what an `ITaskExecutor` promises | |
| `TaskExecutor` | `SingleThreadExecutor` | implements `TaskService` |
| `CallbackPool` | `DefaultThreadPool` | its worker executor as a FIFO queue |
| `Allocation` | `Alloc`, `Free`, `Realloc` of 001 | |
| `ObjectTypes` | the type registry of 002 | |
| `BinaryFormat`, `JSONFormat`, `XMLFormat` | the three serializers, writer and parser | extend `ObjectTypes` |
| `Serializers` | objects, buffers and files of 002 | extends `ObjectTypes`; the formats by INSTANCE |
| `Input` | 006 | |
| `ApplicationLoop` | 003 | extends `Input`; actions of `CallbackPool` |
| `ConditionVariable` | `ConditionVariable`, `Mutex` in a wait loop | |
| `SpatialIndex` | the index of static nodes and the searches of 004 | |
| `EditorSettings` | key bindings, layouts and preferences of 024 | |
| `AsyncLoad` | asynchronous loads of 013 | actions of `TaskService` and `CallbackPool` |
| `ResourceCache` | the cache of 013 | |
| `Repositories` | manifests and repositories of 013 | |
| `UploadPools` | `StagingBufferManager`, `CommandListPool` | |
| `UploadService` | abstract: what an upload promises its caller, also when its data is lost | |
| `DeviceUpload` | 030 | extends `UploadPools`; actions of `TaskService`; implements `UploadService` |
| `SubsystemLifecycle` | 007 | |
| `SceneWorlds` | operators on the scene of 004, 005 and 029 | |
| `EditorSession` | the session of 024 | extends `SceneWorlds` |
| `EditTimeline` | abstract: what an undo history promises | |
| `UndoSystem`, `HistoryManager` | the undo system and the history of 024 | each implements `EditTimeline` |
| `GraphicsDevice` | the Vulkan, D3D11 and D3D12 devices and their command lists of 008 | |
| `ThreadPool`, `SingleThreadQueue` | the two queues of 020 | the second implements `TaskService` |
| `PipelineScheduler` | the scheduler of 020 | composes the two queues |
| `FrameGraph` | the frame graph of 019 as 020 drives it | |
| `RenderLoop` | the frame loop of 020 with submission of 019 and fences of 008 | |

`X_proofs` holds the theorems about `X`, and the `MC` modules are their instances for TLC: `MCDeviceUpload` that of
`DeviceUpload`, the others of several that share nothing, of which one moves in a behaviour: `MCParts` of `TaskExecutor`,
`SpatialIndex` and `EditorSettings`, `MCLoops` of `ApplicationLoop` and `PipelineScheduler`, `MCRuntime` of `AsyncLoad` and
`SubsystemLifecycle`, `MCUnits` of `ConditionVariable`, `FrameGraph`, `ResourceCache`, `Serializers` and `EditorSession`, and `MCLedgers` of
`Repositories`, `UndoSystem`, `HistoryManager`, `GraphicsDevice` and `Allocation`. `RenderLoop` has no other instance than its `.cfg`. Likewise `Core_proofs` is about
`TaskExecutor`, `ConditionVariable`, `Allocation` and `SubsystemLifecycle`, `Editor_proofs` about `EditorSession` and
`EditorSettings`, `Ledgers_proofs` about `Repositories`, `UndoSystem`, `HistoryManager` and `SpatialIndex`, `PipelineScheduler_proofs`
about `PipelineScheduler` and `GraphicsDevice`, `Units_proofs` about `FrameGraph` and `ResourceCache`.

Conventions. A variable has the name of the member it stands for. A critical section is one
action, and so is what a thread does between two points where another can see or change
something. Where a thread is in a call is a control variable (`worker`, `call`, `at`, `pc`).
History variables are marked so. Definitions commented `Slip:` are mistakes somebody could
make in the definition that follows; they belong to no specification and serve to show that
the properties notice them.

**`TaskExecutor`.** The vector is a set of ids: ids are drawn and pushed in one critical
section, so its order is the order of ids. The worker is *ready*, *blocked*, *running*,
*returned* (before `status = Completed`), *stored* (before the erase from `tasks_`) or
*exited*, with `CancelTask` possible between any two. Testing the predicate and going to
sleep is one step because the worker holds `m_` for both.

**`CallbackPool`.** `SubmitTask` towards the worker is two steps (the decision under
`main_m_`, the submit without it). `ProcessMainThreadCallbacks` swaps the queue out, then runs
the batch one by one. It has no run of its own: `ApplicationLoop` drives it.

**`ApplicationLoop`, `Input`.** A frame is the pump (one message a step, with the callback of a
window in between), the batch of pool callbacks (one a step), the sort, and the tick callbacks
(one a step). The first tick callback is the one `Run` registers; it calls `ProcessEvents`, as
`docs/module-specs/006-input.md` tells the user to, and takes one event a step, since other
threads may push meanwhile. While a callback runs, code of the user may pause, resume, exit,
create and destroy windows, and register and unregister callbacks. The window system is
external: closing a window destroys it, which posts `WM_QUIT` and discards the window's
messages. Positions, the wheel, focus and gamepads, which are never polled, are left out.

**`Allocation`.** A pointer is an address with the number of the block it was made for. `Free` tests and enters
`g_freed` in one step and calls the library in another. Addresses never leave `g_freed`.

**`ObjectTypes`, the formats, `Serializers`.** A descriptor is a sequence of properties with a size and perhaps a type,
the memory of an object a function from the names of its properties, and a document a sequence of tokens. Writers and parsers are the code's
procedures, with their flags and with the positions at which they leave off; what a property is taken for is asked
of the registry as it is at that moment. The parsers of XML hand one position on to each other, and can be left between a
tag's `<` and its name (`Inside`). Files are read without the NUL that a buffer has: the XML parser reads on into
other memory, and its answer is then either.

**`ConditionVariable`.** `Wait`'s `m.Unlock()`, its second lock, the atomic unlock-and-sleep of
`std::condition_variable` and the way back are separate steps; waiters loop around `Wait`.

**`AsyncLoad`.** `RequestLoadAsync` (insert the request, mark it loading, submit to the
executor, return), the load task with its two tests of `cancelled` and its separate stores of
result and status, and `CancelLoad` with its exchange, `CancelTask`, status store and answer.
`CancelLoad` holds `requests_mutex_` throughout, the load task does not take it.

**`ResourceCache`.** `LoadSync` is three critical sections with the load in between. Ids are
files' GUIDs or GUIDs an instance generated: textures and meshes are cached under the latter
(`TextureResource.cpp:67`). The hit that takes its reference in
`RequestLoadAsync` counts as a load that succeeds at once. Loads of one file may overlap: where its GUID is the
cache key, the second to store replaces the entry and count of the first. `replaced` remembers these GUIDs, and what
the cache promises of the instances of a GUID is demanded as long as it is not one of them.

**`Repositories`.** Memory and disk are separate variables. Each write of a file is two steps,
opening (the file is empty, which reads as none) and writing, each copy or removal of a
resource's directory one, and `Crash` may come before any of them; the next start reads what is on
disk. Operations are those of the resource browser, with the arguments it can give them. A manifest may
not open. The edits of folders test for it; an import and a move do not, and go on as if it had been saved. The history
`notSaved` has the resources of such imports and moves: on disk one of these may be listed twice or not at all, and the next start
takes it to be in either of the repositories that list it (`Enlist`, `Transfer`, `LoadAllManifests`). The invariants
leave out these resources and no others. A write that fails after the file was opened, which would leave it
cut short while the program goes on, is not modelled.

**`DeviceUpload`.** One actor for each caller, the one worker thread, the canceller of each
upload, and the GPU. The worker's first task allocates a staging buffer, acquires a list,
records, submits and hands over to a second task that waits for the fence, releases both,
answers, unregisters and deletes. Creation, recording and submission may fail wherever the code tests for it.
`TextureDeviceImpl.cpp` is `BufferDeviceImpl.cpp` line for line.
The device is one of three backends, as they are and not as the code above them assumes. `UpdateBuffer` may leave the
staging buffer as it was and says nothing (`device_vulkan.cpp:554`); on Direct3D it always does, since staging buffers are made where the
CPU cannot reach them. `Submit` is one of three actions: `Enqueue`; `ExecuteAtOnce` on D3D11, whose copies do nothing
(`device_d3d11.cpp:234`); and `Drop`, when Vulkan's result is ignored (`device_vulkan.cpp:484`) or a list was not finished (`device_d3d11.cpp:348`,
`device_d3d12.cpp:322`). The GPU signals the fence of an enqueued submission on Vulkan; that of a dropped one is signalled never, and no first `Wait`
for one of D3D12 returns (`device_d3d12.cpp:40`, `:500`): there `fence` is "never" and `FenceWait` is not enabled. D3D12's `WaitIdle` may return too
early (`:333`). The history `lost` has the uploads whose data was lost like this. They may succeed, with anything in their objects, and
`UploadService` says so; of the others it promises what it would without them. On a Vulkan device `MaxLost` of the uploads may be lost. Left out are Metal,
and waits of Vulkan that fail.

**`SubsystemLifecycle`.** A pass takes its snapshot (`GetEntriesForLifecycle`), sorts one pop of
`TopoSort` at a time, then calls one hook a step; hooks fail nondeterministically. Dependencies
by type name count in `InitializeAll` only. `InitializeAll` refuses a cycle, `ShutdownAll` goes on
with what was sorted. `InitializeSubsystem`, `StartSubsystem`, `StopSubsystem` and
`GetSubsystemStateByName` lock the registry's non-recursive mutex twice and never return
(`registry.cpp:170`): not modelled.

**`SceneWorlds`, `EditorSession`.** The scene is one record, each operation of the code an
operator from scenes to scenes, and a handler that calls several of them one step: everything
runs on the main thread. Entities and worlds are addresses, allocated from a small set, so that an
address soon means something else. `touchedFreed` becomes true when the code dereferences a deleted
entity; the behaviour ends there. The answer of a level's load is a step of its own.
What is copied lists the nodes below each copied one, parents first; a node that was selected below a node that was not, itself below a
selected one, is described twice, as the code does.
The specification `SessionSpec` is a session without the Delete command of the scene view,
`MCSpecDeleting` of `MCUnits` one with it, where the first drawing after a deletion goes wrong.

**`SpatialIndex`.** A box is an interval for each axis, a cell the path of octants to it; an octant is the set of axes on
which it is the upper half, so that a Quadtree is an Octree that divides two axes only. Coordinates are integers and the
world's sides powers of two, so that halves are exact as they are for small floats. The infinity and the NaN that a ray along a
side of a box meets are values, compared as floats are.

**`EditorSettings`.** Three objects, each with its file; a new session makes new objects and loads the files. A file of bindings is the
binding of each action it has a line of, since its lines are in the order of the actions; bindings, panels and rectangles are whole numbers
and ids of the program's own, which a line keeps. Preferences are text: of a float six digits are written (`SixDigits`, any function of
numbers), and a tool is a line that joins name, path and arguments, sequences of words and marks, and is read by cutting it at the first
equals sign and what follows at the first comma, wherever the texts hold them (`LineOf`, `ToolIn`). A tool that its line cannot tell comes
back as another one, and the others as they were. Left out are texts with a line break or that begin with `#` or `[`, and numbers `stof` refuses.

**`UndoSystem`, `HistoryManager`, `EditTimeline`.** The document is one value, and each edit makes a new one; an
action's callbacks set it to what it was before and after. A jump is one step, since it calls Undo or Redo until it
is there. The line of `EditTimeline` is the values along the actions. The code keeps to it as long as the history tells
how the document came about (`straight`): closing a compound, an edit while recording is paused, merging transforms, and a limit
that cuts what is undone end that until the history is empty again (section 5), and `EditTimeline` has these as
restarts. Where the position is beyond the end, what is read there is any value. Who edits is outside, so an edit and the
recording of its action are one step.

**`GraphicsDevice`.** Each creation of each backend is a table: the calls it makes, the API objects each takes, what the path of its
failure gives back, and what the object can do without; each destructor is a list. A creation with its failure is one step, since the device has no
lock and is used by one thread. Objects of the API are counted by kind, the member of their owner that holds them, and so are references to those of D3D11. Vulkan's pools of descriptor
sets have a capacity; that of single sets was not made to take them back, so freeing one may or may not have an effect. A descriptor set of D3D11 has one
binding here: writing a buffer or a sampler to it loses the reference it held (`lost`, as are Vulkan's views), writing a texture does not. D3D11 turns what a list recorded
into an object when the list ends and drops it when the list begins again; D3D12 leaves everything to smart pointers but the event of a fence, and has no
descriptor sets. Lists end the pass that is open before they end or are destroyed, as the API requires and the callers do.

**`PipelineScheduler`.** `ThreadPool::Stop` clears `running` without the mutex, so a worker between
its test of the predicate and its sleep misses the notification and the join hangs: the model
has that deadlock, and the liveness properties are those that hold although the main thread may
hang. `SingleThreadQueue` sets its flag under the mutex and drains. The phases from BuildPipeline
to Present, which only run a callback, are one phase of the model. `frameComplete` and
`WaitForFrame` are left out, and so are pool C (the same code again) and `GPULoop` (no effect).

**`FrameGraph`.** Passes are added and declare what they use between frames; a frame compiles
(links and edges in one step, then one pop of Kahn's stack a step) and executes one pass a step.
Edges are pairs of declarations, as in the code, so one declared twice counts twice. The order in
which passes become ready within one pop is that of an unordered map: any. A pass has at most one
attachment; the source of an attachment is its first.

**`RenderLoop`.** One rendering thread, a GPU that completes submissions in order, and fences as each
backend implements them: on Vulkan `Signal` does nothing, on D3D11 it sets an event that a wait resets.

## 3. The runs

| Run | Instance | Shows |
|---|---|---|
| `parts` | 3 tasks, 2 priorities; or 2 nodes with one of 4 boxes in a world of 8 by 8 by 8; or 3 actions, 2 panels, a custom layout, 4 calls | no lost wake-up, an exact table, nothing lost at exit, a truthful Completed; implements `TaskService`; shutdown ends; every task is served; searches with an index report what searches without one do; a key runs the action it is shown with; a session shows what the last one saved |
| `loops` | 2 callbacks, 2 windows, 2 tick callbacks, a key, a finger, 3 inputs; or 2 workers, 2 updates, 2 GPU tasks, 2 lives | callbacks run in order, once, on one thread and also while paused; no tick on a closed window; an open main window; the input follows what is held; the GPU queue implements `TaskService` and outlives its posters, no post is forgotten |
| `units` | 3 waiters, 2 setters; or 3 passes, 2 resources, 5 uses; or a material, a texture, 3 instances, 2 clients that load both; or 7 types, one registered late; or 3 addresses of entities, 2 of worlds, 1 file with a node and its child | `Wait` returns with the mutex; writers before readers, only blocked passes left out, links followed; the cache's tables agree, counts are exact, what is held is cached, as long as no load has replaced an entry; what is read back is what was written, and nothing foreign is taken in; the tables of the scene agree, no deleted entity is dereferenced, unloading leaves nothing active, Stop restores |
| `runtime` | 2 requests, 2 cancels each; or 3 subsystems, 35 graphs, 3 passes | bounded and consistent answers, every request answered; order of hooks, exact sort, every pass ends |
| `device_upload` | 3 backends, 2 asynchronous uploads, one cancellable, a synchronous one, memory for 3 units, 1 pooled list, 1 cleanup, at most 2 uploads lost on Vulkan and each on Direct3D | pools exact, nothing in flight touched, success means completed; implements `UploadService`; every upload is answered, unless the worker waits for a fence that is never signalled |
| `scene_view_delete` | the session of `units` with the Delete command | **violation**: the next drawing dereferences the deleted entity |
| `render_loop` | both backends, 2 slots, 4 frames, 8 frames rendered | **violation**: a call to render that never returns |
| `ledgers` | 2 repositories, 2 resources, folders a and a/a; or depth 2 and 4 commands; or 3 edits, 4 actions, a bookmark, limits 1 and 3; or 2 lists, 2 other objects, a view, pools of 2; or 2 threads, 2 addresses, 4 blocks | disk sound at every moment but for what a failed save has hit, memory matches it, nothing else lost; both histories implement `EditTimeline`, bookmarks lead back; the API's objects are those of the device; the library gets its own blocks back |
| `cancelled_upload` | the uploads of `device_upload` without the cleanup, at most 1 lost on Vulkan | **violation**: a cancelled upload is never called back |
| `unsaved_moves` | the repositories of `ledgers` | **violation**: a move answers true and one of the two manifests is not updated |
| `overlapping_loads` | the cache of `units` | **violation**: a file that two clients load at a time is evicted while one still holds it |
| `serializer_tests` | the types of `units` | **violation**: an object like that of the unit tests is not read back from XML |

The six violations are recorded with the sentence of the source each contradicts under
`findings` in `PROJECT.json`.

**Bounds.** Every bound is a constant in a guard, so that what is reached is a prefix of real
behaviour. Three tasks are one running, one waiting and one overtaking or cancelled; the
executor's code compares tasks in pairs. Two requests let one wait behind the other, so that
`CancelTask` can succeed; `CancelLoad` holds a mutex, so more callers add only repetitions. Two
instances of one file and one of another are what an overlap, a reload or a replaced entry need. Two asynchronous
uploads contend for the worker, the third comes from outside it; memory for three units and one
pooled list make the pools refuse, reuse and overflow; two uploads lost leave one that must keep its data, and on
Direct3D, where all three are lost, the refinement can owe nothing to luck. Three subsystems have chains, forks,
joins, cycles of two and three, and ties; three passes have every pair of successive passes. Two
workers and two tasks a queue are what a lost notification, an overtaking and a leftover need.
Two callbacks are one in a batch and one submitted meanwhile; three inputs are, for instance, a second
window, its callback and its closing, or a key pressed, released and pressed again between two
frames. Three passes with five uses are a pass behind a cycle of two, and a chain of two links; two
uses of one resource by one pass make double edges. Three addresses of entities let a level with two nodes
be open together with another entity, and any address be reused; to keep the session small it plays
and edits or copies and disables, with one entity selected, one edited and one disabled at a time.
Two repositories and two resources are a move of both, one of which fails; at most one resource is not saved, so that the
other shows that nothing else suffers; the folders a and a/a have a
prefix that repeats. Two nodes with a leaf for one split
a cell; the boxes are one smaller than a cell, one across the middle, one flat and one that reaches out of the world. Four calls are, for instance, two bindings
of one key, a save and a session. Three edits with a limit of one are an
edit after an undo and after a trim; four commands at a depth of two fill the stack twice. The types are
the one of the serializers' tests, two of the shader module, and two that have each kind of property in a place where a parser treats it
differently; a document has one object. Two addresses and four blocks let each address be handed out twice. Pools of two sets are exhausted
by a list destroyed and made again. Eight frames let slots and frames of the queues come round on both backends.
The proofs lift these bounds for nineteen of the modules.

`CHECK_DEADLOCK FALSE` is where the bounds stop the callers, or where the program itself may stop: an executor
after its destructor, an application that has exited, a waiter that has missed its notification,
a worker that waits for a fence nobody signals, and a scheduler whose join hangs. In `ledgers` there is always a next step, and TLC checks it.

**Fairness.** Weak fairness of threads inside a call, of worker threads and of the main loop:
the operating system runs threads, and callbacks and loads return. The GPU executes what is
given and has not refused; it owes no signal to a fence it was not given. A worker that waits for such a
fence waits for ever, and `EveryUploadAnswered` says what that costs: the asynchronous uploads behind it, and never a synchronous one. Nobody is obliged to make a call, press a key or close a window; no spurious
wake-up is ever owed. Where components share a run only one of them moves, so fairness of an action of either is stated once, of their disjunction.
`CallsReturn` fails under weak fairness of the rendering thread and of the
GPU, so the counterexample is a wait and not a pause.

## 4. What is proved

TLAPS checks these for every value of the constants that the named assumptions allow.

* `Core_proofs`. *Executor*: type correctness; `IInv`: the invariants of the run, and that the worker
  has an item in hand exactly between popping and erasing it (`ItemInHand`), that ids not handed
  out are untouched (`OnlyAccepted`), that the status follows the worker and that an exited worker
  leaves an empty queue. From it the four invariants and the **refinement of `TaskService`**. The
  first two parts are what makes the property about the table inductive: without them a state
  with two items in hand is not excluded. Assumptions: `MaxTasks \in Nat`, `0 \in Priority`.
  *Condition variable*: the mutex protocol for any number of threads. *Allocation*: `FreesItsOwnBlock` for any threads, addresses and
  number of blocks. It is not inductive; `HeapIInv` adds why the set of freed addresses suffices: an address outside it has
  the block of every pointer to it, and two threads on their way to the library are there for different addresses.
  *Subsystems*: Kahn's algorithm, for any number of subsystems, any dependencies and
  priorities: `inDeg` counts the dependencies not in `out` yet (`Counted`), `q` holds exactly what is
  ready (`Ready`), so `out` is always ordered (`OutOrdered`), and every set of sorted entries has one
  that depends on no other of the set (`WellFounded`). From these: hooks in dependency order in both
  directions, and `AcceptsExactlyAcyclic`. `StatesTrue` relates the recorded states to the last hook of each
  instance and gives `HooksComeInSequence`.
* `AsyncLoad_proofs`. `RequestsSound` for any finite set of requests and any number of cancellations. What the load task knows at each line (`LoaderKnows`)
  and who may still answer (`LoadMayAnswer`, `CancelMayAnswer`) are the strengthening: answers given and
  answers to come together stay within `1 + cancels[r]`, which every step keeps although a cancellation and the load task may each
  answer (`AnswersLeft`); a request whose task never started has no result (`UnstartedIsEmpty`).
* `PipelineScheduler_proofs`. `SchedulerSound` for any workers: the order of `Shutdown` is an invariant (`ShutdownInOrder`: the GPU queue
  is stopped only once no worker is left), so whoever posts finds the queue. And the **refinement of `TaskService` by the GPU queue**
  through posts, sleeps, its stop and its rebuilding: the queue always holds the last posts in order and the thread runs the one
  before them (`LastPosted`), which gives each number its phase.
  *Devices*: `ApiObjectsExact` for any number of command lists and objects and any size of the pools. First about the tables alone: each
  failure of each creation gives back exactly what the calls before it took (`CallsSound`, call by call), and each destructor gives back what
  its creation took but for the sets of a pool (`MadeSound`). Then `DeviceIInv`: of each kind as many are alive as are
  owned or lost, of the sets of pools at least as many, which is what destroying a set needs and what its pool leaves behind when it goes; a
  list that records has nothing recorded, or ending it would forget that; and a descriptor set of Vulkan gives back nothing but
  sets. A step changes one owner (`Recount`), and what is alive by as much as what is owned (`Balanced`). Assumption: lists and addresses
  are finitely many.
* `DeviceUpload_proofs`. `UploadsSound` and the **refinement of `UploadService`**, for any uploads of any sizes, synchronous and not,
  any limits of the pools and any `CancelOperation`. What the pools lend is a function of where each upload is: `AsyncTrue` gives,
  for every line of the two tasks and for the time in the queue between them (`Handed`), whether the upload has a buffer, a list, a fence and an
  answer, `SyncTrue` the same for a call. One task runs at a time and it is the worker's (`TasksOwned`), so an early return can give
  back only what is its own. The GPU's queue has the uploads whose fence is unsignaled (`QueueTrue`), each once, so buffer and list go back after the
  copy; a list not created yet was never destroyed (`FreshLists`), and the buffer of an upload has its data unless they are lost, which on Direct3D they
  always are (`OwnData`). What is queued is untouched, or left over from a synchronous call that D3D12 let return too early; then its list is gone for
  good (`Gone`), and no later recording can make the GPU copy into another's object (`QueueSound`).
  Each operation of a pool has a lemma of its own. Assumptions: some upload is asynchronous, so that the worker, when idle, can be said to have last
  been at one; sizes are positive; what a new object holds is not an upload's data.
* `ApplicationLoop_proofs`. `LoopSound` and `InputFollowsSystem` for any windows, ticks, callbacks, keys and fingers. The input is correct at rest only, so
  the invariant says what holds in between (`Follows`): the last message about a key, or else the last event, or else the state of the
  keyboard tells whether it is held, the same for a finger, whose events take turns (`Alternates`), so that a finger never
  has two entries (`OneEntry`). No tick after a close follows from the quit message that is posted with it (`ExitPumped`). For the pool: a
  callback is in one of the queues of either thread, once (`Routed`). Assumptions: keys are not fingers, and the bounds are positive.
  That every nonempty set of numbers has a least element (`Smallest`), from the library's theorem on well-founded
  relations, takes the place of induction in the lemmas about positions in a queue.
* `Editor_proofs`. `SceneSound`, `NeverTouchesFreed`, `UnloadLeavesNothing` and `StopRestores` of the session, for any finite number of
  addresses of entities and any worlds, names, transforms and descriptions whose nodes come after their parents. None of them is inductive.
  `SessionIInv` says that the scene is `Sound` (the tree is a forest without circles, a child is of its parent's world, dead entities have no
  mapping, and what `SceneSound` says), that the level shown is `Held`: its world's nodes are alive, of that world and mapped
  to it, and its cached roots are its roots (`Tables`); that an active root is either of a loaded level, and of the level shown only if registered
  with it (`Reached`), so the traversal that unloads a level finds all that is active; and that the snapshot is the one play began with (`BeganHeld`). Other
  levels' worlds may hold deleted entities, and do; the editor never goes back to them. `Above` is a recursive function, whose equation and least
  fixed point come from the forest (`AboveStep`, `AboveLeast`). Unloading destroys the entities that were found one by one, in any order
  (`DestroyNext`, `DestroyAllIs`), each step leaving the tables of the level usable for the rest. Assumptions: entities are finitely many, there is
  a transform, and null is not a name or an address.
  *Settings*: `KeysDispatch` and `SettingsSurvive`, for any actions, keys, panels and names of layouts. `KeysDispatch` is inductive with the types of the two
  tables and what `shared` is (`Agreeing`): a combination that two actions have now is among those that two have had, so erasing a
  combination, which asks not whose it is, takes nothing away from an action that never shared. Resetting, loading and registering all
  go through the actions one after the other (`EachAction`), and each round keeps it (`ResetAllHolds`, `LoadedHolds`, `AllRegisteredHolds`). For
  `SettingsSurvive`, that the four layouts built in stay first and no other is marked so (`LayoutsHeld`), hence what a file lists from the fifth on
  is found again at its place (`ReadAsWritten`); that panels are the same in all sessions, so the file's win; that an action with a default
  is always bound (`PrefsHeld`), so the defaults of a session add nothing to a file; and that each file is the text of what its object was (`KeyFileHeld`,
  `LayoutFileHeld`, `PrefsFileHeld`); and that a line cut at the first of each mark gives back a tool whose name has no equals sign and whose path
  no comma (`MarkIs`, `Apart`, `LineTells`). Assumptions: `NoKey` is not a key, defaults are keys or none, and texts of tools are
  sequences of words, the two marks among them.
* `Ledgers_proofs`. *Repositories*: the three invariants of the repositories for any repositories, resources and
  folders, with crashes and with any number of resources whose imports or moves could not be saved. The strengthening gives each resource a home, the repository that lists it in memory or,
  where none is loaded, on disk (`Here`): homes share only resources that could not be saved and have the files of all others (`OneHome`,
  `HomeHasFiles`), a manifest on disk lists no more of the others than its home (`DiskWithin`), and no less, unless the
  operation under way has the file open or has not come to it yet (`Opened`, `OnItsWay`, `SameLists`); where no import or move is
  under way it is the one in memory (`Synced`). *Undo system*: the **refinement of
  `EditTimeline`**, for any depth and any number of commands: each command was made on what the one before it left, and the two
  stacks meet at the document (`UndoIInv`); the line of contents is the undo stack, the document, and the redo stack backwards.
  *History*: the **refinement of `EditTimeline`** and `BookmarksReturn`, for any limits and numbers of edits, ids and bookmarks. While
  the history is straight, each action begins with what the one before it left, the document shows what the last action in effect left, ids grow along the
  history and no compound is in it (`OnOneLine`). An id is given once, so the bookmarked one is in the history at its own place or not at
  all. A jump of any length is proved round by round (`EveryRound`); what the limit cuts is the far end of the line (`IsCut`).
  *Spatial index*: `SearchesExact`, for any finite number of nodes, any boxes, world, depth and size of leaves. `SpatialIInv` says that a
  node is filed at most once and, if the index was told of its box, in a leaf all of whose ancestors have the centre of the box in their
  cells (`Findable`, `OnTheWay`). The octant of a centre has the centre, however the halves are rounded (`OctantHolds`), so the way down
  and a split, which moves nodes one level down, keep that (`LeafForSound`, `SplitSound`); filing the moved nodes again keeps it in any order
  (`RefiledSound`). A search that enters every cell with the centre then comes by (`Found`), and a box or frustum that has the centre meets these
  cells (`CentreMeets`, `FrustumMeets`). Rays: each slab narrows the span to the steps between its planes, for the three directions and
  the NaN and infinities of the third (`SlabNarrows`). Assumptions: boxes and rays are within `MaxReach` of each other, and that and every distance
  below `FLT_MAX`; a direction's coordinates are -1, 0 or 1, so that its inverse is exact.
* `Units_proofs`. *Frame graph*: for any number of passes, resources and declarations: `PassesInOrder`, and
  `LeavesOutOnlyCycles`. The argument is that of the subsystems with edges counted as often as they are
  declared: `inDegree` is the number of edges from passes not sorted yet (`Counted`), so the passes on the
  stack are exactly the unsorted ones without such an edge (`Ready`), whatever the order they are pushed
  in; when the stack is empty each pass left waits for another that is left (`Complete`), and no set of
  sorted passes waits in circles (`WellFounded`). With `LinkedStep`, that the loop over the attachments gives each pass the handle
  of a source that has already taken its own, and that linking makes nothing link that did not before (`AttachmentsSound`), so
  that a frame can link again what the last one linked, this is `CompileExact`.
  *Resource cache*: the three invariants of the cache for any number of files, clients,
  instances and references, with loads that overlap in any way. Where one load has replaced the entry of another, the
  counts and the way from instance to entry are lost (run `overlapping_loads`), and what remains is what Unload
  relies on: an entry is found by the instance in it, and counts one at least.
  The strengthening says that loads in progress concern different instances that no
  table knows, and that the reverse table holds the GUID of an instance: its own, or its file's.

Type correctness of these modules is part of their inductive invariants and has no run of its own where it
is proved. Only model-checked are:

* liveness, since TLAPS has no ENABLED, and `PassEnds` among it;
* `DocumentsSound`: the serializers are recursive operators, as the code's procedures are. No other specification has one.

The library's theorems of induction take an operator, which the provers cannot instantiate. `Ledgers_proofs` and `Units_proofs` have
their own, about the set of the places a statement holds at (`Induction`, `PassesInTurn`), and about functions that are defined from the
places before (`Recursion`, `LoopEnds`); they come from the least element of a set of numbers, which the library's theorem on
well-founded relations gives.

Sequences that lose elements are written with `Kept` and functions that gain one with `With`, since the prover does not
know `SelectSeq`, `:>` and `@@`.

## 5. Seen in the code and not in a run

Observed while modelling, outside what the runs check.

Threads and callbacks:

* `ConditionVariable::Wait` (`thread.cpp:90`) loses a notification sent between its unlock and its second lock.
  Nothing in the engine uses the class.
* `CancelLoad` answers Cancelled and the load task may answer Ok after it (`ResourceManager.cpp:629`).
* `RequestLoadAsync` calls `on_done` under `cache_mutex_` on a hit (`ResourceManager.cpp:548`), and early returns of the
  upload worker call back while `statusMutex` is held (`BufferDeviceImpl.cpp:129`).
* `frameComplete` is set without `frameMutex` (`PipelineScheduler.cpp:363`): `WaitForFrame` can miss it. `Tick` goes on to
  BuildPipeline although the posted game update may not have started (`PipelineScheduler.cpp:322`; the header,
  `PipelineScheduler.h:52`, has it wait). Nothing sets `m_onGameUpdate`.

Application and input:

* `ProcessEvents` ends with `EndFrame`, so `GetKeyDown` and `GetKeyUp` are never true afterwards (`Input.cpp:58`), and a touch
  that ends is gone before anyone sees its phase.
* All mouse buttons are the left one (`MouseState.cpp:34`).
* A Windows message the pump does not know becomes `AppWillTerminate` (`WindowsEventPumpPlatform.cpp:105`).
* `WM_DESTROY` of any window posts `WM_QUIT` (`WindowsWindowPlatform.cpp:58`), so `DestroyWindow` of a second window ends the application;
  events of every window are said to be the main window's (`Application.cpp:373`).
* `RequestExit` leaves callbacks of the main thread unrun; a tick callback unregistered in a tick still runs in it.

Resources and repositories:

* `Unload` erases a path the manifest still has (`ResourceManager.cpp:826`).
* `MoveResourceToRepository` and `ImportIntoRepository` ignore that saving a manifest failed (`ResourceManager.cpp:404`, run `unsaved_moves`). A crash between
  the two saves of a move loses the resource from both lists; its files remain. A crash while a manifest is written
  leaves it empty, and one while `repositories.json` is written leaves the list at main.
* A load that overlaps a move can write the old path back into `id_to_path_`; the next move's
  `directory_iterator` then throws and nothing catches it. `LoadAllManifests` refills that table in separate critical sections.
* `MoveAssetFolder` returns true although no manifest could be saved. `ResolvePath` returns `c_str()` past its lock.
* `LoadManifest` does not undo the escapes `SaveManifest` writes. New Folder without a repository writes a manifest
  at the asset root that nothing reads.

Uploads:

* An early return of the worker deletes a context whose handle is still registered (`BufferDeviceImpl.cpp:130`), and the GPU
  object made before is never destroyed (`:151`).
* No upload's data reaches the GPU on D3D11 or D3D12, and an asynchronous one on D3D12 blocks the worker for ever (section 2). That `UpdateBuffer` and
  `Submit` return nothing hides it from the callers: who was promised "GPU buffer handle, or nullptr on failure" (`DeviceResourceManager.h:96`) gets an object
  without its data, on Vulkan when a map (`device_vulkan.cpp:554`) or `vkQueueSubmit` (`:484`) fails, and who cancels waits for an answer for ever (run `cancelled_upload`).
* `CommandListPool::Clear` (`CommandListPool.cpp:73`) destroys the idle lists and then all lists, the idle
  ones twice. `DeviceUpload` counts how often each is destroyed.
* `CleanupDevice` (`DeviceResourceManager.cpp:250`) frees pools that contexts still point to.

Subsystems: `StartAll` and `StopAll` go by priority alone (`lifecycle.cpp:160`); a subsystem is initialized although
one it depends on has just failed to (`:136`).

Scene and editor:

* Opening a level does not unload the one before. Nothing calls `UpdateTransforms`.
* Resuming after a pause overwrites the snapshot, so Stop restores the state at the resumption; `StopRestores` leaves
  such sessions out. Snapshot and selection are keyed by addresses that may be used again.
* Nothing in the editor pushes a command into `UndoSystem`, whose commands on a cleared redo stack are never deleted, or
  records an action in `HistoryManager`.
* The parts of a compound stay in the history beside it (`HistoryManager.cpp:75`): undoing on after a compound undoes them a second
  time. `CompressHistory` leaves `m_currentPos` beyond its vector (`:322`), and the next Undo reads there. `SetMaxHistorySize`
  with a position near the front drops actions still to be redone, so Redo skips edits (`:415`). A bookmark at the start can never be
  reached (`:255`), and `m_nextBookmarkId` is never initialized.
* `LayoutManager::RemoveLayout` leaves `m_currentLayout` dangling. `LoadFromFile` adds the custom layouts to those there are, and
  custom layouts lose how they dock their panels (`LayoutManager.cpp:245`, for all that `:239` says "Save custom layouts"). A layout added under the
  name of a built-in one is never found.
* `KeyBindingSystem::SetBinding` takes the old combination out of the table although another action has it now
  (`KeyBindingSystem.cpp:172`); `KeysDispatch` leaves out combinations that two actions ever had at a time. `m_rebindingActionId` dangles after
  `UnregisterAction`. All standard actions have key code 0.
* `EditorPreferences`: floats are written with the six digits that a stream gives them by default (`EditorPreferences.cpp:216-229`), so one that
  needs more changes when it is saved; a tool with an equals sign in its name or a comma in its path comes back as another (`:249`, `:445`);
  loading adds the external tools to those there are; the setters of single values clamp, those of whole
  structures and `Load` do not; `showStats` is not saved; `ResetToDefaults` leaves the keys.
* A node whose rim only reaches into the cell of a query is missed by the index (`SearchesExact` is about nodes whose centre is in
  the query). `QueryFrustum` without an index returns every node, the last test of a Quadtree ignores z, and `SplitNode` asks a node for its box
  without `HasAABB`, against `ISceneNode.h:140`. `m_nodeCount` counts nodes that an insertion dropped. An entity's `m_hasAABB` is never true, and
  `UpdateNode` and `RebuildIndex` have no callers. `ConvertToStatic` and `ConvertToDynamic` register the node again under its old type.

Frame:

* A builder of `FrameGraph` refers into a vector that the next `AddPass` may move (`FrameGraph.cpp:178`). A pass linked to its source only by
  `sourcePassIndex` has no edge from it, and takes the handle the source had before if the source comes later (`:242`). The
  back buffer's handle is not valid, so a declared write of it is ignored (`:48`). Independent passes run
  last declared first. `BuildLogicalPipeline` ignores what `Compile` answers, and the logical pipeline of the frame before
  is never destroyed (`PipelineContext.cpp:243`).
* Barriers are recorded before the passes' callbacks create transient textures, whose handles start at 1 in each frame;
  they are destroyed at `EndFrame` although the GPU may still use them.
* D3D11 fences reset themselves and are signalled when a list is submitted. D3D12 fences are not set at creation, so the first
  `WaitForSlot` does not return.
* D3D12: `Wait` waits for the fence's event even when the GPU is done and nothing will set it (`device_d3d12.cpp:40`), and
  `CreateGraphicsPSO(desc, layout)` calls itself without end (`:466`).
* D3D11: a binding written again forgets the reference to its buffer or sampler (`device_d3d11.cpp:686`), which `RenderMaterial.cpp:350` does
  for every update; a submitted list in which nothing could be recorded never signals its fence (`:348`).
* Vulkan: the descriptor set of a command list is not given back when the list is destroyed (`device_vulkan.cpp:415`), so the 65th
  list ever made fails; the other pool lacks the flag that freeing single sets needs (`:1292`). Nothing destroys the image view of
  `CreateView` (`:737`). `EndRenderPass` destroys the framebuffer before the list is submitted (`:316`). `CreateComputePSO` makes no
  pipeline (`:960`). A swap chain can only be deleted by its caller, the interface has no call for it.
* `TriggerRender` twice, or `Shutdown` after it, never returns. Nothing outside 020 calls `RenderPipeline`.

Serialization (002) and others:

* JSON arrays are written without commas (`JSONSerializer.cpp:827`; nothing calls `WriteArrayElement`), so the digits of an array of
  numbers are read as one number. A type registered between writing and reading makes a number or null where the parser
  wants an object, and the read ends there.
* In XML (`XMLSerializer.cpp:463`), what follows a GUID or an object reference is dropped, a nested object takes the first tag inside it for its own,
  a self-closing element that is skipped takes everything after it along, a boolean is never true, and words of no type are not written (`serializer_tests`).
  A file is parsed without a NUL at its end (`:905`). `RoundTrip` says what survives all this.
* A property without a name would be counted in the binary form and not written. The buffer of the binary writer is freed by its
  serializer and again by its destructor (`BinarySerializer.cpp:490`), which is why `Free` must ignore that.
* `te::core::Free` ignores a block whose address was freed before and handed out again (`alloc.cpp:42`), since its
  set of freed addresses is never cleared: from then on every block there leaks. `Realloc` does not copy, which its comment says it does (`:78`).
* `SpatialQuery::QueryAABB` and `QueryIntersecting` call each other without end (`SpatialQuery.cpp:36`).
* Parameters of materials of types Int2 to Int4 and arrays are not saved.

## 6. Plan

Done, in this order: executor, callbacks and condition variable (everything else runs on them);
asynchronous loads and the cache; uploads; subsystems; pipeline scheduler; scene and editing
session; frame loop; repositories; application and input; frame graph; histories; devices; serializers; allocation;
spatial index; settings. Proved, in this order: executor, condition variable, cache, subsystems, repositories, frame graph;
asynchronous loads, scheduler, allocation, undo system, application and input, uploads, history; scene and editing session, settings,
spatial index, devices.

To come:

1. `TransientPool`: handles of 019 that are numbered anew each frame, with the barriers of a frame.
2. The cache composed with `Repositories`, whose table of paths is the cache's.
3. The completion flag of the scheduler with `WaitForFrame`.

The abstract specification worth stating next is a frame service: every frame started is presented, with a bounded
number in flight. The code does not provide it yet (`render_loop`).
