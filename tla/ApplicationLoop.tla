-------------------------- MODULE ApplicationLoop --------------------------
(***************************************************************************)
(* The application (TenEngine-003-application): its main loop, windows,    *)
(* tick callbacks and event queue, with the system's messages on one side  *)
(* and, on the other, the callbacks of the thread pool and the input.      *)
(*                                                                         *)
(* A frame pumps the system's messages until there is none, runs the       *)
(* callbacks meant for the main thread (CallbackPool) and then, unless     *)
(* paused, the tick callbacks by priority.  The first tick callback is the *)
(* one Run registers; it gives the queue to Input, as docs/module-specs/   *)
(* 006-input.md recommends.  Code of the user runs in callbacks and may    *)
(* call back into the application.                                         *)
(***************************************************************************)
EXTENDS Input, Integers, SequencesExt

CONSTANTS Callback,      \* tasks submitted to the thread pool
          MaxWindows,    \* bound: windows ever created
          MaxTicks,      \* bound: tick callbacks ever registered
          MaxInputs      \* bound: messages of the system, events of touches and
                         \* calls of user code into the application

ASSUME LoopAssumption == MaxWindows \in Nat \ {0} /\ MaxTicks \in Nat \ {0}

VARIABLES callbackThreadType, main_thread_callbacks, batch, toWorker,
          workerQueue, ranMain, ranWorker, sentMain,  \* see CallbackPool
          pc,              \* where the main loop is
          isRunning, isPaused,
          windows,         \* m_windows: the ids, each with a callback or not
          mainWindow,      \* m_mainWindowId
          nextWindowId,
          tickCallbacks,   \* m_tickCallbacks: the priority of each id
          nextCallbackId,
          sortedCallbacks, \* what the frame has yet to run
          eventQueue,
          native,          \* the system: windows that exist
          messages,        \* the system: messages not yet peeked
          quit,            \* the system: WM_QUIT is pending
          held,            \* the world: keys held and fingers on the screen
          closed,          \* history: a user has closed a window
          inputs           \* bound: inputs so far

poolVars == <<callbackThreadType, main_thread_callbacks, batch, toWorker,
              workerQueue, ranMain, ranWorker, sentMain>>
runVars == <<isRunning, isPaused>>
windowVars == <<windows, mainWindow, nextWindowId>>
tickVars == <<tickCallbacks, nextCallbackId>>
systemVars == <<native, messages, quit, held, closed>>
loopVars == <<poolVars, inputVars, pc, runVars, windowVars, tickVars, sortedCallbacks,
          eventQueue, systemVars, inputs>>

Pool == INSTANCE CallbackPool

InvalidWindowId == 0
Window == 1 .. MaxWindows
TickId == 1 .. MaxTicks
Priority == {0, 1}

\* A message or an event: its type and the key, finger or window it is about.
Item(type, what) == [type |-> type, what |-> what]

LoopTypeOK ==
    /\ Pool!TypeOK
    /\ InputTypeOK
    /\ pc \in {"pump", "windowCallback", "callbacks", "batch", "sort", "ticks", "input",
              "exited", "destroyed"}
    /\ isRunning \in BOOLEAN /\ isPaused \in BOOLEAN /\ quit \in BOOLEAN /\ closed \in BOOLEAN
    /\ DOMAIN windows \subseteq Window /\ Range(windows) \subseteq BOOLEAN
    /\ mainWindow \in Window \cup {InvalidWindowId}
    /\ DOMAIN tickCallbacks \subseteq TickId /\ Range(tickCallbacks) \subseteq Priority
    /\ Range(sortedCallbacks) \subseteq TickId
    /\ native \subseteq Window
    /\ held \subseteq Key \cup Finger

\* Run has created the main window and registered its tick callback; the event
\* of the window's creation is in the queue.
LoopInit ==
    /\ Pool!Init
    /\ InputInit
    /\ pc = "pump"
    /\ isRunning = TRUE /\ isPaused = FALSE
    /\ windows = [w \in {1} |-> FALSE] /\ mainWindow = 1 /\ nextWindowId = 2
    /\ tickCallbacks = [t \in {1} |-> 0] /\ nextCallbackId = 2
    /\ sortedCallbacks = <<>>
    /\ eventQueue = <<Item("WindowCreated", 1)>>
    /\ native = {1} /\ messages = <<>> /\ quit = FALSE /\ held = {} /\ closed = FALSE
    /\ inputs = 0

-----------------------------------------------------------------------------
(* The system and the other threads *)

\* A key goes down or up.
PressKey(k) ==
    /\ inputs < MaxInputs
    /\ inputs' = inputs + 1
    /\ held' = IF k \in held THEN held \ {k} ELSE held \cup {k}
    /\ messages' = Append(messages, Item(IF k \in held THEN "Up" ELSE "Down", k))
    /\ UNCHANGED <<poolVars, inputVars, pc, runVars, windowVars, tickVars, sortedCallbacks,
                   eventQueue, native, quit, closed>>

\* The user asks to close a window.
CloseWindow(w) ==
    /\ inputs < MaxInputs /\ w \in native
    /\ inputs' = inputs + 1
    /\ messages' = Append(messages, Item("WindowClosed", w))
    /\ UNCHANGED <<poolVars, inputVars, pc, runVars, windowVars, tickVars, sortedCallbacks,
                   eventQueue, native, quit, held, closed>>

PushEvent(e) == eventQueue' = Append(eventQueue, e)

\* Some thread translates touches and pushes them: the pump has none.
Touch(f) ==
    /\ inputs < MaxInputs
    /\ inputs' = inputs + 1
    /\ \/ /\ f \notin held /\ held' = held \cup {f}
          /\ PushEvent(Item("TouchDown", f))
       \/ /\ f \in held /\ held' = held \ {f}
          /\ PushEvent(Item("TouchUp", f))
       \/ /\ f \in held /\ UNCHANGED held
          /\ PushEvent(Item("TouchMove", f))
    /\ UNCHANGED <<poolVars, inputVars, pc, runVars, windowVars, tickVars, sortedCallbacks,
                   native, messages, quit, closed>>

\* Any thread chooses the thread of callbacks ...
SetCallbackThread(type) ==
    /\ inputs < MaxInputs
    /\ inputs' = inputs + 1
    /\ Pool!SetCallbackThread(type)
    /\ UNCHANGED <<inputVars, pc, runVars, windowVars, tickVars, sortedCallbacks, eventQueue,
                   systemVars>>

\* ... and submits tasks to the pool; the pool's worker serves its queue.
PoolStep ==
    /\ \/ \E c \in Callback \ Pool!Sent : Pool!SubmitToMain(c) \/ Pool!ChooseWorker(c)
       \/ Pool!Pool
    /\ UNCHANGED <<inputVars, pc, runVars, windowVars, tickVars, sortedCallbacks, eventQueue,
                   systemVars, inputs>>

-----------------------------------------------------------------------------
(* The main loop *)

\* The messages of a window that is destroyed are discarded.
MessagesWithout(w) ==
    Kept(messages, {i \in DOMAIN messages : messages[i] # Item("WindowClosed", w)})

\* PollEvent and ConvertToEngineEvent: dispatching a posted request to close a
\* window destroys it, which posts WM_QUIT and discards its messages; the event names
\* the main window, whose callback is called, whatever window it was.
PumpMessage ==
    /\ messages # <<>>
    /\ LET m == Head(messages)
       IN  IF m.type = "WindowClosed"
           THEN /\ native' = native \ {m.what}
                /\ messages' = MessagesWithout(m.what)
                /\ quit' = TRUE /\ closed' = TRUE
                /\ PushEvent(Item("WindowClosed", mainWindow))
                /\ pc' = IF mainWindow \in DOMAIN windows /\ windows[mainWindow]
                         THEN "windowCallback" ELSE "pump"
           ELSE /\ messages' = Tail(messages)
                /\ PushEvent(m)
                /\ pc' = "pump"
                /\ UNCHANGED <<native, quit, closed>>
    /\ UNCHANGED <<isRunning, held, inputs>>

\* WM_QUIT requests the exit, and the pump goes on.
PumpQuit ==
    /\ quit
    /\ quit' = FALSE /\ isRunning' = FALSE
    /\ pc' = "pump"
    /\ UNCHANGED <<eventQueue, native, messages, held, closed, inputs>>

\* Slip: the loop looks at isRunning when the frame is over, not after the pump.
PumpDoneTicking ==
    /\ messages = <<>> /\ ~quit
    /\ pc' = "callbacks"
    /\ UNCHANGED <<isRunning, eventQueue, systemVars, inputs>>

\* No message is left: the loop goes on unless it has been asked to exit.
PumpDone ==
    /\ messages = <<>> /\ ~quit
    /\ pc' = IF isRunning THEN "callbacks" ELSE "exited"
    /\ UNCHANGED <<isRunning, eventQueue, systemVars, inputs>>

PumpEvents ==
    /\ pc = "pump"
    /\ PumpMessage \/ PumpQuit \/ PumpDone
    /\ UNCHANGED <<poolVars, inputVars, isPaused, windowVars, tickVars, sortedCallbacks>>

WindowCallbackReturns ==
    /\ pc = "windowCallback"
    /\ pc' = "pump"
    /\ UNCHANGED <<poolVars, inputVars, runVars, windowVars, tickVars, sortedCallbacks, eventQueue,
                   systemVars, inputs>>

\* Slip: a pause holds the callbacks of the main thread back, too.
ProcessUnlessPaused ==
    /\ \/ /\ pc = "callbacks" /\ (isPaused \/ main_thread_callbacks = <<>>)
          /\ pc' = "sort" /\ UNCHANGED poolVars
       \/ /\ pc = "callbacks" /\ ~isPaused /\ pc' = "batch" /\ Pool!TakeBatch
       \/ /\ pc = "batch" /\ Pool!RunBatched
          /\ pc' = IF Len(batch) = 1 THEN "sort" ELSE "batch"
    /\ UNCHANGED <<inputVars, runVars, windowVars, tickVars, sortedCallbacks, eventQueue,
                   systemVars, inputs>>

\* ProcessMainThreadCallbacks, paused or not.
ProcessMainThreadCallbacks ==
    /\ \/ /\ pc = "callbacks" /\ main_thread_callbacks = <<>>
          /\ pc' = "sort" /\ UNCHANGED poolVars
       \/ /\ pc = "callbacks" /\ pc' = "batch" /\ Pool!TakeBatch
       \/ /\ pc = "batch" /\ Pool!RunBatched
          /\ pc' = IF Len(batch) = 1 THEN "sort" ELSE "batch"
    /\ UNCHANGED <<inputVars, runVars, windowVars, tickVars, sortedCallbacks, eventQueue,
                   systemVars, inputs>>

\* Where the loop goes when a frame is over.
EndOfFrame == IF isRunning THEN "pump" ELSE "exited"

\* The order of equal priorities is that of an unstable sort.
SortTicks ==
    /\ pc = "sort"
    /\ IF isPaused
       THEN pc' = EndOfFrame /\ UNCHANGED sortedCallbacks
       ELSE /\ pc' = "ticks"
            /\ sortedCallbacks' \in {s \in SetToSeqs(DOMAIN tickCallbacks) :
                 \A i, j \in DOMAIN s :
                    i < j => tickCallbacks[s[i]] >= tickCallbacks[s[j]]}
    /\ UNCHANGED <<poolVars, inputVars, runVars, windowVars, tickVars, eventQueue, systemVars, inputs>>

\* A tick runs the callbacks it has sorted, unregistered since or not.
Tick ==
    /\ pc = "ticks"
    /\ IF sortedCallbacks = <<>>
       THEN pc' = EndOfFrame /\ UNCHANGED sortedCallbacks
       ELSE /\ pc' = IF Head(sortedCallbacks) = 1 THEN "input" ELSE "ticks"
            /\ sortedCallbacks' = Tail(sortedCallbacks)
    /\ UNCHANGED <<poolVars, inputVars, runVars, windowVars, tickVars, eventQueue, systemVars, inputs>>

\* Slip: events are taken from the back of the queue.
ProcessLastEvent ==
    /\ pc = "input"
    /\ IF eventQueue = <<>>
       THEN pc' = "ticks" /\ EndFrame /\ UNCHANGED eventQueue
       ELSE /\ UpdateFromEvent(Last(eventQueue))
            /\ eventQueue' = Front(eventQueue)
            /\ UNCHANGED pc
    /\ UNCHANGED <<poolVars, runVars, windowVars, tickVars, sortedCallbacks, systemVars, inputs>>

\* Input's ProcessEvents: pops event after event, others may push between, and
\* ends the frame of each device when the queue is empty.
ProcessEvents ==
    /\ pc = "input"
    /\ IF eventQueue = <<>>
       THEN pc' = "ticks" /\ EndFrame /\ UNCHANGED eventQueue
       ELSE /\ UpdateFromEvent(Head(eventQueue))
            /\ eventQueue' = Tail(eventQueue)
            /\ UNCHANGED pc
    /\ UNCHANGED <<poolVars, runVars, windowVars, tickVars, sortedCallbacks, systemVars, inputs>>

\* ~Application destroys what windows are left.
Destroy ==
    /\ pc = "exited"
    /\ pc' = "destroyed"
    /\ native' = native \ DOMAIN windows
    /\ windows' = <<>>
    /\ UNCHANGED <<poolVars, inputVars, runVars, mainWindow, nextWindowId, tickVars,
                   sortedCallbacks, eventQueue, messages, quit, held, closed, inputs>>

Run == \/ PumpEvents \/ WindowCallbackReturns \/ ProcessMainThreadCallbacks
       \/ SortTicks \/ Tick \/ ProcessEvents \/ Destroy

-----------------------------------------------------------------------------
(* What the code in a callback may call *)

Calls == /\ pc \in {"windowCallback", "batch"} \/ (pc = "ticks" /\ sortedCallbacks # <<>>)
         /\ inputs < MaxInputs
         /\ inputs' = inputs + 1

PauseOrResume ==
    /\ isPaused' = ~isPaused
    /\ UNCHANGED <<isRunning, windowVars, tickVars, eventQueue, systemVars>>

RequestExit ==
    /\ isRunning' = FALSE
    /\ UNCHANGED <<isPaused, windowVars, tickVars, eventQueue, systemVars>>

\* A map with one more entry.
With(map, id, value) == [i \in DOMAIN map \cup {id} |-> IF i = id THEN value ELSE map[i]]

CreateWindow ==
    /\ nextWindowId <= MaxWindows
    /\ nextWindowId' = nextWindowId + 1
    /\ windows' = With(windows, nextWindowId, FALSE)
    /\ mainWindow' = IF mainWindow = InvalidWindowId THEN nextWindowId ELSE mainWindow
    /\ native' = native \cup {nextWindowId}
    /\ PushEvent(Item("WindowCreated", nextWindowId))
    /\ UNCHANGED <<runVars, tickVars, messages, quit, held, closed>>

\* Slip: the main window is not replaced.
DestroyWindowKeepingMain(w) ==
    /\ w \in DOMAIN windows
    /\ windows' = Restrict(windows, DOMAIN windows \ {w})
    /\ native' = native \ {w}
    /\ quit' = (quit \/ w \in native)
    /\ messages' = MessagesWithout(w)
    /\ PushEvent(Item("WindowDestroyed", w))
    /\ UNCHANGED <<mainWindow, runVars, nextWindowId, tickVars, held, closed>>

\* Destroying the native window posts WM_QUIT (WindowProc), whatever window it
\* was.  The next main window is the first of an unordered map.
DestroyWindow(w) ==
    /\ w \in DOMAIN windows
    /\ windows' = Restrict(windows, DOMAIN windows \ {w})
    /\ mainWindow' \in IF mainWindow # w THEN {mainWindow}
                       ELSE IF DOMAIN windows = {w} THEN {InvalidWindowId}
                       ELSE DOMAIN windows \ {w}
    /\ native' = native \ {w}
    /\ quit' = (quit \/ w \in native)
    /\ messages' = MessagesWithout(w)
    /\ PushEvent(Item("WindowDestroyed", w))
    /\ UNCHANGED <<runVars, nextWindowId, tickVars, held, closed>>

SetWindowCallback(w) ==
    /\ w \in DOMAIN windows /\ ~windows[w]
    /\ windows' = [windows EXCEPT ![w] = TRUE]
    /\ UNCHANGED <<runVars, mainWindow, nextWindowId, tickVars, eventQueue, systemVars>>

RegisterTickCallback(priority) ==
    /\ nextCallbackId <= MaxTicks
    /\ nextCallbackId' = nextCallbackId + 1
    /\ tickCallbacks' = With(tickCallbacks, nextCallbackId, priority)
    /\ UNCHANGED <<runVars, windowVars, eventQueue, systemVars>>

UnregisterTickCallback(t) ==
    /\ t \in DOMAIN tickCallbacks
    /\ tickCallbacks' = Restrict(tickCallbacks, DOMAIN tickCallbacks \ {t})
    /\ UNCHANGED <<runVars, windowVars, nextCallbackId, eventQueue, systemVars>>

UserCode ==
    /\ Calls
    /\ \/ PauseOrResume
       \/ RequestExit
       \/ CreateWindow
       \/ \E w \in Window : DestroyWindow(w) \/ SetWindowCallback(w)
       \/ \E p \in Priority : RegisterTickCallback(p)
       \/ \E t \in TickId : UnregisterTickCallback(t)
    /\ UNCHANGED <<poolVars, inputVars, pc, sortedCallbacks>>

-----------------------------------------------------------------------------

LoopNext ==
    \/ Run
    \/ UserCode
    \/ PoolStep
    \/ \E type \in Pool!CallbackThreadType : SetCallbackThread(type)
    \/ \E k \in Key : PressKey(k)
    \/ \E w \in Window : CloseWindow(w)
    \/ \E f \in Finger : Touch(f)

\* The main thread and the threads of the pool run, and callbacks return.
besidesPool == <<inputVars, pc, runVars, windowVars, tickVars, sortedCallbacks, eventQueue,
                 systemVars, inputs>>

RunOnWorker == Pool!RunOnWorker /\ UNCHANGED besidesPool

SubmitToWorker(c) == Pool!SubmitToWorker(c) /\ UNCHANGED besidesPool

LoopSpec ==
    /\ LoopInit /\ [][LoopNext]_loopVars
    /\ WF_loopVars(Run)
    /\ WF_loopVars(RunOnWorker)
    /\ \A c \in Callback : WF_loopVars(SubmitToWorker(c))

-----------------------------------------------------------------------------

\* As long as a window is open the main window is one of them, however windows
\* come and go (Application::DestroyWindow).
MainWindowOpen ==
    pc # "destroyed" =>
       mainWindow \in IF windows = <<>> THEN {InvalidWindowId} ELSE DOMAIN windows

\* When the user has closed a window, no callback of the main thread and no tick
\* callback runs any more: the exit that the system posts is pumped with it, in
\* whatever order messages come (Application::PumpEvents, Run).
NoTickAfterClose == closed => pc \in {"pump", "windowCallback", "exited", "destroyed"}

\* The types of the variables, the main window, the order of the main thread - its
\* callbacks run in the order in which they were submitted, over all frames
\* (ProcessMainThreadCallbacks) - and the one thread that runs a callback,
\* whatever SetCallbackThread is told later.
LoopSound ==
    /\ LoopTypeOK /\ MainWindowOpen /\ NoTickAfterClose
    /\ Pool!MainOrderKept /\ Pool!OneThreadPerCallback

\* Once every message has been pumped and every event processed, the input tells
\* exactly the keys that are held and the fingers that touch: no event is lost,
\* doubled or overtaken between the pump, the queue and the devices.
InputFollowsSystem ==
    messages = <<>> /\ eventQueue = <<>> =>
       currentKeys = held \cap Key /\ Touching = held \cap Finger

\* Every task given to the pool runs, be the application paused or not, unless
\* the application exits.
EveryCallbackRuns ==
    \A c \in Callback :
       (c \in Pool!Sent) ~> \/ c \in Range(ranMain) \cup Range(ranWorker)
                            \/ pc \in {"exited", "destroyed"}
=============================================================================
