SPECIFICATION MCSpec
CONSTANTS
    c1 = c1
    c2 = c2
    w1 = w1
    w2 = w2
    Callback <- MCCallback
    Key = {k1}
    Finger = {f1}
    MaxWindows = 2
    MaxTicks = 2
    MaxInputs = 3
    Worker <- MCWorker
    MaxUpdates = 2
    MaxGpuTasks = 2
    MaxInits = 2
INVARIANTS
    LoopSound
    InputFollowsSystem
    SchedulerSound
PROPERTIES
    EveryCallbackRuns
    GpuQueueImplementsTaskService
    EveryPostServed
CHECK_DEADLOCK FALSE
