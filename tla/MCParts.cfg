SPECIFICATION MCSpec
CONSTANTS
    MaxTasks = 3
    Priority = {0, 1}
    Body = {n1, n2}
    Box <- MCBoxes
    NoBox = NoBox
    Bounds <- MCBounds
    IndexTypes = {"Octree", "Quadtree", "None"}
    MaxTreeDepth = 2
    MaxPerLeaf = 1
    NaN = NaN
    QueryBoxes <- MCQueryBoxes
    QueryFrusta <- MCFrusta
    Rays <- MCRays
    MaxReach = 11
    ActionIds <- MCActionIds
    DefaultBinding <- MCDefaultBinding
    KeyCombo = {"Ctrl+C", "Ctrl+O"}
    NoKey = NoKey
    NoAction = NoAction
    NoFile = NoFile
    Panel = {"SceneView", "Profiler"}
    CustomLayout = {"mine"}
    KeyOfPref = {"undo", "other"}
    SixDigits <- MCSixDigits
    Word = {"diff", "a", "b", "c", "d", "=", ","}
    ToolText <- MCToolText
    MaxCalls = 4
INVARIANTS
    TaskTableExact
    QueueSound
    SearchesExact
    KeysDispatch
    SettingsSurvive
PROPERTIES
    ImplementsService
    ShutdownCompletes
    EveryTaskServed
CHECK_DEADLOCK FALSE
