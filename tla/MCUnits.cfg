SPECIFICATION MCSpec
CONSTANTS
    Waiter <- MCTriple
    Setter <- MCPair
    Resource <- MCPair
    NoHandle = NoHandle
    MaxPasses = 3
    MaxUses = 5
    material = material
    texture = texture
    a = a
    b = b
    Client <- MCPair
    Path <- MCPath
    Registered <- MCPath
    OwnGuid <- JustTexture
    MaxResources = 3
    MaxHeld = 3
    NoType = "none"
    Properties <- MCProperties
    Bytes <- MCBytes
    Late <- MCLate
    NoInstance = NoInstance
    NoDocument = NoDocument
    NotRead = NotRead
    e1 = e1
    e2 = e2
    e3 = e3
    p1 = p1
    n1 = n1
    v1 = v1
    v2 = v2
    Null = Null
    Node <- MCTriple
    World <- MCPair
    Name <- MCName
    Value <- MCValue
    LevelPath <- MCLevelPath
    Desc <- MCDesc
    MenuName = n1
    HandlerSets <- MCHandlerSets
    MaxSelected = 1
    MaxEdited = 1
    MaxDisabled = 1
SYMMETRY MCSymmetry
INVARIANTS
    WaitReturnsLocked
    WritersFirst
    CompileExact
    CacheSound
    DocumentsSound
    SceneSound
    NeverTouchesFreed
    UnloadLeavesNothing
PROPERTIES
    StopRestores
CHECK_DEADLOCK FALSE
