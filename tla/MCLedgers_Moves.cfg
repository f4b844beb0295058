SPECIFICATION MCSpec
CONSTANTS
    g1 = g1
    g2 = g2
    h1 = h1
    h2 = h2
    None = None
    Repo <- MCRepo
    Main = "main"
    Resource <- MCPair
    Path <- MCPath
    MaxNotSaved = 1
    MaxDepth = 2
    MaxCommands = 4
    MaxEdits = 3
    MaxActionId = 3
    MaxBookmarks = 1
    MaxSizes <- MCMaxSizes
    List <- MCPair
    Handle <- MCHandle
    MaxLost = 1
    MaxSets = 2
    HeapUser <- MCPair
    Address = {"first", "second"}
    NoPointer = NoPointer
    MaxBlocks = 4
SYMMETRY MCSymmetry
INVARIANTS
    MovesUpdateBoth
