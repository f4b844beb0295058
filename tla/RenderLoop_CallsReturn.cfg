SPECIFICATION Spec
CONSTANTS
    Backend = {"Vulkan", "D3D11"}
    MaxFramesInFlight = 2
    KMaxFramesInFlight = 4
    HasGraph = TRUE
    MaxFrames = 8
PROPERTY
    CallsReturn
CHECK_DEADLOCK FALSE
