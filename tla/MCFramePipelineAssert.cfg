CONSTANTS
    Cells = {c1}
    Buffers = {b1, b2}
    DmaFormats = {}
    ShmFormats = {shm}
    Acceptable = {shm}
    Sizes = {}
    RenderNodeOk = TRUE
    FrameCountMod = 3
    None = None
    MaxClients = 1
    PowerManager = FALSE
SPECIFICATION Spec
SYMMETRY Symmetry
INVARIANT OneFramePerSession
