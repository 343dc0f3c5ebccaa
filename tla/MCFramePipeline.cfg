CONSTANTS
    Cells = {c1, c2}
    Buffers = {b1, b2}
    DmaFormats = {}
    ShmFormats = {shm}
    Acceptable = {shm}
    Sizes = {s1, s2}
    RenderNodeOk = TRUE
    FrameCountMod = 3
    None = None
    MaxClients = 1
    PowerManager = TRUE
SPECIFICATION Spec
SYMMETRY Symmetry
INVARIANTS BufferAge NoLostDamage ExclusiveBuffers NoStall
