CONSTANTS
    Cells = {c1}
    Buffers = {b1, b2}
    DmaFormats = {dma}
    ShmFormats = {shm}
    Acceptable = {dma, shm}
    Sizes = {}
    RenderNodeOk = FALSE
    FrameCountMod = 2
    None = None
    MaxClients = 1
    PowerManager = TRUE
SPECIFICATION FairSpec
PROPERTY EventuallyCurrent
