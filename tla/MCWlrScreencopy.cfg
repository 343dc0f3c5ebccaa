CONSTANTS
    Cells = {c1, c2}
    Buffers = {b1, b2}
    MaxClients = 2
    PowerManager = TRUE
    None = None
SPECIFICATION FairSpec
INVARIANTS ExclusiveBuffers NoStall NoLostDamage
PROPERTY EventuallyCurrent
