SPECIFICATION FairSpec
CONSTANTS
    a = a
    b = b
    Clients = {a, b}
    App = App
    Loads <- MCLoads
    TextLen = 2
    PipeCap = 1
INVARIANTS NoEcho OneText SourcesAlive
PROPERTY CopyArrives
