CONSTANTS
    Clients = {a, b}
    Kinds = {"output_cycle", "event_receive"}
    MaxRequests = 2
    MaxEvents = 0
    MaxQueue = 2
    ReqUnits = 2
    MsgUnits = 2
    ReadCap = 3
SPECIFICATION Spec
SYMMETRY Symmetry
PROPERTY ImplementsChannel
