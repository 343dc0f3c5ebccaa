CONSTANTS
    Clients = {a}
    Kinds = {"command", "event_receive", "unknown", "invalid", "wayvnc_exit", "garbage", "long"}
    MaxRequests = 3
    MaxEvents = 1
    MaxQueue = 3
    ReqUnits = 2
    MsgUnits = 2
    ReadCap = 3
SPECIFICATION FairSpec
INVARIANT Framing
PROPERTIES ImplementsChannel Answered ErrorDisconnects
