SPECIFICATION FairSpec
CONSTANTS
    CommandLines <- MCCommandLines
    Kinds = {"command", "event_receive", "wayvnc_exit"}
    MaxRequests = 1
    MaxBurst = 1
    MsgUnits = 2
    MaxValues = 3
    ReadCap = 3
    MaxStream = 3
    MaxStarts = 2
    MaxTimeouts = 1
    MaxSignals = 1
INVARIANTS OptionsParsed EventsFaithful SuccessIsReal
PROPERTIES Brackets SingleEnds Reregisters
