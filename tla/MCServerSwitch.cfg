SPECIFICATION Spec
CONSTANTS
    Outputs = {o1, o2}
    Clients = {c1}
    FirstOutput = o1
    Seats = {s1}
    FirstSeat = s1
    Setups <- OnlyDetached
SYMMETRY Symmetry
INVARIANT FrameHasDisplay
