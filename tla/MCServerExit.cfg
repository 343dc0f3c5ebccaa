SPECIFICATION Spec
CONSTANTS
    Outputs = {o1}
    Clients = {c1}
    FirstOutput = o1
    Seats = {s1}
    FirstSeat = s1
    Setups <- OnlyAttached
INVARIANT ExitCompletes
