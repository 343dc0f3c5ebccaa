SPECIFICATION Spec
CONSTANTS
    Outputs = {o1, o2}
    Clients = {c1, c2}
    FirstOutput = o1
    Seats = {s1, s2, s3}
    FirstSeat = s1
    Setups <- AllSetups
SYMMETRY Symmetry
INVARIANTS DetachedIsClean SourceObserved CaptureMatchesSource ClientsHaveObjects
    PowerOnlyWhileWatched CaptureDriven AttachedHasSource SeatsCounted LayoutFits
PROPERTIES SharedWhenFull LayoutOwned
