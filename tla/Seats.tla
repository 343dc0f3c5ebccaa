-------------------------------- MODULE Seats --------------------------------
(***************************************************************************)
(* Seats: the list that wayland.c keeps of them, the look-ups of seat.c,   *)
(* and how main.c gives every VNC client one of them.                      *)
(*                                                                         *)
(* A seating is what Server.tla holds of this: the list of seats, newest   *)
(* first, how many clients each is believed to have (occupancy), the seat  *)
(* of each client, and its ext_transient_seat_v1.  Each operator is one    *)
(* function from a seating to the next.                                    *)
(***************************************************************************)
EXTENDS Naturals, FiniteSets, Sequences, SequencesExt

CONSTANTS
    Clients,            \* VNC clients
    Seats               \* seats that the compositor may have

NoSeat == "no_seat"
SeatModes == {"any", "named", "transient"}    \* nothing, --seat, --transient-seat

ASSUME SeatsAssumption == NoSeat \notin Seats

\* "stale": the object belongs to a connection that has been closed.
Seatings ==
    [list : {l \in UNION {[1..n -> Seats] : n \in 0..Cardinality(Seats)} : IsInjective(l)},
     occupancy : [Seats -> Nat], seat : [Clients -> Seats \cup {NoSeat}],
     transient : [Clients -> {"none", "live", "stale"}]]

NewSeating ==
    [list |-> <<>>, occupancy |-> [x \in Seats |-> 0],
     seat |-> [c \in Clients |-> NoSeat], transient |-> [c \in Clients |-> "none"]]

\* The clients that hold a seat
Holders(g, x) == {c \in Clients : g.seat[c] = x}

\* registry_add_input() of a seat, and registry_remove() after on_seat_removed()
SeatAdded(g, x) == [g EXCEPT !.list = <<x>> \o @, !.occupancy[x] = 0]
SeatRemoved(g, x) == [g EXCEPT !.list = SelectSeq(@, LAMBDA y : y # x), !.occupancy[x] = 0]

\* seat_find_by_name() and seat_find_by_id()
SeatFind(g, x) == IF x \in Range(g.list) THEN x ELSE NoSeat

\* Mutant of SeatFindUnoccupied: only the first seat is looked at.
SeatFindUnoccupiedHead(g) ==
    IF g.list = <<>> \/ g.occupancy[Head(g.list)] # 0 THEN NoSeat ELSE Head(g.list)

\* seat_find_unoccupied()
SeatFindUnoccupied(g) ==
    LET i == SelectInSeq(g.list, LAMBDA x : g.occupancy[x] = 0)
    IN  IF i = 0 THEN NoSeat ELSE g.list[i]

\* seat_first()
SeatFirst(g) == IF g.list = <<>> THEN NoSeat ELSE Head(g.list)

\* client_init_transient_seat() and handle_transient_seat_ready(): within the
\* roundtrip the compositor makes one of the seats in pool and announces it, or
\* denies one when there is none.
InitTransientSeat(g, c, pool) ==
    LET fresh == pool \ Range(g.list)
        x == CHOOSE y \in fresh : TRUE
        t == [g EXCEPT !.transient[c] = "live"]
    IN  IF fresh = {} THEN t ELSE [SeatAdded(t, x) EXCEPT !.seat[c] = x]

\* client_init_seat() for a server with the given mode and selected_seat_name.
\* A client for which an assertion would fail, or that would go on to use a
\* seat that is NULL, is left with NoSeat.
InitSeat(g, mode, name, c, pool) ==
    LET free == SeatFindUnoccupied(g)
        t == CASE mode = "named" -> [g EXCEPT !.seat[c] = SeatFind(g, name)]
               [] mode = "transient" -> InitTransientSeat(g, c, pool)
               [] mode = "any" ->
                    [g EXCEPT !.seat[c] = IF free # NoSeat THEN free ELSE SeatFirst(g)]
    IN  IF t.seat[c] = NoSeat THEN t ELSE [t EXCEPT !.occupancy[t.seat[c]] = @ + 1]

\* The same for several clients, one after the other
InitSeats(g, mode, name, order, pool) ==
    FoldLeft(LAMBDA h, c : InitSeat(h, mode, name, c, pool), g, order)

\* Mutant of LeaveSeats: the seat is not given back.
LeaveSeatsNot(g, cs) ==
    [g EXCEPT !.seat = [c \in Clients |-> IF c \in cs THEN NoSeat ELSE g.seat[c]],
              !.transient = [c \in Clients |-> IF c \in cs THEN "none" ELSE g.transient[c]]]

\* client_destroy() of the clients of cs: each gives back its seat.
LeaveSeats(g, cs) ==
    [g EXCEPT !.occupancy = [x \in Seats |-> @[x] - Cardinality(Holders(g, x) \cap cs)],
              !.seat = [c \in Clients |-> IF c \in cs THEN NoSeat ELSE g.seat[c]],
              !.transient = [c \in Clients |-> IF c \in cs THEN "none" ELSE g.transient[c]]]

\* client_detach_wayland() and seat_list_destroy(); nothing is done about the
\* transient seats, whose objects are part of the connection.
DetachSeats(g) ==
    [NewSeating EXCEPT !.transient =
        [c \in Clients |-> IF g.transient[c] = "none" THEN "none" ELSE "stale"]]
=============================================================================
