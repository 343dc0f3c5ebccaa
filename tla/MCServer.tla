------------------------------ MODULE MCServer ------------------------------
(***************************************************************************)
(* Instances of Server.tla for model checking.                             *)
(***************************************************************************)
EXTENDS Server, TLC

CONSTANTS FirstOutput, FirstSeat

\* Started with --detached on a compositor with every protocol
Detached ==
    [StartDetached |-> TRUE, ExitOnDisconnect |-> FALSE,
     InitialType |-> "output", InitialName |-> FirstOutput,
     AttachTypes |-> Types, UseToplevel |-> TRUE,
     PowerManager |-> TRUE, ExtCapture |-> TRUE,
     Heads |-> Outputs, SeatMode |-> "any", SelectedSeat |-> FirstSeat,
     SeatLists |-> {<<FirstSeat>>}, SeatsChange |-> FALSE,
     Resizing |-> FALSE, OutputManager |-> FALSE, Headless |-> Outputs]

\* The same with wlr-screencopy, whose failures arm the retry timer
Wlr == [Detached EXCEPT !.ExitOnDisconnect = TRUE, !.AttachTypes = {"output", "desktop"},
                        !.ExtCapture = FALSE]

\* Started on a compositor, and not meant to outlive it
Attached == [Detached EXCEPT !.StartDetached = FALSE]

\* Started without --output, --desktop or --toplevel: the first output there is
Unspecified == [Detached EXCEPT !.InitialType = "unspec", !.InitialName = None,
                                !.AttachTypes = {"unspec"}]

\* One output and no power management, while seats come and go: without an
\* option, with --seat and with --transient-seat
Seated(mode, lists) ==
    [Detached EXCEPT !.Heads = {FirstOutput}, !.AttachTypes = {"unspec"},
                     !.PowerManager = FALSE, !.UseToplevel = FALSE,
                     !.SeatMode = mode, !.SeatLists = lists, !.SeatsChange = TRUE]

SomeSeats == {<<>>, <<FirstSeat>>} \cup {<<x, y>> : x \in {FirstSeat}, y \in Seats \ {FirstSeat}}
AnySeat == Seated("any", SomeSeats)
NamedSeat == Seated("named", SomeSeats)
TransientSeat == Seated("transient", {<<>>})

\* Clients that resize a desktop or an output, whose heads come and go
Resized(type) ==
    [Detached EXCEPT !.InitialType = type, !.AttachTypes = {type}, !.PowerManager = FALSE,
                     !.UseToplevel = FALSE,
                     !.Resizing = TRUE, !.OutputManager = TRUE]
ResizedDesktop == Resized("desktop")
ResizedOutput == [Resized("output") EXCEPT !.StartDetached = FALSE, !.AttachTypes = {}]

AllSetups == {Detached, Wlr, Attached, Unspecified, AnySeat, NamedSeat, TransientSeat,
              ResizedDesktop, ResizedOutput}
OnlyDetached == {Detached}
OnlyAttached == {Attached}

Symmetry == Permutations(Clients)
=============================================================================
