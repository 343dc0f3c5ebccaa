----------------------------- MODULE MCClipboard -----------------------------
(***************************************************************************)
(* An instance of Clipboard.tla for model checking: one busy client, or    *)
(* two clients that read each other's selections.                          *)
(***************************************************************************)
EXTENDS Clipboard

CONSTANTS a, b

MCLoads ==
    {[clients |-> {a}, cuts |-> 2, copies |-> 1, pastes |-> 1, detaches |-> 1],
     [clients |-> {a, b}, cuts |-> 1, copies |-> 1, pastes |-> 0, detaches |-> 0]}
=============================================================================
