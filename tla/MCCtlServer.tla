---------------------------- MODULE MCCtlServer ----------------------------
(* CtlServer.tla for TLC: control clients are interchangeable.             *)
EXTENDS CtlServer

Symmetry == Permutations(Clients)
=============================================================================
