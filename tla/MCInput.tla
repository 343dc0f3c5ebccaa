------------------------------- MODULE MCInput -------------------------------
(***************************************************************************)
(* An instance of Input.tla for model checking: two groups like the German *)
(* and the American layout, which have symbols of their own and two        *)
(* symbols on exchanged keys.  The first group has symbol 2 on two keys,   *)
(* like the less sign of the American one: shifted on key 4, where it      *)
(* comes first in the lookup table, and plain on key 5.                    *)
(***************************************************************************)
EXTENDS Input

Same(s) == [g \in {0, 1} |-> s]
MCKeymap ==
    [c \in 1..6 |->
        CASE c = 1 -> [action |-> "Shift", syms |-> Same(<<21>>)]
          [] c = 2 -> [action |-> "Lock", syms |-> Same(<<22>>)]
          [] c = 3 -> [action |-> "next", syms |-> Same(<<20>>)]
          [] c = 4 -> [action |-> "none", syms |-> [g \in {0, 1} |-> IF g = 0 THEN <<1, 2>> ELSE <<3>>]]
          [] c = 5 -> [action |-> "none", syms |-> [g \in {0, 1} |-> IF g = 0 THEN <<2, 4>> ELSE <<5>>]]
          [] c = 6 -> [action |-> "none", syms |-> [g \in {0, 1} |-> IF g = 0 THEN <<5>> ELSE <<4>>]]]
MCPoints == {<<-1, 0>>, <<1, 0>>, <<1, 1>>}
=============================================================================
