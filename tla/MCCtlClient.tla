---------------------------- MODULE MCCtlClient ----------------------------
(* Model checking wayvncctl: command lines of up to three arguments out   *)
(* of a small vocabulary, and a server that comes and goes.                 *)
EXTENDS CtlClient

Long(name, value) ==
    [kind |-> "long", names |-> <<name>>, rest |-> <<value>>, text |-> name]
Short(names, rest) ==
    [kind |-> "short", names |-> names, rest |-> rest, text |-> names[1]]
Word(text) == [kind |-> "word", names |-> <<>>, rest |-> <<>>, text |-> text]
Stop_ == [kind |-> "stop", names |-> <<>>, rest |-> <<>>, text |-> "--"]

Vocabulary == {
    Word("event_receive"), Word("wayvnc_exit"), Word("attach"), Word("capture_changed"),
    Long("wait", None), Long("socket", None), Long("socket", LongPath),
    Long("show", None), Long("output", "eDP"), Long("help", None), Long("wrong", None),
    Short(<<"w", "r">>, <<"r", None>>), Short(<<"r", "S">>, <<"S", None>>),
    Short(<<"S", "w">>, <<"w", None>>), Stop_}

\* The options that a line of three arguments starts with
FirstOfThree == {Long("wait", None), Short(<<"r", "S">>, <<"S", None>>), Word("event_receive")}

MCCommandLines ==
    LET upToTwo == UNION {[1..n -> Vocabulary] : n \in 0..2}
        three == {<<a>> \o line : a \in FirstOfThree, line \in [1..2 -> Vocabulary]}
        json == {<<Short(<<"j">>, <<None>>), Word("attach"), Long("help", None)>>}
    IN {<<Word("wayvncctl")>> \o line : line \in upToTwo \cup three \cup json}
=============================================================================
