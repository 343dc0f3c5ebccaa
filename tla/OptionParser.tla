----------------------------- MODULE OptionParser -----------------------------
(***************************************************************************)
(* The command line parser of wayvncctl (option-parser.c), as operators on *)
(* a parser record.  One step of the parser consumes one argument together *)
(* with the value that it takes from the next one.                         *)
(*                                                                         *)
(* An argument is not spelled out in characters.  It is a record of        *)
(*   kind:  "long", "short", "stop" (the argument "--") or "word",         *)
(*   names: the option names in it, a cluster of letters for "short",      *)
(*   rest:  rest[i] is the value that an option which takes one finds      *)
(*          behind the i-th name in the same argument, or None,            *)
(*   text:  the argument as a whole, for when it is the value of another.  *)
(***************************************************************************)
EXTENDS Integers, Sequences, FiniteSets, SequencesExt

CONSTANT MaxValues      \* room for values in the parser, 128 in the code

None == "none"

\* struct wv_option: short and long name, whether it takes a value.
Option(short, long, schema) ==
    [short |-> short, long |-> long, positional |-> None, schema |-> schema,
     subcommand |-> FALSE, repeating |-> FALSE]
Positional(name, subcommand) ==
    [short |-> None, long |-> None, positional |-> name, schema |-> FALSE,
     subcommand |-> subcommand, repeating |-> FALSE]

NewParser(argv) == [argv |-> argv, i |-> 2, values |-> <<>>, position |-> 0,
                    status |-> "parsing"]

-----------------------------------------------------------------------------
(* Looking up options: the index in the table, 0 if there is none.         *)

FindLong(options, name) == SelectInSeq(options, LAMBDA o : o.long = name)
FindShort(options, name) == SelectInSeq(options, LAMBDA o : o.short = name)
FindPositional(options, position) ==
    LET isPositional(k) == options[k].positional # None
        hits == {k \in DOMAIN options : isPositional(k) /\
                     Cardinality({j \in 1..(k - 1) : isPositional(j)}) = position}
    IN IF hits = {} THEN 0 ELSE CHOOSE k \in hits : TRUE

-----------------------------------------------------------------------------
(* Parsing.                                                                *)

\* A number converted to char, as the parameter argc of two of the functions
Char(n) == ((n + 128) % 256) - 128

Fail(p) == [p EXCEPT !.status = "error"]
Advance(p, n) == [p EXCEPT !.i = @ + n]

\* append_value, for the values that one argument gives
AppendValues(p, values) ==
    IF Len(p.values) + Len(values) > MaxValues THEN Fail(p)
    ELSE [p EXCEPT !.values = @ \o values]

Given(k, value) == [option |-> k, value |-> value]

\* TakeValue, but the next argument is not skipped
TakeValueTwice(p, before, k, rest, argc) ==
    IF rest # None THEN AppendValues(Advance(p, 1), Append(before, Given(k, rest)))
    ELSE IF p.i >= argc THEN Fail(p)
    ELSE AppendValues(Advance(p, 1), Append(before, Given(k, p.argv[p.i + 1].text)))

\* The values before, and one for option k: from the argument itself if there
\* is one in it (rest), or else the next argument, if that is there.
TakeValue(p, before, k, rest, argc) ==
    IF rest # None THEN AppendValues(Advance(p, 1), Append(before, Given(k, rest)))
    ELSE IF p.i >= argc THEN Fail(p)
    ELSE AppendValues(Advance(p, 2), Append(before, Given(k, p.argv[p.i + 1].text)))

ParseLong(options, p) ==
    LET arg == p.argv[p.i]
        k == FindLong(options, arg.names[1])
    IN IF k = 0 THEN Fail(p)
       ELSE IF options[k].schema THEN TakeValue(p, <<>>, k, arg.rest[1], Len(p.argv))
       ELSE AppendValues(Advance(p, 1), <<Given(k, "1")>>)

\* The letters of a cluster in turn, up to an unknown one or to the first that
\* takes a value.
ParseShort(options, p) ==
    LET arg == p.argv[p.i]
        find(name) == FindShort(options, name)
        last == SelectInSeq(arg.names, LAMBDA c : find(c) = 0 \/ options[find(c)].schema)
        flags == [n \in 1..(IF last = 0 THEN Len(arg.names) ELSE last - 1) |->
                     Given(find(arg.names[n]), "1")]
    IN IF last = 0 THEN AppendValues(Advance(p, 1), flags)
       ELSE IF find(arg.names[last]) = 0 THEN Fail(p)
       ELSE TakeValue(p, flags, find(arg.names[last]), arg.rest[last], Char(Len(p.argv)))

\* A word that no positional option is left for is skipped.  A subcommand ends
\* the parsing, and the rest of the arguments starts with it.
ParsePositional(options, p) ==
    LET k == FindPositional(options, p.position)
        o == options[k]
    IN IF k = 0 THEN Advance(p, 1)
       ELSE AppendValues([p EXCEPT !.position = IF o.repeating THEN @ ELSE @ + 1,
                                   !.i = IF o.subcommand THEN @ ELSE @ + 1,
                                   !.status = IF o.subcommand THEN "done" ELSE @],
                         <<Given(k, p.argv[p.i].text)>>)

\* One round of the loop of option_parser_parse
ParseNext(options, p) ==
    IF p.i > Len(p.argv) THEN [p EXCEPT !.status = "done"]
    ELSE CASE p.argv[p.i].kind = "stop" -> [Advance(p, 1) EXCEPT !.status = "done"]
           [] p.argv[p.i].kind = "long" -> ParseLong(options, p)
           [] p.argv[p.i].kind = "short" -> ParseShort(options, p)
           [] p.argv[p.i].kind = "word" -> ParsePositional(options, p)

Remaining(p) == SubSeq(p.argv, p.i, Len(p.argv))

\* The value of the option of this name that came first, None if it was not
\* given; no option of wayvncctl has a default.
GetValue(options, p, name) ==
    LET k == SelectInSeq(p.values, LAMBDA v :
                 name \in {options[v.option].short, options[v.option].long,
                           options[v.option].positional})
    IN IF k = 0 THEN None ELSE p.values[k].value

-----------------------------------------------------------------------------
(* What a command line means, without a parser: which arguments are values *)
(* of the one before, where the options end, and what each of them gives.  *)

NameOf(option) == IF option.long # None THEN option.long ELSE option.positional

\* The letter of a cluster or the long name behind which no more names are read
Decisive(options, arg) ==
    IF arg.kind = "long" THEN 1
    ELSE SelectInSeq(arg.names, LAMBDA c :
             FindShort(options, c) = 0 \/ options[FindShort(options, c)].schema)

Lookup(options, arg, n) ==
    IF arg.kind = "long" THEN FindLong(options, arg.names[n])
    ELSE FindShort(options, arg.names[n])

\* An option in arg needs the next argument as its value.
WantsNext(options, arg) ==
    /\ arg.kind \in {"long", "short"}
    /\ LET n == Decisive(options, arg)
           k == IF n = 0 THEN 0 ELSE Lookup(options, arg, n)
       IN k # 0 /\ options[k].schema /\ arg.rest[n] = None

\* Whether a command line is refused, and if not the value that it gives to
\* each option, which is that of the first argument to mention it.
Meaning(options, argv) ==
    LET isValue[i \in DOMAIN argv] ==
            i > 2 /\ ~isValue[i - 1] /\ WantsNext(options, argv[i - 1])
        words(i) == {j \in 2..i : ~isValue[j] /\ argv[j].kind = "word"}
        positional(i) == FindPositional(options, Cardinality(words(i)) - 1)
        stops(i) == \/ argv[i].kind = "stop"
                    \/ argv[i].kind = "word" /\ positional(i) # 0
                       /\ options[positional(i)].subcommand
        read == {i \in 2..Len(argv) : ~isValue[i] /\
                     \A j \in 2..(i - 1) : ~isValue[j] => ~stops(j)}
        named(i) == LET n == Decisive(options, argv[i])
                    IN IF n = 0 THEN DOMAIN argv[i].names ELSE 1..n
        value(i, k, n) == IF k = 0 \/ ~options[k].schema THEN "1"
                          ELSE IF argv[i].rest[n] # None THEN argv[i].rest[n]
                          ELSE IF i = Len(argv) THEN None
                          ELSE argv[i + 1].text
        given == UNION {
            CASE argv[i].kind = "stop" -> {}
              [] argv[i].kind = "word" ->
                    IF positional(i) = 0 THEN {}
                    ELSE {[at |-> i, nth |-> 1, option |-> positional(i), value |-> argv[i].text]}
              [] OTHER ->
                    {[at |-> i, nth |-> n, option |-> Lookup(options, argv[i], n),
                      value |-> value(i, Lookup(options, argv[i], n), n)] : n \in named(i)} :
            i \in read}
    IN [refused |-> \/ Cardinality(given) > MaxValues
                    \/ \E g \in given : g.option = 0 \/ g.value = None,
        value |-> [k \in DOMAIN options |->
            IF \A g \in given : g.option # k THEN None
            ELSE (CHOOSE g \in given : /\ g.option = k
                                       /\ \A e \in given : e.option = k => g.at <= e.at).value]]
=============================================================================
