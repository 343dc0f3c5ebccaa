------------------------------ MODULE CtlClient ------------------------------
(***************************************************************************)
(* wayvncctl: its command line (wayvncctl.c, option-parser.c) and the      *)
(* control client (ctl-client.c), against a server that promises no more   *)
(* than CtlChannel.tla does and that may exit, crash and start again.      *)
(*                                                                         *)
(* The client is one thread of blocking calls: pc names the call that it is*)
(* about to make.  Between two calls the server moves on, and a signal may *)
(* arrive anywhere.                                                        *)
(***************************************************************************)
EXTENDS CtlChannel, OptionParser

CONSTANTS
    CommandLines,   \* the command lines to run, sequences of arguments
    ReadCap,        \* size of the read buffer, in units
    MaxStream,      \* messages that the server sends on one connection
    MaxStarts,      \* starts of a server, after the one that may be running
    MaxTimeouts,    \* answers that take longer than the client waits
    MaxSignals      \* SIGINT or SIGTERM to the client

\* A message fits into the read buffer.
ASSUME ClientSizes == ReadCap \in Nat /\ MsgUnits <= ReadCap

VARIABLES
    parser,             \* the option parser that is in use
    opts,               \* flags and command
    pc,                 \* the next blocking call
    ctx,                \* what an object is read for: "single", "register", "event"
    again,              \* in block_until_reconnect
    read,               \* read_buffer
    wait_for_events,
    handlers,           \* setup_signals has been called
    result,             \* exit status
    out,                \* the last thing printed, events since the startup event, and
                        \* whether the number of prints is odd
    taken,              \* units that were received on this connection
    mixed,              \* the buffer starts with a part from an earlier connection
    sock,               \* the socket path: "absent", "stale", "bound", "listening"
    starts, timeouts, signals

clientVars == <<parser, opts, pc, ctx, again, read, wait_for_events, handlers,
                result, out, taken, mixed>>
vars == <<clientVars, channelVars, sock, starts, timeouts, signals>>

-----------------------------------------------------------------------------
(* Options and commands.                                                   *)

MainOptions == <<
    Positional("command", TRUE),
    Option("S", "socket", TRUE), Option("w", "wait", FALSE),
    Option("r", "reconnect", FALSE), Option("j", "json", FALSE),
    Option("V", "version", FALSE), Option("v", "verbose", FALSE),
    Option("h", "help", FALSE)>>

\* Commands and their parameters; the others have parameters of these shapes.
Params == [event_receive |-> <<>>,
           wayvnc_exit |-> <<>>,
           attach |-> <<Positional("display", FALSE), Option(None, "desktop", FALSE),
                        Option(None, "output", TRUE), Option(None, "toplevel", TRUE)>>]

CommandOptions(cmd) ==
    Params[cmd]
    \o (IF cmd = "event_receive" THEN <<Option(None, "show", TRUE)>> ELSE <<>>)
    \o <<Option("h", "help", FALSE)>>

Table == IF pc = "main" THEN MainOptions ELSE CommandOptions(opts.cmd)

Request == [n |-> 1, kind |-> IF opts.cmd = "attach" THEN "command" ELSE opts.cmd]

NoOptions == [wait |-> FALSE, reconnect |-> FALSE, json |-> FALSE, cmd |-> None]
EventNames == {"capture_changed", "wayvnc_startup"}
LongPath == "a path that does not fit into sun_path"

TypeOK ==
    /\ ChannelTypeOK
    /\ pc \in {"main", "command", "stat", "connect", "send", "object", "poll", "loop",
               "sleep_stat", "sleep_connect", "sleep_retry", "exit"}
    /\ ctx \in {"single", "register", "event"}
    /\ opts \in [wait : BOOLEAN, reconnect : BOOLEAN, json : BOOLEAN,
                 cmd : DOMAIN Params \cup {None}]
    /\ again \in BOOLEAN /\ wait_for_events \in BOOLEAN
    /\ handlers \in BOOLEAN /\ mixed \in BOOLEAN
    /\ Len(read) <= ReadCap
    /\ \A i \in DOMAIN read : read[i] \in [msg : Messages, part : 1..MsgUnits]
    /\ result \in {"running", "success", "failure", "killed", "crashed"}
    /\ out \in [last : {"nothing", "usage", "response", "startup", "event", "shutdown"},
                events : Nat, odd : {0, 1}]
    /\ taken \in 0..flow
    /\ sock \in {"absent", "stale", "bound", "listening"}
    /\ starts \in 0..MaxStarts /\ timeouts \in 0..MaxTimeouts /\ signals \in 0..MaxSignals

Init ==
    /\ \E line \in CommandLines : parser = NewParser(line)
    /\ opts = NoOptions
    /\ pc = "main" /\ ctx = "single" /\ again = FALSE
    /\ read = <<>> /\ taken = 0 /\ mixed = FALSE
    /\ wait_for_events = FALSE /\ handlers = FALSE
    /\ result = "running"
    /\ out = [last |-> "nothing", events |-> 0, odd |-> 0]
    /\ ChannelInit
    /\ sock \in {"absent", "stale", "listening"}
    /\ starts = 0 /\ timeouts = 0 /\ signals = 0

-----------------------------------------------------------------------------
(* Output and the end of the program.                                      *)

\* Something is printed, which changes out also if the same was printed before.
Prints(what) ==
    out' = [last |-> what,
            events |-> IF what = "event" THEN out.events + 1 ELSE 0,
            odd |-> 1 - out.odd]

Returns(status) == pc' = "exit" /\ result' = status

PrintUsage == Prints("usage")
PrintEvent == Prints("event")
SendStartupEvent == Prints("startup")
SendShutdownEvent == Prints("shutdown")

\* A response is printed and its code is the result, which is 0 for a command
\* that the server carried out.  A response to a request it refused is printed
\* as an error.
PrintResponse(m) ==
    /\ Prints("response")
    /\ \E code \in {"success", "failure"} :
        /\ m.type = "error" => code = "failure"
        /\ Request.kind # "command" /\ m.type # "error" => code = "success"
        /\ Returns(code)

-----------------------------------------------------------------------------
(* main, up to the connection.                                             *)

\* An argument is parsed.
ParseArgument ==
    /\ pc \in {"main", "command"} /\ parser.status = "parsing"
    /\ parser' = ParseNext(Table, parser)
    /\ UNCHANGED <<opts, pc, ctx, again, read, wait_for_events, handlers, result, out,
                   taken, mixed, channelVars>>

\* The options before the command are known: help and version end here, and so
\* does a line with a wrong option, without a command or with an unknown one.
MainParsed ==
    LET value(name) == GetValue(MainOptions, parser, name)
        has(name) == value(name) # None
        usage(status) == PrintUsage /\ Returns(status) /\ UNCHANGED <<parser, opts>>
    IN
    /\ pc = "main" /\ parser.status # "parsing"
    /\ CASE parser.status = "error" -> usage("failure")
         [] parser.status = "done" /\ (has("help") \/ has("version")) -> usage("success")
         [] OTHER ->
            IF value("command") \notin DOMAIN Params \/ value("socket") = LongPath
            THEN usage("failure")
            ELSE /\ opts' = [wait |-> has("wait"), reconnect |-> has("reconnect"),
                             json |-> has("json"), cmd |-> value("command")]
                 /\ parser' = NewParser(Remaining(parser))
                 /\ pc' = "command"
                 /\ UNCHANGED <<result, out>>
    /\ UNCHANGED <<ctx, again, read, wait_for_events, handlers, taken, mixed, channelVars>>

\* The parameters of the command are known.
CommandParsed ==
    LET value(name) == GetValue(Table, parser, name)
        help == value("help") # None
        show == opts.cmd = "event_receive" /\ value("show") # None
    IN
    /\ pc = "command" /\ parser.status # "parsing"
    /\ \/ /\ parser.status = "error"
          /\ Returns("failure") /\ UNCHANGED <<parser, out, ctx>>
       \/ /\ parser.status = "done" /\ help
          /\ IF opts.json THEN UNCHANGED out ELSE PrintUsage
          /\ Returns(IF opts.json THEN "failure" ELSE "success")
          /\ UNCHANGED <<parser, ctx>>
       \/ /\ parser.status = "done" /\ ~help /\ show
          /\ IF value("show") \in EventNames THEN PrintUsage ELSE UNCHANGED out
          /\ Returns(IF value("show") \in EventNames THEN "success" ELSE "failure")
          /\ UNCHANGED <<parser, ctx>>
       \/ /\ parser.status = "done" /\ ~help /\ ~show
          /\ pc' = "stat"
          /\ ctx' = IF opts.cmd = "event_receive" THEN "register" ELSE "single"
          /\ parser' = NewParser(<<>>)
          /\ UNCHANGED <<result, out>>
    /\ UNCHANGED <<opts, again, read, wait_for_events, handlers, taken, mixed, channelVars>>

-----------------------------------------------------------------------------
(* Connecting.  A timeout of -1 means to wait, and the event loop always   *)
(* waits when it connects again.                                           *)

Waits == again \/ opts.wait

\* No connection, or no registration: the loop of block_until_reconnect sleeps
\* and tries again, anything else gives up.
ConnectFailed ==
    IF again THEN pc' = "sleep_retry" /\ UNCHANGED result ELSE Returns("failure")

\* wait_for_socket looks for the socket path.
Stat ==
    /\ pc = "stat"
    /\ \/ sock # "absent" /\ pc' = "connect" /\ UNCHANGED result
       \/ sock = "absent" /\ Waits /\ pc' = "sleep_stat" /\ UNCHANGED result
       \/ sock = "absent" /\ ~Waits /\ ConnectFailed
    /\ UNCHANGED <<parser, opts, ctx, again, read, wait_for_events, handlers, out, taken,
                   mixed, channelVars>>

\* A usleep ends.
SleepEnds ==
    /\ \/ pc \in {"sleep_stat", "sleep_retry"} /\ pc' = "stat"
       \/ pc = "sleep_connect" /\ pc' = "connect"
    /\ UNCHANGED <<parser, opts, ctx, again, read, wait_for_events, handlers, result, out,
                   taken, mixed, channelVars>>

\* try_connect.  The old connection is closed and the server's side of it is of
\* no further interest; what was read from it stays in the buffer.
Connect ==
    /\ pc = "connect"
    /\ \/ /\ sock = "listening"
          /\ conn' = "open" /\ peer' = TRUE
          /\ asked' = <<>> /\ stream' = <<>> /\ flow' = 0 /\ UNCHANGED exiting
          /\ taken' = 0 /\ mixed' = (mixed \/ read # <<>>)
          /\ pc' = "send" /\ UNCHANGED result
       \/ /\ sock = "absent" /\ Waits
          /\ pc' = "sleep_connect"
          /\ UNCHANGED <<result, taken, mixed, channelVars>>
       \/ /\ sock # "listening" /\ (sock # "absent" \/ ~Waits)
          /\ ConnectFailed
          /\ UNCHANGED <<taken, mixed, channelVars>>
    /\ UNCHANGED <<parser, opts, ctx, again, read, wait_for_events, handlers, out>>

\* ctl_client_send_request: the request goes out, or the connection is gone.
Send ==
    /\ pc = "send"
    /\ \/ Ask(Request) /\ pc' = "object" /\ UNCHANGED result
       \/ conn # "open" /\ ConnectFailed /\ UNCHANGED channelVars
    /\ UNCHANGED <<parser, opts, ctx, again, read, wait_for_events, handlers, out, taken,
                   mixed>>

-----------------------------------------------------------------------------
(* Reading an object.                                                      *)

\* json_from_buffer.  A message with a part of another one in front of it never
\* makes sense, but the parser may take a while to notice.
Parsed ==
    IF mixed THEN {IF Len(read) = ReadCap THEN "EMSGSIZE" ELSE "EAGAIN"}
                  \cup (IF taken > 0 THEN {"EINVAL"} ELSE {})
    ELSE IF Len(read) >= MsgUnits THEN {"object"}
    ELSE {"EAGAIN"}

\* Consumed, but everything that has been read is dropped
ConsumedAll == <<>>

\* advance_read_buffer
Consumed == SubSeq(read, MsgUnits + 1, Len(read))

Unit(i) == [msg |-> stream[((i - 1) \div MsgUnits) + 1], part |-> ((i - 1) % MsgUnits) + 1]

\* SingleFailed, but every command takes a lost connection for success
SingleFailedKindly(errno) ==
    Returns(IF errno = "ECONNRESET" THEN "success" ELSE "failure")

\* The result of a command that got no response
SingleFailed(errno) ==
    Returns(IF errno = "ECONNRESET" /\ opts.cmd = "wayvnc_exit" THEN "success" ELSE "failure")

\* LoopFailed, but no shutdown event is printed before it connects again
LoopFailedSilent(errno) ==
    /\ IF errno = "ECONNRESET" /\ ~opts.reconnect THEN SendShutdownEvent ELSE UNCHANGED out
    /\ IF errno = "ECONNRESET" /\ opts.reconnect
       THEN again' = TRUE /\ ctx' = "register" /\ pc' = "stat" /\ UNCHANGED result
       ELSE Returns("success") /\ UNCHANGED <<again, ctx>>

\* The event loop reads no further: after the end of the connection it may set
\* up a new one, otherwise it is over.
LoopFailed(errno) ==
    /\ IF errno = "ECONNRESET" THEN SendShutdownEvent ELSE UNCHANGED out
    /\ IF errno = "ECONNRESET" /\ opts.reconnect
       THEN again' = TRUE /\ ctx' = "register" /\ pc' = "stat" /\ UNCHANGED result
       ELSE Returns("success") /\ UNCHANGED <<again, ctx>>

\* read_one_object returns NULL.
NoObject(errno) ==
    /\ \/ ctx = "single" /\ SingleFailed(errno) /\ UNCHANGED <<again, ctx, out>>
       \/ ctx = "register" /\ ConnectFailed /\ UNCHANGED <<again, ctx, out>>
       \/ ctx = "event" /\ LoopFailed(errno)
    /\ UNCHANGED handlers

\* An answer to the registration.  Only the first one sets up the signals.
Registered(m) ==
    IF m.type = "registered"
    THEN /\ SendStartupEvent
         /\ again' = FALSE /\ pc' = "loop"
         /\ wait_for_events' = (wait_for_events \/ ~again) /\ handlers' = TRUE
         /\ UNCHANGED result
    ELSE ConnectFailed /\ UNCHANGED <<again, wait_for_events, handlers, out>>

\* A message that is not an event has no request to print.
EventReceived(m) ==
    IF m.type = "event" THEN PrintEvent /\ pc' = "loop" /\ UNCHANGED result
    ELSE Returns("crashed") /\ UNCHANGED out

\* read_one_object returns m.
Object(m) ==
    \/ /\ ctx = "single"
       /\ IF m.type = "event" THEN Returns("failure") /\ UNCHANGED out ELSE PrintResponse(m)
       /\ UNCHANGED <<again, wait_for_events, handlers>>
    \/ ctx = "register" /\ Registered(m)
    \/ ctx = "event" /\ EventReceived(m) /\ UNCHANGED <<again, wait_for_events, handlers>>

\* The buffer holds an object, or something wrong, or not enough.
ReadObject ==
    /\ pc = "object"
    /\ \E p \in Parsed :
        \/ p = "object" /\ read' = Consumed /\ Object(read[1].msg) /\ UNCHANGED ctx
        \/ /\ p = "EAGAIN" /\ pc' = "poll"
           /\ UNCHANGED <<read, ctx, again, wait_for_events, handlers, result, out>>
        \/ p \in {"EINVAL", "EMSGSIZE"} /\ NoObject(p) /\ UNCHANGED <<read, wait_for_events>>
    /\ UNCHANGED <<parser, opts, taken, mixed, channelVars>>

\* There is something to read: as much as there is room for.
Recv ==
    /\ pc = "poll" /\ taken < flow
    /\ LET room == ReadCap - Len(read)
           n == IF flow - taken < room THEN flow - taken ELSE room
       IN /\ read' = read \o [i \in 1..n |-> Unit(taken + i)]
          /\ taken' = taken + n
    /\ pc' = "object"
    /\ UNCHANGED <<parser, opts, ctx, again, wait_for_events, handlers, result, out, mixed,
                   channelVars>>

\* Disconnected, but only the event loop takes notice
DisconnectedLater ==
    /\ pc = "poll" /\ taken = flow /\ conn = "gone"
    /\ IF ctx = "event" THEN NoObject("ECONNRESET")
       ELSE pc' = "object" /\ UNCHANGED <<ctx, again, handlers, result, out>>
    /\ UNCHANGED <<wait_for_events, parser, opts, read, taken, mixed, channelVars>>

\* The connection has ended.
Disconnected ==
    /\ pc = "poll" /\ taken = flow /\ conn = "gone"
    /\ NoObject("ECONNRESET")
    /\ UNCHANGED <<wait_for_events, parser, opts, read, taken, mixed, channelVars>>

Blocked == taken = flow /\ conn = "open"

\* Timeout, but of a registration only
TimeoutRegistering ==
    /\ pc = "poll" /\ Blocked /\ ctx = "register" /\ timeouts < MaxTimeouts
    /\ timeouts' = timeouts + 1
    /\ NoObject("EAGAIN")
    /\ UNCHANGED <<wait_for_events, parser, opts, read, taken, mixed, channelVars>>

\* No answer within a second.  Events are waited for without a limit.
Timeout ==
    /\ pc = "poll" /\ Blocked /\ ctx # "event" /\ timeouts < MaxTimeouts
    /\ timeouts' = timeouts + 1
    /\ NoObject("EAGAIN")
    /\ UNCHANGED <<wait_for_events, parser, opts, read, taken, mixed, channelVars>>

\* The condition of the event loop
Loop ==
    /\ pc = "loop"
    /\ \/ wait_for_events /\ pc' = "object" /\ ctx' = "event" /\ UNCHANGED result
       \/ ~wait_for_events /\ Returns("success") /\ UNCHANGED ctx
    /\ UNCHANGED <<parser, opts, again, read, wait_for_events, handlers, out, taken, mixed,
                   channelVars>>

-----------------------------------------------------------------------------
(* Signals.                                                                *)

\* The call that the client blocks in returns with EINTR.
Interrupted ==
    \/ pc = "poll" /\ Blocked /\ NoObject("EINTR")
    \/ pc \in {"sleep_stat", "sleep_connect"} /\ ConnectFailed
       /\ UNCHANGED <<ctx, again, handlers, out>>
    \/ pc = "sleep_retry" /\ Returns("success") /\ UNCHANGED <<ctx, again, handlers, out>>

\* Without handlers a signal kills the client.  With them it ends the loop, and
\* the call that the client is in; if it is between two calls the next one is
\* made all the same.
Signal ==
    /\ pc # "exit" /\ signals < MaxSignals
    /\ signals' = signals + 1
    /\ \/ ~handlers /\ Returns("killed") /\ UNCHANGED <<ctx, again, wait_for_events, handlers, out>>
       \/ /\ handlers /\ wait_for_events' = FALSE
          /\ UNCHANGED <<pc, ctx, again, handlers, result, out>>
       \/ handlers /\ wait_for_events' = FALSE /\ Interrupted
    /\ UNCHANGED <<parser, opts, read, taken, mixed, channelVars>>

-----------------------------------------------------------------------------
(* The server.                                                             *)

\* A server that starts removes a stale socket; one that exits removes its own.
Unlink == sock = "stale" /\ sock' = "absent" /\ UNCHANGED <<channelVars, starts>>

Bind ==
    /\ sock = "absent" /\ starts < MaxStarts
    /\ sock' = "bound" /\ starts' = starts + 1
    /\ UNCHANGED channelVars

Listen == sock = "bound" /\ sock' = "listening" /\ UNCHANGED <<channelVars, starts>>

\* The process is gone, and the connection with it.
Gone ==
    /\ sock' = "stale" /\ exiting' = FALSE
    /\ IF conn = "open" THEN Ends(TRUE, stream, flow) ELSE UNCHANGED <<conn, asked, stream, flow>>
    /\ UNCHANGED <<peer, starts>>

Crash == sock \in {"bound", "listening"} /\ Gone

\* ctl_server_stop: clients first, then the socket.
Stop ==
    /\ exiting
    /\ \/ conn = "open" /\ End /\ UNCHANGED <<sock, starts>>
       \/ Gone

ExitServer == sock = "listening" /\ Exit /\ UNCHANGED <<sock, starts>>

\* Requests are handled, or events come up.
ServeRequests(k) ==
    /\ asked' = SubSeq(asked, k + 1, Len(asked))
    /\ \E burst \in [0..k -> 0..MaxBurst] : Serve(k, burst)
    /\ Len(stream') <= MaxStream
    /\ UNCHANGED <<sock, starts>>

Transmit ==
    /\ conn = "open" /\ flow < Len(stream) * MsgUnits
    /\ \E n \in 1..MsgUnits, error, end \in BOOLEAN : Deliver(n, error, end)
    /\ UNCHANGED <<sock, starts>>

-----------------------------------------------------------------------------

ClientStep ==
    /\ \/ ParseArgument \/ MainParsed \/ CommandParsed
       \/ Stat \/ SleepEnds \/ Connect \/ Send
       \/ ReadObject \/ Recv \/ Disconnected \/ Loop
    /\ UNCHANGED <<sock, starts, timeouts, signals>>

\* What the server does before the client turns to it is in the initial states,
\* and what it does once the client has exited is not looked at.
Server(action) ==
    /\ pc \notin {"main", "command", "exit"}
    /\ action
    /\ UNCHANGED <<clientVars, timeouts, signals>>

ServerStep ==
    \/ Server(Unlink) \/ Server(Bind) \/ Server(Listen) \/ Server(Crash)
    \/ Server(Stop) \/ Server(ExitServer) \/ Server(Transmit)
    \/ \E k \in 0..Len(asked) : Server(ServeRequests(k))

Exited == pc = "exit" /\ UNCHANGED vars

Next ==
    \/ ClientStep \/ ServerStep \/ Exited
    \/ Timeout /\ UNCHANGED <<sock, starts, signals>>
    \/ Signal /\ UNCHANGED <<sock, starts, timeouts>>

Spec == Init /\ [][Next]_vars

\* The client runs whenever a call of its returns, and the poll() of a command
\* does return after a second.  Nothing makes the server do anything, nor a
\* signal arrive.
ClientFairness ==
    /\ WF_vars(ClientStep)
    /\ WF_vars(ctx = "single" /\ Timeout /\ UNCHANGED <<sock, starts, signals>>)

FairSpec == Spec /\ ClientFairness

\* A server that has come up handles what it is asked, writes what it owes and
\* exits when it has to; its main loop (aml_run) does not starve a handler.
ServerFairness ==
    /\ WF_vars(Server(Listen))
    /\ WF_vars(Server(Stop))
    /\ WF_vars(asked # <<>> /\ Server(ServeRequests(Len(asked))))
    /\ WF_vars(Server(Transmit))

-----------------------------------------------------------------------------
(* Properties.                                                             *)

\* option_parser_parse gives every option the value that the command line gives
\* it, the argument after an option is its value and nothing else, and the line
\* is refused if it names an unknown option or leaves out a value.
OptionsParsed ==
    pc \in {"main", "command"} /\ parser.status # "parsing" =>
        LET meaning == Meaning(Table, parser.argv) IN
        /\ (parser.status = "error") = meaning.refused
        /\ parser.status = "done" =>
            \A k \in DOMAIN Table :
                GetValue(Table, parser, NameOf(Table[k])) = meaning.value[k]

\* Between wayvnc-startup and the end of that connection, what ctl_client_event_loop
\* has printed and what is still in its buffer are the messages of that connection,
\* from the answer to the registration on: none is lost, printed twice, cut or
\* taken from an earlier connection, and none is something else than an event.
EventsFaithful ==
    /\ result # "crashed"
    /\ out.last \in {"startup", "event"} =>
        LET done == 1 + out.events IN
        /\ taken = done * MsgUnits + Len(read)
        /\ \A i \in DOMAIN read : read[i] = Unit(done * MsgUnits + i)
        /\ \A i \in 1..done : stream[i].type = IF i = 1 THEN "registered" ELSE "event"

\* Events are printed after a wayvnc-startup that no wayvnc-shutdown has followed,
\* and those two alternate, through every crash and restart of the server: every
\* print is one of these cases, also one that repeats the last.
Brackets ==
    [][out' # out =>
        CASE out'.last = "startup" -> out.last \in {"nothing", "shutdown"}
          [] out'.last \in {"event", "shutdown"} -> out.last \in {"startup", "event"}
          [] OTHER -> out.last = "nothing"]_vars

\* ctl_client_print_single_command reports success only when the server has
\* answered, or has gone away after it was told to exit.
SuccessIsReal ==
    result = "success" /\ ctx = "single" /\ out.last # "usage" =>
        \/ out.last = "response"
        \/ opts.cmd = "wayvnc_exit" /\ conn = "gone"

\* A command that has reached the server ends, also if the server hangs: with an
\* answer, or because the server goes away, or because it takes too long.
SingleEnds == pc = "send" /\ ctx = "single" ~> pc = "exit"

\* With --reconnect a client that has lost the server registers again as soon as
\* one stays up and does not hang, unless a part of a message of the old
\* connection is left in the read buffer, which block_until_reconnect does not
\* empty.
Reregisters ==
    ServerFairness =>
        (again /\ sock = "listening" /\ ~exiting
            ~> ~again \/ pc = "exit" \/ sock # "listening" \/ exiting \/ mixed)

\* Why Brackets and SuccessIsReal hold: what an object is read for tells what
\* has been printed.  A single command has printed nothing before its result.
\* A registration follows nothing, or the wayvnc-shutdown of the connection
\* before; the event loop is entered with a wayvnc-startup.
SessionInv ==
    /\ out.odd \in {0, 1}
    /\ (result = "running") <=> (pc # "exit")
    /\ ctx \in {"single", "register", "event"}
    /\ again \in BOOLEAN
    /\ pc \in {"main", "command"} => ctx = "single"
    /\ ctx = "single" => ~again /\ pc # "loop"
    /\ ctx = "event" => ~again /\ pc \in {"object", "poll", "loop", "exit"}
    /\ pc = "loop" => ~again
    /\ pc = "sleep_retry" => again
    /\ pc # "exit" =>
        /\ ctx = "single" => out.last = "nothing"
        /\ ctx = "register" /\ pc # "loop" =>
               out.last = IF again THEN "shutdown" ELSE "nothing"
        /\ ctx = "event" \/ pc = "loop" => out.last \in {"startup", "event"}
    /\ SuccessIsReal
=============================================================================
