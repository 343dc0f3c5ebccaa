--------------------------- MODULE CtlClientProofs ---------------------------
(***************************************************************************)
(* Proofs about wayvncctl, for every command line, every size of message   *)
(* and buffer, and any number of server restarts, timeouts and signals:    *)
(* what it prints comes in order, and success is real.                     *)
(***************************************************************************)
EXTENDS CtlClient, TLAPS

\* What Brackets says about one step
InOrder ==
    out' # out =>
        CASE out'.last = "startup" -> out.last \in {"nothing", "shutdown"}
          [] out'.last \in {"event", "shutdown"} -> out.last \in {"startup", "event"}
          [] OTHER -> out.last = "nothing"

\* So that Brackets speaks of every print: each one changes out, also if the same
\* has been printed before.
LEMMA EveryPrintShows ==
    ASSUME SessionInv, NEW what, Prints(what)
    PROVE  out' # out /\ out'.last = what /\ out'.odd \in {0, 1}
BY DEF SessionInv, Prints

\* Nothing is printed, or one thing.
PrintsOnce == out' = out \/ out'.odd = 1 - out.odd

\* The number of prints is even or odd.
LEMMA OddType ==
    ASSUME SessionInv, PrintsOnce
    PROVE  out'.odd \in {0, 1}
BY DEF SessionInv, PrintsOnce

\* Each action keeps the session's invariant and prints in order.
Good == SessionInv' /\ InOrder

-----------------------------------------------------------------------------
(* The command line.                                                       *)

\* Parsing options prints nothing.
LEMMA ParseArgumentGood ==
    ASSUME SessionInv, ParseArgument
    PROVE  Good
BY DEF ParseArgument, Good, InOrder, SessionInv, SuccessIsReal, channelVars

\* main() once the options are parsed
LEMMA MainParsedGood ==
    ASSUME SessionInv, MainParsed
    PROVE  Good
<1>1. pc = "main" /\ ctx = "single" /\ out.last = "nothing" /\ ~again /\ ctx' = ctx /\ again' = again
  BY DEF MainParsed, SessionInv
<1>2. \/ out'.last = "usage" /\ pc' = "exit" /\ result' \in {"success", "failure"}
      \/ out' = out /\ pc' = "command" /\ result' = result
  BY DEF MainParsed, PrintUsage, Prints, Returns
<1>3. out'.odd \in {0, 1}
  BY OddType DEF MainParsed, PrintUsage, Prints, PrintsOnce
<1> QED
  BY <1>1, <1>2, <1>3 DEF Good, InOrder, SessionInv, SuccessIsReal

\* ctl_client_run_command() once the command is parsed
LEMMA CommandParsedGood ==
    ASSUME SessionInv, CommandParsed
    PROVE  Good
<1>1. pc = "command" /\ ctx = "single" /\ out.last = "nothing" /\ ~again /\ again' = again
  BY DEF CommandParsed, SessionInv
<1>2. \/ /\ out'.last = "usage" \/ (out' = out /\ result' = "failure")
         /\ pc' = "exit" /\ result' \in {"success", "failure"} /\ ctx' = ctx
      \/ out' = out /\ pc' = "stat" /\ result' = result /\ ctx' \in {"single", "register"}
  BY DEF CommandParsed, PrintUsage, Prints, Returns
<1>3. out'.odd \in {0, 1}
  BY OddType DEF CommandParsed, PrintUsage, Prints, PrintsOnce
<1> QED
  BY <1>1, <1>2, <1>3 DEF Good, InOrder, SessionInv, SuccessIsReal

-----------------------------------------------------------------------------
(* The connection.                                                         *)

\* Without a connection the client sleeps or fails, and nothing is printed.
LEMMA StatGood ==
    ASSUME SessionInv, Stat
    PROVE  Good
BY DEF Stat, ConnectFailed, Returns, Good, InOrder, SessionInv, SuccessIsReal

\* The wait of wait_for_socket() ends.
LEMMA SleepEndsGood ==
    ASSUME SessionInv, SleepEnds
    PROVE  Good
BY DEF SleepEnds, Good, InOrder, SessionInv, SuccessIsReal

\* ctl_client_connect()
LEMMA ConnectGood ==
    ASSUME SessionInv, Connect
    PROVE  Good
BY DEF Connect, ConnectFailed, Returns, Good, InOrder, SessionInv, SuccessIsReal

\* ctl_client_send_request()
LEMMA SendGood ==
    ASSUME SessionInv, Send
    PROVE  Good
BY DEF Send, ConnectFailed, Returns, Good, InOrder, SessionInv, SuccessIsReal

-----------------------------------------------------------------------------
(* Objects.                                                                *)

\* read_one_object() returns NULL while it reads or polls.
LEMMA NoObjectGood ==
    ASSUME SessionInv, NEW errno, pc \in {"object", "poll"}, NoObject(errno),
           errno = "ECONNRESET" => conn = "gone", UNCHANGED <<opts, conn>>
    PROVE  Good
<1>1. CASE ctx = "single"
  BY <1>1 DEF NoObject, SingleFailed, Returns, Good, InOrder, SessionInv, SuccessIsReal
<1>2. CASE ctx = "register"
  BY <1>2 DEF NoObject, ConnectFailed, Returns, Good, InOrder, SessionInv, SuccessIsReal
<1>3. CASE ctx = "event"
  <2>1. out.last \in {"startup", "event"} /\ ~again /\ again \in BOOLEAN /\ result = "running"
    BY <1>3 DEF SessionInv
  <2>2. /\ out' = out \/ out'.last = "shutdown"
        /\ \/ /\ out'.last = "shutdown" /\ again' = TRUE /\ ctx' = "register"
              /\ pc' = "stat" /\ result' = result
           \/ pc' = "exit" /\ result' = "success" /\ again' = again /\ ctx' = ctx
    BY <1>3 DEF NoObject, LoopFailed, SendShutdownEvent, Prints, Returns
  <2>5. out'.odd \in {0, 1}
    BY <1>3, OddType DEF NoObject, LoopFailed, SendShutdownEvent, Prints, PrintsOnce
  <2>3. CASE pc' = "stat"
    <3>1. again' /\ again' \in BOOLEAN
      BY <2>2, <2>3
    <3> QED
      BY <2>1, <2>2, <2>3, <2>5, <3>1 DEF Good, InOrder, SessionInv, SuccessIsReal
  <2>4. CASE pc' = "exit"
    <3>1. ~again' /\ again' \in BOOLEAN
      BY <2>1, <2>2, <2>4
    <3> QED
      BY <1>3, <2>1, <2>2, <2>4, <2>5, <3>1, SMTT(30) DEF Good, InOrder, SessionInv, SuccessIsReal
  <2> QED
    BY <2>2, <2>3, <2>4
<1> QED
  BY <1>1, <1>2, <1>3 DEF SessionInv

\* read_one_object() returns a message.
LEMMA ObjectGood ==
    ASSUME SessionInv, NEW m, pc = "object", Object(m), UNCHANGED <<ctx, opts, conn>>
    PROVE  Good
<1>1. CASE ctx = "single"
  <2>1. out.last = "nothing" /\ ~again /\ again' = again
    BY <1>1 DEF SessionInv, Object
  <2>2. /\ pc' = "exit" /\ result' \in {"success", "failure"}
        /\ \/ out' = out /\ result' = "failure"
           \/ out'.last = "response"
    BY <1>1 DEF Object, PrintResponse, Prints, Returns
  <2>3. out'.odd \in {0, 1}
    BY <1>1, OddType DEF Object, PrintResponse, Prints, PrintsOnce
  <2> QED
    BY <1>1, <2>1, <2>2, <2>3 DEF Good, InOrder, SessionInv, SuccessIsReal
<1>2. CASE ctx = "register"
  <2>1. out.last = (IF again THEN "shutdown" ELSE "nothing") /\ result = "running"
    BY <1>2 DEF SessionInv
  <2>2. \/ out'.last = "startup" /\ again' = FALSE /\ pc' = "loop" /\ result' = result
      \/ /\ out' = out /\ again' = again
         /\ \/ again /\ pc' = "sleep_retry" /\ result' = result
            \/ ~again /\ pc' = "exit" /\ result' = "failure"
    BY <1>2 DEF Object, Registered, SendStartupEvent, Prints, ConnectFailed, Returns
  <2>3. out'.odd \in {0, 1}
    BY <1>2, OddType DEF Object, Registered, SendStartupEvent, Prints, PrintsOnce
  <2> QED
    BY <1>2, <2>1, <2>2, <2>3, Zenon DEF Good, InOrder, SessionInv, SuccessIsReal
<1>3. CASE ctx = "event"
  <2>1. out.last \in {"startup", "event"} /\ ~again /\ result = "running"
    BY <1>3 DEF SessionInv
  <2>2. /\ again' = again
        /\ \/ out'.last = "event" /\ pc' = "loop" /\ result' = result
           \/ out' = out /\ pc' = "exit" /\ result' = "crashed"
    BY <1>3 DEF Object, EventReceived, PrintEvent, Prints, Returns
  <2>3. out'.odd \in {0, 1}
    BY <1>3, OddType DEF Object, EventReceived, PrintEvent, Prints, PrintsOnce
  <2> QED
    BY <1>3, <2>1, <2>2, <2>3, SMTT(30) DEF Good, InOrder, SessionInv, SuccessIsReal
<1> QED
  BY <1>1, <1>2, <1>3 DEF SessionInv

\* read_one_object() prints in order.
LEMMA ReadObjectGood ==
    ASSUME SessionInv, ReadObject
    PROVE  Good
<1>1. pc = "object" /\ UNCHANGED <<opts, conn>>
  BY DEF ReadObject, channelVars
<1>2. PICK p \in Parsed :
        \/ Object(read[1].msg) /\ UNCHANGED ctx
        \/ pc' = "poll" /\ UNCHANGED <<ctx, again, result, out>>
        \/ p \in {"EINVAL", "EMSGSIZE"} /\ NoObject(p)
  BY DEF ReadObject
<1>3. CASE Object(read[1].msg) /\ UNCHANGED ctx
  BY <1>1, <1>3, ObjectGood
<1>4. CASE pc' = "poll" /\ UNCHANGED <<ctx, again, result, out>>
  BY <1>1, <1>4 DEF Good, InOrder, SessionInv, SuccessIsReal
<1>5. CASE p \in {"EINVAL", "EMSGSIZE"} /\ NoObject(p)
  BY <1>1, <1>5, NoObjectGood
<1> QED
  BY <1>2, <1>3, <1>4, <1>5

\* More of what the server sent has been read.
LEMMA RecvGood ==
    ASSUME SessionInv, Recv
    PROVE  Good
BY DEF Recv, Good, InOrder, SessionInv, SuccessIsReal

\* The server is gone.
LEMMA DisconnectedGood ==
    ASSUME SessionInv, Disconnected
    PROVE  Good
BY NoObjectGood DEF Disconnected, channelVars

\* poll() times out.
LEMMA TimeoutGood ==
    ASSUME SessionInv, Timeout
    PROVE  Good
BY NoObjectGood DEF Timeout, channelVars

\* The event loop goes round.
LEMMA LoopGood ==
    ASSUME SessionInv, Loop
    PROVE  Good
BY DEF Loop, Returns, Good, InOrder, SessionInv, SuccessIsReal

-----------------------------------------------------------------------------
(* Signals, and the server.                                                *)

\* stop_loop()
LEMMA SignalGood ==
    ASSUME SessionInv, Signal
    PROVE  Good
<1>1. pc # "exit" /\ UNCHANGED <<opts, conn>>
  BY DEF Signal, channelVars
<1>2. CASE Returns("killed") /\ UNCHANGED <<ctx, again, out>>
  BY <1>1, <1>2 DEF Returns, Good, InOrder, SessionInv, SuccessIsReal
<1>3. CASE UNCHANGED <<pc, ctx, again, result, out>>
  BY <1>1, <1>3 DEF Good, InOrder, SessionInv, SuccessIsReal
<1>4. CASE Interrupted
  <2>1. CASE pc = "poll" /\ NoObject("EINTR")
    BY <1>1, <2>1, NoObjectGood
  <2>2. CASE pc \in {"sleep_stat", "sleep_connect"} /\ ConnectFailed /\ UNCHANGED <<ctx, again, out>>
    BY <1>1, <2>2 DEF ConnectFailed, Returns, Good, InOrder, SessionInv, SuccessIsReal
  <2>3. CASE pc = "sleep_retry" /\ Returns("success") /\ UNCHANGED <<ctx, again, out>>
    BY <1>1, <2>3 DEF Returns, Good, InOrder, SessionInv, SuccessIsReal
  <2> QED
    BY <1>4, <2>1, <2>2, <2>3, SMTT(30) DEF Interrupted
<1> QED
  BY <1>2, <1>3, <1>4 DEF Signal

\* The server moves only while the client runs, so that the end of the
\* connection that a successful exit command relies on is never undone.
LEMMA ServerGood ==
    ASSUME SessionInv, ServerStep
    PROVE  Good
<1>1. pc # "exit" /\ UNCHANGED clientVars
  BY DEF ServerStep, Server
<1> QED
  BY <1>1 DEF clientVars, Good, InOrder, SessionInv, SuccessIsReal

-----------------------------------------------------------------------------

\* The client starts with nothing printed.
LEMMA InitSession == Init => SessionInv
<1>. SUFFICES ASSUME Init PROVE SessionInv
  OBVIOUS
<1>1. ~again /\ again \in BOOLEAN
  BY Zenon DEF Init
<1>2. /\ pc = "main" /\ ctx = "single" /\ result = "running"
      /\ out.last = "nothing" /\ out.odd \in {0, 1}
  BY DEF Init
<1> QED
  BY <1>1, <1>2 DEF SessionInv, SuccessIsReal

\* Every step keeps the invariant, and what it prints is in order.
LEMMA NextGood == SessionInv /\ [Next]_vars => SessionInv' /\ [InOrder]_vars
<1>. SUFFICES ASSUME SessionInv, [Next]_vars PROVE SessionInv' /\ [InOrder]_vars
  OBVIOUS
<1>1. CASE ClientStep
  BY <1>1, ParseArgumentGood, MainParsedGood, CommandParsedGood, StatGood, SleepEndsGood,
     ConnectGood, SendGood, ReadObjectGood, RecvGood, DisconnectedGood, LoopGood
     DEF ClientStep, Good
<1>2. CASE ServerStep
  BY <1>2, ServerGood DEF Good
<1>3. CASE Timeout
  BY <1>3, TimeoutGood DEF Good
<1>4. CASE Signal
  BY <1>4, SignalGood DEF Good
<1>5. CASE UNCHANGED vars
  BY <1>5 DEF vars, clientVars, channelVars, SessionInv, SuccessIsReal
<1> QED
  BY <1>1, <1>2, <1>3, <1>4, <1>5 DEF Next, Exited

\* ctl_client_print_single_command() reports success only when the server has
\* answered, or has gone away after it was told to exit, through every loss of
\* the connection, timeout and signal.
THEOREM SuccessIsRealHolds == Spec => []SuccessIsReal
<1>1. SessionInv => SuccessIsReal
  BY DEF SessionInv
<1> QED
  BY <1>1, InitSession, NextGood, PTL DEF Spec

\* Events are printed between a wayvnc-startup and a wayvnc-shutdown, and those
\* alternate, neither of them ever coming twice in a row, however often the
\* server crashes, exits and comes back while the client waits, registers or
\* reads (ctl_client_event_loop()).
THEOREM BracketsHold == Spec => Brackets
<1>1. SessionInv /\ [Next]_vars => [out' # out =>
        CASE out'.last = "startup" -> out.last \in {"nothing", "shutdown"}
          [] out'.last \in {"event", "shutdown"} -> out.last \in {"startup", "event"}
          [] OTHER -> out.last = "nothing"]_vars
  BY NextGood DEF InOrder
<1> QED
  BY <1>1, InitSession, NextGood, PTL DEF Spec, Brackets
=============================================================================
