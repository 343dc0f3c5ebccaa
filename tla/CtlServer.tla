------------------------------ MODULE CtlServer ------------------------------
(***************************************************************************)
(* The JSON-IPC control server of src/ctl-server.c: connections, the read  *)
(* buffer and its reassembly of requests, dispatch, the response queue     *)
(* with its two priorities, partial writes, events, and the ways in which  *)
(* a connection ends.  One action per callback of the event loop.          *)
(*                                                                         *)
(* Bytes are abstracted to units.  A request is the number of its sender's *)
(* request and its kind; each of its units carries it, and the last one is *)
(* marked.  A response, event or internal error is sent as MsgUnits units. *)
(***************************************************************************)
EXTENDS Naturals, Sequences, SequencesExt

CONSTANTS
    Clients,        \* control clients; each connects once
    Kinds,          \* the kinds of requests that clients send
    MaxRequests,    \* requests per client
    MaxEvents,      \* events that main.c emits on its own
    MaxQueue,       \* bound on repeated internal errors of one client
    ReqUnits,       \* length of a well-formed request
    MsgUnits,       \* length of a message to a client
    ReadCap         \* sizeof(client->read_buffer)

AllKinds == {"command", "output_cycle", "event_receive", "unknown", "invalid",
             "wayvnc_exit", "garbage", "long"}

ASSUME KindsAssumption == Kinds \subseteq AllKinds
ASSUME SizesAssumption ==
    /\ {MaxRequests, MaxEvents, MaxQueue} \subseteq Nat
    /\ {ReqUnits, MsgUnits, ReadCap} \subseteq Nat \ {0}
    /\ ReqUnits <= ReadCap

VARIABLES
    client,     \* struct ctl_client of each connection
    conn,       \* "none": not accepted yet, "open", "gone": destroyed
    peer,       \* the client's end of the socket is open
    rx,         \* units on their way to the server
    wire,       \* units that have been sent to the client
    sent,       \* requests sent by each client
    events,     \* events emitted by main.c on its own
    do_exit     \* wayvnc->do_exit; "stopped" after ctl_server_stop()

vars == <<client, conn, peer, rx, wire, sent, events, do_exit>>

-----------------------------------------------------------------------------
(* Requests and messages.                                                  *)

Requests == [n : 1..MaxRequests, kind : Kinds]
Length(kind) == CASE kind = "garbage" -> 1
                  [] kind = "long" -> ReadCap + 1
                  [] OTHER -> ReqUnits

RequestUnits(r) ==
    [i \in 1..Length(r.kind) |-> [req |-> r, last |-> i = Length(r.kind)]]

Event == [type |-> "event", n |-> 0]
InternalError == [type |-> "error", n |-> 0]
Response(r) == [type |-> IF r.kind = "event_receive" THEN "registered" ELSE "response",
                n |-> r.n]
Messages == {Event, InternalError} \cup [type : {"response", "registered"}, n : 1..MaxRequests]

MessageUnits(m) == [i \in 1..MsgUnits |-> [msg |-> m, part |-> i]]

NewClient == [read |-> <<>>, queue |-> <<>>, write |-> <<>>,
              drop_after_next_send |-> FALSE, accept_events |-> FALSE]

TypeOK ==
    /\ \A c \in Clients :
        /\ client[c].read \in Seq([req : Requests, last : BOOLEAN]) /\ Len(client[c].read) <= ReadCap
        /\ client[c].queue \in Seq(Messages)
        /\ \A i \in DOMAIN client[c].write : client[c].write[i].msg \in Messages
        /\ client[c].drop_after_next_send \in BOOLEAN
        /\ client[c].accept_events \in BOOLEAN
    /\ conn \in [Clients -> {"none", "open", "gone"}]
    /\ peer \in [Clients -> BOOLEAN]
    /\ sent \in [Clients -> 0..MaxRequests]
    /\ events \in 0..MaxEvents
    /\ do_exit \in {"no", "yes", "stopped"}

Init ==
    /\ client = [c \in Clients |-> NewClient]
    /\ conn = [c \in Clients |-> "none"]
    /\ peer = [c \in Clients |-> FALSE]
    /\ rx = [c \in Clients |-> <<>>]
    /\ wire = [c \in Clients |-> <<>>]
    /\ sent = [c \in Clients |-> 0]
    /\ events = 0
    /\ do_exit = "no"

-----------------------------------------------------------------------------
(* Queues.                                                                 *)

\* client_enqueue(SEND_FIFO)
Enqueue(cl, m) == [cl EXCEPT !.queue = Append(@, m)]

\* client_enqueue_internal_error(): SEND_IMMEDIATE
EnqueueInternalError(cl) ==
    [cl EXCEPT !.queue = <<InternalError>> \o @, !.drop_after_next_send = TRUE]

\* Mutant of EnqueueEvent: clients that have not registered get events too.
EnqueueEventToAll(cls) ==
    [c \in Clients |-> IF conn[c] = "open" THEN Enqueue(cls[c], Event) ELSE cls[c]]

\* ctl_server_enqueue_event(), for the clients cls
EnqueueEvent(cls) ==
    [c \in Clients |-> IF conn[c] = "open" /\ cls[c].accept_events
                       THEN Enqueue(cls[c], Event) ELSE cls[c]]

\* client_enqueue_response(), and client_enqueue_error() for a request that
\* jsonipc_request_parse_new() or parse_command() rejects.
Respond(cls, c, r) == [cls EXCEPT ![c] = Enqueue(@, Response(r))]

\* Parsing, ctl_server_dispatch_cmd() and the response, for one request r of
\* client c.  Commands that make main.c switch outputs emit an event first.
Dispatch(cls, c, r) ==
    CASE r.kind = "event_receive" ->
            Respond([cls EXCEPT ![c].accept_events = TRUE], c, r)
      [] r.kind = "output_cycle" -> Respond(EnqueueEvent(cls), c, r)
      [] OTHER -> Respond(cls, c, r)

-----------------------------------------------------------------------------
(* Callbacks of a connection.                                              *)

\* client_destroy()
ClientDestroy(c) ==
    /\ conn' = [conn EXCEPT ![c] = "gone"]
    /\ client' = [client EXCEPT ![c] = NewClient]

\* Mutant of Parse: complete requests are not removed from the buffer.
ParseKeeping(buf) ==
    LET ends == SelectSeq(buf, LAMBDA u : u.last)
    IN  [requests |-> [i \in DOMAIN ends |-> ends[i].req], rest |-> buf, error |-> FALSE]

\* What client_next_object() makes of the read buffer buf: the requests that
\* are complete, what remains after them, and whether that is malformed.
Parse(buf) ==
    LET bad == SelectInSeq(buf, LAMBDA u : u.req.kind = "garbage")
        good == IF bad = 0 THEN buf ELSE SubSeq(buf, 1, bad - 1)
        done == SelectLastInSeq(good, LAMBDA u : u.last)
        ends == SelectSeq(good, LAMBDA u : u.last)
    IN  [requests |-> [i \in DOMAIN ends |-> ends[i].req],
         rest |-> SubSeq(buf, done + 1, Len(buf)),
         error |-> bad # 0]

\* recv_ready() when client_read() returns n > 0: all complete requests are
\* dispatched, then a syntax error is reported.  The malformed input stays in
\* the buffer.
Receive(c, n) ==
    LET p == Parse(client[c].read \o SubSeq(rx[c], 1, n))
        cls == FoldLeft(LAMBDA s, r : Dispatch(s, c, r),
                        [client EXCEPT ![c].read = p.rest], p.requests)
    IN
    /\ client' = IF p.error THEN [cls EXCEPT ![c] = EnqueueInternalError(@)] ELSE cls
    /\ rx' = [rx EXCEPT ![c] = SubSeq(@, n + 1, Len(@))]
    /\ do_exit' = IF \E i \in DOMAIN p.requests : p.requests[i].kind = "wayvnc_exit"
                  THEN "yes" ELSE do_exit
    /\ UNCHANGED conn

BufferSpace(c) == ReadCap - Len(client[c].read)

\* recv_ready(): data, the end of the stream, or an internal error because the
\* buffer is full or because the connection was reset.  on_ready() prefers to
\* write, but the socket may not be writable at the moment.
RecvReady(c) ==
    /\ do_exit = "no" /\ conn[c] = "open"
    /\ \/ \E n \in 1..Len(rx[c]) : n <= BufferSpace(c) /\ Receive(c, n)
       \/ /\ \/ rx[c] # <<>> /\ BufferSpace(c) = 0
             \/ ~peer[c]
          /\ Len(client[c].queue) < MaxQueue
          /\ client' = [client EXCEPT ![c] = EnqueueInternalError(@)]
          /\ UNCHANGED <<conn, rx, do_exit>>
       \/ /\ rx[c] = <<>> /\ ~peer[c]
          /\ ClientDestroy(c)
          /\ UNCHANGED <<rx, do_exit>>
    /\ UNCHANGED <<peer, wire, sent, events>>

\* Mutant of WantsWrite: a partial write does not count.
WantsWriteQueued(c) == client[c].queue # <<>>

\* client_set_aml_event_mask(): the client waits to write.
WantsWrite(c) == client[c].queue # <<>> \/ client[c].write # <<>>

\* Mutant of NextWrite: a message in the queue goes before a partial write.
NextWriteQueued(cl) ==
    IF cl.queue # <<>>
    THEN [cl EXCEPT !.write = MessageUnits(Head(cl.queue)) \o cl.write, !.queue = Tail(@)]
    ELSE cl

\* The write buffer of send_ready(): a partial write or else a new message.
NextWrite(cl) ==
    IF cl.write = <<>>
    THEN [cl EXCEPT !.write = MessageUnits(Head(cl.queue)), !.queue = Tail(@)]
    ELSE cl

\* Mutant of Sent: the client is not dropped.
SentStaying(c, cl) == UNCHANGED conn /\ client' = [client EXCEPT ![c] = cl]

\* The end of send_ready(), when the client's state has become cl.
Sent(c, cl) ==
    IF cl.write = <<>> /\ cl.drop_after_next_send
    THEN ClientDestroy(c)
    ELSE UNCHANGED conn /\ client' = [client EXCEPT ![c] = cl]

\* send_ready(): the socket takes n units, none (EAGAIN), or fails.
SendReady(c) ==
    /\ do_exit = "no" /\ conn[c] = "open" /\ WantsWrite(c)
    /\ LET cl == NextWrite(client[c]) IN
       \/ /\ peer[c]
          /\ \E n \in 0..Len(cl.write) :
              /\ wire' = [wire EXCEPT ![c] = @ \o SubSeq(cl.write, 1, n)]
              /\ Sent(c, [cl EXCEPT !.write = SubSeq(@, n + 1, Len(@))])
       \/ /\ ~peer[c]
          /\ ClientDestroy(c)
          /\ UNCHANGED wire
    /\ UNCHANGED <<peer, rx, sent, events, do_exit>>

\* on_connection()
OnConnection(c) ==
    /\ do_exit = "no" /\ conn[c] = "none"
    /\ conn' = [conn EXCEPT ![c] = "open"]
    /\ peer' = [peer EXCEPT ![c] = TRUE]
    /\ UNCHANGED <<client, rx, wire, sent, events, do_exit>>

\* ctl_server_stop(), once the main loop has seen do_exit
ServerStop ==
    /\ do_exit = "yes"
    /\ do_exit' = "stopped"
    /\ conn' = [c \in Clients |-> "gone"]
    /\ client' = [c \in Clients |-> NewClient]
    /\ UNCHANGED <<peer, rx, wire, sent, events>>

-----------------------------------------------------------------------------
(* The environment.                                                        *)

\* A client sends a request, all units of which reach the socket.
SendRequest(c, kind) ==
    /\ peer[c] /\ conn[c] = "open" /\ sent[c] < MaxRequests
    /\ sent' = [sent EXCEPT ![c] = @ + 1]
    /\ rx' = [rx EXCEPT ![c] = @ \o RequestUnits([n |-> sent[c] + 1, kind |-> kind])]
    /\ UNCHANGED <<client, conn, peer, wire, events, do_exit>>

\* A client closes its end.
Hangup(c) ==
    /\ peer[c]
    /\ peer' = [peer EXCEPT ![c] = FALSE]
    /\ UNCHANGED <<client, conn, rx, wire, sent, events, do_exit>>

\* main.c emits an event: a VNC client comes or goes, an output appears...
MainEvent ==
    /\ do_exit = "no" /\ events < MaxEvents
    /\ events' = events + 1
    /\ client' = EnqueueEvent(client)
    /\ UNCHANGED <<conn, peer, rx, wire, sent, do_exit>>

\* Nothing is left to do.
Idle ==
    /\ \/ do_exit = "stopped"
       \/ \A c \in Clients : conn[c] = "open" => rx[c] = <<>> /\ peer[c] /\ ~WantsWrite(c)
    /\ UNCHANGED vars

Next ==
    \/ \E c \in Clients :
        \/ OnConnection(c) \/ RecvReady(c) \/ SendReady(c)
        \/ Hangup(c)
        \/ \E kind \in Kinds : SendRequest(c, kind)
    \/ MainEvent \/ ServerStop
    \/ Idle

Spec == Init /\ [][Next]_vars

\* The event loop calls on_ready() for a descriptor that stays ready.  A peer
\* that keeps its end open reads, so that a send that is tried again and again
\* gets through.
Progress(c) == SendReady(c) /\ (wire'[c] # wire[c] \/ conn'[c] # conn[c])
Fairness ==
    /\ \A c \in Clients : WF_vars(RecvReady(c)) /\ WF_vars(Progress(c))
    /\ WF_vars(ServerStop)

FairSpec == Spec /\ Fairness

-----------------------------------------------------------------------------
(* Properties.                                                             *)

\* The messages of which client c has received all units, in order.
Delivered(c) ==
    LET ends == SelectSeq(wire[c], LAMBDA u : u.part = MsgUnits)
    IN  [i \in DOMAIN ends |-> ends[i].msg]

\* Messages are framed correctly: what a client receives, up to and including
\* the message being written, is a concatenation of whole messages, however
\* the socket splits the writes and whatever is enqueued in between.
Framing ==
    \A c \in Clients :
        LET stream == wire[c] \o client[c].write IN
        \A i \in DOMAIN stream :
            /\ stream[i].part = ((i - 1) % MsgUnits) + 1
            /\ stream[i].part > 1 => stream[i].msg = stream[i - 1].msg

\* The connection of client c in terms of CtlChannel.tla.  Requests wait until
\* their last unit has been parsed; an error takes the place of what is queued
\* when its first unit is sent.
Asked(c) ==
    LET ends == SelectSeq(client[c].read \o rx[c], LAMBDA u : u.last)
    IN  IF conn[c] = "gone" THEN <<>> ELSE [i \in DOMAIN ends |-> ends[i].req]

Promised(c) ==
    LET begun == SelectSeq(wire[c] \o client[c].write, LAMBDA u : u.part = 1)
        all == [i \in DOMAIN begun |-> begun[i].msg] \o client[c].queue
    IN  IF \E i \in DOMAIN wire[c] : wire[c][i].msg = InternalError
        THEN SubSeq(all, 1, SelectInSeq(all, LAMBDA m : m = InternalError))
        ELSE SelectSeq(all, LAMBDA m : m # InternalError)

Channel(c) == INSTANCE CtlChannel WITH
    MaxBurst <- MaxRequests,
    conn <- conn[c], peer <- peer[c],
    asked <- Asked(c), stream <- Promised(c), flow <- Len(wire[c]),
    exiting <- do_exit # "no"

\* Every connection behaves as CtlChannel.tla promises to control clients:
\* however requests are split and pipelined, whatever priority a message has
\* and whoever else is connected, responses come in order, events come after
\* the registration, an error comes last, messages are never torn apart, and
\* the server ends a connection only for a reason.  (In the form that TLC takes:
\* \A c \in Clients : Channel(c)!ChannelSpec.)
ImplementsChannel ==
    /\ \A c \in Clients : Channel(c)!ChannelInit
    /\ [][\A c \in Clients :
            UNCHANGED Channel(c)!channelVars \/ Channel(c)!ChannelNext]_vars

\* Every request is answered unless the connection ends: recv_ready() and
\* send_ready() between them leave no request in the read buffer and no
\* response in the queue.
Answered ==
    \A c \in Clients : \A n \in 1..MaxRequests :
        (sent[c] >= n) ~> \/ ~peer[c] \/ conn[c] = "gone"
                          \/ \E i \in DOMAIN Delivered(c) : Delivered(c)[i].n = n

\* A client that has caused an internal error is disconnected.
ErrorDisconnects ==
    \A c \in Clients : client[c].drop_after_next_send ~> (conn[c] = "gone")
=============================================================================
