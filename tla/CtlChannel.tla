----------------------------- MODULE CtlChannel -----------------------------
(***************************************************************************)
(* One connection to the control socket, as its client may rely on it: the *)
(* abstract specification that CtlServer.tla implements for every client   *)
(* and that CtlClient.tla runs against.                                    *)
(*                                                                         *)
(* Requests are answered in the order in which they were asked, events come*)
(* only to a client that has registered, messages arrive whole and in the  *)
(* order in which they were promised, and the server ends the connection   *)
(* only for a reason.  How requests are reassembled, which queue a message *)
(* waits in and how writes are split is left out.                          *)
(***************************************************************************)
EXTENDS Naturals, Sequences, SequencesExt

CONSTANTS
    Kinds,          \* the kinds of requests that the client sends
    MaxRequests,    \* requests on one connection
    MaxBurst,       \* events that one step of the server may emit in a row
    MsgUnits        \* length of a message to the client

ASSUME ChannelAssumption ==
    MaxRequests \in Nat /\ MaxBurst \in Nat /\ MsgUnits \in Nat \ {0}

VARIABLES
    conn,       \* "none": not accepted yet, "open", "gone"
    peer,       \* the client's end is open
    asked,      \* requests that the server has not handled
    stream,     \* messages promised to the client, delivered or not
    flow,       \* units of stream that have been delivered
    exiting     \* the server is about to exit

channelVars == <<conn, peer, asked, stream, flow, exiting>>

-----------------------------------------------------------------------------
(* Requests and messages.                                                  *)

Requests == [n : 1..MaxRequests, kind : Kinds]

\* Requests that no server can make sense of: bad JSON, or too long for it.
Malformed == {"garbage", "long"}

Event == [type |-> "event", n |-> 0]
InternalError == [type |-> "error", n |-> 0]
Response(r) == [type |-> IF r.kind = "event_receive" THEN "registered" ELSE "response",
                n |-> r.n]
Messages == {Event, InternalError} \cup [type : {"response", "registered"}, n : 1..MaxRequests]

HasType(s, type) == \E i \in DOMAIN s : s[i].type = type

ChannelTypeOK ==
    /\ conn \in {"none", "open", "gone"}
    /\ peer \in BOOLEAN /\ exiting \in BOOLEAN
    /\ asked \in Seq(Requests)
    /\ stream \in Seq(Messages)
    /\ flow \in 0..(Len(stream) * MsgUnits)

-----------------------------------------------------------------------------

ChannelInit ==
    /\ conn = "none" /\ peer = FALSE
    /\ asked = <<>> /\ stream = <<>> /\ flow = 0
    /\ exiting = FALSE

\* The server accepts the connection.
Accept ==
    /\ conn = "none" /\ ~exiting
    /\ conn' = "open" /\ peer' = TRUE
    /\ UNCHANGED <<asked, stream, flow, exiting>>

\* The client sends a request.
Ask(r) ==
    /\ conn = "open" /\ peer
    /\ asked' = Append(asked, r)
    /\ UNCHANGED <<conn, peer, stream, flow, exiting>>

\* The client closes its end.
Close ==
    /\ peer
    /\ peer' = FALSE
    /\ UNCHANGED <<conn, asked, stream, flow, exiting>>

\* The next request makes no sense.
Confused == asked # <<>> /\ Head(asked).kind \in Malformed

\* The reasons for which the server may end the connection.
MayEnd == ~peer \/ exiting \/ Confused

\* The server handles the next k requests.  burst[i] events come after the
\* i-th answer.  After an error nothing more is promised.
Serve(k, burst) ==
    LET answers == [i \in 1..k |-> Response(asked[i])]
        events(i) == [j \in 1..burst[i] |-> Event]
        promised(i) == IF i = 0 THEN events(0) ELSE <<answers[i]>> \o events(i)
        more == FlattenSeq([i \in 1..(k + 1) |-> promised(i - 1)])
    IN
    /\ conn = "open" /\ ~exiting
    /\ UNCHANGED <<conn, peer, flow>>
    /\ \A i \in 1..k : asked[i].kind \notin Malformed
    /\ \A i \in 0..k : burst[i] > 0 =>
           HasType(stream \o SubSeq(answers, 1, i), "registered")
    /\ HasType(stream, "error") => more = <<>>
    /\ stream' = stream \o more
    /\ exiting' \in BOOLEAN
    /\ (\E i \in 1..k : asked[i].kind = "wayvnc_exit") => exiting'

\* The first messages of s, of which n units have been delivered
Begun(s, n) == SubSeq(s, 1, (n + MsgUnits - 1) \div MsgUnits)

\* A step after which s is promised and n units are delivered, and which may
\* be the end: then nothing more is begun and nothing more is handled.
Ends(now, s, n) ==
    /\ conn' = IF now THEN "gone" ELSE conn
    /\ asked' = IF now THEN <<>> ELSE asked
    /\ stream' = IF now THEN Begun(s, n) ELSE s
    /\ flow' = n

\* n units of the message whose turn it is are delivered, or of an error that
\* takes the place of the messages not yet begun and ends the connection.
Deliver(n, error, end) ==
    LET s == IF error THEN Append(Begun(stream, flow), InternalError) ELSE stream
        last == (flow + n) \div MsgUnits
    IN
    /\ conn = "open" /\ peer
    /\ (flow % MsgUnits) + n <= MsgUnits
    /\ flow + n <= Len(s) * MsgUnits
    /\ error => Confused /\ n > 0 /\ flow % MsgUnits = 0
    /\ end => MayEnd
    /\ last > 0 /\ s[last] = InternalError => end
    /\ Ends(end, s, flow + n)
    /\ UNCHANGED <<peer, exiting>>

\* The server ends the connection.
End ==
    /\ conn # "gone" /\ MayEnd
    /\ Ends(TRUE, stream, flow)
    /\ UNCHANGED <<peer, exiting>>

\* The server is told to exit by somebody else.
Exit ==
    /\ ~exiting
    /\ exiting' = TRUE
    /\ UNCHANGED <<conn, peer, asked, stream, flow>>

ChannelNext ==
    \/ Accept \/ Close \/ End \/ Exit
    \/ \E r \in Requests : Ask(r)
    \/ \E k \in 0..Len(asked) :
        /\ asked' = SubSeq(asked, k + 1, Len(asked))
        /\ \E burst \in [0..k -> 0..MaxBurst] : Serve(k, burst)
    \/ \E n \in 0..MsgUnits : flow' = flow + n /\ \E error, end \in BOOLEAN : Deliver(n, error, end)

ChannelSpec == ChannelInit /\ [][ChannelNext]_channelVars
=============================================================================
