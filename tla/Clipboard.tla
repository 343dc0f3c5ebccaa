------------------------------ MODULE Clipboard ------------------------------
(***************************************************************************)
(* The clipboard of src/data-control.c: one data_control per VNC client,   *)
(* all on one Wayland connection.  A client's text becomes a selection of  *)
(* the desktop; selections of others are read through a pipe and sent to   *)
(* the VNC clients.  The functions for ext-data-control and for            *)
(* wlr-data-control are the same line by line, and so are those for the    *)
(* clipboard and for the primary selection.                                *)
(*                                                                         *)
(* A text is its author and a number, and is transferred as TextLen units. *)
(* A source is its index in the sequence sources; 0 is NULL.  Requests     *)
(* take effect at once, events wait in the order of the connection.        *)
(***************************************************************************)
EXTENDS Naturals, Sequences, SequencesExt

CONSTANTS
    Clients,        \* VNC clients
    App,            \* the other programs on the desktop
    Loads,          \* bounds: which clients connect, and how often they cut,
                    \* programs copy and paste, and the server detaches
    TextLen,        \* units of a text
    PipeCap         \* units that a pipe holds

ASSUME AppAssumption == App \notin Clients
ASSUME BoundsAssumption ==
    /\ Loads \subseteq [clients : SUBSET Clients, cuts : Nat, copies : Nat, pastes : Nat, detaches : Nat]
    /\ {TextLen, PipeCap} \subseteq Nat \ {0}

VARIABLES
    dc,         \* struct data_control of each client, and whether it is in use
    sources,    \* all data sources that were created, with owner and text
    live,       \* the sources whose client side object exists
    current,    \* the compositor's selections
    events,     \* events on their way to wayvnc
    pipes,      \* the pipes with their receive_context and send_context
    cut,        \* the texts that were passed to nvnc_send_cut_text()
    load,       \* the bounds of this behaviour
    cuts, copies, pastes, detaches,
    aborted     \* the process used memory after it was freed

counters == <<load, cuts, copies, pastes, detaches>>
vars == <<dc, sources, live, current, events, pipes, cut, counters, aborted>>

MaxCuts == Max({l.cuts : l \in Loads})
MaxCopies == Max({l.copies : l \in Loads})
Kinds == {"selection", "primary_selection"}
Mimes == {"text", "custom", "other"}
Texts == [by : Clients, n : 1..MaxCuts] \cup [by : {App}, n : 1..MaxCopies]
NoText == [by |-> App, n |-> 0]                \* cb_data == NULL
Marker == [by |-> App, n |-> MaxCopies + 1]    \* custom_mime_type_data
Units(text) == [i \in 1..TextLen |-> [text |-> text, part |-> i]]

NoDevice == [state |-> "off", offer |-> 0, is_own_offer |-> FALSE, cb_data |-> NoText,
             selection |-> 0, primary_selection |-> 0]

DataControls == [state : {"off", "on", "freed"}, offer : Nat, is_own_offer : BOOLEAN,
                 cb_data : Texts \cup {NoText}, selection : Nat, primary_selection : Nat]

TypeOK ==
    /\ dc \in [Clients -> DataControls]
    /\ live \subseteq DOMAIN sources
    /\ current \in [Kinds -> {0} \cup DOMAIN sources]
    /\ \A c \in Clients : {dc[c].selection, dc[c].primary_selection} \subseteq {0} \cup DOMAIN sources
    /\ \A p \in DOMAIN pipes : Len(pipes[p].data) <= PipeCap /\ pipes[p].source \in DOMAIN sources

Init ==
    /\ dc = [c \in Clients |-> NoDevice]
    /\ sources = <<>> /\ live = {}
    /\ current = [k \in Kinds |-> 0]
    /\ events = <<>> /\ pipes = <<>> /\ cut = {}
    /\ load \in Loads
    /\ cuts = 0 /\ copies = 0 /\ pastes = 0 /\ detaches = 0
    /\ aborted = FALSE

-----------------------------------------------------------------------------
(* The compositor.                                                         *)

Devices == {c \in Clients : dc[c].state = "on"}

\* The events with which device c learns that a selection is source id: its
\* types one by one, then the selection itself.
Announcement(c, id, srcs) ==
    (IF id = 0 THEN <<>>
     ELSE [i \in DOMAIN srcs[id].mimes |->
              [type |-> "offer", dev |-> c, id |-> id, mime |-> srcs[id].mimes[i]]])
    \o <<[type |-> "selection", dev |-> c, id |-> id, mime |-> "other"]>>

\* The same for all devices in devs
Announce(devs, id, srcs) == FoldSet(LAMBDA c, s : s \o Announcement(c, id, srcs), <<>>, devs)

\* The owner of a selection that has been replaced is told.
Cancel(id, srcs) ==
    IF id = 0 \/ srcs[id].owner = App THEN <<>>
    ELSE <<[type |-> "cancelled", dev |-> srcs[id].owner, id |-> id, mime |-> "other"]>>

\* set_selection and set_primary_selection for the sources in new, as events
SelectionEvents(new, srcs) ==
    FoldSet(LAMBDA k, s : s \o Cancel(current[k], srcs) \o Announce(Devices, new[k], srcs),
            <<>>, {k \in Kinds : new[k] # current[k]})

\* A pipe from source id to a reader: wayvnc or a program writes into it, or
\* nobody does because the source is gone.
Pipe(reader, id, mime) ==
    [reader |-> reader, source |-> id, mime |-> mime, data |-> <<>>, got |-> <<>>, rest |-> <<>>,
     read_end |-> TRUE,
     writer |-> IF sources[id].owner = App THEN "program"
                ELSE IF id \in Range(current) THEN "waiting" ELSE "closed"]

\* What the compositor sends the owner of a source when a pipe is opened.
SendEvent(p, n) ==
    IF p.writer # "waiting" THEN <<>>
    ELSE <<[type |-> "send", dev |-> sources[p.source].owner, id |-> p.source, mime |-> p.mime,
            pipe |-> n]>>

-----------------------------------------------------------------------------
(* Objects that go away.                                                   *)

\* The pipes after the writers in gone, and the readers in gone, were closed;
\* lost are the events that will not be dispatched.
ClosePipes(gone, lost) ==
    [p \in DOMAIN pipes |->
        [pipes[p] EXCEPT
            !.read_end = @ /\ pipes[p].reader \notin gone,
            !.rest = IF sources[pipes[p].source].owner \in gone /\ @ # <<>> THEN <<>> ELSE @,
            !.writer = IF \/ @ = "sending" /\ sources[pipes[p].source].owner \in gone
                          \/ \E e \in lost : e.type = "send" /\ e.pipe = p
                       THEN "closed" ELSE @]]

\* The sources that data_control_destroy() destroys
OwnSelections(c) == {dc[c].selection, dc[c].primary_selection} \ {0}

-----------------------------------------------------------------------------
(* Callbacks.                                                              *)

\* client_init_data_control() and data_control_init()
DataControlInit(c) ==
    /\ ~aborted /\ dc[c].state = "off" /\ c \in load.clients
    /\ dc' = [dc EXCEPT ![c] = [NoDevice EXCEPT !.state = "on"]]
    /\ events' = events \o FoldSet(LAMBDA k, s : s \o Announcement(c, current[k], sources),
                                   <<>>, Kinds)
    /\ UNCHANGED <<sources, live, current, pipes, cut, counters, aborted>>

\* data_control_destroy() when the client leaves.  Sources that were replaced
\* but not yet cancelled keep their listeners.
DataControlDestroy(c) ==
    LET lost == {e \in Range(events) : \/ e.type \in {"offer", "selection"} /\ e.dev = c
                                       \/ e.type \in {"send", "cancelled"} /\ e.id \in OwnSelections(c)}
        new == [k \in Kinds |-> IF current[k] \in OwnSelections(c) THEN 0 ELSE current[k]]
        others == Devices \ {c}
    IN
    /\ ~aborted /\ dc[c].state = "on"
    /\ dc' = [dc EXCEPT ![c] = [NoDevice EXCEPT !.state = "freed"]]
    /\ live' = live \ OwnSelections(c)
    /\ current' = new
    /\ events' = SelectSeq(events, LAMBDA e : e \notin lost)
                 \o FoldSet(LAMBDA k, s : s \o Announce(others, 0, sources),
                            <<>>, {k \in Kinds : new[k] # current[k]})
    /\ pipes' = ClosePipes({c}, lost)
    /\ UNCHANGED <<sources, cut, counters, aborted>>

\* client_detach_wayland() of all clients and the end of the connection
Detach ==
    /\ ~aborted /\ Devices # {} /\ detaches < load.detaches
    /\ detaches' = detaches + 1
    /\ dc' = [c \in Clients |-> IF c \in Devices THEN NoDevice ELSE dc[c]]
    /\ live' = {}
    /\ current' = [k \in Kinds |-> IF current[k] # 0 /\ sources[current[k]].owner # App
                                   THEN 0 ELSE current[k]]
    /\ events' = <<>>
    /\ pipes' = ClosePipes(Clients, Range(events))
    /\ UNCHANGED <<sources, cut, load, cuts, copies, pastes, aborted>>

\* set_selection_wlr() and set_selection_ext(): a source of client c
NewSource(c, text) == [owner |-> c, text |-> text, mimes |-> <<"text", "custom">>]

\* on_client_cut_text() and data_control_to_clipboard()
CutText(c) ==
    LET text == [by |-> c, n |-> cuts + 1]
        id == Len(sources)
        srcs == sources \o <<NewSource(c, text), NewSource(c, text)>>
        new == [k \in Kinds |-> IF k = "selection" THEN id + 1 ELSE id + 2]
    IN
    /\ ~aborted /\ dc[c].state = "on" /\ cuts < load.cuts
    /\ cuts' = cuts + 1
    /\ sources' = srcs
    /\ live' = live \cup {id + 1, id + 2}
    /\ dc' = [dc EXCEPT ![c].cb_data = text, ![c].selection = id + 1,
                        ![c].primary_selection = id + 2]
    /\ current' = new
    /\ events' = events \o SelectionEvents(new, srcs)
    /\ UNCHANGED <<pipes, cut, load, copies, pastes, detaches, aborted>>

\* Mutant of HandleOffer: types after the text are not looked at.
HandleOfferFirst(d, e) ==
    IF d.offer # 0 THEN d
    ELSE IF e.mime = "custom" /\ sources[e.id].owner = e.dev THEN [d EXCEPT !.is_own_offer = TRUE]
    ELSE IF e.mime = "text" THEN [d EXCEPT !.offer = e.id]
    ELSE d

\* data_control_offer_wlr() and data_control_offer_ext()
HandleOffer(d, e) ==
    IF e.mime = "custom" /\ sources[e.id].owner = e.dev THEN [d EXCEPT !.is_own_offer = TRUE]
    ELSE IF d.offer = 0 /\ e.mime = "text" THEN [d EXCEPT !.offer = e.id]
    ELSE d

\* The condition under which a selection is read
WantsData(d, id) == id # 0 /\ id = d.offer /\ ~d.is_own_offer

\* Mutant of HandleSelection: the flag survives the offer.
HandleSelectionKeeping(d, id) == IF id = 0 /\ d.offer = 0 THEN d ELSE [d EXCEPT !.offer = 0]

\* data_control_device_selection_*() and _primary_selection_*()
HandleSelection(d, id) ==
    IF id = 0 /\ d.offer = 0 THEN d ELSE [d EXCEPT !.offer = 0, !.is_own_offer = FALSE]

\* Mutant of HandleCancelled: a source stays remembered.
HandleCancelledNot(d, id) == d

\* data_control_source_cancelled_*()
HandleCancelled(d, id) ==
    [d EXCEPT !.selection = IF @ = id THEN 0 ELSE @,
              !.primary_selection = IF @ = id THEN 0 ELSE @]

Room(p) == PipeCap - Len(p.data)

\* The pipe p after as much of units as fits has been written
Written(p, units) ==
    LET n == IF Len(units) < Room(p) THEN Len(units) ELSE Room(p) IN
    [p EXCEPT !.data = @ \o SubSeq(units, 1, n),
              !.rest = SubSeq(units, n + 1, Len(units)),
              !.writer = IF n = Len(units) THEN "closed" ELSE "sending"]

\* data_control_source_send_common(): a partial write leaves a send_context.
HandleSend(d, e) ==
    LET p == pipes[e.pipe] IN
    IF p.read_end
    THEN Written(p, Units(IF e.mime = "custom" THEN Marker ELSE d.cb_data))
    ELSE [p EXCEPT !.writer = "closed"]

Step(e, d) == dc' = [dc EXCEPT ![e.dev] = d] /\ events' = Tail(events)

Offer(e) ==
    /\ e.type = "offer"
    /\ Step(e, HandleOffer(dc[e.dev], e))
    /\ UNCHANGED <<live, pipes, aborted>>

\* With receive_data_wlr() and receive_data_ext()
Selection(e) ==
    LET d == dc[e.dev]
        p == Pipe(e.dev, e.id, "text")
    IN
    /\ e.type = "selection"
    /\ dc' = [dc EXCEPT ![e.dev] = HandleSelection(d, e.id)]
    /\ IF WantsData(d, e.id)
       THEN /\ pipes' = Append(pipes, p)
            /\ events' = Tail(events) \o SendEvent(p, Len(pipes) + 1)
       ELSE UNCHANGED pipes /\ events' = Tail(events)
    /\ UNCHANGED <<live, aborted>>

Cancelled(e) ==
    /\ e.type = "cancelled" /\ dc[e.dev].state # "freed"
    /\ Step(e, HandleCancelled(dc[e.dev], e.id))
    /\ live' = live \ {e.id}
    /\ UNCHANGED <<pipes, aborted>>

Send(e) ==
    /\ e.type = "send" /\ dc[e.dev].state # "freed"
    /\ pipes' = [pipes EXCEPT ![e.pipe] = HandleSend(dc[e.dev], e)]
    /\ events' = Tail(events)
    /\ UNCHANGED <<dc, live, aborted>>

\* The listener of a source whose data_control is gone
Freed(e) ==
    /\ e.type \in {"cancelled", "send"} /\ dc[e.dev].state = "freed"
    /\ aborted' = TRUE
    /\ UNCHANGED <<dc, events, live, pipes>>

Dispatch ==
    /\ ~aborted /\ events # <<>>
    /\ LET e == Head(events) IN Offer(e) \/ Selection(e) \/ Cancelled(e) \/ Send(e) \/ Freed(e)
    /\ UNCHANGED <<sources, current, cut, counters>>

\* on_receive(): what is in the pipe, or the end of the stream, or a read() that
\* fails, after which the context is used, and freed once more, although it has
\* been destroyed.
OnReceive(n) ==
    LET p == pipes[n] IN
    /\ ~aborted /\ p.reader # App /\ p.read_end
    /\ \/ /\ p.data # <<>>
          /\ pipes' = [pipes EXCEPT ![n].got = @ \o p.data, ![n].data = <<>>]
          /\ UNCHANGED <<cut, aborted>>
       \/ /\ p.data = <<>> /\ p.writer = "closed"
          /\ pipes' = [pipes EXCEPT ![n].read_end = FALSE]
          /\ cut' = IF p.got = <<>> THEN cut ELSE cut \cup {p.got}
          /\ UNCHANGED aborted
       \/ /\ p.data # <<>> \/ p.writer = "closed"
          /\ aborted' = TRUE
          /\ UNCHANGED <<pipes, cut>>
    /\ UNCHANGED <<dc, sources, live, current, events, counters>>

\* Mutant of OnSend: the rest is taken from cb_data instead of a copy of it.
OnSendShared(n) ==
    LET p == pipes[n]
        units == Units(dc[sources[p.source].owner].cb_data)
    IN
    /\ ~aborted /\ p.writer = "sending"
    /\ \/ /\ p.read_end /\ Room(p) > 0
          /\ pipes' = [pipes EXCEPT ![n] = Written(p, SubSeq(units, TextLen - Len(p.rest) + 1, TextLen))]
       \/ ~p.read_end /\ pipes' = [pipes EXCEPT ![n].writer = "closed", ![n].rest = <<>>]
    /\ UNCHANGED <<dc, sources, live, current, events, cut, counters, aborted>>

\* on_send()
OnSend(n) ==
    LET p == pipes[n] IN
    /\ ~aborted /\ p.writer = "sending"
    /\ \/ p.read_end /\ Room(p) > 0 /\ pipes' = [pipes EXCEPT ![n] = Written(p, p.rest)]
       \/ ~p.read_end /\ pipes' = [pipes EXCEPT ![n].writer = "closed", ![n].rest = <<>>]
    /\ UNCHANGED <<dc, sources, live, current, events, cut, counters, aborted>>

-----------------------------------------------------------------------------
(* Other programs.                                                         *)

\* A program copies a text, or something else.
Copy(k, mime) ==
    LET text == [by |-> App, n |-> copies + 1]
        srcs == Append(sources, [owner |-> App, text |-> text, mimes |-> <<mime>>])
        new == [current EXCEPT ![k] = Len(srcs)]
    IN
    /\ ~aborted /\ copies < load.copies
    /\ copies' = copies + 1
    /\ sources' = srcs
    /\ current' = new
    /\ events' = events \o SelectionEvents(new, srcs)
    /\ UNCHANGED <<dc, live, pipes, cut, load, cuts, pastes, detaches, aborted>>

\* A program pastes a text of a VNC client.
Paste(k, mime) ==
    LET p == Pipe(App, current[k], mime) IN
    /\ ~aborted /\ pastes < load.pastes
    /\ current[k] # 0 /\ sources[current[k]].owner # App
    /\ pastes' = pastes + 1
    /\ pipes' = Append(pipes, p)
    /\ events' = events \o SendEvent(p, Len(pipes) + 1)
    /\ UNCHANGED <<dc, sources, live, current, cut, load, cuts, copies, detaches, aborted>>

\* A program that owns a selection writes all of its text.
ProgramWrite(n) ==
    LET p == pipes[n]
        units == IF p.got = <<>> /\ p.data = <<>> /\ p.rest = <<>>
                 THEN Units(sources[p.source].text) ELSE p.rest
    IN
    /\ ~aborted /\ p.writer = "program"
    /\ IF p.read_end
       THEN /\ Room(p) > 0
            /\ pipes' = [pipes EXCEPT ![n] =
                            [Written(p, units) EXCEPT !.writer = IF @ = "closed" THEN @ ELSE "program"]]
       ELSE pipes' = [pipes EXCEPT ![n].writer = "closed", ![n].rest = <<>>]
    /\ UNCHANGED <<dc, sources, live, current, events, cut, counters, aborted>>

\* A program that pastes reads, or closes its end, possibly before all is read.
ProgramRead(n) ==
    LET p == pipes[n] IN
    /\ ~aborted /\ p.reader = App /\ p.read_end
    /\ \/ /\ p.data # <<>>
          /\ pipes' = [pipes EXCEPT ![n].got = @ \o p.data, ![n].data = <<>>]
       \/ pipes' = [pipes EXCEPT ![n].read_end = FALSE]
    /\ UNCHANGED <<dc, sources, live, current, events, cut, counters, aborted>>

\* Nothing is left to do.
Idle ==
    /\ \/ aborted
       \/ /\ events = <<>>
          /\ \A p \in Range(pipes) : p.writer = "closed" /\ ~p.read_end
    /\ UNCHANGED vars

Next ==
    \/ \E c \in Clients : DataControlInit(c) \/ DataControlDestroy(c) \/ CutText(c)
    \/ Detach \/ Dispatch
    \/ \E n \in DOMAIN pipes : OnReceive(n) \/ OnSend(n) \/ ProgramWrite(n) \/ ProgramRead(n)
    \/ \E k \in Kinds : \/ \E mime \in {"text", "other"} : Copy(k, mime)
                        \/ \E mime \in {"text", "custom"} : Paste(k, mime)
    \/ Idle

Spec == Init /\ [][Next]_vars

\* The event loop dispatches what is ready, and programs write what they offer.
Fairness ==
    /\ WF_vars(Dispatch)
    /\ WF_vars(\E n \in DOMAIN pipes : OnReceive(n))
    /\ WF_vars(\E n \in DOMAIN pipes : OnSend(n))
    /\ WF_vars(\E n \in DOMAIN pipes : ProgramWrite(n))

FairSpec == Spec /\ Fairness

-----------------------------------------------------------------------------
(* Properties.                                                             *)

\* A client's own text does not come back to it: a data_control never reads a
\* selection that it has set itself, whatever other offers, replaced
\* selections and pending events there are (is_own_offer).
NoEcho == \A p \in Range(pipes) : p.reader # App => sources[p.source].owner # p.reader

\* However the transfer is split, and whatever is cut in the meantime, a reader
\* of a VNC client's selection gets one text, from its beginning and in order,
\* and never one older than the selection it asked for.
OneText ==
    \A p \in Range(pipes) :
        LET all == p.got \o p.data \o p.rest
            src == sources[p.source]
        IN
        src.owner # App /\ all # <<>> =>
            /\ IsPrefix(all, Units(all[1].text))
            /\ p.writer = "sending" => Len(all) = TextLen
            /\ IF p.mime = "custom" THEN all[1].text = Marker
               ELSE all[1].text.by = src.owner /\ all[1].text.n >= src.text.n

\* Sources and what they offer live long enough: the selections that a
\* data_control remembers still exist, so that each is destroyed once, and
\* whoever is asked for the clipboard, by way of a source that may have been
\* replaced, has one (assert(d) of data_control_source_send_common()).
SourcesAlive ==
    /\ \A c \in Clients : OwnSelections(c) \subseteq live
    /\ \A e \in Range(events) :
        e.type = "send" /\ dc[e.dev].state # "freed" => dc[e.dev].cb_data # NoText

\* A text that a program has copied reaches the VNC clients, if it stays on
\* the clipboard and a client stays connected.
CopyArrives ==
    \A n \in 1..MaxCopies :
        LET text == [by |-> App, n |-> n] IN
        <>[](/\ ~aborted
             /\ \E c \in Clients : dc[c].state = "on"
             /\ \E k \in Kinds : current[k] # 0 /\ sources[current[k]].text = text
                                 /\ sources[current[k]].mimes = <<"text">>)
            => <>(Units(text) \in cut)
=============================================================================
