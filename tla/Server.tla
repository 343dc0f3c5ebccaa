------------------------------- MODULE Server -------------------------------
(***************************************************************************)
(* The life of the server in main.c: attaching to and detaching from a     *)
(* compositor, outputs that come and go, the selected image source and the *)
(* capture of it, VNC clients with their Wayland objects, and shutdown.    *)
(*                                                                         *)
(* The state is struct wayvnc with the parts of the global struct wayland  *)
(* that main.c relies on.  Callbacks call each other (a lost output leads  *)
(* to a switch, a switch to new pointers, a new attach to a detach), so    *)
(* each function is an operator from one state of the server to the next,  *)
(* and each callback of the event loop is one action.                      *)
(*                                                                         *)
(* A capture is only started, stopped or lost here; FramePipeline.tla      *)
(* models what happens in between.  Events that a nested roundtrip would   *)
(* dispatch in the middle of a callback are taken to arrive after it.      *)
(***************************************************************************)
EXTENDS Integers, Seats, OutputManagement

CONSTANT
    Setups              \* how the server is started, and on what: records of
                        \* - StartDetached: --detached,
                        \* - ExitOnDisconnect: --exit-on-disconnect,
                        \* - InitialType, InitialName: the image source it is to select,
                        \* - AttachTypes: what the attach command may select,
                        \* - UseToplevel: --toplevel, so that toplevels are listed,
                        \* - PowerManager: zwlr_output_power_manager_v1 is there,
                        \* - ExtCapture: so is ext-image-copy-capture, else wlr-screencopy,
                        \* - Heads: the outputs that there may be,
                        \* - SeatMode, SelectedSeat: --seat, --transient-seat,
                        \* - SeatLists: the seats found when attaching,
                        \* - SeatsChange: seats come and go,
                        \* - Resizing: no --disable-resizing,
                        \* - OutputManager: zwlr_output_manager_v1 is there,
                        \* - Headless: the outputs that may be resized

None == "none"
Desktop == "desktop"
Toplevel == "toplevel"
Dangling == "dangling"      \* a pointer to an output that has been freed
Sources == Outputs \cup {Desktop, Toplevel}
Types == {"unspec", "output", "desktop", "toplevel"}

ASSUME OutputsAssumption == {None, Desktop, Toplevel, Dangling} \cap Outputs = {}
ASSUME ClientsAssumption == None \notin Clients
ASSUME SetupsAssumption ==
    Setups \subseteq [StartDetached : BOOLEAN, ExitOnDisconnect : BOOLEAN,
                      InitialType : Types, InitialName : Sources \cup {None},
                      AttachTypes : SUBSET Types, UseToplevel : BOOLEAN,
                      PowerManager : BOOLEAN, ExtCapture : BOOLEAN,
                      Heads : SUBSET Outputs, SeatMode : SeatModes,
                      SelectedSeat : Seats, SeatLists : SUBSET Seq(Seats), SeatsChange : BOOLEAN,
                      Resizing : BOOLEAN, OutputManager : BOOLEAN, Headless : SUBSET Outputs]

VARIABLE server

\* The lists of outputs that a compositor can announce.
OutputLists(setup) ==
    {l \in UNION {[1..n -> setup.Heads] : n \in 0..Cardinality(setup.Heads)} : IsInjective(l)}

\* The Wayland objects of a client, besides its seat.
Objects == {"keyboard", "pointer", "data_control"}

Pointers == Sources \cup {None, Dangling}
Captures == Outputs \cup {Toplevel, Dangling}

TypeOK ==
    server \in
      [setup : Setups, wayland : BOOLEAN, outputs : Seq(Outputs),
       power : [Outputs -> {"unknown", "on", "off"}],
       wlr_output_power : SUBSET Outputs,   \* power is being managed
       power_failed : SUBSET Outputs,       \* the compositor gave up on it
       image_source_type : Types, image_source_name : Sources \cup {None},
       image_source : Pointers,
       observed : Pointers,     \* subject of power_change_observer and destruction_observer
       displays : SUBSET Pointers,          \* image_source of each wayvnc_display
       screencopy : Pointers,               \* its source, None without a capture object
       started : SUBSET Captures,           \* captures under way
       fatal : SUBSET Captures,             \* captures that ended for good
       cursor_sc : Pointers,
       clients : SUBSET Clients, objects : [Clients -> SUBSET Objects],
       cursor_master : Clients \cup {None},
       seating : Seatings, management : Managements,
       master_layout_client : Clients \cup {None},
       layout_by : Clients \cup {None},     \* who changed the layout, while connected
       layout_fits : BOOLEAN,               \* so did all configurations
       deferred_detach : BOOLEAN, capture_retry_timer : BOOLEAN,
       do_exit : BOOLEAN, exited : BOOLEAN,
       aborted : {"no", "null_source", "null_wayland", "display_assert", "output_assert",
                  "no_seat", "stale_seat", "null_config"}]

-----------------------------------------------------------------------------
(* Image sources and their power.                                          *)

\* The process ends where the code dereferences NULL or fails an assertion.
Abort(s, why) == [s EXCEPT !.aborted = IF @ = "no" THEN why ELSE @]

\* The outputs behind an image source: a desktop has all outputs.
Parts(s, src) == IF src = Desktop THEN Range(s.outputs) ELSE {src} \cap Outputs

\* image_source_get_power(); a toplevel has no get_power_state.
SourcePower(s) ==
    LET states == {s.power[o] : o \in Parts(s, s.image_source)} IN
    IF s.image_source = Toplevel THEN "on"
    ELSE IF states = {"on"} THEN "on" ELSE IF states = {"off"} THEN "off" ELSE "unknown"

\* image_source_acquire_power_on(): its result and its effect.  Without a
\* power manager nothing is held, and every output fails.
AcquireResult(s) ==
    LET parts == Parts(s, s.image_source) IN
    IF s.image_source = Toplevel \/ parts \cap s.wlr_output_power # {} THEN 1
    ELSE IF ~s.setup.PowerManager /\ parts # {} THEN -1 ELSE 0

Acquire(s) ==
    LET parts == Parts(s, s.image_source) IN
    IF s.setup.PowerManager
    THEN [s EXCEPT !.wlr_output_power = @ \cup parts, !.power_failed = @ \ parts]
    ELSE s

\* output_release_power_on() on each of the outputs.
Release(s, outs) ==
    [s EXCEPT !.power = [o \in Outputs |-> IF o \in outs \cap s.wlr_output_power
                                           THEN "unknown" ELSE s.power[o]],
              !.wlr_output_power = @ \ outs,
              !.power_failed = @ \ outs]

-----------------------------------------------------------------------------
(* The capture of the image source.                                        *)

\* screencopy_start(self->screencopy)
StartScreencopy(s) ==
    LET all == Parts(s, s.screencopy) \cup ({s.screencopy} \cap {Toplevel}) IN
    [s EXCEPT !.started = @ \cup all, !.fatal = @ \ all]

\* screencopy_stop(self->screencopy)
StopScreencopy(s) == [s EXCEPT !.started = {}, !.fatal = {}]

\* configure_screencopy(); wlr-screencopy cannot capture a toplevel.
CanCapture(s, src) == src # None /\ (src = Toplevel => s.setup.ExtCapture)

\* Mutant of ConfigureScreencopy: an existing capture object is kept.
ConfigureScreencopyOnce(s) ==
    IF s.screencopy # None THEN StopScreencopy(s) ELSE [s EXCEPT !.screencopy = s.image_source]

ConfigureScreencopy(s) == [StopScreencopy(s) EXCEPT !.screencopy = s.image_source]

\* wayvnc_start_capture_immediate()
StartCaptureImmediate(s) ==
    LET rc == AcquireResult(s)
        t == Acquire(s)
    IN  IF s.capture_retry_timer THEN s
        ELSE IF s.image_source = None THEN Abort(s, "null_source")
        ELSE IF rc = 0 \/ (rc = 1 /\ SourcePower(t) # "on") THEN t
        ELSE StartScreencopy(t)

\* set_image_source()
SetImageSource(s, src) == [s EXCEPT !.image_source = src, !.observed = src]

-----------------------------------------------------------------------------
(* The Wayland objects of clients.                                         *)

\* configure_cursor_sc(); wlr-screencopy cannot capture cursors.
ConfigureCursorSc(s) == [s EXCEPT !.cursor_sc = IF s.setup.ExtCapture THEN s.image_source ELSE None]

\* client_init_pointer() for each client of cs.  The pointer of the cursor
\* master gives its seat the capability that cursor capture needs.
InitPointers(s, cs) ==
    LET t == [s EXCEPT !.objects = [c \in Clients |-> s.objects[c] \cup
                                        (IF c \in cs THEN {"pointer"} ELSE {})]]
    IN  IF cs = {} THEN s
        ELSE IF s.image_source = None THEN Abort(s, "null_source")
        ELSE IF s.image_source = Toplevel THEN s
        ELSE IF s.cursor_master \in cs THEN ConfigureCursorSc(t) ELSE t

\* client_init_keyboard() and client_init_data_control()
InitObjects(s, cs) ==
    [s EXCEPT !.objects = [c \in Clients |-> s.objects[c] \cup
                               (IF c \in cs THEN Objects \ {"pointer"} ELSE {})]]

\* client_init_wayland() for each client of order: they get seats, by which
\* their other objects are made.  The compositor can make the seats of pool.
InitWayland(s, order, pool) ==
    LET cs == Range(order)
        g == InitSeats(s.seating, s.setup.SeatMode, s.setup.SelectedSeat, order, pool)
    IN  IF cs = {} THEN s
        ELSE IF ~s.wayland THEN Abort(s, "null_wayland")
        ELSE IF \E c \in cs : g.seat[c] = NoSeat THEN Abort(s, "no_seat")
        ELSE InitPointers(InitObjects([s EXCEPT !.seating = g], cs), cs)

\* client_destroy() for each client of cs, one after the other
DestroyClients(s, cs) ==
    LET last == cs # {} /\ s.clients = cs
        master == s.cursor_master \in cs
        t == [s EXCEPT !.clients = @ \ cs,
                       !.objects = [c \in Clients |-> IF c \in cs THEN {} ELSE s.objects[c]],
                       !.cursor_master = IF master THEN None ELSE @,
                       !.cursor_sc = IF master THEN None ELSE @,
                       !.master_layout_client = IF @ \in cs THEN None ELSE @,
                       !.layout_by = IF @ \in cs THEN None ELSE @,
                       !.seating = LeaveSeats(@, cs),
                       !.do_exit = @ \/ (s.setup.ExitOnDisconnect /\ last)]
    IN  IF \E c \in cs : s.seating.transient[c] = "stale" THEN Abort(t, "stale_seat")
        ELSE IF ~last \/ ~s.wayland THEN t
        ELSE IF s.image_source = None THEN Abort(t, "null_source")
        ELSE Release(StopScreencopy(t), Parts(t, t.image_source))

-----------------------------------------------------------------------------
(* Attaching and detaching.                                                *)

\* Mutant of CancelRetry: the timer goes on.
CancelRetryNot(s) == s

\* client_detach_wayland() for every client
DetachClients(s) == [s EXCEPT !.objects = [c \in Clients |-> {}]]

\* on_wayland_destroyed() stops and drops the capture_retry_timer.
CancelRetry(s) == [s EXCEPT !.capture_retry_timer = FALSE]

\* wayvnc_display_list_detach()
DetachDisplays(s) == [s EXCEPT !.displays = {None : d \in @}]

\* wayland_destroy() with on_wayland_destroyed()
Detach(s) ==
    [CancelRetry(DetachClients(DetachDisplays(s))) EXCEPT
        !.wayland = FALSE, !.outputs = <<>>,
        !.power = [o \in Outputs |-> "unknown"],
        !.wlr_output_power = {}, !.power_failed = {},
        !.image_source = None, !.observed = None,
        !.screencopy = None, !.started = {}, !.fatal = {}, !.cursor_sc = None,
        !.seating = DetachSeats(@), !.management = ManagerDestroy(@),
        !.do_exit = @ \/ ~s.setup.StartDetached]

\* wayland_detach()
WaylandDetach(s) == IF s.wayland THEN Detach(s) ELSE s

\* The source that wayland_attach() finds among what the compositor has.
SelectSource(s) ==
    CASE s.image_source_type = "output" ->
            IF s.image_source_name \in Range(s.outputs) THEN s.image_source_name ELSE None
      [] s.image_source_type = "desktop" -> Desktop
      [] s.image_source_type = "toplevel" ->
            IF s.setup.UseToplevel /\ s.image_source_name = Toplevel THEN Toplevel ELSE None
      [] s.image_source_type = "unspec" ->
            IF s.outputs = <<>> THEN None ELSE Head(s.outputs)

\* wayland_attach() up to init_wayland(): detach, remember the selection.
Prepare(s, type, name) ==
    LET t == WaylandDetach(s) IN
    IF type = "unspec" THEN t
    ELSE [t EXCEPT !.image_source_type = type, !.image_source_name = name]

\* wayland_attach() from there on, to a compositor with the given outputs and
\* seats
Connect(s, list, seats) ==
    LET t == [s EXCEPT !.wayland = TRUE, !.outputs = list, !.seating.list = seats,
                       !.management = IF s.setup.OutputManager THEN ManagerSetup(Range(list)) ELSE @]
        src == SelectSource(t)
        seated == s.setup.SeatMode = "named" => SeatFind(t.seating, s.setup.SelectedSeat) # NoSeat
    IN  IF CanCapture(t, src) /\ seated THEN ConfigureScreencopy(SetImageSource(t, src))
        ELSE Detach(IF src = None THEN t ELSE SetImageSource(t, src))

\* wayvnc_display_list_deinit() and wayvnc_display_list_init()
InitDisplays(s) ==
    [s EXCEPT !.displays = IF s.image_source = Desktop THEN Range(s.outputs)
                           ELSE {s.image_source}]

\* Mutant of ServeClients: clients from before the attach get no objects.
ServeClientsCaptureOnly(s, order, pool) ==
    LET t == InitDisplays(s) IN
    IF s.clients = {} THEN t ELSE StartCaptureImmediate(t)

\* on_attach() after wayland_attach()
ServeClients(s, order, pool) ==
    LET t == InitWayland(InitDisplays(s), order, pool) IN
    IF s.clients = {} \/ t.aborted # "no" THEN t ELSE StartCaptureImmediate(t)

-----------------------------------------------------------------------------
(* Switching between outputs.                                              *)

\* Mutant of SwitchToOutput: the power of the old output is not released.
SwitchToOutputPowered(s, o) ==
    LET old == s.image_source
        t == ConfigureScreencopy(SetImageSource(s, o))
        u == InitPointers(t, t.clients)
    IN  IF old \notin Outputs \cup {None} THEN Abort(s, "output_assert")
        ELSE IF old = o THEN s
        ELSE IF u.clients = {} THEN u ELSE StartCaptureImmediate(u)

\* switch_to_output()
SwitchToOutput(s, o) ==
    LET old == s.image_source
        t == ConfigureScreencopy(SetImageSource(Release(s, {old}), o))
        u == InitPointers(t, t.clients)
    IN  IF old \notin Outputs \cup {None} THEN Abort(s, "output_assert")
        ELSE IF old = o THEN s
        ELSE IF u.clients = {} THEN u ELSE StartCaptureImmediate(u)

\* The place of an output in the list
Place(list, o) == CHOOSE j \in DOMAIN list : list[j] = o

\* output_cycle() from an output of the list
OutputCycle(list, o, step) ==
    list[((Place(list, o) - 1 + step + Len(list)) % Len(list)) + 1]

-----------------------------------------------------------------------------
(* The callbacks of the event loop.                                        *)

Running == server.aborted = "no" /\ ~server.exited

\* The state of main() before it attaches.
Start(setup) ==
    [setup |-> setup, wayland |-> FALSE, outputs |-> <<>>, power |-> [o \in Outputs |-> "unknown"],
     wlr_output_power |-> {}, power_failed |-> {},
     image_source_type |-> setup.InitialType, image_source_name |-> setup.InitialName,
     image_source |-> None, observed |-> None, displays |-> {None},
     screencopy |-> None, started |-> {}, fatal |-> {}, cursor_sc |-> None,
     clients |-> {}, objects |-> [c \in Clients |-> {}], cursor_master |-> None,
     seating |-> NewSeating, management |-> NoManagement,
     master_layout_client |-> None, layout_by |-> None, layout_fits |-> TRUE,
     deferred_detach |-> FALSE, capture_retry_timer |-> FALSE,
     do_exit |-> FALSE, exited |-> FALSE, aborted |-> "no"]

\* main() when it enters the loop: detached, or attached to a compositor that
\* has the source asked for.
Init ==
    \E setup \in Setups :
        \/ setup.StartDetached /\ server = Start(setup)
        \/ /\ ~setup.StartDetached
           /\ \E list \in OutputLists(setup), seats \in setup.SeatLists :
                LET t == Connect(Start(setup), list, seats) IN
                /\ t.wayland
                /\ server = InitDisplays(t)

\* The name in an attach command that selects a source of the type; it need not
\* be that of something there is.
AttachNames(setup, type) ==
    CASE type = "output" -> setup.Heads
      [] type = "toplevel" -> {Toplevel, None}
      [] OTHER -> {None}

\* Without --transient-seat the compositor makes no seats; with it, it may deny
\* them.
Pools(setup) == IF setup.SeatMode = "transient" THEN {Seats, {}} ELSE {{}}

\* on_attach(): the compositor may be out of reach, lack a protocol, or not
\* have the source.  Clients are in the order in which neatvnc lists them.
OnAttach(type, name) ==
    LET t == Prepare(server, type, name) IN
    /\ Running
    /\ \E order \in SetToSeqs(server.clients), pool \in Pools(server.setup) :
        \/ server' = ServeClients(t, order, pool)
        \/ server' = ServeClients(Detach(t), order, pool)
        \/ \E list \in OutputLists(server.setup), seats \in server.setup.SeatLists :
            server' = ServeClients(Connect(t, list, seats), order, pool)

\* on_detach() and on_wayland_event() when the compositor has gone away
OnDetach ==
    /\ Running /\ server.wayland
    /\ server' = Detach(server)

\* handle_wayland_detach(), when the loop is idle
HandleWaylandDetach ==
    /\ Running /\ server.deferred_detach
    /\ server' = WaylandDetach([server EXCEPT !.deferred_detach = FALSE])

\* on_output_cycle()
OnOutputCycle(step) ==
    /\ Running /\ server.wayland
    /\ IF server.image_source = None THEN server' = Abort(server, "null_source")
       ELSE /\ server.image_source \in Outputs
            /\ server' = SwitchToOutput(server,
                            OutputCycle(server.outputs, server.image_source, step))

\* on_output_switch()
OnOutputSwitch(o) ==
    /\ Running /\ server.wayland
    /\ IF server.image_source = None THEN server' = Abort(server, "null_source")
       ELSE /\ server.image_source \in Outputs
            /\ o \in Range(server.outputs)
            /\ server' = SwitchToOutput(server, o)

\* The list with a new output; its memory may be that of an output freed before.
Announced(s, o, reused) ==
    [s EXCEPT !.outputs = <<o>> \o @,
              !.displays = IF reused THEN {IF d = Dangling THEN o ELSE d : d \in @} ELSE @]

\* Mutant of OutputAdded: the server stays without a source.
OutputAddedIdle(s, o) ==
    LET t == [s EXCEPT !.deferred_detach = FALSE] IN
    IF t.image_source_type = "desktop" THEN [t EXCEPT !.displays = @ \cup {o}] ELSE t

\* on_output_added(); a desktop gets a display and a capture that is not started.
OutputAdded(s, o) ==
    LET t == [s EXCEPT !.deferred_detach = FALSE] IN
    CASE t.image_source_type = "output" /\ t.image_source = None -> SwitchToOutput(t, o)
      [] t.image_source_type = "desktop" -> [t EXCEPT !.displays = @ \cup {o}]
      [] OTHER -> t

\* registry_add() of an output
OnOutputAdded(o) ==
    /\ Running /\ server.wayland /\ o \in server.setup.Heads \ Range(server.outputs)
    /\ server.setup.OutputManager => server.management.real[o] = "enabled"
    /\ \E reused \in BOOLEAN : server' = OutputAdded(Announced(server, o, reused), o)

\* schedule_wayland_detach() or wayvnc_exit(), when no output is left
GiveUp(s) ==
    IF s.setup.StartDetached THEN [s EXCEPT !.deferred_detach = TRUE] ELSE [s EXCEPT !.do_exit = TRUE]

\* on_output_removed()
FallBack(s, o) ==
    LET t == SwitchToOutput(s, OutputCycle(s.outputs, o, -1)) IN
    IF s.image_source # o THEN s
    ELSE IF t.image_source # o THEN t
    ELSE GiveUp([t EXCEPT !.image_source = IF s.setup.StartDetached THEN None ELSE @])

\* free(): pointers to the output that are left dangle.
Free(s, o) ==
    LET left(p) == IF p = o THEN Dangling ELSE p IN
    [Release(s, {o}) EXCEPT
        !.power[o] = "unknown",
        !.outputs = RemoveAt(@, Place(@, o)),
        !.image_source = left(@), !.observed = left(@),
        !.displays = {left(d) : d \in @},
        !.screencopy = left(@), !.cursor_sc = left(@),
        !.started = {left(c) : c \in @}, !.fatal = {left(c) : c \in @}]

\* Mutant of NotifyDestroyed: the image source is not told.
NotifyDestroyedNot(s, o) == s

\* The observers of an output that is destroyed: on_image_source_destroyed()
\* and, for the display of a desktop output, on_desktop_output_destroyed();
\* the desktop itself has dropped its capture of the output.
NotifyDestroyed(s, o) ==
    LET t == IF s.observed = o THEN [s EXCEPT !.image_source = None, !.observed = None] ELSE s
        u == [t EXCEPT !.displays = @ \ {o}, !.started = @ \ {o}, !.fatal = @ \ {o}]
    IN  IF s.image_source # Desktop THEN t
        ELSE IF s.outputs = <<o>> THEN GiveUp(u) ELSE u

\* registry_remove() of an output
OnOutputRemoved(o) ==
    /\ Running /\ o \in Range(server.outputs)
    /\ server.setup.OutputManager => server.management.real[o] # "enabled"
    /\ server' = Free(NotifyDestroyed(FallBack(server, o), o), o)

\* on_toplevel_closed()
OnToplevelClosed ==
    /\ Running /\ server.image_source = Toplevel
    /\ server' = [server EXCEPT !.do_exit = TRUE]

\* on_image_source_power_change()
SourcePowerChange(s) ==
    IF s.clients = {} THEN s
    ELSE CASE SourcePower(s) = "on" -> StartCaptureImmediate(s)
           [] SourcePower(s) = "off" -> StopScreencopy(s)
           [] OTHER -> s

\* output_power_mode(); a desktop passes the change on when all its outputs
\* agree (desktop_image_source_output_power_change()).
PowerMode(o, mode) ==
    LET s == [server EXCEPT !.power[o] = mode] IN
    /\ Running
    /\ o \in server.wlr_output_power
    /\ server.power[o] # mode
    /\ server' = IF o \in Parts(s, s.observed) /\ SourcePower(s) = mode
                 THEN SourcePowerChange(s) ELSE s

\* output_power_failed()
PowerFailed(o) ==
    /\ Running
    /\ o \in server.wlr_output_power
    /\ server' = [server EXCEPT !.power[o] = "unknown", !.wlr_output_power = @ \ {o},
                                !.power_failed = @ \cup {o}]

\* on_capture_done(DONE) and wayvnc_process_frame(): the frame's display is
\* looked up; when it has been sent, the capture starts again.
FrameDone(src) ==
    /\ Running
    /\ src \in server.started
    /\ server' = IF src \in server.displays THEN StartScreencopy(server)
                 ELSE Abort(server, "display_assert")

\* on_capture_done(FAILED), which wlr-screencopy reports: try again later
CaptureFailed(src) ==
    /\ Running
    /\ ~server.setup.ExtCapture
    /\ src \in server.started
    /\ server' = [server EXCEPT !.started = @ \ {src}, !.capture_retry_timer = TRUE]

\* on_capture_done(FATAL): the capture has ended
CaptureFatal(src) ==
    /\ Running
    /\ src \in server.started
    /\ server' = [server EXCEPT !.started = @ \ {src}, !.fatal = @ \cup {src}]

\* Mutant of OnCaptureRestartTimer: the timer is not cleared before the start.
OnCaptureRestartTimerBusy ==
    /\ Running /\ server.capture_retry_timer
    /\ server' = [StartCaptureImmediate(server) EXCEPT !.capture_retry_timer = FALSE]

\* on_capture_restart_timer()
OnCaptureRestartTimer ==
    /\ Running /\ server.capture_retry_timer
    /\ server' = StartCaptureImmediate([server EXCEPT !.capture_retry_timer = FALSE])

\* on_nvnc_client_new() with client_create()
ClientNew(c, pool) ==
    LET s == [server EXCEPT !.clients = @ \cup {c},
                            !.cursor_master = IF @ = None THEN c ELSE @]
        t == IF s.wayland THEN InitWayland(s, <<c>>, pool) ELSE s
    IN  /\ Running /\ c \notin server.clients
        /\ pool # {} => pool \ Range(server.seating.list) # {}
        /\ server' = IF s.clients = {c} /\ s.wayland /\ t.aborted = "no"
                     THEN StartCaptureImmediate(t) ELSE t

\* client_destroy(), when the client hangs up or is disconnected
ClientDestroy(c) ==
    /\ Running /\ c \in server.clients
    /\ server' = DestroyClients(server, {c})

\* registry_add_input() of a seat
OnSeatAdded(x) ==
    /\ Running /\ server.wayland /\ server.setup.SeatsChange
    /\ server.setup.SeatMode # "transient" /\ x \notin Range(server.seating.list)
    /\ server' = [server EXCEPT !.seating = SeatAdded(@, x)]

\* registry_remove() of a seat: on_seat_removed() closes the clients that have
\* it, and neatvnc runs client_destroy() for each within nvnc_client_close().
OnSeatRemoved(x) ==
    /\ Running /\ server.setup.SeatsChange /\ x \in Range(server.seating.list)
    /\ server' = [DestroyClients(server, Holders(server.seating, x)) EXCEPT
                    !.seating = SeatRemoved(@, x)]

-----------------------------------------------------------------------------
(* Resizing.                                                               *)

\* The outputs that the server has are those of the enabled heads.  One that has
\* been disabled may still be listed, and one that has been enabled not yet be.
InStep(s) == Range(s.outputs) = HeadsIn(s.management, {"enabled"})

\* wlr_output_manager_commit_config() on behalf of client c, and what becomes of
\* the configuration
Committed(s, c, outs) ==
    LET config == CommitConfig(s.management, outs) IN
    [s EXCEPT !.layout_by = c,
              !.layout_fits =
                    /\ s.layout_fits /\ Fits(s.management, config)
                    /\ InStep(s) => NoneTwice(s.management, config)
                    /\ InStep(s) /\ s.image_source = Desktop => NoneOmitted(s.management, config)]

CanConfigure(s, outs) == \A o \in outs : Configurable(s.management, o, s.setup.Headless)

\* Mutant of ResizeDesktop: the client does not become the master.
ResizeDesktopFree(s, c, known) ==
    IF ~s.management.manager THEN Abort(s, "null_config")
    ELSE IF known /\ CanConfigure(s, s.displays) THEN Committed(s, c, s.displays) ELSE s

\* handle_client_resize_desktop() of a layout with the right number of displays,
\* all of which are known or not.  The code goes on with a NULL configuration
\* when there is no manager.
ResizeDesktop(s, c, known) ==
    IF ~s.management.manager THEN Abort(s, "null_config")
    ELSE IF known /\ CanConfigure(s, s.displays)
    THEN [Committed(s, c, s.displays) EXCEPT !.master_layout_client = c]
    ELSE s

\* wlr_output_manager_resize_output(); a configuration that cannot be completed
\* is neither applied nor destroyed.
ResizeHead(s, c, o) ==
    IF s.management.manager /\ CanConfigure(s, {o}) THEN Committed(s, c, {o}) ELSE s

\* handle_client_resize_output(): whoever tries becomes the master.
ResizeOutput(s, c, known) ==
    IF known THEN ResizeHead([s EXCEPT !.master_layout_client = c], c, s.image_source) ELSE s

\* on_client_resize(); layouts with a wrong number of displays are refused.
OnClientResize(c, known) ==
    /\ Running /\ server.setup.Resizing /\ c \in server.clients
    /\ server.master_layout_client \in {None, c}
    /\ \/ server.image_source = Desktop /\ server' = ResizeDesktop(server, c, known)
       \/ server.image_source \in Outputs /\ server' = ResizeOutput(server, c, known)

\* The compositor changes a head.  An output that is disabled is withdrawn; one
\* comes back when its removal has been handled.
OnHeadChanged(o, state) ==
    /\ Running /\ server.wayland /\ server.setup.OutputManager /\ o \in server.setup.Heads
    /\ server.management.real[o] = "none" => server.management.heads[o] = "none"
    /\ server' = [server EXCEPT !.management = HeadChanged(@, o, state)]

\* Events about heads, as far as there are any to report
Listens(o) == Running /\ server.management.manager /\ o \in server.setup.Heads

OnHeadNew(o) ==
    /\ Listens(o)
    /\ server.management.real[o] # "none" /\ server.management.heads[o] = "none"
    /\ server' = [server EXCEPT !.management = HeadNew(@, o)]

OnHeadDescribed(o) ==
    /\ Listens(o)
    /\ server.management.real[o] # "none" /\ server.management.heads[o] # "none"
    /\ server' = [server EXCEPT !.management = HeadDescribed(@, o)]

OnHeadFinished(o) ==
    /\ Listens(o)
    /\ server.management.real[o] = "none" /\ server.management.heads[o] # "none"
    /\ server' = [server EXCEPT !.management = HeadFinished(@, o)]

\* output_manager_done() follows the events about heads; the wl_outputs come and
\* go in their own time.
OnManagerDone ==
    /\ Running /\ server.management.manager
    /\ server.management.heads = server.management.real
    /\ server' = [server EXCEPT !.management = ManagerDone(@)]

OnManagerFinished ==
    /\ Running /\ server.management.manager
    /\ server' = [server EXCEPT !.management = ManagerFinished(@)]

\* on_signal() and on_wayvnc_exit()
OnSignal ==
    /\ Running /\ ~server.do_exit
    /\ server' = [server EXCEPT !.do_exit = TRUE]

\* main() after the loop: nvnc_del() closes the clients, then Wayland goes.
Shutdown(s) ==
    WaylandDetach(DestroyClients([s EXCEPT !.deferred_detach = FALSE, !.displays = {}], s.clients))

Exit ==
    /\ Running /\ server.do_exit
    /\ server' = [Shutdown(server) EXCEPT !.exited = TRUE]

\* The process is gone.
Dead == ~Running /\ UNCHANGED server

Next ==
    \/ \E type \in server.setup.AttachTypes : \E name \in AttachNames(server.setup, type) : OnAttach(type, name)
    \/ OnDetach \/ HandleWaylandDetach
    \/ \E step \in {1, -1} : OnOutputCycle(step)
    \/ \E o \in Outputs :
        \/ OnOutputSwitch(o) \/ OnOutputAdded(o) \/ OnOutputRemoved(o)
        \/ \E mode \in {"on", "off"} : PowerMode(o, mode)
        \/ PowerFailed(o)
    \/ OnToplevelClosed
    \/ \E src \in Captures : FrameDone(src) \/ CaptureFailed(src) \/ CaptureFatal(src)
    \/ OnCaptureRestartTimer
    \/ \E c \in Clients :
        \/ \E pool \in Pools(server.setup) : ClientNew(c, pool)
        \/ ClientDestroy(c)
        \/ \E known \in BOOLEAN : OnClientResize(c, known)
    \/ \E x \in Seats : OnSeatAdded(x) \/ OnSeatRemoved(x)
    \/ \E o \in Outputs :
        \/ \E state \in RealStates : OnHeadChanged(o, state)
        \/ OnHeadNew(o) \/ OnHeadDescribed(o) \/ OnHeadFinished(o)
    \/ OnManagerDone \/ OnManagerFinished
    \/ OnSignal \/ Exit \/ Dead

Spec == Init /\ [][Next]_server

-----------------------------------------------------------------------------
(* Properties.                                                             *)

\* Once on_wayland_destroyed() has run, nothing is left of the compositor that
\* the server would use: no output or held power, no image source or observer of
\* one, no capture, no timer that would start one, no source of a display, no
\* seat, no output manager, no keyboard, pointer, clipboard or seat of a client.
\* What is left is the transient seat of a client, which client_detach_wayland()
\* passes over: its object has gone with the connection.
DetachedIsClean ==
    server.aborted = "no" /\ ~server.wayland =>
        /\ server.outputs = <<>> /\ server.wlr_output_power = {}
        /\ server.image_source = None /\ server.observed = None
        /\ server.screencopy = None /\ server.started = {} /\ server.cursor_sc = None
        /\ server.displays \subseteq {None}
        /\ ~server.capture_retry_timer
        /\ server.seating.list = <<>> /\ ~server.management.manager
        /\ \A c \in Clients :
            /\ server.objects[c] = {} /\ server.seating.seat[c] = NoSeat
            /\ server.seating.transient[c] \in {"none", "stale"}

\* The image source is never a freed output, and the observers that
\* set_image_source() installs sit on the image source: they would be linked
\* twice or miss its power events otherwise.
SourceObserved ==
    server.aborted = "no" =>
        server.image_source # Dangling /\ server.observed = server.image_source

\* What is captured, as screen and as cursor, is the selected image source,
\* through every switch, fallback, attach and change of the cursor master.
CaptureMatchesSource ==
    Running /\ server.image_source # None =>
        /\ server.screencopy = server.image_source
        /\ server.cursor_sc \in {None, server.image_source}

\* Every client of an attached server has its virtual input devices and its
\* clipboard, whether it came before or after the attach.
ClientsHaveObjects ==
    Running /\ server.wayland =>
        \A c \in server.clients :
            /\ server.seating.seat[c] # NoSeat
            /\ Objects \ {"pointer"} \subseteq server.objects[c]
            /\ server.image_source \in Outputs \cup {Desktop} => "pointer" \in server.objects[c]

\* The power of an output is managed only while it is part of the image source
\* and somebody watches: outputs that are switched away from, and those of a
\* server without clients, are left to the compositor.  With wlr-screencopy a
\* retry timer that is pending when the last client leaves is not stopped, and
\* takes the power again for nobody.
PowerOnlyWhileWatched ==
    Running =>
        /\ server.wlr_output_power \subseteq Parts(server, server.image_source)
        /\ server.clients = {} /\ server.setup.ExtCapture => server.wlr_output_power = {}

\* While clients watch an output or a toplevel, its capture is under way, or
\* its power has been asked for, or the retry timer will start it, unless the
\* compositor has ended the capture or the power management.
CaptureDriven ==
    LET src == server.image_source IN
    Running /\ server.clients # {} /\ src \in Outputs \cup {Toplevel} =>
        \/ src \in server.started \cup server.fatal \cup server.power_failed
        \/ server.capture_retry_timer
        \/ src \in server.wlr_output_power /\ server.power[src] # "on"

\* A server that was told what to capture has an image source while it is
\* attached, or it is about to detach or exit (on_output_removed(),
\* on_output_added()).  Without --output and the like it need not: an output that
\* is added cancels the deferred detach and is not selected.
AttachedHasSource ==
    Running /\ server.wayland /\ server.image_source_type # "unspec" =>
        server.image_source # None \/ server.deferred_detach \/ server.do_exit

\* occupancy is the number of clients that have the seat, and no client has a
\* seat that is gone, through all ways in which clients, seats and compositors
\* come and go (client_init_seat(), client_destroy(), on_seat_removed()).
SeatsCounted ==
    server.aborted = "no" =>
        /\ \A x \in Seats :
            server.seating.occupancy[x] = Cardinality(Holders(server.seating, x))
        /\ \A c \in Clients : server.seating.seat[c] \in Range(server.seating.list) \cup {NoSeat}

\* Without --seat, no step makes two clients share a seat while it leaves
\* another one without a client, and with --transient-seat none ever do.
SharedWhenFull ==
    [][\A c, d \in Clients :
        LET g == server.seating
            h == server'.seating
        IN  /\ c # d /\ server'.aborted = "no" /\ server.setup.SeatMode # "named"
            /\ h.seat[c] # NoSeat /\ h.seat[c] = h.seat[d] /\ g.seat[c] # g.seat[d]
            => /\ \A x \in Range(h.list) : Holders(h, x) # {}
               /\ server.setup.SeatMode = "any"]_(server.seating)

\* A client that has changed the layout is the only one to do so until it
\* disconnects (master_layout_client), and only a client that is connected is
\* the master.
LayoutOwned ==
    [][/\ server'.layout_by # server.layout_by =>
            server.layout_by \notin server'.clients
       /\ server'.master_layout_client \in server'.clients \cup {None}]_<<
            server.layout_by, server.master_layout_client, server.clients>>

\* A configuration that output-management.c applies with the latest serial
\* enables no head that is gone, and disables those that are disabled and no
\* other, although events about them arrive one by one: a head that has only been
\* announced counts as disabled, and it is the serial of the last done event that
\* keeps it from being disabled.  While the outputs of the server are those of the
\* enabled heads, no head is named twice, and the configuration of a desktop
\* omits none; that of a single output omits the others that are enabled, which
\* the protocol forbids.
LayoutFits == server.layout_fits

\* assert(display) in wayvnc_process_frame(): every frame has a display.
FrameHasDisplay == server.aborted # "display_assert"

\* When the loop has ended, main() runs to its end: closing the clients and
\* the connection calls no operation on an image source that is gone
\* ("No fallback outputs left. Exiting...").
ExitCompletes == server.exited => server.aborted = "no"

-----------------------------------------------------------------------------
(* Why some of these hold, as an inductive invariant.                      *)

\* As long as nothing has gone wrong, the image source and everything made for
\* it agree; an output that is the image source is still there.
SourceInv(s) ==
    s.aborted = "no" =>
        /\ s.observed = s.image_source /\ s.image_source # Dangling
        /\ s.image_source \in Outputs => s.image_source \in Range(s.outputs)
        /\ s.image_source = Desktop => s.image_source_type = "desktop"
        /\ s.image_source # None =>
            s.screencopy = s.image_source /\ s.cursor_sc \in {None, s.image_source}
        /\ s.cursor_sc # None => s.cursor_master \in s.clients

\* Without a connection there is nothing of the compositor, nor anything that
\* could bring it back.
DetachedInv(s) ==
    s.aborted = "no" /\ ~s.wayland =>
        /\ s.image_source = None /\ s.screencopy = None /\ s.started = {}
        /\ s.cursor_sc = None /\ s.displays \subseteq {None} /\ ~s.capture_retry_timer
        /\ \A c \in Clients : s.objects[c] = {}
        /\ s.outputs = <<>> /\ s.wlr_output_power = {} /\ ~s.management.manager
        /\ DOMAIN s.seating = DOMAIN NewSeating /\ s.seating.list = <<>>
        /\ \A c \in Clients : /\ s.seating.seat[c] = NoSeat
                              /\ s.seating.transient[c] \in {"none", "stale"}

\* While the serial is the latest one, the heads are those of the compositor.
LayoutInv(s) ==
    LET m == s.management IN
    /\ s.outputs \in Seq(Outputs) /\ IsInjective(s.outputs)
    /\ s.displays \cap Outputs \subseteq Range(s.outputs)
    /\ m \in Managements
    /\ m.manager => s.setup.OutputManager
    /\ m.manager /\ m.current => m.heads = m.real
    /\ s.layout_fits = TRUE

\* A desktop has a display for each output.
DesktopInv(s) ==
    s.aborted = "no" /\ s.image_source = Desktop => Range(s.outputs) \subseteq s.displays

\* Whoever has changed the layout is the master, who is connected.
MasterInv(s) ==
    /\ s.clients \subseteq Clients
    /\ s.master_layout_client \in s.clients \cup {None}
    /\ s.layout_by \in {None, s.master_layout_client}

Inv ==
    /\ server.setup \in Setups /\ server.image_source_type \in Types
    /\ SourceInv(server) /\ DetachedInv(server) /\ LayoutInv(server) /\ DesktopInv(server)
    /\ MasterInv(server)
=============================================================================
