---------------------------- MODULE ServerProofs ----------------------------
(***************************************************************************)
(* Proofs about the life of the server, for any number of outputs, clients *)
(* and seats, and for every way to start it: one lemma for each callback,  *)
(* and the theorems.                                                       *)
(***************************************************************************)
EXTENDS ServerFunctions

-----------------------------------------------------------------------------
(* The callbacks.  What LayoutOwned says about a step is part of each      *)
(* lemma.                                                                  *)

Owned ==
    /\ server'.layout_by # server.layout_by => server.layout_by \notin server'.clients
    /\ server'.master_layout_client \in server'.clients \cup {None}

Good == Sound(server') /\ Owned

\* Callbacks that have no say in the layout
LEMMA SameLayout ==
    ASSUME Sound(server'), server'.layout_by = server.layout_by
    PROVE  Good
BY DEF Good, Owned, Sound, Base, MasterInv

\* on_attach() detaches, connects and serves the clients, or reports that it cannot.
LEMMA OnAttachGood ==
    ASSUME Sound(server), NEW type \in server.setup.AttachTypes, NEW name, OnAttach(type, name)
    PROVE  Good
<1>. DEFINE t == Prepare(server, type, name)
<1>1. server.aborted = "no" /\ type \in Types
  <2>1. server.setup.AttachTypes \subseteq Types
    BY SetupsAssumption DEF Sound, Base
  <2> QED
    BY <2>1 DEF OnAttach, Running
<1>2. /\ Sound(t) /\ ~t.wayland
      /\ t.aborted = "no" /\ t.clients = server.clients /\ t.layout_by = server.layout_by
      /\ t.setup = server.setup
  BY <1>1, PrepareSound
<1>3. PICK order \in SetToSeqs(server.clients), pool \in Pools(server.setup) :
        \/ server' = ServeClients(t, order, pool)
        \/ server' = ServeClients(Detach(t), order, pool)
        \/ \E list \in OutputLists(server.setup), seats \in server.setup.SeatLists :
            server' = ServeClients(Connect(t, list, seats), order, pool)
  BY DEF OnAttach
<1>4. Range(order) \subseteq server.clients
  BY <1>3 DEF SetToSeqs, Range
<1>. HIDE DEF t
<1>5. ASSUME NEW u, Almost(u), u.aborted = "no", u.clients = server.clients,
             u.layout_by = server.layout_by, server' = ServeClients(u, order, pool)
      PROVE  Good
  BY <1>4, <1>5, ServeClientsSound, SameLayout
<1>6. CASE server' = ServeClients(t, order, pool)
  BY <1>2, <1>5, <1>6 DEF Sound, Almost
<1>7. CASE server' = ServeClients(Detach(t), order, pool)
  BY <1>2, <1>5, <1>7, DetachSound DEF Sound, Almost
<1>8. ASSUME NEW list \in OutputLists(server.setup), NEW seats,
             server' = ServeClients(Connect(t, list, seats), order, pool)
      PROVE  Good
  BY <1>2, <1>5, <1>8, ConnectSound
<1> QED
  BY <1>3, <1>6, <1>7, <1>8

\* on_detach() and handle_wayland_detach()
LEMMA DetachingGood ==
    ASSUME Sound(server), OnDetach \/ HandleWaylandDetach
    PROVE  Good
<1>1. CASE OnDetach
  BY <1>1, DetachSound, SameLayout DEF OnDetach, Sound
<1>2. CASE HandleWaylandDetach
  <2>. DEFINE s == [server EXCEPT !.deferred_detach = FALSE]
  <2>1. Changes(server, s, {"deferred_detach"})
    BY DEF Changes, Fields, Sound, Base
  <2>2. server' = WaylandDetach(s)
    BY <1>2 DEF HandleWaylandDetach
  <2>. HIDE DEF s
  <2>3. Sound(s) /\ s.layout_by = server.layout_by
    BY SMTT(30), <2>1 DEF Changes, Fields, Sound, Base, SourceInv, DetachedInv, LayoutInv, DesktopInv, MasterInv
  <2> QED
    BY <2>2, <2>3, DetachSound, SameLayout DEF WaylandDetach, Sound
<1> QED
  BY <1>1, <1>2

\* on_output_cycle() and on_output_switch()
LEMMA SwitchingGood ==
    ASSUME Sound(server), NEW step \in {1, -1}, NEW o, OnOutputCycle(step) \/ OnOutputSwitch(o)
    PROVE  Good
<1>1. server.aborted = "no" /\ server.wayland
  BY DEF OnOutputCycle, OnOutputSwitch, Running
<1>2. CASE server' = Abort(server, "null_source")
  <2>1. Sound(server') /\ Changes(server, server', {"aborted"})
    BY <1>2, AbortSound, AbortEffect, Zenon DEF Sound, Base
  <2> QED
    BY <2>1, SameLayout DEF Changes, Fields
<1>3. ASSUME NEW p \in Range(server.outputs), server' = SwitchToOutput(server, p) PROVE Good
  BY <1>1, <1>3, SwitchSound, SameLayout
<1>4. CASE server.image_source # None
  <2>1. server.image_source \in Range(server.outputs) /\ server.outputs \in Seq(Outputs)
    BY <1>1, <1>4 DEF OnOutputCycle, OnOutputSwitch, Sound, SourceInv, LayoutInv
  <2>2. OutputCycle(server.outputs, server.image_source, step) \in Range(server.outputs)
    BY <2>1, CycleInList
  <2> QED
    BY <1>3, <1>4, <2>2 DEF OnOutputCycle, OnOutputSwitch
<1> QED
  BY <1>2, <1>4 DEF OnOutputCycle, OnOutputSwitch

\* An output that is not in the list is put first.
LEMMA NewInjective ==
    ASSUME NEW list \in Seq(Outputs), NEW o \in Outputs \ Range(list), IsInjective(list)
    PROVE  IsInjective(<<o>> \o list)
<1>. DEFINE new == <<o>> \o list
<1>1. /\ new \in Seq(Outputs) /\ DOMAIN new = 1..(Len(list) + 1)
      /\ new[1] = o /\ \A k \in 2..(Len(list) + 1) : new[k] = list[k - 1]
  OBVIOUS
<1>2. \A k \in 1..Len(list) : list[k] # o
  BY DEF Range
<1>3. \A k, l \in 1..Len(list) : list[k] = list[l] => k = l
  BY DEF IsInjective
<1>. HIDE DEF new
<1>4. ASSUME NEW k \in DOMAIN new, NEW l \in DOMAIN new, new[k] = new[l] PROVE k = l
  <2>1. CASE k = 1
    BY <1>1, <1>2, <1>4, <2>1
  <2>2. CASE l = 1
    BY <1>1, <1>2, <1>4, <2>2
  <2>3. CASE k # 1 /\ l # 1
    <3>1. k - 1 \in 1..Len(list) /\ l - 1 \in 1..Len(list) /\ list[k - 1] = list[l - 1]
      BY <1>1, <1>4, <2>3
    <3>2. k - 1 = l - 1
      BY <1>3, <3>1
    <3> QED
      BY <1>1, <3>2
  <2> QED
    BY <2>1, <2>2, <2>3
<1> QED
  BY <1>4 DEF IsInjective, new

\* on_output_added(): the new output is put first in the list, and a desktop takes it in.
LEMMA OnOutputAddedGood ==
    ASSUME Sound(server), NEW o \in Outputs, OnOutputAdded(o)
    PROVE  Good
<1>1. PICK reused \in BOOLEAN : server' = OutputAdded(Announced(server, o, reused), o)
  BY DEF OnOutputAdded
<1>. DEFINE s == [Announced(server, o, reused) EXCEPT !.deferred_detach = FALSE]
<1>2. /\ Changes(server, s, {"outputs", "displays", "deferred_detach"})
      /\ s.outputs = <<o>> \o server.outputs
      /\ s.displays = IF reused THEN {IF d = Dangling THEN o ELSE d : d \in server.displays}
                      ELSE server.displays
  BY Zenon DEF Announced, Changes, Fields, Sound, Base
<1>3. \/ server' = SwitchToOutput(s, o)
      \/ server' = [s EXCEPT !.displays = @ \cup {o}]
      \/ server' = s /\ s.image_source_type # "desktop"
  BY <1>1 DEF OutputAdded
<1>. HIDE DEF s
<1>4. /\ s.outputs \in Seq(Outputs) /\ Range(s.outputs) = {o} \cup Range(server.outputs)
      /\ IsInjective(s.outputs)
  <2>. DEFINE one == <<o>>
  <2>1. server.outputs \in Seq(Outputs) /\ one \in Seq(Outputs) /\ Range(one) = {o}
    BY DEF Sound, LayoutInv, Range
  <2>2. s.outputs = one \o server.outputs
    BY <1>2
  <2>. HIDE DEF one
  <2>3. /\ one \o server.outputs \in Seq(Outputs)
        /\ Range(one \o server.outputs) = Range(one) \cup Range(server.outputs)
    BY <2>1, RangeOfBoth
  <2>4. IsInjective(<<o>> \o server.outputs)
    BY NewInjective DEF OnOutputAdded, Sound, LayoutInv
  <2> QED
    BY <1>2, <2>1, <2>2, <2>3, <2>4
<1>5. server.aborted = "no" /\ server.wayland
  BY DEF OnOutputAdded, Running
<1>6. /\ s.setup = server.setup /\ s.management = server.management
      /\ s.layout_fits = server.layout_fits /\ s.layout_by = server.layout_by
      /\ s.aborted = "no" /\ s.wayland
  BY <1>2, <1>5 DEF Changes, Fields
<1>7. LayoutInv(s)
  BY <1>2, <1>4, <1>5, <1>6 DEF LayoutInv, Sound
<1>8. Base(s) /\ DetachedInv(s)
  BY <1>2, <1>6 DEF Changes, Fields, Sound, Base, MasterInv, DetachedInv
<1>9. SourceInv(s)
  BY <1>2, <1>4, ZenonT(30) DEF Changes, Fields, Sound, SourceInv
<1>10. \/ s.image_source # Desktop
       \/ s.image_source_type = "desktop" /\ Range(server.outputs) \subseteq s.displays
  <2>1. /\ s.image_source = server.image_source
        /\ s.image_source_type = server.image_source_type
    BY <1>2 DEF Changes, Fields
  <2>2. server.image_source = Desktop =>
            /\ server.image_source_type = "desktop"
            /\ Range(server.outputs) \subseteq server.displays \cap Outputs
    <3>1. Range(server.outputs) \subseteq Outputs
      BY DEF Sound, LayoutInv, Range
    <3> QED
      BY <1>5, <3>1 DEF Sound, SourceInv, DesktopInv
  <2>3. server.displays \cap Outputs \subseteq s.displays
    BY <1>2, OutputsAssumption
  <2> QED
    BY <2>1, <2>2, <2>3
<1>11. CASE server' = SwitchToOutput(s, o) /\ s.image_source # Desktop
  <2>1. Sound(s)
    BY <1>7, <1>8, <1>9, <1>11 DEF Sound, DesktopInv
  <2> QED
    BY <1>4, <1>6, <1>11, <2>1, SwitchSound, SameLayout
<1>12. CASE server' = [s EXCEPT !.displays = @ \cup {o}]
  <2>1. Changes(s, server', {"displays"}) /\ server'.displays = s.displays \cup {o}
    BY <1>12, <1>8 DEF Changes, Fields, Base
  <2>2. Base(server') /\ SourceInv(server')
    BY <1>8, <1>9, <2>1 DEF Changes, Fields, Base, SourceInv, MasterInv
  <2>3. LayoutInv(server') /\ DesktopInv(server')
    BY <1>4, <1>7, <1>10, <2>1 DEF Changes, Fields, LayoutInv, DesktopInv
  <2>4. DetachedInv(server') /\ server'.layout_by = s.layout_by
    BY <1>6, <2>1 DEF Changes, Fields, DetachedInv
  <2> QED
    BY <1>6, <2>2, <2>3, <2>4, SameLayout DEF Sound
<1>13. CASE server' = s /\ s.image_source_type # "desktop"
  <2>1. DesktopInv(s)
    BY <1>10, <1>13 DEF DesktopInv
  <2> QED
    BY <1>6, <1>7, <1>8, <1>9, <1>13, <2>1, SameLayout DEF Sound
<1>14. server' = SwitchToOutput(s, o) => s.image_source # Desktop \/ server' = [s EXCEPT !.displays = @ \cup {o}]
  BY <1>1, <1>10 DEF OutputAdded, s
<1> QED
  BY <1>3, <1>11, <1>12, <1>13, <1>14

\* on_output_removed(), with the fallback and the freeing of the output
LEMMA OnOutputRemovedGood ==
    ASSUME Sound(server), NEW o \in Outputs, OnOutputRemoved(o)
    PROVE  Good
<1>. DEFINE f == FallBack(server, o)
            n == NotifyDestroyed(f, o)
<1>1. server.aborted = "no" /\ o \in Range(server.outputs) /\ server' = Free(n, o)
  BY DEF OnOutputRemoved, Running
<1>2. server.wayland
  BY <1>1 DEF Sound, DetachedInv, Range
<1>3. Leaving(f, o) /\ f.outputs = server.outputs /\ f.layout_by = server.layout_by
  BY <1>1, <1>2, FallBackLeaving
<1>. HIDE DEF f
<1>4. /\ Leaving(n, o) /\ n.outputs = server.outputs /\ n.layout_by = server.layout_by
      /\ n.aborted = "no" => n.image_source = n.observed /\ n.observed # o
  BY <1>3, NotifyLeaving
<1>. HIDE DEF n
<1> QED
  BY <1>1, <1>4, FreeSound, SameLayout

\* Power, captures and the retry timer
LEMMA CaptureGood ==
    ASSUME Sound(server), NEW o, NEW mode, NEW src,
           \/ PowerMode(o, mode) \/ PowerFailed(o)
           \/ FrameDone(src) \/ CaptureFailed(src) \/ CaptureFatal(src)
           \/ OnCaptureRestartTimer
    PROVE  Good
<1>. DEFINE starts == {"wlr_output_power", "power_failed", "started", "fatal", "aborted"}
<1>1. server.aborted = "no"
  BY DEF PowerMode, PowerFailed, FrameDone, CaptureFailed, CaptureFatal, OnCaptureRestartTimer,
         Running
<1>2. CASE PowerMode(o, mode)
  <2>. DEFINE s == [server EXCEPT !.power[o] = mode]
  <2>1. Changes(server, s, {"power"})
    BY DEF Changes, Fields, Sound, Base
  <2>2. server' \in {s, StartCaptureImmediate(s), StopScreencopy(s)}
    BY <1>2 DEF PowerMode, SourcePowerChange
  <2>. HIDE DEF s
  <2>3. Sound(s) /\ s.layout_by = server.layout_by
    BY SMTT(30), <2>1 DEF Changes, Fields, Sound, Base, SourceInv, DetachedInv, LayoutInv, DesktopInv, MasterInv
  <2>4. /\ Sound(StartCaptureImmediate(s)) /\ Changes(s, StartCaptureImmediate(s), starts)
        /\ Sound(StopScreencopy(s)) /\ Changes(s, StopScreencopy(s), {"started", "fatal"})
    BY <2>3, StartCaptureSound, StartCaptureEffect, StopScreencopySound, StopScreencopyEffect, Zenon
       DEF Sound, Base
  <2>5. Sound(server') /\ server'.layout_by = server.layout_by
    BY <2>2, <2>3, <2>4 DEF Changes, Fields
  <2> QED
    BY <2>5, SameLayout
<1>3. CASE PowerFailed(o)
  <2>1. /\ Changes(server, server', {"power", "wlr_output_power", "power_failed"})
        /\ server'.wlr_output_power \subseteq server.wlr_output_power
    BY <1>3, Zenon DEF PowerFailed, Changes, Fields, Sound, Base
  <2>2. Sound(server') /\ server'.layout_by = server.layout_by
    BY SMTT(30), <2>1 DEF Changes, Fields, Sound, Base, SourceInv, DetachedInv, LayoutInv, DesktopInv, MasterInv
  <2> QED
    BY <2>2, SameLayout
<1>4. ASSUME server.wayland,
             Changes(server, server', {"started", "fatal", "capture_retry_timer", "aborted"})
      PROVE  Good
  <2>1. Sound(server') /\ server'.layout_by = server.layout_by
    BY SMTT(30), <1>1, <1>4 DEF Changes, Fields, Sound, Base, SourceInv, DetachedInv, LayoutInv, DesktopInv, MasterInv
  <2> QED
    BY <2>1, SameLayout
<1>5. ASSUME src \in server.started PROVE server.wayland
  BY <1>1, <1>5 DEF Sound, DetachedInv
<1>6. CASE FrameDone(src)
  <2>1. \/ Changes(server, server', {"started", "fatal"}) \/ Changes(server, server', {"aborted"})
    BY <1>6, StartScreencopyEffect, AbortEffect DEF FrameDone, Sound, Base
  <2>2. Changes(server, server', {"started", "fatal", "capture_retry_timer", "aborted"})
    BY <2>1 DEF Changes
  <2> QED
    BY <1>4, <1>5, <1>6, <2>2 DEF FrameDone
<1>7. CASE CaptureFailed(src) \/ CaptureFatal(src)
  <2>1. Changes(server, server', {"started", "fatal", "capture_retry_timer", "aborted"})
    BY <1>7, Zenon DEF CaptureFailed, CaptureFatal, Changes, Fields, Sound, Base
  <2> QED
    BY <1>4, <1>5, <1>7, <2>1 DEF CaptureFailed, CaptureFatal
<1>8. CASE OnCaptureRestartTimer
  <2>. DEFINE s == [server EXCEPT !.capture_retry_timer = FALSE]
  <2>1. Changes(server, s, {"capture_retry_timer"}) /\ ~s.capture_retry_timer
    BY DEF Changes, Fields, Sound, Base
  <2>2. server' = StartCaptureImmediate(s)
    BY <1>8 DEF OnCaptureRestartTimer
  <2>. HIDE DEF s
  <2>3. Sound(s) /\ s.layout_by = server.layout_by
    BY SMTT(30), <2>1 DEF Changes, Fields, Sound, Base, SourceInv, DetachedInv, LayoutInv, DesktopInv, MasterInv
  <2>4. Sound(server') /\ Changes(s, server', starts)
    BY <2>2, <2>3, StartCaptureSound, StartCaptureEffect, Zenon DEF Sound, Base
  <2>5. server'.layout_by = server.layout_by
    BY <2>3, <2>4 DEF Changes, Fields
  <2> QED
    BY <2>4, <2>5, SameLayout
<1> QED
  BY <1>2, <1>3, <1>6, <1>7, <1>8

\* on_nvnc_client_new()
LEMMA ClientNewGood ==
    ASSUME Sound(server), NEW c \in Clients, NEW pool, ClientNew(c, pool)
    PROVE  Good
<1>. DEFINE s == [server EXCEPT !.clients = @ \cup {c},
                                !.cursor_master = IF @ = None THEN c ELSE @]
            t == IF s.wayland THEN InitWayland(s, <<c>>, pool) ELSE s
            u == StartCaptureImmediate(t)
<1>1. /\ Changes(server, s, {"clients", "cursor_master"})
      /\ s.clients = server.clients \cup {c}
      /\ s.cursor_master = (IF server.cursor_master = None THEN c ELSE server.cursor_master)
  BY Zenon DEF Changes, Fields, Sound, Base
<1>2. server' \in {t, u}
  BY DEF ClientNew
<1>. HIDE DEF s
<1>3. Sound(s) /\ s.layout_by = server.layout_by
  <2>1. MasterInv(s)
    BY <1>1 DEF Changes, Fields, Sound, Base, MasterInv
  <2>2. SourceInv(s)
    BY <1>1, ClientsAssumption DEF Changes, Fields, Sound, Base, MasterInv, SourceInv
  <2> QED
    BY <1>1, <2>1, <2>2 DEF Changes, Fields, Sound, Base, DetachedInv, LayoutInv, DesktopInv
<1>4. Sound(t) /\ t.layout_by = server.layout_by
  <2>1. Range(<<c>>) \subseteq s.clients
    BY <1>1 DEF Range
  <2>2. /\ Sound(InitWayland(s, <<c>>, pool))
        /\ Changes(s, InitWayland(s, <<c>>, pool), {"objects", "cursor_sc", "aborted", "seating"})
    BY <1>3, <2>1, InitWaylandSound, InitWaylandEffect, Zenon DEF Sound, Base
  <2> QED
    BY <1>3, <2>2 DEF Changes, Fields
<1>. HIDE DEF t
<1>5. /\ Sound(u)
      /\ Changes(t, u, {"wlr_output_power", "power_failed", "started", "fatal", "aborted"})
  BY <1>4, StartCaptureSound, StartCaptureEffect, Zenon DEF Sound, Base
<1>6. Sound(server') /\ server'.layout_by = server.layout_by
  BY <1>2, <1>4, <1>5 DEF Changes, Fields
<1> QED
  BY <1>6, SameLayout

\* A client that leaves gives up the layout.
LEMMA ClientDestroyGood ==
    ASSUME Sound(server), NEW c, ClientDestroy(c)
    PROVE  Good
<1>1. /\ Sound(server') /\ server'.clients = server.clients \ {c}
      /\ server'.layout_by \in {server.layout_by} \cup {y \in {None} : server.layout_by \in {c}}
  BY DestroyClientsSound DEF ClientDestroy, Sound, Almost
<1> QED
  BY <1>1 DEF Good, Owned, Sound, Base, MasterInv

\* Seats that come and go: on_seat_removed() destroys the clients that have the seat.
LEMMA SeatsGood ==
    ASSUME Sound(server), NEW x, OnSeatAdded(x) \/ OnSeatRemoved(x)
    PROVE  Good
<1>0. ASSUME NEW s, Sound(s), s.wayland, Changes(s, server', {"seating"})
      PROVE  Sound(server') /\ server'.layout_by = s.layout_by /\ server'.clients = s.clients
  BY SMTT(30), <1>0 DEF Changes, Fields, Sound, Base, SourceInv, DetachedInv, LayoutInv, DesktopInv, MasterInv
<1>1. CASE OnSeatAdded(x)
  <2>1. server.wayland /\ Changes(server, server', {"seating"})
    BY <1>1 DEF OnSeatAdded, Changes, Fields, Sound, Base
  <2> QED
    BY <1>0, <2>1, SameLayout
<1>2. CASE OnSeatRemoved(x)
  <2>. DEFINE cs == Holders(server.seating, x)
              s == DestroyClients(server, cs)
  <2>1. /\ Sound(s) /\ s.clients = server.clients \ cs
        /\ s.layout_by \in {server.layout_by} \cup {y \in {None} : server.layout_by \in cs}
    BY DestroyClientsSound DEF Sound, Almost
  <2>2. server' = [s EXCEPT !.seating = SeatRemoved(@, x)]
    BY <1>2 DEF OnSeatRemoved
  <2>3. s.wayland
    <3>1. server.wayland
      BY <1>2 DEF OnSeatRemoved, Running, Sound, DetachedInv, Range
    <3>2. DOMAIN server = Fields
      BY DEF Sound, Base
    <3>3. Changes(server, s, {"clients", "objects", "cursor_master", "cursor_sc",
                             "master_layout_client", "layout_by", "seating", "do_exit",
                             "aborted", "started", "fatal", "power", "wlr_output_power",
                             "power_failed"})
      BY <3>2, DestroyClientsEffect, Zenon
    <3>4. "wayland" \in Fields
      BY DEF Fields
    <3>. HIDE DEF s
    <3> QED
      BY <3>1, <3>2, <3>3, <3>4 DEF Changes
  <2>. HIDE DEF s, cs
  <2>4. Changes(s, server', {"seating"})
    BY SMTT(30), <2>1, <2>2 DEF Changes, Fields, Sound, Base
  <2>5. Sound(server') /\ server'.layout_by = s.layout_by /\ server'.clients = s.clients
    BY <1>0, <2>1, <2>3, <2>4
  <2> QED
    BY <2>1, <2>5 DEF Good, Owned, Sound, Base, MasterInv
<1> QED
  BY <1>1, <1>2

-----------------------------------------------------------------------------
(* Resizing.                                                               *)

\* What wlr_output_manager_commit_config() is called with
Complete(s, outs) ==
    /\ s.management.manager /\ CanConfigure(s, outs)
    /\ outs \cap Outputs \subseteq Range(s.outputs)
    /\ s.image_source = Desktop => Range(s.outputs) \subseteq outs

\* A configuration with outputs that can be configured fits.
LEMMA CommittedEffect ==
    ASSUME NEW s, NEW outs, NEW c, Sound(s), Complete(s, outs)
    PROVE  LET t == Committed(s, c, outs) IN
           Changes(s, t, {"layout_by", "layout_fits"}) /\ t.layout_fits = TRUE
<1>. DEFINE m == s.management
            config == CommitConfig(m, outs)
<1>1. outs \subseteq Outputs /\ outs \subseteq Range(s.outputs)
  <2>1. s.setup.Headless \subseteq Outputs
    BY SetupsAssumption DEF Sound, Base
  <2> QED
    BY <2>1 DEF CanConfigure, Configurable, Complete
<1>2. m.current => m.heads = m.real
  BY DEF Sound, LayoutInv, Complete
<1>3. \A o \in outs : m.heads[o] \in {"disabled", "enabled"}
  BY DEF Complete, CanConfigure, Configurable
<1>4. config.enable = outs /\ config.disable = {o \in Outputs : m.heads[o] \in {"new", "disabled"}}
  BY DEF CommitConfig
<1>5. m.real \in [Outputs -> RealStates]
  BY DEF Sound, LayoutInv, Managements
<1>6. s.image_source = Desktop => Range(s.outputs) \subseteq outs
  BY DEF Complete
<1>. HIDE DEF config, m
<1>7. m.current => config.disable = HeadsIn(m, {"disabled"})
  BY <1>2, <1>4, <1>5 DEF HeadsIn, RealStates
<1>8. m.current => outs \subseteq HeadsIn(m, {"disabled", "enabled"})
  BY <1>1, <1>2, <1>3 DEF HeadsIn
<1>9. HeadsIn(m, {"disabled", "enabled"}) = HeadsIn(m, {"disabled"}) \cup HeadsIn(m, {"enabled"})
      /\ HeadsIn(m, {"disabled"}) \cap HeadsIn(m, {"enabled"}) = {}
  BY DEF HeadsIn
<1>10. Fits(m, config)
  BY <1>4, <1>7, <1>8 DEF Fits
<1>11. InStep(s) => outs \subseteq HeadsIn(m, {"enabled"})
  BY <1>1 DEF InStep, m
<1>12. InStep(s) => NoneTwice(m, config)
  BY <1>4, <1>7, <1>9, <1>11 DEF NoneTwice
<1>13. InStep(s) /\ s.image_source = Desktop => HeadsIn(m, {"enabled"}) \subseteq outs
  BY <1>6 DEF InStep, m
<1>14. InStep(s) /\ s.image_source = Desktop => NoneOmitted(m, config)
  BY <1>4, <1>7, <1>8, <1>9, <1>13 DEF NoneOmitted
<1>15. s.layout_fits = TRUE /\ DOMAIN s = Fields
  BY DEF Sound, Base
<1>. DEFINE fits == /\ s.layout_fits /\ Fits(m, config)
                    /\ InStep(s) => NoneTwice(m, config)
                    /\ InStep(s) /\ s.image_source = Desktop => NoneOmitted(m, config)
<1>16. fits = TRUE
  BY Zenon, <1>10, <1>12, <1>14, <1>15
<1>17. Committed(s, c, outs) = [s EXCEPT !.layout_by = c, !.layout_fits = fits]
  BY Zenon DEF Committed, m, config
<1>. HIDE DEF fits
<1> QED
  BY <1>15, <1>16, <1>17, Zenon DEF Changes, Fields

\* on_client_resize(): the layout stays with the master.
LEMMA OnClientResizeGood ==
    ASSUME Sound(server), NEW c \in Clients, NEW known \in BOOLEAN, OnClientResize(c, known)
    PROVE  Good
<1>1. /\ server.aborted = "no" /\ c \in server.clients
      /\ server.master_layout_client \in {None, c}
  BY DEF OnClientResize, Running
<1>2. CASE server' = Abort(server, "null_config")
  <2>1. Sound(server') /\ Changes(server, server', {"aborted"})
    BY <1>2, AbortSound, AbortEffect, Zenon DEF Sound, Base
  <2> QED
    BY <2>1, SameLayout DEF Changes, Fields
<1>3. CASE server' = server
  BY <1>3, SameLayout
<1>4. ASSUME NEW by \in {server.layout_by, c},
             Changes(server, server', {"layout_by", "layout_fits", "master_layout_client"}),
             server'.layout_by = by, server'.layout_fits = TRUE,
             server'.master_layout_client = c
      PROVE  Good
  <2>1. MasterInv(server')
    BY SMTT(30), <1>1, <1>4 DEF Changes, Fields, Sound, Base, MasterInv
  <2>2. Sound(server')
    BY SMTT(30), <1>4, <2>1 DEF Changes, Fields, Sound, Base, SourceInv, DetachedInv, LayoutInv, DesktopInv
  <2>3. server'.clients = server.clients
    BY <1>4 DEF Changes, Fields
  <2>4. server.layout_by \in {None, c} /\ None \notin server.clients
    BY <1>1, ClientsAssumption DEF Sound, Base, MasterInv
  <2> QED
    BY <1>4, <2>1, <2>2, <2>3, <2>4 DEF Good, Owned, MasterInv
<1>5. CASE server.image_source = Desktop /\ server' = ResizeDesktop(server, c, known)
  <2>. DEFINE t == Committed(server, c, server.displays)
  <2>1. CASE server.management.manager /\ known /\ CanConfigure(server, server.displays)
    <3>0. Complete(server, server.displays)
      BY <1>1, <1>5, <2>1 DEF Sound, LayoutInv, DesktopInv, Complete
    <3>1. Changes(server, t, {"layout_by", "layout_fits"}) /\ t.layout_by = c /\ t.layout_fits = TRUE
      <4>1. t.layout_by = c
        BY DEF Committed, Sound, Base, Fields
      <4> QED
        BY <4>1, <3>0, CommittedEffect, Zenon
    <3>2. server' = [t EXCEPT !.master_layout_client = c]
      BY <1>5, <2>1 DEF ResizeDesktop
    <3>. HIDE DEF t
    <3>3. /\ Changes(server, server', {"layout_by", "layout_fits", "master_layout_client"})
          /\ server'.layout_by = c /\ server'.layout_fits = TRUE
          /\ server'.master_layout_client = c
      BY <3>1, <3>2 DEF Changes, Fields
    <3> QED
      BY <1>4, <3>3, ZenonT(30)
  <2> QED
    BY <1>2, <1>3, <1>5, <2>1 DEF ResizeDesktop
<1>6. CASE server.image_source \in Outputs /\ server' = ResizeOutput(server, c, known) /\ known
  <2>. DEFINE s == [server EXCEPT !.master_layout_client = c]
              outs == {server.image_source}
              t == Committed(s, c, outs)
  <2>1. Changes(server, s, {"master_layout_client"}) /\ s.master_layout_client = c
    BY DEF Changes, Fields, Sound, Base
  <2>2. server' = IF s.management.manager /\ CanConfigure(s, outs) THEN t ELSE s
    BY <1>6 DEF ResizeOutput, ResizeHead
  <2>. HIDE DEF s
  <2>3. Sound(s)
    <3>1. MasterInv(s)
      BY <1>1, <2>1 DEF Changes, Fields, Sound, Base, MasterInv
    <3> QED
      BY SMTT(30), <2>1, <3>1 DEF Changes, Fields, Sound, Base, SourceInv, DetachedInv, LayoutInv, DesktopInv
  <2>4. outs \cap Outputs \subseteq Range(s.outputs)
    BY <1>1, <2>1, SMTT(30) DEF Changes, Fields, Sound, SourceInv
  <2>5. CASE s.management.manager /\ CanConfigure(s, outs)
    <3>0. Complete(s, outs)
      <4>1. s.image_source # Desktop
        BY <1>6, <2>1, OutputsAssumption DEF Changes, Fields
      <4> QED
        BY <2>4, <2>5, <4>1 DEF Complete
    <3>. HIDE DEF outs
    <3>1. Changes(s, t, {"layout_by", "layout_fits"}) /\ t.layout_by = c /\ t.layout_fits = TRUE
      <4>1. t.layout_by = c
        BY DEF Committed, Sound, Base, Fields
      <4> QED
        BY <4>1, <2>3, <3>0, CommittedEffect, Zenon
    <3>2. /\ Changes(server, server', {"layout_by", "layout_fits", "master_layout_client"})
          /\ server'.layout_by = c /\ server'.layout_fits = TRUE
          /\ server'.master_layout_client = c
      BY <2>1, <2>2, <2>5, <3>1 DEF Changes, Fields
    <3> QED
      BY <1>4, <3>2, Zenon
  <2>6. CASE ~(s.management.manager /\ CanConfigure(s, outs))
    <3>1. server' = s
      BY <2>2, <2>6
    <3>2. /\ Changes(server, server', {"layout_by", "layout_fits", "master_layout_client"})
          /\ server'.layout_by = server.layout_by /\ server'.layout_fits = TRUE
          /\ server'.master_layout_client = c
      BY <2>1, <2>3, <3>1 DEF Changes, Fields, Sound, Base
    <3> QED
      BY <1>4, <3>2, Zenon
  <2> QED
    BY <2>5, <2>6
<1> QED
  BY <1>3, <1>5, <1>6 DEF OnClientResize, ResizeOutput

\* What the compositor and its events do to the heads
LEMMA ManagementGood ==
    ASSUME Sound(server), NEW m \in Managements, m.manager => server.management.manager,
           m.manager /\ m.current => m.heads = m.real,
           server' = [server EXCEPT !.management = m]
    PROVE  Good
<1>1. Changes(server, server', {"management"}) /\ server'.management = m
  BY DEF Changes, Fields, Sound, Base
<1>2. Sound(server')
  <2>1. LayoutInv(server') /\ Base(server') /\ SourceInv(server') /\ DesktopInv(server')
    BY <1>1 DEF Changes, Fields, Sound, Base, SourceInv, LayoutInv, DesktopInv, MasterInv
  <2>2. DetachedInv(server')
    BY <1>1 DEF Changes, Fields, Sound, DetachedInv
  <2> QED
    BY <2>1, <2>2 DEF Sound
<1> QED
  BY <1>1, <1>2, SameLayout DEF Changes, Fields

\* Events about heads: only a done event can make the serial the latest one again.
LEMMA HeadsGood ==
    ASSUME Sound(server), NEW o \in Outputs,
           \/ \E state \in RealStates : OnHeadChanged(o, state)
           \/ OnHeadNew(o) \/ OnHeadDescribed(o) \/ OnHeadFinished(o)
    PROVE  Good
<1>. DEFINE m == server.management
<1>1. /\ m \in Managements
      /\ m.manager /\ m.current => m.heads = m.real
  BY DEF Sound, LayoutInv
<1>2. ASSUME NEW state \in RealStates, OnHeadChanged(o, state) PROVE Good
  <2>. DEFINE n == HeadChanged(m, o, state)
  <2>1. n \in Managements /\ n.manager = m.manager /\ ~n.current
    BY <1>1, Zenon DEF HeadChanged, Managements, RealStates
  <2>2. server' = [server EXCEPT !.management = n]
    BY <1>2 DEF OnHeadChanged
  <2>. HIDE DEF n
  <2> QED
    BY <2>1, <2>2, ManagementGood
<1>3. CASE OnHeadNew(o)
  <2>. DEFINE n == HeadNew(m, o)
  <2>1. m.manager /\ m.real[o] # "none" /\ m.heads[o] = "none"
    BY <1>3 DEF OnHeadNew, Listens
  <2>2. ~m.current
    BY <1>1, <2>1
  <2>3. n \in Managements /\ n.manager = m.manager /\ ~n.current
    BY <1>1, <2>2 DEF HeadNew, Managements, HeadStates
  <2>4. server' = [server EXCEPT !.management = n]
    BY <1>3 DEF OnHeadNew
  <2>. HIDE DEF n
  <2> QED
    BY <2>3, <2>4, ManagementGood
<1>4. CASE OnHeadDescribed(o)
  <2>. DEFINE n == HeadDescribed(m, o)
  <2>1. n \in Managements /\ n.manager = m.manager /\ n.current = m.current /\ n.real = m.real
    BY <1>1 DEF HeadDescribed, Managements, HeadStates
  <2>2. m.heads = m.real => n.heads = m.real
    BY <1>1 DEF HeadDescribed, Managements
  <2>3. server' = [server EXCEPT !.management = n]
    BY <1>4 DEF OnHeadDescribed
  <2>. HIDE DEF n
  <2> QED
    BY <1>1, <2>1, <2>2, <2>3, ManagementGood, SMTT(30)
<1>5. CASE OnHeadFinished(o)
  <2>. DEFINE n == HeadFinished(m, o)
  <2>1. m.real[o] = "none" /\ m.heads[o] # "none" /\ m.manager
    BY <1>5 DEF OnHeadFinished, Listens
  <2>2. ~m.current
    BY <1>1, <2>1
  <2>3. n \in Managements /\ n.manager = m.manager /\ ~n.current
    BY <1>1, <2>2 DEF HeadFinished, Managements, HeadStates, RealStates
  <2>4. server' = [server EXCEPT !.management = n]
    BY <1>5 DEF OnHeadFinished
  <2>. HIDE DEF n
  <2> QED
    BY <2>3, <2>4, ManagementGood
<1> QED
  BY <1>2, <1>3, <1>4, <1>5, SMTT(30)

\* output_manager_done() and output_manager_finished()
LEMMA ManagerGood ==
    ASSUME Sound(server), OnManagerDone \/ OnManagerFinished
    PROVE  Good
<1>. DEFINE m == server.management
<1>1. m \in Managements
  BY DEF Sound, LayoutInv
<1>2. CASE OnManagerDone
  <2>. DEFINE n == ManagerDone(m)
  <2>1. n \in Managements /\ n.manager = m.manager /\ n.heads = m.heads /\ n.real = m.real
    BY <1>1, Zenon DEF ManagerDone, Managements
  <2>2. server' = [server EXCEPT !.management = n]
    BY <1>2 DEF OnManagerDone
  <2>3. m.heads = m.real
    BY <1>2 DEF OnManagerDone
  <2>. HIDE DEF n
  <2> QED
    BY <2>1, <2>2, <2>3, ManagementGood, SMTT(30)
<1>3. CASE OnManagerFinished
  <2>. DEFINE n == ManagerFinished(m)
  <2>1. n \in Managements /\ ~n.manager
    BY <1>1, Zenon DEF ManagerFinished, Managements
  <2>2. server' = [server EXCEPT !.management = n]
    BY <1>3 DEF OnManagerFinished
  <2>. HIDE DEF n
  <2> QED
    BY <2>1, <2>2, ManagementGood
<1> QED
  BY <1>2, <1>3

-----------------------------------------------------------------------------
(* The end.                                                                *)

\* What ends the loop changes nothing else.
LEMMA EndingGood ==
    ASSUME Sound(server), OnToplevelClosed \/ OnSignal
    PROVE  Good
<1>1. Changes(server, server', {"do_exit"})
  BY SMTT(30) DEF OnToplevelClosed, OnSignal, Changes, Fields, Sound, Base
<1>2. Sound(server') /\ server'.layout_by = server.layout_by
  BY SMTT(30), <1>1 DEF Changes, Fields, Sound, Base, SourceInv, DetachedInv, LayoutInv, DesktopInv, MasterInv
<1> QED
  BY <1>2, SameLayout

\* main() after the loop: no client is left, and nothing of the compositor.
LEMMA ExitGood ==
    ASSUME Sound(server), Exit
    PROVE  Good
<1>. DEFINE s == [server EXCEPT !.deferred_detach = FALSE, !.displays = {}]
            d == DestroyClients(s, server.clients)
            e == WaylandDetach(d)
<1>1. Changes(server, s, {"deferred_detach", "displays"}) /\ s.displays = {}
  BY Zenon DEF Changes, Fields, Sound, Base
<1>2. server' = [e EXCEPT !.exited = TRUE]
  BY DEF Exit, Shutdown
<1>. HIDE DEF s
<1>3. Almost(s) /\ s.layout_by = server.layout_by /\ s.clients = server.clients
  BY SMTT(30), <1>1 DEF Changes, Fields, Sound, Almost, Base, SourceInv, DetachedInv, LayoutInv, MasterInv
<1>4. Almost(d) /\ d.clients = {}
  BY <1>3, DestroyClientsSound
<1>. HIDE DEF d
<1>5. Sound(e) /\ e.clients = {}
  <2>1. ~d.wayland => Sound(d)
    BY <1>4 DEF Almost, Sound, DetachedInv, DesktopInv, None, Desktop
  <2> QED
    BY <1>4, <2>1, DetachSound, SMTT(30) DEF WaylandDetach, Almost
<1>. HIDE DEF e
<1>6. Changes(e, server', {"exited"})
  BY SMTT(30), <1>2, <1>5 DEF Changes, Fields, Sound, Base
<1>7. Sound(server') /\ server'.clients = {}
  BY SMTT(30), <1>5, <1>6 DEF Changes, Fields, Sound, Base, SourceInv, DetachedInv, LayoutInv, DesktopInv, MasterInv
<1> QED
  BY <1>7 DEF Good, Owned, Sound, Base, MasterInv

-----------------------------------------------------------------------------
(* The specification.                                                      *)

\* A detached server has nothing of a compositor.
LEMMA StartSound ==
    ASSUME NEW setup \in Setups
    PROVE  Sound(Start(setup)) /\ Start(setup).aborted = "no" /\ ~Start(setup).wayland
                /\ Start(setup).setup = setup
<1>. DEFINE s == Start(setup)
<1>1. setup.InitialType \in Types
  BY SetupsAssumption
<1>2. NoManagement \in Managements /\ ~NoManagement.manager
  BY DEF NoManagement, Managements, NoHeads, HeadStates, RealStates
<1>3. /\ DOMAIN s = Fields /\ s.setup = setup /\ s.image_source_type = setup.InitialType
      /\ s.management = NoManagement /\ s.layout_fits = TRUE /\ s.aborted = "no" /\ ~s.wayland
      /\ s.clients = {} /\ s.master_layout_client = None /\ s.layout_by = None
      /\ s.image_source = None /\ s.observed = None /\ s.screencopy = None /\ s.cursor_sc = None
      /\ s.started = {} /\ s.displays = {None} /\ ~s.capture_retry_timer
      /\ s.outputs = <<>> /\ s.wlr_output_power = {} /\ s.seating = NewSeating
      /\ \A c \in Clients : s.objects[c] = {}
  BY Zenon DEF Start, Fields
<1>. HIDE DEF s
<1>4. Base(s) /\ DetachedInv(s)
  <2>1. /\ NewSeating.list = <<>>
        /\ \A c \in Clients : NewSeating.seat[c] = NoSeat /\ NewSeating.transient[c] = "none"
    BY DEF NewSeating
  <2> QED
    BY <1>1, <1>2, <1>3, <2>1 DEF Base, DetachedInv, MasterInv
<1>5. SourceInv(s) /\ LayoutInv(s) /\ DesktopInv(s)
  <2>1. IsInjective(s.outputs) /\ s.outputs \in Seq(Outputs)
    BY <1>3 DEF IsInjective
  <2> QED
    BY <1>2, <1>3, <2>1, OutputsAssumption, SMTT(30)
       DEF SourceInv, LayoutInv, DesktopInv, None, Dangling, Desktop
<1> QED
  BY <1>3, <1>4, <1>5 DEF Sound, s

\* The server enters its loop detached, or with a source that it captures.
LEMMA InitSound == Init => Sound(server)
<1>. SUFFICES ASSUME Init PROVE Sound(server)
  OBVIOUS
<1>1. PICK setup \in Setups :
        \/ setup.StartDetached /\ server = Start(setup)
        \/ \E list \in OutputLists(setup), seats \in setup.SeatLists :
              server = InitDisplays(Connect(Start(setup), list, seats))
  BY DEF Init
<1>2. Sound(Start(setup)) /\ Start(setup).aborted = "no" /\ ~Start(setup).wayland
         /\ Start(setup).setup = setup
  BY StartSound
<1>3. CASE server = Start(setup)
  BY <1>2, <1>3
<1>4. ASSUME NEW list \in OutputLists(setup), NEW seats,
             server = InitDisplays(Connect(Start(setup), list, seats))
      PROVE  Sound(server)
  <2>. DEFINE t == Connect(Start(setup), list, seats)
  <2>1. Almost(t) /\ t.aborted = "no"
    BY <1>2, ConnectSound
  <2>2. server = InitDisplays(t)
    BY <1>4, SMTT(30)
  <2>. HIDE DEF t
  <2> QED
    BY <2>1, <2>2, InitDisplaysSound
<1> QED
  BY <1>1, <1>3, <1>4

\* Every callback keeps the invariant and leaves the layout with its owner.
LEMMA NextGood ==
    ASSUME Sound(server), Next
    PROVE  Good
<1>1. ASSUME NEW type \in server.setup.AttachTypes, NEW name \in AttachNames(server.setup, type),
             OnAttach(type, name)
      PROVE  Good
  BY <1>1, OnAttachGood
<1>2. CASE OnDetach \/ HandleWaylandDetach
  BY <1>2, DetachingGood
<1>3. ASSUME NEW step \in {1, -1}, OnOutputCycle(step) PROVE Good
  BY <1>3, SwitchingGood
<1>4. ASSUME NEW o \in Outputs,
             \/ OnOutputSwitch(o) \/ OnOutputAdded(o) \/ OnOutputRemoved(o)
             \/ \E mode \in {"on", "off"} : PowerMode(o, mode)
             \/ PowerFailed(o)
      PROVE  Good
  BY <1>4, SwitchingGood, OnOutputAddedGood, OnOutputRemovedGood, CaptureGood
<1>5. CASE OnToplevelClosed \/ OnSignal
  BY <1>5, EndingGood
<1>6. ASSUME NEW src \in Captures, FrameDone(src) \/ CaptureFailed(src) \/ CaptureFatal(src)
      PROVE  Good
  BY <1>6, CaptureGood
<1>7. CASE OnCaptureRestartTimer
  BY <1>7, CaptureGood
<1>8. ASSUME NEW c \in Clients,
             \/ \E pool \in Pools(server.setup) : ClientNew(c, pool)
             \/ ClientDestroy(c)
             \/ \E known \in BOOLEAN : OnClientResize(c, known)
      PROVE  Good
  BY <1>8, ClientNewGood, ClientDestroyGood, OnClientResizeGood, SMTT(30)
<1>9. ASSUME NEW x \in Seats, OnSeatAdded(x) \/ OnSeatRemoved(x) PROVE Good
  BY <1>9, SeatsGood
<1>10. ASSUME NEW o \in Outputs,
              \/ \E state \in RealStates : OnHeadChanged(o, state)
              \/ OnHeadNew(o) \/ OnHeadDescribed(o) \/ OnHeadFinished(o)
       PROVE  Good
  BY <1>10, HeadsGood
<1>11. CASE OnManagerDone \/ OnManagerFinished
  BY <1>11, ManagerGood
<1>12. CASE Exit
  BY <1>12, ExitGood
<1>13. CASE Dead
  BY <1>13, SameLayout DEF Dead
<1> QED
  BY <1>1, <1>2, <1>3, <1>4, <1>5, <1>6, <1>7, <1>8, <1>9, <1>10, <1>11, <1>12, <1>13 DEF Next

IInv == Sound(server)

\* The inductive invariant holds in every state of the server.
LEMMA IInvHolds == Spec => []IInv
<1>1. Init => IInv
  BY InitSound DEF IInv
<1>2. IInv /\ [Next]_server => IInv'
  <2>1. ASSUME IInv, Next PROVE IInv'
    BY <2>1, NextGood DEF Good, IInv
  <2>2. ASSUME IInv, server' = server PROVE IInv'
    BY <2>2 DEF IInv
  <2> QED
    BY <2>1, <2>2
<1> QED
  BY <1>1, <1>2, PTL DEF Spec

\* Whatever the number of outputs, clients and seats and however the server was
\* started, on_wayland_destroyed() leaves nothing of the compositor in use: no
\* output, image source, observer, capture, timer, source of a display, seat,
\* output manager or object of a client, but for transient seats, whose objects
\* have gone with the connection.
THEOREM DetachedIsCleanHolds == Spec => []DetachedIsClean
<1>1. IInv => DetachedIsClean
  BY DEF IInv, Sound, SourceInv, DetachedInv, DetachedIsClean
<1> QED
  BY <1>1, IInvHolds, PTL

\* The image source is never an output that has been freed, and the observers of
\* set_image_source() always sit on the image source.
THEOREM SourceObservedHolds == Spec => []SourceObserved
<1>1. IInv => SourceObserved
  BY DEF IInv, Sound, SourceInv, SourceObserved
<1> QED
  BY <1>1, IInvHolds, PTL

\* configure_screencopy() and the cursor capture follow the image source through
\* every attach, switch, fallback and change of the cursor master.
THEOREM CaptureMatchesSourceHolds == Spec => []CaptureMatchesSource
<1>1. IInv => CaptureMatchesSource
  BY DEF IInv, Sound, SourceInv, CaptureMatchesSource, Running
<1> QED
  BY <1>1, IInvHolds, PTL

\* Every configuration that wlr_output_manager_commit_config() applies with the
\* latest serial enables heads that there are and disables the disabled ones; it
\* names none twice while the outputs are those of the enabled heads, and if it
\* is that of a desktop, it then omits none.
THEOREM LayoutFitsHolds == Spec => []LayoutFits
<1>1. IInv => LayoutFits
  BY DEF IInv, Sound, Base, LayoutFits
<1> QED
  BY <1>1, IInvHolds, PTL

\* on_client_resize() keeps the layout with the client that has changed it until
\* that client disconnects, and the master is always a connected client.
THEOREM LayoutOwnedHolds == Spec => LayoutOwned
<1>1. IInv /\ [Next]_server =>
        [Owned]_<<server.layout_by, server.master_layout_client, server.clients>>
  <2>1. ASSUME IInv, Next PROVE Owned
    BY <2>1, NextGood DEF Good, IInv
  <2>2. ASSUME server' = server
        PROVE  UNCHANGED <<server.layout_by, server.master_layout_client, server.clients>>
    BY <2>2
  <2> QED
    BY <2>1, <2>2
<1> QED
  BY <1>1, IInvHolds, PTL DEF Spec, LayoutOwned, Owned
=============================================================================
