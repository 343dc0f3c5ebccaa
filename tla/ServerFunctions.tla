-------------------------- MODULE ServerFunctions ---------------------------
(***************************************************************************)
(* What the functions that the callbacks of main.c call do to a state of   *)
(* the server: lemmas for ServerProofs.tla.                                *)
(*                                                                         *)
(* The functions are operators from one state to the next.  So there is a  *)
(* lemma for each that says which parts of the state it may change, and    *)
(* what becomes of those that the invariant is about.                      *)
(***************************************************************************)
EXTENDS Server, TLAPS

Fields == {"setup", "wayland", "outputs", "power", "wlr_output_power", "power_failed",
           "image_source_type", "image_source_name", "image_source", "observed", "displays",
           "screencopy", "started", "fatal", "cursor_sc", "clients", "objects",
           "cursor_master", "seating", "management", "master_layout_client", "layout_by",
           "layout_fits", "deferred_detach", "capture_retry_timer", "do_exit", "exited",
           "aborted"}

\* t is a state that differs from s in the given fields only.
Changes(s, t, fields) == DOMAIN t = Fields /\ \A f \in Fields \ fields : t[f] = s[f]

-----------------------------------------------------------------------------
(* The parts that callbacks are made of.                                   *)

\* Abort() only records why.
LEMMA AbortEffect ==
    ASSUME NEW s, DOMAIN s = Fields, NEW why, why # "no"
    PROVE  Changes(s, Abort(s, why), {"aborted"}) /\ Abort(s, why).aborted # "no"
BY DEF Abort, Changes, Fields

\* image_source_acquire_power_on()
LEMMA AcquireEffect ==
    ASSUME NEW s, DOMAIN s = Fields
    PROVE  Changes(s, Acquire(s), {"wlr_output_power", "power_failed"})
BY Zenon DEF Acquire, Changes, Fields

\* output_release_power_on() takes no power.
LEMMA ReleaseEffect ==
    ASSUME NEW s, DOMAIN s = Fields, NEW outs
    PROVE  /\ Changes(s, Release(s, outs), {"power", "wlr_output_power", "power_failed"})
           /\ Release(s, outs).wlr_output_power \subseteq s.wlr_output_power
BY Zenon DEF Release, Changes, Fields

\* screencopy_start()
LEMMA StartScreencopyEffect ==
    ASSUME NEW s, DOMAIN s = Fields
    PROVE  Changes(s, StartScreencopy(s), {"started", "fatal"})
BY Zenon DEF StartScreencopy, Changes, Fields

\* screencopy_stop() ends every capture.
LEMMA StopScreencopyEffect ==
    ASSUME NEW s, DOMAIN s = Fields
    PROVE  /\ Changes(s, StopScreencopy(s), {"started", "fatal"})
           /\ StopScreencopy(s).started = {}
BY Zenon DEF StopScreencopy, Changes, Fields

\* configure_screencopy() captures the image source.
LEMMA ConfigureScreencopyEffect ==
    ASSUME NEW s, DOMAIN s = Fields
    PROVE  /\ Changes(s, ConfigureScreencopy(s), {"started", "fatal", "screencopy"})
           /\ ConfigureScreencopy(s).screencopy = s.image_source
BY Zenon DEF ConfigureScreencopy, StopScreencopy, Changes, Fields

\* set_image_source() moves the observers with the source.
LEMMA SetImageSourceEffect ==
    ASSUME NEW s, DOMAIN s = Fields, NEW src
    PROVE  /\ Changes(s, SetImageSource(s, src), {"image_source", "observed"})
           /\ SetImageSource(s, src).image_source = src
           /\ SetImageSource(s, src).observed = src
BY Zenon DEF SetImageSource, Changes, Fields

\* A capture is started, or its power is asked for, or there is no source.
LEMMA StartCaptureEffect ==
    ASSUME NEW s, DOMAIN s = Fields
    PROVE  /\ Changes(s, StartCaptureImmediate(s),
                      {"wlr_output_power", "power_failed", "started", "fatal", "aborted"})
           /\ StartCaptureImmediate(s).aborted = "no" => s.aborted = "no"
<1>. DEFINE t == Acquire(s)
<1>1. Changes(s, t, {"wlr_output_power", "power_failed"})
  BY AcquireEffect
<1>2. Changes(t, StartScreencopy(t), {"started", "fatal"})
  BY <1>1, StartScreencopyEffect DEF Changes
<1>3. Changes(s, Abort(s, "null_source"), {"aborted"}) /\ Abort(s, "null_source").aborted # "no"
  BY AbortEffect
<1>4. StartCaptureImmediate(s) \in {s, t, Abort(s, "null_source"), StartScreencopy(t)}
  BY DEF StartCaptureImmediate
<1>. HIDE DEF t
<1> QED
  BY <1>1, <1>2, <1>3, <1>4 DEF Changes, Fields

\* The cursor is captured anew only for the cursor master, and then from the
\* image source.
LEMMA InitPointersEffect ==
    ASSUME NEW s, DOMAIN s = Fields, NEW cs
    PROVE  LET u == InitPointers(s, cs) IN
           /\ Changes(s, u, {"objects", "cursor_sc", "aborted"})
           /\ u.aborted = "no" => s.aborted = "no"
           /\ \/ u.cursor_sc = s.cursor_sc
              \/ u.cursor_sc \in {None, s.image_source} /\ s.cursor_master \in cs
           /\ u.aborted = "no" /\ s.image_source \in Outputs /\ s.cursor_master \in cs =>
                  u.cursor_sc \in {None, s.image_source}
<1>. DEFINE t == [s EXCEPT !.objects = [c \in Clients |-> s.objects[c] \cup
                                          (IF c \in cs THEN {"pointer"} ELSE {})]]
<1>1. Changes(s, t, {"objects"})
  BY DEF Changes, Fields
<1>. HIDE DEF t
<1>2. /\ Changes(t, ConfigureCursorSc(t), {"cursor_sc"})
      /\ ConfigureCursorSc(t).cursor_sc \in {None, t.image_source}
  BY <1>1 DEF ConfigureCursorSc, Changes, Fields
<1>3. Changes(s, Abort(s, "null_source"), {"aborted"}) /\ Abort(s, "null_source").aborted # "no"
  BY AbortEffect
<1>4. InitPointers(s, cs) = IF cs = {} THEN s
        ELSE IF s.image_source = None THEN Abort(s, "null_source")
        ELSE IF s.image_source = Toplevel THEN s
        ELSE IF s.cursor_master \in cs THEN ConfigureCursorSc(t) ELSE t
  BY DEF InitPointers, t
<1>5. Toplevel \notin Outputs
  BY OutputsAssumption
<1> QED
  BY <1>1, <1>2, <1>3, <1>4, <1>5 DEF Changes, Fields

\* client_init_wayland() without the pointer and the seat
LEMMA InitObjectsEffect ==
    ASSUME NEW s, DOMAIN s = Fields, NEW cs
    PROVE  Changes(s, InitObjects(s, cs), {"objects"})
BY DEF InitObjects, Changes, Fields

\* Clients get their objects on an attached server only.
LEMMA InitWaylandEffect ==
    ASSUME NEW s, DOMAIN s = Fields, NEW order, NEW pool
    PROVE  LET u == InitWayland(s, order, pool) IN
           /\ Changes(s, u, {"objects", "cursor_sc", "aborted", "seating"})
           /\ u.aborted = "no" => s.aborted = "no" /\ (s.wayland \/ u = s)
           /\ \/ u.cursor_sc = s.cursor_sc
              \/ u.cursor_sc \in {None, s.image_source} /\ s.cursor_master \in Range(order)
<1>. DEFINE cs == Range(order)
            g == InitSeats(s.seating, s.setup.SeatMode, s.setup.SelectedSeat, order, pool)
            t == [s EXCEPT !.seating = g]
            v == InitObjects(t, cs)
<1>1. Changes(s, t, {"seating"})
  BY DEF Changes, Fields
<1>2. Changes(t, v, {"objects"})
  BY <1>1, InitObjectsEffect DEF Changes
<1>3. /\ Changes(v, InitPointers(v, cs), {"objects", "cursor_sc", "aborted"})
      /\ InitPointers(v, cs).aborted = "no" => v.aborted = "no"
      /\ \/ InitPointers(v, cs).cursor_sc = v.cursor_sc
         \/ InitPointers(v, cs).cursor_sc \in {None, v.image_source} /\ v.cursor_master \in cs
  <2>. HIDE DEF v, cs
  <2> QED
    BY <1>2, InitPointersEffect DEF Changes
<1>4. \A why \in {"null_wayland", "no_seat"} :
        Changes(s, Abort(s, why), {"aborted"}) /\ Abort(s, why).aborted # "no"
  BY AbortEffect
<1>5. \/ InitWayland(s, order, pool) = s
      \/ InitWayland(s, order, pool) \in {Abort(s, "null_wayland"), Abort(s, "no_seat")}
      \/ s.wayland /\ InitWayland(s, order, pool) = InitPointers(v, cs)
  BY DEF InitWayland
<1>. HIDE DEF v, t, g
<1> QED
  BY <1>1, <1>2, <1>3, <1>4, <1>5 DEF Changes, Fields

\* client_destroy() takes away what a client was, and the power of the image
\* source with the last one.
LEMMA DestroyClientsEffect ==
    ASSUME NEW s, DOMAIN s = Fields, NEW cs
    PROVE  LET u == DestroyClients(s, cs) IN
           /\ Changes(s, u, {"clients", "objects", "cursor_master", "cursor_sc",
                             "master_layout_client", "layout_by", "seating", "do_exit",
                             "aborted", "started", "fatal", "power", "wlr_output_power",
                             "power_failed"})
           /\ u.aborted = "no" => s.aborted = "no"
           /\ u.clients = s.clients \ cs
           /\ u.objects = [c \in Clients |-> IF c \in cs THEN {} ELSE s.objects[c]]
           /\ s.cursor_master \in cs => u.cursor_sc = None
           /\ s.cursor_master \notin cs =>
                  u.cursor_master = s.cursor_master /\ u.cursor_sc = s.cursor_sc
           /\ u.master_layout_client =
                  IF s.master_layout_client \in cs THEN None ELSE s.master_layout_client
           /\ u.layout_by = IF s.layout_by \in cs THEN None ELSE s.layout_by
           /\ u.started \in {s.started, {}}
           /\ u.wlr_output_power \subseteq s.wlr_output_power
           /\ u.seating = LeaveSeats(s.seating, cs)
<1>. DEFINE last == cs # {} /\ s.clients = cs
            master == s.cursor_master \in cs
            t == [s EXCEPT !.clients = @ \ cs,
                       !.objects = [c \in Clients |-> IF c \in cs THEN {} ELSE s.objects[c]],
                       !.cursor_master = IF master THEN None ELSE @,
                       !.cursor_sc = IF master THEN None ELSE @,
                       !.master_layout_client = IF @ \in cs THEN None ELSE @,
                       !.layout_by = IF @ \in cs THEN None ELSE @,
                       !.seating = LeaveSeats(@, cs),
                       !.do_exit = @ \/ (s.setup.ExitOnDisconnect /\ last)]
            v == StopScreencopy(t)
            w == Release(v, Parts(t, t.image_source))
<1>1. /\ Changes(s, t, {"clients", "objects", "cursor_master", "cursor_sc",
                        "master_layout_client", "layout_by", "seating", "do_exit"})
      /\ t.clients = s.clients \ cs
      /\ t.objects = [c \in Clients |-> IF c \in cs THEN {} ELSE s.objects[c]]
      /\ t.cursor_master = (IF s.cursor_master \in cs THEN None ELSE s.cursor_master)
      /\ t.cursor_sc = (IF s.cursor_master \in cs THEN None ELSE s.cursor_sc)
      /\ t.master_layout_client =
             (IF s.master_layout_client \in cs THEN None ELSE s.master_layout_client)
      /\ t.layout_by = (IF s.layout_by \in cs THEN None ELSE s.layout_by)
      /\ t.seating = LeaveSeats(s.seating, cs)
  BY Zenon DEF Changes, Fields
<1>2. DestroyClients(s, cs) \in {Abort(t, "stale_seat"), t, Abort(t, "null_source"), w}
  BY DEF DestroyClients
<1>. HIDE DEF t
<1>3. \A why \in {"stale_seat", "null_source"} :
        Changes(t, Abort(t, why), {"aborted"}) /\ Abort(t, why).aborted # "no"
  BY <1>1, AbortEffect DEF Changes
<1>4. Changes(t, v, {"started", "fatal"}) /\ v.started = {}
  BY <1>1, StopScreencopyEffect DEF Changes
<1>. HIDE DEF v
<1>5. /\ Changes(v, w, {"power", "wlr_output_power", "power_failed"})
      /\ w.wlr_output_power \subseteq v.wlr_output_power
  BY <1>4, ReleaseEffect DEF Changes
<1>. HIDE DEF w
<1>6. \A u \in {Abort(t, "stale_seat"), t, Abort(t, "null_source"), w} :
        /\ Changes(t, u, {"aborted", "started", "fatal", "power", "wlr_output_power",
                          "power_failed"})
        /\ u.aborted = "no" => t.aborted = "no"
        /\ u.started \in {t.started, {}}
        /\ u.wlr_output_power \subseteq t.wlr_output_power
  BY <1>1, <1>3, <1>4, <1>5 DEF Changes, Fields
<1> QED
  BY <1>1, <1>2, <1>6, SMTT(30) DEF Changes, Fields

-----------------------------------------------------------------------------
(* What holds of every state between two callbacks, and of most that they  *)
(* pass through.                                                           *)

\* The part that does not depend on the connection
Base(s) ==
    /\ DOMAIN s = Fields
    /\ s.setup \in Setups /\ s.image_source_type \in Types
    /\ MasterInv(s)
    /\ s.management \in Managements /\ s.layout_fits = TRUE
    /\ s.management.manager => s.setup.OutputManager

Sound(s) == Base(s) /\ SourceInv(s) /\ DetachedInv(s) /\ LayoutInv(s) /\ DesktopInv(s)

\* The displays are yet to be made, or have been taken away.
Almost(s) == Base(s) /\ SourceInv(s) /\ DetachedInv(s) /\ LayoutInv(s)

\* Nothing is claimed about a process that has ended.
LEMMA AbortSound ==
    ASSUME NEW s, Sound(s), NEW why, why # "no"
    PROVE  Sound(Abort(s, why)) /\ Abort(s, why).aborted # "no"
<1>. DEFINE t == Abort(s, why)
<1>1. Changes(s, t, {"aborted"}) /\ t.aborted # "no"
  BY AbortEffect DEF Sound, Base
<1>. HIDE DEF t
<1>2. Sound(t)
  BY SMTT(30), <1>1 DEF Changes, Fields, Sound, Base, SourceInv, DetachedInv, LayoutInv, DesktopInv, MasterInv
<1> QED
  BY <1>1, <1>2 DEF t

\* start_capture_immediate() keeps the invariant.
LEMMA StartCaptureSound ==
    ASSUME NEW s, Sound(s)
    PROVE  Sound(StartCaptureImmediate(s))
<1>. DEFINE t == StartCaptureImmediate(s)
<1>1. /\ Changes(s, t, {"wlr_output_power", "power_failed", "started", "fatal", "aborted"})
      /\ t.aborted = "no" => s.aborted = "no"
  BY StartCaptureEffect DEF Sound, Base
<1>2. s.aborted = "no" /\ ~s.wayland => t.aborted # "no"
  <2>. SUFFICES ASSUME s.aborted = "no", ~s.wayland PROVE t.aborted # "no"
    OBVIOUS
  <2>1. s.image_source = None /\ ~s.capture_retry_timer
    BY DEF Sound, DetachedInv
  <2> QED
    BY <2>1, AbortEffect DEF StartCaptureImmediate, Sound, Base
<1>. HIDE DEF t
<1>3. Sound(t)
  BY SMTT(30), <1>1, <1>2 DEF Changes, Fields, Sound, Base, SourceInv, DetachedInv, LayoutInv, DesktopInv, MasterInv
<1> QED
  BY <1>3 DEF t

\* A capture that is stopped, or power that is released, disturbs nothing.
LEMMA StopScreencopySound ==
    ASSUME NEW s, Sound(s)
    PROVE  Sound(StopScreencopy(s))
<1>. DEFINE t == StopScreencopy(s)
<1>1. Changes(s, t, {"started", "fatal"}) /\ t.started = {}
  BY StopScreencopyEffect DEF Sound, Base
<1>. HIDE DEF t
<1>2. Sound(t)
  BY SMTT(30), <1>1 DEF Changes, Fields, Sound, Base, SourceInv, DetachedInv, LayoutInv, DesktopInv, MasterInv
<1> QED
  BY <1>2 DEF t

\* The displays are made for outputs that are there.
LEMMA InitDisplaysSound ==
    ASSUME NEW s, Almost(s), s.aborted = "no"
    PROVE  Sound(InitDisplays(s)) /\ Changes(s, InitDisplays(s), {"displays"})
<1>. DEFINE t == InitDisplays(s)
<1>1. /\ Changes(s, t, {"displays"})
      /\ t.displays = IF s.image_source = Desktop THEN Range(s.outputs) ELSE {s.image_source}
  BY DEF InitDisplays, Changes, Fields, Almost, Base
<1>. HIDE DEF t
<1>2. t.displays \cap Outputs \subseteq Range(s.outputs)
  BY <1>1 DEF Almost, SourceInv
<1>3. ~s.wayland => t.displays = {None}
  BY <1>1 DEF Almost, DetachedInv, None, Desktop
<1>4. Sound(t)
  BY SMTT(30), <1>1, <1>2, <1>3 DEF Changes, Fields, Almost, Sound, Base, SourceInv, DetachedInv, LayoutInv, DesktopInv, MasterInv
<1> QED
  BY <1>1, <1>4 DEF t

\* client_init_wayland() keeps the invariant.
LEMMA InitWaylandSound ==
    ASSUME NEW s, Sound(s), NEW order, Range(order) \subseteq s.clients, NEW pool
    PROVE  /\ Sound(InitWayland(s, order, pool))
           /\ InitWayland(s, order, pool).clients = s.clients
<1>. DEFINE t == InitWayland(s, order, pool)
<1>1. /\ Changes(s, t, {"objects", "cursor_sc", "aborted", "seating"})
      /\ t.aborted = "no" => s.aborted = "no" /\ (s.wayland \/ t = s)
      /\ \/ t.cursor_sc = s.cursor_sc
         \/ t.cursor_sc \in {None, s.image_source} /\ s.cursor_master \in Range(order)
  BY InitWaylandEffect DEF Sound, Base
<1>. HIDE DEF t
<1>2. Sound(t)
  BY SMTT(30), <1>1 DEF Changes, Fields, Sound, Base, SourceInv, DetachedInv, LayoutInv, DesktopInv, MasterInv
<1> QED
  BY <1>1, <1>2 DEF t, Changes, Fields

\* client_destroy() keeps the invariant, and frees the layout only of those who leave.
LEMMA DestroyClientsSound ==
    ASSUME NEW s, Almost(s), NEW cs
    PROVE  /\ Almost(DestroyClients(s, cs))
           /\ Sound(s) => Sound(DestroyClients(s, cs))
           /\ DestroyClients(s, cs).clients = s.clients \ cs
           /\ DestroyClients(s, cs).layout_by \in {s.layout_by} \cup
                  {x \in {None} : s.layout_by \in cs}
<1>. DEFINE t == DestroyClients(s, cs)
<1>1. /\ Changes(s, t, {"clients", "objects", "cursor_master", "cursor_sc",
                        "master_layout_client", "layout_by", "seating", "do_exit",
                        "aborted", "started", "fatal", "power", "wlr_output_power",
                        "power_failed"})
      /\ t.aborted = "no" => s.aborted = "no"
      /\ t.clients = s.clients \ cs
      /\ t.objects = [c \in Clients |-> IF c \in cs THEN {} ELSE s.objects[c]]
      /\ s.cursor_master \in cs => t.cursor_sc = None
      /\ s.cursor_master \notin cs =>
             t.cursor_master = s.cursor_master /\ t.cursor_sc = s.cursor_sc
      /\ t.master_layout_client =
             (IF s.master_layout_client \in cs THEN None ELSE s.master_layout_client)
      /\ t.layout_by = (IF s.layout_by \in cs THEN None ELSE s.layout_by)
      /\ t.started \in {s.started, {}}
      /\ t.wlr_output_power \subseteq s.wlr_output_power
      /\ t.seating = LeaveSeats(s.seating, cs)
  BY DestroyClientsEffect DEF Almost, Base
<1>. HIDE DEF t
<1>2. MasterInv(t)
  BY <1>1 DEF Almost, Base, MasterInv
<1>3. SourceInv(t)
  BY <1>1 DEF Changes, Fields, Almost, SourceInv
<1>4. DetachedInv(t)
  <2>. SUFFICES ASSUME t.aborted = "no", ~t.wayland PROVE DetachedInv(t)
    BY DEF DetachedInv
  <2>. DEFINE g == s.seating
              h == LeaveSeats(g, cs)
  <2>1. s.aborted = "no" /\ ~s.wayland
    BY <1>1 DEF Changes, Fields
  <2>2. /\ DOMAIN g = DOMAIN NewSeating /\ g.list = <<>>
        /\ \A c \in Clients : g.seat[c] = NoSeat /\ g.transient[c] \in {"none", "stale"}
    BY <2>1 DEF Almost, DetachedInv
  <2>. HIDE DEF g
  <2>3. /\ DOMAIN h = DOMAIN NewSeating /\ h.list = <<>>
        /\ \A c \in Clients : h.seat[c] = NoSeat /\ h.transient[c] \in {"none", "stale"}
    BY <2>2 DEF LeaveSeats, NewSeating
  <2>4. t.seating = h
    BY <1>1 DEF g
  <2>. HIDE DEF h
  <2> QED
    BY <1>1, <2>1, <2>3, <2>4 DEF Changes, Fields, Almost, DetachedInv
<1>5. LayoutInv(t)
  BY <1>1 DEF Changes, Fields, Almost, LayoutInv
<1>6. Base(t)
  BY <1>1, <1>2 DEF Changes, Fields, Almost, Base
<1>7. DesktopInv(s) => DesktopInv(t)
  BY <1>1 DEF Changes, Fields, DesktopInv
<1> QED
  BY <1>1, <1>3, <1>4, <1>5, <1>6, <1>7 DEF t, Sound, Almost

-----------------------------------------------------------------------------
(* Attaching and detaching.                                                *)

\* wayland_destroy() cleans up whatever state the attach has come to.
LEMMA DetachSound ==
    ASSUME NEW s, Base(s)
    PROVE  LET t == Detach(s) IN
           /\ Sound(t) /\ ~t.wayland
           /\ t.aborted = s.aborted /\ t.clients = s.clients /\ t.layout_by = s.layout_by
           /\ t.setup = s.setup
<1>. DEFINE r == CancelRetry(DetachClients(DetachDisplays(s)))
            t == Detach(s)
<1>1. /\ Changes(s, r, {"objects", "capture_retry_timer", "displays"})
      /\ ~r.capture_retry_timer /\ r.displays \subseteq {None}
      /\ r.objects = [c \in Clients |-> {}]
  BY Zenon DEF CancelRetry, DetachClients, DetachDisplays, Changes, Fields, Base
<1>. HIDE DEF r
<1>2. /\ Changes(r, t, {"wayland", "outputs", "power", "wlr_output_power", "power_failed",
                        "image_source", "observed", "screencopy", "started", "fatal",
                        "cursor_sc", "seating", "management", "do_exit"})
      /\ ~t.wayland /\ t.outputs = <<>> /\ t.wlr_output_power = {}
      /\ t.image_source = None /\ t.observed = None /\ t.screencopy = None
      /\ t.started = {} /\ t.cursor_sc = None
      /\ t.management = ManagerDestroy(r.management) /\ t.seating = DetachSeats(r.seating)
  BY <1>1, Zenon DEF Detach, r, Changes, Fields
<1>. HIDE DEF t
<1>3. t.management \in Managements /\ ~t.management.manager
  <2>1. r.management \in Managements
    BY <1>1 DEF Base, Changes, Fields
  <2> QED
    BY <1>2, <2>1 DEF ManagerDestroy, NoManagement, NoHeads, Managements, HeadStates, RealStates
<1>4. Base(t)
  BY <1>1, <1>2, <1>3 DEF Changes, Fields, Base, MasterInv
<1>5. SourceInv(t)
  BY <1>2, OutputsAssumption DEF SourceInv, None, Dangling, Desktop
<1>6. DetachedInv(t)
  <2>. DEFINE g == t.seating
  <2>1. /\ DOMAIN g = DOMAIN NewSeating /\ g.list = <<>>
        /\ \A c \in Clients : g.seat[c] = NoSeat /\ g.transient[c] \in {"none", "stale"}
    BY <1>2 DEF DetachSeats, NewSeating
  <2> QED
    BY <1>1, <1>2, <1>3, <2>1 DEF Changes, Fields, DetachedInv
<1>7. LayoutInv(t)
  <2>1. t.displays \cap Outputs = {}
    BY <1>1, <1>2, OutputsAssumption DEF Changes, Fields
  <2>2. t.outputs \in Seq(Outputs) /\ IsInjective(t.outputs)
    BY <1>2 DEF IsInjective
  <2> QED
    BY <1>3, <1>4, <2>1, <2>2 DEF LayoutInv, Base
<1>8. DesktopInv(t)
  BY <1>2 DEF DesktopInv, None, Desktop
<1> QED
  BY <1>1, <1>2, <1>4, <1>5, <1>6, <1>7, <1>8 DEF Sound, t, Changes, Fields

\* wayland_attach() begins with a server that is not attached.
LEMMA PrepareSound ==
    ASSUME NEW s, Sound(s), NEW type \in Types, NEW name
    PROVE  LET t == Prepare(s, type, name) IN
           /\ Sound(t) /\ ~t.wayland
           /\ t.aborted = s.aborted /\ t.clients = s.clients /\ t.layout_by = s.layout_by
           /\ t.setup = s.setup
<1>. DEFINE r == WaylandDetach(s)
            t == Prepare(s, type, name)
<1>1. /\ Sound(r) /\ ~r.wayland
      /\ r.aborted = s.aborted /\ r.clients = s.clients /\ r.layout_by = s.layout_by
      /\ r.setup = s.setup
  BY DetachSound DEF WaylandDetach, Sound
<1>. HIDE DEF r
<1>2. Changes(r, t, {"image_source_type", "image_source_name"}) /\ t.image_source_type \in Types
  BY <1>1, Zenon DEF Prepare, r, Changes, Fields, Sound, Base
<1>. HIDE DEF t
<1>3. Sound(t)
  <2>1. Base(t) /\ DetachedInv(t)
    BY <1>1, <1>2 DEF Changes, Fields, Sound, Base, DetachedInv, MasterInv
  <2>2. r.aborted = "no" => r.image_source = None
    BY <1>1 DEF Sound, DetachedInv
  <2>3. SourceInv(t) /\ DesktopInv(t)
    BY <1>1, <1>2, <2>2 DEF Changes, Fields, Sound, SourceInv, DesktopInv, None, Desktop
  <2>4. LayoutInv(t)
    BY <1>1, <1>2 DEF Changes, Fields, Sound, LayoutInv
  <2> QED
    BY <2>1, <2>3, <2>4 DEF Sound
<1> QED
  BY <1>1, <1>2, <1>3 DEF t, Changes, Fields

\* What a compositor announces is a list of outputs.
LEMMA OutputListsType ==
    ASSUME NEW setup \in Setups, NEW list \in OutputLists(setup)
    PROVE  list \in Seq(Outputs) /\ IsInjective(list)
<1>1. setup.Heads \subseteq Outputs
  BY SetupsAssumption
<1>2. PICK n \in 0..Cardinality(setup.Heads) : list \in [1..n -> setup.Heads]
  BY DEF OutputLists
<1>3. n \in Nat /\ list \in [1..n -> Outputs]
  BY <1>1, <1>2
<1>4. IsInjective(list)
  BY DEF OutputLists
<1> QED
  BY <1>3, <1>4

\* wayland_attach() selects a source that the compositor has and configures the
\* capture of it, or it fails and detaches.
LEMMA ConnectSound ==
    ASSUME NEW s, Sound(s), s.aborted = "no", ~s.wayland,
           NEW list \in OutputLists(s.setup), NEW seats
    PROVE  LET t == Connect(s, list, seats) IN
           Almost(t) /\ t.aborted = "no" /\ t.clients = s.clients /\ t.layout_by = s.layout_by
<1>. DEFINE t == [s EXCEPT !.wayland = TRUE, !.outputs = list, !.seating.list = seats,
                       !.management = IF s.setup.OutputManager THEN ManagerSetup(Range(list)) ELSE @]
            src == SelectSource(t)
            u == SetImageSource(t, src)
            v == ConfigureScreencopy(u)
<1>0. list \in Seq(Outputs) /\ Range(list) \subseteq Outputs /\ IsInjective(list)
  <2>1. list \in Seq(Outputs) /\ IsInjective(list)
    BY OutputListsType DEF Sound, Base
  <2> QED
    BY <2>1 DEF Range
<1>1. /\ Changes(s, t, {"wayland", "outputs", "seating", "management"})
      /\ t.wayland /\ t.outputs = list
      /\ t.management = IF s.setup.OutputManager THEN ManagerSetup(Range(list)) ELSE s.management
  BY Zenon DEF Changes, Fields, Sound, Base
<1>2. Connect(s, list, seats) \in {v, Detach(t), Detach(u)}
  BY DEF Connect
<1>. HIDE DEF t
<1>3. /\ src \in {None, Desktop, Toplevel} \cup Range(list)
      /\ src = Desktop => t.image_source_type = "desktop"
  <2>1. t.image_source_type \in Types
    BY <1>1 DEF Sound, Base, Changes, Fields
  <2>2. list # <<>> => Head(list) \in Range(list)
    BY <1>0 DEF Range
  <2> QED
    BY <1>0, <1>1, <2>1, <2>2, OutputsAssumption
       DEF SelectSource, Types, None, Desktop, Toplevel
<1>. HIDE DEF src
<1>4. /\ t.management \in Managements
      /\ t.management.manager => t.setup.OutputManager
      /\ t.management.manager /\ t.management.current => t.management.heads = t.management.real
  <2>1. t.setup = s.setup /\ s.management \in Managements /\ ~s.management.manager
    BY <1>1 DEF Sound, Base, DetachedInv, Changes, Fields
  <2>2. CASE s.setup.OutputManager
    BY <1>0, <1>1, <2>1, <2>2 DEF ManagerSetup, Managements, HeadStates, RealStates
  <2>3. CASE ~s.setup.OutputManager
    BY <1>1, <2>1, <2>3
  <2> QED
    BY <2>2, <2>3
<1>5. Base(t)
  BY <1>1, <1>4 DEF Changes, Fields, Sound, Base, MasterInv
<1>6. /\ Changes(t, u, {"image_source", "observed"}) /\ u.image_source = src /\ u.observed = src
      /\ Base(u)
  BY <1>5, SetImageSourceEffect DEF Base, Changes, Fields, MasterInv
<1>. HIDE DEF u
<1>7. /\ Changes(u, v, {"started", "fatal", "screencopy"}) /\ v.screencopy = u.image_source
      /\ Base(v)
  BY <1>6, ConfigureScreencopyEffect DEF Base, Changes, Fields, MasterInv
<1>. HIDE DEF v
<1>8. Almost(v) /\ v.aborted = "no"
  <2>1. v.aborted = "no" /\ v.cursor_sc = None /\ v.wayland /\ v.outputs = list
        /\ v.image_source = src /\ v.observed = src /\ v.screencopy = src
        /\ v.displays \subseteq {None} /\ v.image_source_type = t.image_source_type
    BY <1>1, <1>6, <1>7 DEF Changes, Fields, Sound, DetachedInv
  <2>2. v.management = t.management /\ v.setup = t.setup
    BY <1>6, <1>7 DEF Changes, Fields
  <2>3. src # Dangling /\ (src \in Outputs => src \in Range(list))
    BY <1>0, <1>3, OutputsAssumption DEF None, Desktop, Toplevel, Dangling
  <2>4. SourceInv(v)
    BY <1>3, <2>1, <2>3 DEF SourceInv
  <2>5. DetachedInv(v)
    BY <2>1 DEF DetachedInv
  <2>6. LayoutInv(v)
    BY <1>0, <1>4, <1>7, <2>1, <2>2, OutputsAssumption DEF LayoutInv, Base
  <2> QED
    BY <1>7, <2>1, <2>4, <2>5, <2>6 DEF Almost
<1>9. /\ v.clients = s.clients /\ u.clients = s.clients /\ t.clients = s.clients
      /\ v.layout_by = s.layout_by /\ u.layout_by = s.layout_by /\ t.layout_by = s.layout_by
      /\ u.aborted = "no" /\ t.aborted = "no"
  BY <1>1, <1>6, <1>7 DEF Changes, Fields
<1> QED
  BY <1>2, <1>5, <1>6, <1>8, <1>9, DetachSound DEF Sound, Almost

\* on_attach() after that
LEMMA ServeClientsSound ==
    ASSUME NEW s, Almost(s), s.aborted = "no", NEW order, Range(order) \subseteq s.clients, NEW pool
    PROVE  LET t == ServeClients(s, order, pool) IN
           Sound(t) /\ t.clients = s.clients /\ t.layout_by = s.layout_by
<1>. DEFINE d == InitDisplays(s)
            t == InitWayland(d, order, pool)
            u == StartCaptureImmediate(t)
<1>1. Sound(d) /\ Changes(s, d, {"displays"})
  BY InitDisplaysSound
<1>. HIDE DEF d
<1>2. d.clients = s.clients /\ d.layout_by = s.layout_by
  BY <1>1 DEF Changes, Fields
<1>3. Sound(t) /\ Changes(d, t, {"objects", "cursor_sc", "aborted", "seating"})
  BY <1>1, <1>2, InitWaylandSound, InitWaylandEffect, Zenon DEF Sound, Base
<1>. HIDE DEF t
<1>4. Sound(u) /\ Changes(t, u, {"wlr_output_power", "power_failed", "started", "fatal", "aborted"})
  BY <1>3, StartCaptureSound, StartCaptureEffect, Zenon DEF Sound, Base
<1>. HIDE DEF u
<1>5. ServeClients(s, order, pool) \in {t, u}
  BY DEF ServeClients, t, u, d
<1> QED
  BY <1>2, <1>3, <1>4, <1>5 DEF Changes, Fields

-----------------------------------------------------------------------------
(* Outputs.                                                                *)

\* switch_to_output()
LEMMA SwitchSound ==
    ASSUME NEW s, Sound(s), s.aborted = "no", s.wayland, NEW o \in Range(s.outputs)
    PROVE  LET t == SwitchToOutput(s, o) IN
           /\ Sound(t) /\ t.wayland /\ t.outputs = s.outputs /\ t.management = s.management
           /\ t.setup = s.setup /\ t.clients = s.clients /\ t.layout_by = s.layout_by
           /\ t.aborted = "no" => t.image_source = o
<1>. DEFINE r == Release(s, {s.image_source})
            i == SetImageSource(r, o)
            c == ConfigureScreencopy(i)
            p == InitPointers(c, c.clients)
            u == StartCaptureImmediate(p)
            a == Abort(s, "output_assert")
<1>0. o \in Outputs /\ o # None /\ o # Dangling
  <2>1. s.outputs \in Seq(Outputs)
    BY DEF Sound, LayoutInv
  <2> QED
    BY <2>1, OutputsAssumption DEF Range
<1>1. Changes(s, r, {"power", "wlr_output_power", "power_failed"})
  BY ReleaseEffect DEF Sound, Base
<1>2. /\ Changes(r, i, {"image_source", "observed"}) /\ i.image_source = o /\ i.observed = o
  <2>. HIDE DEF r
  <2> QED
    BY <1>1, SetImageSourceEffect DEF Changes
<1>3. Changes(i, c, {"started", "fatal", "screencopy"}) /\ c.screencopy = i.image_source
  <2>. HIDE DEF i
  <2> QED
    BY <1>2, ConfigureScreencopyEffect DEF Changes
<1>4. /\ Changes(c, p, {"objects", "cursor_sc", "aborted"})
      /\ p.aborted = "no" => c.aborted = "no"
      /\ \/ p.cursor_sc = c.cursor_sc
         \/ p.cursor_sc \in {None, c.image_source} /\ c.cursor_master \in c.clients
      /\ p.aborted = "no" /\ c.image_source \in Outputs /\ c.cursor_master \in c.clients =>
             p.cursor_sc \in {None, c.image_source}
  <2>. HIDE DEF c
  <2> QED
    BY <1>3, InitPointersEffect DEF Changes
<1>5. SwitchToOutput(s, o) \in {a, p, u} \cup {x \in {s} : s.image_source = o}
  BY DEF SwitchToOutput
<1>. HIDE DEF r, i, c, p
<1>6. /\ p.image_source = o /\ p.observed = o /\ p.screencopy = o /\ p.wayland
      /\ p.outputs = s.outputs /\ p.management = s.management /\ p.setup = s.setup
      /\ p.clients = s.clients /\ p.layout_by = s.layout_by /\ p.displays = s.displays
      /\ p.master_layout_client = s.master_layout_client /\ p.layout_fits = s.layout_fits
      /\ p.image_source_type = s.image_source_type /\ p.cursor_master = s.cursor_master
      /\ DOMAIN p = Fields
  BY <1>1, <1>2, <1>3, <1>4 DEF Changes, Fields
<1>7. c.image_source = o /\ c.cursor_master = s.cursor_master /\ c.clients = s.clients
      /\ c.cursor_sc = s.cursor_sc
  BY <1>1, <1>2, <1>3 DEF Changes, Fields
<1>8. Sound(p)
  <2>1. SourceInv(p)
    BY <1>0, <1>4, <1>6, <1>7, OutputsAssumption DEF SourceInv, Sound
  <2> QED
    BY <1>0, <1>6, <2>1, OutputsAssumption
       DEF Sound, Base, DetachedInv, LayoutInv, DesktopInv, MasterInv
<1>9. Sound(u) /\ Changes(p, u, {"wlr_output_power", "power_failed", "started", "fatal", "aborted"})
  BY <1>8, StartCaptureSound, StartCaptureEffect, Zenon DEF Sound, Base
<1>10. Sound(a) /\ Changes(s, a, {"aborted"}) /\ a.aborted # "no"
  BY AbortSound, AbortEffect, Zenon DEF Sound, Base
<1>. HIDE DEF u, a
<1> QED
  BY <1>5, <1>6, <1>8, <1>9, <1>10 DEF Changes, Fields

\* An output of the list has a place in it.
LEMMA PlaceInList ==
    ASSUME NEW list \in Seq(Outputs), NEW o \in Range(list)
    PROVE  Place(list, o) \in 1..Len(list) /\ list[Place(list, o)] = o
BY DEF Place, Range

\* output_cycle() stays in the list.
LEMMA CycleInList ==
    ASSUME NEW list \in Seq(Outputs), NEW o \in Range(list), NEW step \in {1, -1}
    PROVE  OutputCycle(list, o, step) \in Range(list)
<1>1. Place(list, o) \in 1..Len(list) /\ Len(list) \in Nat
  BY PlaceInList
<1>2. ASSUME NEW k \in Int, NEW n \in Nat, n > 0 PROVE (k % n) + 1 \in 1..n
  BY <1>2
<1>3. ((Place(list, o) - 1 + step + Len(list)) % Len(list)) + 1 \in 1..Len(list)
  BY <1>1, <1>2
<1> QED
  BY <1>3 DEF OutputCycle, Range

\* The members of two lists of outputs, one after the other
LEMMA RangeOfBoth ==
    ASSUME NEW a \in Seq(Outputs), NEW b \in Seq(Outputs)
    PROVE  a \o b \in Seq(Outputs) /\ Range(a \o b) = Range(a) \cup Range(b)
<1>1. /\ a \o b \in Seq(Outputs) /\ Len(a \o b) = Len(a) + Len(b)
      /\ Len(a) \in Nat /\ Len(b) \in Nat
  OBVIOUS
<1>2. ASSUME NEW k \in 1..Len(a \o b)
      PROVE  (a \o b)[k] \in {a[i] : i \in 1..Len(a)} \cup {b[i] : i \in 1..Len(b)}
  <2>1. CASE k <= Len(a)
    BY <1>1, <2>1
  <2>2. CASE k > Len(a)
    <3>1. k - Len(a) \in 1..Len(b) /\ (a \o b)[k] = b[k - Len(a)]
      BY <1>1, <2>2
    <3> QED
      BY <3>1
  <2> QED
    BY SMTT(30), <1>1, <2>1, <2>2
<1>3. ASSUME NEW k \in 1..Len(a) PROVE k \in 1..Len(a \o b) /\ (a \o b)[k] = a[k]
  BY <1>1
<1>4. ASSUME NEW k \in 1..Len(b)
      PROVE  Len(a) + k \in 1..Len(a \o b) /\ (a \o b)[Len(a) + k] = b[k]
  BY <1>1
<1>5. ASSUME NEW c \in Seq(Outputs) PROVE Range(c) = {c[k] : k \in 1..Len(c)}
  BY DEF Range
<1>. DEFINE ab == a \o b
<1>. HIDE DEF ab
<1>6. Range(ab) = {ab[k] : k \in 1..Len(ab)} /\ ab \in Seq(Outputs)
  BY <1>1, <1>5, Zenon DEF ab
<1> QED
  BY <1>1, <1>2, <1>3, <1>4, <1>5, <1>6, ZenonT(30) DEF ab

\* wl_list_remove() takes one output out of the list.
LEMMA RemoveAtRange ==
    ASSUME NEW list \in Seq(Outputs), NEW i \in 1..Len(list)
    PROVE  /\ RemoveAt(list, i) \in Seq(Outputs)
           /\ Range(RemoveAt(list, i)) \subseteq Range(list)
           /\ Range(list) \ {list[i]} \subseteq Range(RemoveAt(list, i))
           /\ IsInjective(list) => /\ IsInjective(RemoveAt(list, i))
                                   /\ list[i] \notin Range(RemoveAt(list, i))
<1>. DEFINE a == SubSeq(list, 1, i - 1)
            b == SubSeq(list, i + 1, Len(list))
<1>1. /\ a \in Seq(Outputs) /\ Len(a) = i - 1 /\ \A k \in 1..(i - 1) : a[k] = list[k]
  OBVIOUS
<1>2. /\ b \in Seq(Outputs) /\ Len(b) = Len(list) - i
      /\ \A k \in 1..(Len(list) - i) : b[k] = list[i + k]
  OBVIOUS
<1>. HIDE DEF a, b
<1>3. a \o b \in Seq(Outputs) /\ Range(a \o b) = Range(a) \cup Range(b)
  BY <1>1, <1>2, RangeOfBoth
<1>4. Range(a) \subseteq Range(list) /\ Range(b) \subseteq Range(list)
  <2>1. Range(a) \subseteq Range(list)
    BY <1>1 DEF Range
  <2>2. ASSUME NEW k \in 1..Len(b) PROVE b[k] \in Range(list)
    <3>1. i + k \in 1..Len(list) /\ b[k] = list[i + k]
      BY <1>2
    <3> QED
      BY <3>1 DEF Range
  <2>3. Range(b) = {b[k] : k \in 1..Len(b)}
    BY <1>2 DEF Range
  <2> QED
    BY <2>1, <2>2, <2>3
<1>5. ASSUME NEW x \in Range(list), x # list[i] PROVE x \in Range(a) \cup Range(b)
  <2>1. PICK k \in 1..Len(list) : list[k] = x
    BY DEF Range
  <2>2. CASE k < i
    BY <1>1, <2>1, <2>2 DEF Range
  <2>3. CASE k > i
    <3>1. k - i \in 1..(Len(list) - i) /\ b[k - i] = x
      BY <1>2, <2>1, <2>3
    <3> QED
      BY <1>2, <3>1 DEF Range
  <2> QED
    BY <1>5, <2>1, <2>2, <2>3
<1>. DEFINE c == a \o b
            from(k) == IF k < i THEN k ELSE k + 1
<1>6. c \in Seq(Outputs) /\ Len(c) = Len(list) - 1 /\ DOMAIN c = 1..(Len(list) - 1)
  BY <1>1, <1>2
<1>7. ASSUME NEW k \in DOMAIN c PROVE c[k] = list[from(k)]
  <2>1. CASE k < i
    BY <1>1, <1>2, <1>6, <1>7, <2>1, SMTT(30)
  <2>2. CASE k >= i
    <3>1. k - (i - 1) \in 1..(Len(list) - i) /\ c[k] = b[k - (i - 1)]
      BY <1>1, <1>2, <1>6, <1>7, <2>2, SMTT(30)
    <3>2. b[k - (i - 1)] = list[i + (k - (i - 1))] /\ i + (k - (i - 1)) = k + 1
      BY <1>2, <1>6, <3>1
    <3> QED
      BY <1>6, <2>2, <3>1, <3>2
  <2> QED
    BY <1>6, <2>1, <2>2
<1>8. ASSUME NEW k \in DOMAIN c PROVE from(k) \in DOMAIN list /\ from(k) # i
  BY <1>6, <1>8
<1>9. ASSUME NEW k \in DOMAIN c, NEW l \in DOMAIN c, from(k) = from(l) PROVE k = l
  BY <1>6, <1>9
<1>. HIDE DEF c, from
<1>10. IsInjective(list) => IsInjective(c) /\ list[i] \notin Range(c)
  <2>. SUFFICES ASSUME IsInjective(list) PROVE IsInjective(c) /\ list[i] \notin Range(c)
    OBVIOUS
  <2>1. \A k, l \in DOMAIN list : list[k] = list[l] => k = l
    BY DEF IsInjective
  <2>2. IsInjective(c)
    BY <1>7, <1>8, <1>9, <2>1 DEF IsInjective
  <2>3. ASSUME NEW k \in DOMAIN c PROVE c[k] # list[i]
    <3>1. i \in DOMAIN list
      OBVIOUS
    <3> QED
      BY <1>7, <1>8, <2>1, <3>1, SMTT(30)
  <2>4. Range(c) = {c[k] : k \in DOMAIN c}
    BY DEF Range
  <2> QED
    BY <2>2, <2>3, <2>4
<1> QED
  BY <1>3, <1>4, <1>5, <1>10 DEF RemoveAt, a, b, c

\* schedule_wayland_detach() or wayvnc_exit()
LEMMA GiveUpEffect ==
    ASSUME NEW s, DOMAIN s = Fields
    PROVE  Changes(s, GiveUp(s), {"deferred_detach", "do_exit"})
BY DEF GiveUp, Changes, Fields

\* Between on_output_removed() and the end of registry_remove(): the image
\* source has been switched away from the output, or its observers have yet to
\* be told, or the only output goes and main.c has no image source already.
Leaving(s, o) ==
    /\ Base(s) /\ LayoutInv(s)
    /\ s.aborted = "no" =>
        /\ s.wayland /\ s.observed # Dangling
        /\ s.image_source = s.observed \/ (s.image_source = None /\ s.observed = o)
        /\ s.image_source \in Outputs => s.image_source \in Range(s.outputs)
        /\ s.image_source = Desktop =>
            /\ s.image_source_type = "desktop"
            /\ Range(s.outputs) \ {o} \subseteq s.displays
        /\ s.image_source # None =>
            s.screencopy = s.image_source /\ s.cursor_sc \in {None, s.image_source}
        /\ s.cursor_sc # None => s.cursor_master \in s.clients

\* The fallback of on_output_removed() leaves nothing on the output but its place in the list.
LEMMA FallBackLeaving ==
    ASSUME NEW s, Sound(s), s.aborted = "no", s.wayland, NEW o \in Range(s.outputs), o \in Outputs
    PROVE  LET t == FallBack(s, o) IN
           /\ Leaving(t, o) /\ t.outputs = s.outputs /\ t.management = s.management
           /\ t.setup = s.setup /\ t.clients = s.clients /\ t.layout_by = s.layout_by
<1>. DEFINE t == SwitchToOutput(s, OutputCycle(s.outputs, o, -1))
            u == [t EXCEPT !.image_source = IF s.setup.StartDetached THEN None ELSE @]
            v == GiveUp(u)
<1>1. FallBack(s, o) \in {x \in {s} : s.image_source # o} \cup {x \in {t} : t.image_source # o}
                            \cup {x \in {v} : t.image_source = o}
  BY DEF FallBack
<1>2. /\ Sound(t) /\ t.wayland /\ t.outputs = s.outputs /\ t.management = s.management
      /\ t.setup = s.setup /\ t.clients = s.clients /\ t.layout_by = s.layout_by
  <2>1. OutputCycle(s.outputs, o, -1) \in Range(s.outputs)
    BY CycleInList DEF Sound, LayoutInv
  <2> QED
    BY <2>1, SwitchSound, SMTT(30)
<1>. HIDE DEF t
<1>3. Leaving(s, o) /\ Leaving(t, o)
  BY <1>2, OutputsAssumption DEF Leaving, Sound, SourceInv, DesktopInv
<1>4. Changes(t, u, {"image_source"}) /\ u.image_source \in {None, t.image_source}
  BY <1>2 DEF Changes, Fields, Sound, Base
<1>. HIDE DEF u
<1>5. Changes(u, v, {"deferred_detach", "do_exit"})
  BY <1>4, GiveUpEffect DEF Changes
<1>. HIDE DEF v
<1>6. /\ v.image_source \in {None, t.image_source}
      /\ \A f \in Fields \ {"image_source", "deferred_detach", "do_exit"} : v[f] = t[f]
      /\ DOMAIN v = Fields
  BY SMTT(30), <1>4, <1>5 DEF Changes, Fields
<1>7. t.image_source = o => Leaving(v, o)
  <2>1. Base(v) /\ LayoutInv(v)
    BY <1>2, <1>6 DEF Fields, Sound, Base, LayoutInv, MasterInv
  <2> QED
    BY <1>2, <1>3, <1>6, <2>1, OutputsAssumption, o \in Outputs
       DEF Fields, Leaving, Sound, SourceInv, None, Desktop
<1> QED
  BY <1>1, <1>2, <1>3, <1>6, <1>7 DEF Fields

\* Once the observers have been told, the image source is no longer the output.
LEMMA NotifyLeaving ==
    ASSUME NEW s, NEW o \in Outputs, Leaving(s, o)
    PROVE  LET t == NotifyDestroyed(s, o) IN
           /\ Leaving(t, o) /\ t.outputs = s.outputs /\ t.management = s.management
           /\ t.setup = s.setup /\ t.clients = s.clients /\ t.layout_by = s.layout_by
           /\ t.aborted = "no" => t.image_source = t.observed /\ t.observed # o
<1>. DEFINE t == IF s.observed = o THEN [s EXCEPT !.image_source = None, !.observed = None] ELSE s
            u == [t EXCEPT !.displays = @ \ {o}, !.started = @ \ {o}, !.fatal = @ \ {o}]
            v == GiveUp(u)
            w == NotifyDestroyed(s, o)
<1>1. w \in {t, u, v}
  BY DEF NotifyDestroyed
<1>2. /\ Changes(s, t, {"image_source", "observed"})
      /\ IF s.observed = o THEN t.image_source = None /\ t.observed = None
         ELSE t.image_source = s.image_source /\ t.observed = s.observed
  BY Zenon DEF Changes, Fields, Leaving, Base
<1>. HIDE DEF t
<1>3. Changes(t, u, {"displays", "started", "fatal"}) /\ u.displays = t.displays \ {o}
  BY <1>2, Zenon DEF Changes, Fields
<1>. HIDE DEF u
<1>4. Changes(u, v, {"deferred_detach", "do_exit"})
  BY <1>3, GiveUpEffect, SMTT(30) DEF Changes
<1>. HIDE DEF v, w
<1>5. /\ Changes(t, w, {"displays", "started", "fatal", "deferred_detach", "do_exit"})
      /\ w.displays \subseteq t.displays /\ t.displays \ {o} \subseteq w.displays
  BY SMTT(30), <1>1, <1>2, <1>3, <1>4 DEF Changes, Fields
<1>6. Base(w) /\ LayoutInv(w)
  BY <1>2, <1>5 DEF Changes, Fields, Leaving, Base, LayoutInv, MasterInv
<1>7. /\ w.aborted = s.aborted /\ w.wayland = s.wayland /\ w.outputs = s.outputs
      /\ w.management = s.management /\ w.setup = s.setup /\ w.clients = s.clients
      /\ w.layout_by = s.layout_by /\ w.image_source = t.image_source
      /\ w.observed = t.observed /\ w.screencopy = s.screencopy
      /\ w.cursor_sc = s.cursor_sc /\ w.cursor_master = s.cursor_master
      /\ w.image_source_type = s.image_source_type /\ s.displays \ {o} \subseteq w.displays
  BY <1>2, <1>5 DEF Changes, Fields
<1>8. None # Dangling /\ None \notin Outputs /\ o # None /\ None # Desktop
  BY OutputsAssumption DEF None, Dangling, Desktop
<1>9. Leaving(w, o) /\ (w.aborted = "no" => w.image_source = w.observed /\ w.observed # o)
  BY <1>2, <1>6, <1>7, <1>8, SMTT(30) DEF Leaving
<1> QED
  BY <1>7, <1>9 DEF w

\* The output is freed when nothing refers to it but what will be replaced.
LEMMA FreeSound ==
    ASSUME NEW s, NEW o \in Range(s.outputs), Leaving(s, o),
           s.aborted = "no" => s.image_source = s.observed /\ s.observed # o
    PROVE  LET t == Free(s, o) IN
           Sound(t) /\ t.clients = s.clients /\ t.layout_by = s.layout_by
<1>. DEFINE left(p) == IF p = o THEN Dangling ELSE p
            r == Release(s, {o})
            t == Free(s, o)
<1>1. Changes(s, r, {"power", "wlr_output_power", "power_failed"})
  BY ReleaseEffect DEF Leaving, Base
<1>. HIDE DEF r
<1>2. /\ Changes(r, t, {"power", "outputs", "image_source", "observed", "displays",
                        "screencopy", "cursor_sc", "started", "fatal"})
      /\ t.outputs = RemoveAt(r.outputs, Place(r.outputs, o))
      /\ t.image_source = left(r.image_source) /\ t.observed = left(r.observed)
      /\ t.displays = {left(d) : d \in r.displays}
      /\ t.screencopy = left(r.screencopy) /\ t.cursor_sc = left(r.cursor_sc)
  BY <1>1, Zenon DEF Free, r, Changes, Fields
<1>. HIDE DEF t
<1>3. /\ \A f \in Fields \ {"power", "wlr_output_power", "power_failed", "outputs",
                            "image_source", "observed", "displays", "screencopy", "cursor_sc",
                            "started", "fatal"} : t[f] = s[f]
      /\ DOMAIN t = Fields
      /\ t.outputs = RemoveAt(s.outputs, Place(s.outputs, o))
      /\ t.image_source = left(s.image_source) /\ t.observed = left(s.observed)
      /\ t.displays = {left(d) : d \in s.displays}
      /\ t.screencopy = left(s.screencopy) /\ t.cursor_sc = left(s.cursor_sc)
  BY <1>1, <1>2, SMTT(30) DEF Changes, Fields
<1>4. /\ t.outputs \in Seq(Outputs) /\ Range(t.outputs) \subseteq Range(s.outputs)
      /\ Range(t.outputs) = Range(s.outputs) \ {o} /\ IsInjective(t.outputs)
  <2>1. s.outputs \in Seq(Outputs) /\ IsInjective(s.outputs)
    BY DEF Leaving, LayoutInv
  <2>2. Place(s.outputs, o) \in 1..Len(s.outputs) /\ s.outputs[Place(s.outputs, o)] = o
    BY <2>1, PlaceInList
  <2> QED
    BY <1>3, <2>1, <2>2, RemoveAtRange, SMTT(30)
<1>5. o \in Outputs /\ o # None /\ Dangling \notin Outputs /\ o # Dangling /\ Dangling # Desktop
  BY OutputsAssumption DEF Leaving, LayoutInv, Range, Dangling, Desktop
<1>6. t.displays \cap Outputs \subseteq Range(t.outputs)
  BY <1>3, <1>4, <1>5, SMTT(30) DEF Leaving, LayoutInv
<1>7. Base(t)
  BY <1>3 DEF Fields, Leaving, Base, MasterInv
<1>8. LayoutInv(t)
  <2>1. t.management = s.management /\ t.setup = s.setup /\ t.layout_fits = s.layout_fits
    BY <1>3 DEF Fields
  <2> QED
    BY <1>4, <1>6, <2>1, SMTT(30) DEF Leaving, LayoutInv
<1>9. SourceInv(t) /\ DetachedInv(t) /\ DesktopInv(t)
  <2>1. t.aborted = s.aborted /\ t.wayland = s.wayland /\ t.clients = s.clients
        /\ t.cursor_master = s.cursor_master /\ t.image_source_type = s.image_source_type
    BY <1>3 DEF Fields
  <2>2. CASE s.aborted = "no"
    <3>1. s.wayland /\ s.observed # Dangling /\ s.observed = s.image_source /\ s.observed # o
      BY <2>2 DEF Leaving
    <3>2. t.image_source = s.image_source /\ t.observed = s.image_source
      BY <1>3, <3>1, SMTT(30)
    <3>3. SourceInv(t)
      BY <1>3, <1>4, <1>5, <2>1, <2>2, <3>1, <3>2 DEF Leaving, SourceInv
    <3>4. DesktopInv(t)
      BY <1>3, <1>4, <2>2, <3>2, SMTT(30) DEF Leaving, DesktopInv
    <3> QED
      BY <2>1, <3>1, <3>3, <3>4, SMTT(30) DEF DetachedInv
  <2>3. CASE s.aborted # "no"
    BY <2>1, <2>3 DEF SourceInv, DetachedInv, DesktopInv
  <2> QED
    BY <2>2, <2>3, SMTT(30)
<1>10. t.clients = s.clients /\ t.layout_by = s.layout_by
  BY <1>3 DEF Fields
<1> QED
  BY <1>7, <1>8, <1>9, <1>10 DEF Sound, t
=============================================================================
