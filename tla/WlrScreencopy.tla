---------------------------- MODULE WlrScreencopy ----------------------------
(***************************************************************************)
(* The capture of one output with wlr-screencopy (src/screencopy.c), which *)
(* main.c drives as in FramePipeline.tla.  It differs from                 *)
(* ImageCopyCapture in that every frame fills its buffer, that a failure   *)
(* arms the retry timer of main.c, and that start() is ignored while a     *)
(* capture is in progress.                                                 *)
(*                                                                         *)
(* Pixels are abstracted to staleness, as in ImageCopyCapture.             *)
(***************************************************************************)
EXTENDS Naturals

CONSTANTS
    Cells,              \* the regions of the screen that damage tells apart
    Buffers,            \* identities of wv_buffers: how many can exist at once
    MaxClients,         \* how many VNC clients may be connected at once
    PowerManager,       \* the compositor has zwlr_output_power_manager_v1
    None                \* NULL

ASSUME BuffersAssumption == None \notin Buffers
ASSUME ClientsAssumption == MaxClients \in Nat
ASSUME CompositorAssumption == PowerManager \in BOOLEAN

VARIABLES
    \* struct wlr_screencopy
    status, front, is_immediate_copy,
    frame,          \* the frame object and how far the compositor got
    timer,          \* the capture rate timer is armed
    \* wv_buffers
    frame_damage,
    nvnc_frame,     \* the buffers whose nvnc_frame is not NULL
    nvnc_refs,      \* the buffers whose frame neatvnc still references
    \* struct wayvnc, its display and its output
    next_frame, rate_limiter, capture_retry_timer, nr_clients,
    power, wlr_output_power,
    \* the compositor and the pixels
    powered,        \* the output is on
    report,         \* damage of the completed frame not yet delivered
    pending,        \* damage that the compositor has not reported
    stale,          \* cells of each buffer that are older than the screen
    fed,            \* the same for the frame that neatvnc was fed last
    view,           \* the same for the picture of the clients
    \* history
    restarted       \* a stopped or failed capture was resumed without a whole
                    \* copy of an output that was on: see Begin

captureVars == <<status, front, is_immediate_copy, frame, timer, report, restarted>>
bufferVars == <<frame_damage, nvnc_frame, nvnc_refs>>
mainVars == <<next_frame, rate_limiter, capture_retry_timer, nr_clients>>
powerVars == <<power, wlr_output_power, powered>>
pixelVars == <<pending, stale, fed, view>>
vars == <<captureVars, bufferVars, mainVars, powerVars, pixelVars>>

TypeOK ==
    /\ status \in {"stopped", "in_progress", "failed", "fatal", "done"}
    /\ front \in Buffers \cup {None} /\ next_frame \in Buffers \cup {None}
    /\ {is_immediate_copy, timer, rate_limiter, capture_retry_timer} \subseteq BOOLEAN
    /\ frame \in {"none", "requested", "copying", "ready"}
    /\ frame_damage \in [Buffers -> SUBSET Cells] /\ stale \in [Buffers -> SUBSET Cells]
    /\ nvnc_frame \subseteq Buffers /\ nvnc_refs \subseteq Buffers
    /\ nr_clients \in 0..MaxClients
    /\ power \in {"unknown", "on", "off"}
    /\ {wlr_output_power, powered, restarted} \subseteq BOOLEAN
    /\ report \subseteq Cells /\ pending \subseteq Cells
    /\ fed \subseteq Cells /\ view \subseteq Cells

Init ==
    /\ status = "stopped" /\ front = None /\ is_immediate_copy = FALSE
    /\ frame = "none" /\ timer = FALSE /\ report = {}
    /\ frame_damage = [b \in Buffers |-> {}] /\ nvnc_frame = {} /\ nvnc_refs = {}
    /\ next_frame = None /\ rate_limiter = FALSE
    /\ capture_retry_timer = FALSE /\ nr_clients = 0
    /\ power = "unknown" /\ wlr_output_power = FALSE /\ powered \in BOOLEAN
    /\ restarted = FALSE
    /\ pending = Cells /\ stale = [b \in Buffers |-> Cells] /\ fed = Cells /\ view = Cells

-----------------------------------------------------------------------------
(* The capture object.                                                     *)

\* wlr_screencopy_start() when no capture is in progress.  Whether the rate
\* limit leaves time to wait is up to the clock.  What a stopped capture had
\* been told of is lost unless the next one is an immediate copy, or unless
\* the output is off and will be redrawn: the history variable keeps that.
Begin(immediate) ==
    /\ is_immediate_copy' = immediate
    /\ status' = "in_progress"
    /\ \/ timer' = TRUE /\ frame' = "none"
       \/ timer' = FALSE /\ frame' = "requested"
    /\ front' = None /\ report' = {}
    /\ restarted' = (~immediate /\ (restarted \/ (powered /\ status \notin {"in_progress", "done"})))

\* wlr_screencopy_start()
Start(immediate) ==
    IF status = "in_progress" THEN UNCHANGED captureVars ELSE Begin(immediate)

\* wv_buffer_release() of the buffers in bs
Release(bs) ==
    /\ nvnc_frame' = nvnc_frame \ bs
    /\ frame_damage' = [b \in Buffers |-> IF b \in bs THEN {} ELSE frame_damage[b]]
    /\ UNCHANGED nvnc_refs

\* screencopy__stop() with the status that follows it and with front released
StopAs(s) ==
    /\ status' = s
    /\ timer' = FALSE
    /\ frame' = "none" /\ report' = {}
    /\ front' = None
    /\ UNCHANGED <<is_immediate_copy, restarted>>

\* Mutant of Stop: the buffer of the frame in flight is kept.
StopKeepingFront ==
    /\ timer' = FALSE /\ status' = "stopped" /\ frame' = "none" /\ report' = {}
    /\ UNCHANGED <<front, is_immediate_copy, restarted, bufferVars>>

\* wlr_screencopy_stop()
Stop == StopAs("stopped") /\ Release({front} \ {None})

\* screencopy__poll()
Poll ==
    /\ timer
    /\ timer' = FALSE
    /\ frame' = "requested"
    /\ UNCHANGED <<status, front, is_immediate_copy, report, restarted, bufferVars,
                   mainVars, powerVars, pixelVars>>

\* screencopy_buffer(), screencopy_linux_dmabuf() and screencopy_buffer_done():
\* a buffer that nobody references is acquired, or a new one, which may fail.
BufferDone ==
    /\ frame = "requested"
    /\ \/ \E b \in Buffers \ (nvnc_frame \cup nvnc_refs) :
            /\ front' = b
            /\ nvnc_frame' = nvnc_frame \cup {b}
            /\ frame' = "copying"
            /\ UNCHANGED <<status, is_immediate_copy, timer, report, restarted,
                           frame_damage, nvnc_refs>>
       \/ StopAs("fatal") /\ UNCHANGED bufferVars
    /\ UNCHANGED <<mainVars, powerVars, pixelVars>>

\* screencopy_damage() for the rectangle of cells region
Damage(region) ==
    /\ frame = "ready" /\ region \subseteq report
    /\ report' = report \ region
    /\ frame_damage' = [frame_damage EXCEPT ![front] = @ \cup region]
    /\ UNCHANGED <<status, front, is_immediate_copy, frame, timer, restarted, nvnc_frame,
                   nvnc_refs, mainVars, powerVars, pixelVars>>

-----------------------------------------------------------------------------
(* Frames on their way to neatvnc.                                         *)

\* wayvnc_display_send_next_frame() for buffer b with the given damage;
\* Restart is its wayvnc_start_capture().
SendNextFrame(b, damage, Restart) ==
    /\ view' = (view \ damage) \cup (stale[b] \cap damage)
    /\ fed' = stale[b]
    /\ next_frame' = None
    /\ nvnc_frame' = nvnc_frame \ {b}
    /\ nvnc_refs' = nvnc_refs \cup {b}
    /\ frame_damage' = [frame_damage EXCEPT ![b] = {}]
    /\ Restart
    /\ UNCHANGED <<pending, stale>>

\* Mutant of ReadyDamage: an immediate copy is not treated as a new picture.
ReadyDamageReported == frame_damage[front]

\* wv_buffer_damage_whole() in screencopy_ready(): the compositor reports no
\* damage for an immediate copy.
ReadyDamage == IF is_immediate_copy THEN Cells ELSE frame_damage[front]

\* wayvnc_process_frame() while another frame waits
Supersede ==
    /\ next_frame # None
    /\ StopAs("done")
    /\ next_frame' = front
    /\ nvnc_frame' = nvnc_frame \ {next_frame}
    /\ frame_damage' = [frame_damage EXCEPT
            ![front] = ReadyDamage \cup frame_damage[next_frame], ![next_frame] = {}]
    /\ UNCHANGED <<nvnc_refs, rate_limiter, pixelVars>>

\* wayvnc_process_frame() when time_left > 0
Postpone ==
    /\ next_frame = None
    /\ StopAs("done")
    /\ next_frame' = front
    /\ rate_limiter' = TRUE
    /\ frame_damage' = [frame_damage EXCEPT ![front] = ReadyDamage]
    /\ UNCHANGED <<nvnc_frame, nvnc_refs, pixelVars>>

\* wayvnc_process_frame() when time_left <= 0
SendAtOnce ==
    /\ next_frame = None
    /\ SendNextFrame(front, ReadyDamage, Begin(FALSE))
    /\ UNCHANGED rate_limiter

\* screencopy_ready() and on_capture_done(DONE), after all screencopy_damage()
Ready ==
    /\ frame = "ready" /\ report = {}
    /\ Supersede \/ Postpone \/ SendAtOnce
    /\ UNCHANGED <<capture_retry_timer, nr_clients, powerVars>>

\* wayvnc_handle_rate_limit_timeout()
RateLimitTimeout ==
    /\ rate_limiter
    /\ rate_limiter' = FALSE
    /\ IF next_frame = None
       THEN UNCHANGED <<captureVars, bufferVars, pixelVars, next_frame>>
       ELSE SendNextFrame(next_frame, frame_damage[next_frame], Start(FALSE))
    /\ UNCHANGED <<capture_retry_timer, nr_clients, powerVars>>

-----------------------------------------------------------------------------
(* Starting and stopping.                                                  *)

\* Mutant of Failed: main.c is told of the failure but does not retry.
FailedGivingUp ==
    /\ frame \in {"requested", "copying"}
    /\ StopAs("failed") /\ Release({front} \ {None})
    /\ UNCHANGED <<mainVars, powerVars, pixelVars>>

\* screencopy_failed() and wayvnc_restart_capture()
Failed ==
    /\ frame \in {"requested", "copying"}
    /\ StopAs("failed") /\ Release({front} \ {None})
    /\ capture_retry_timer' = TRUE
    /\ UNCHANGED <<next_frame, rate_limiter, nr_clients, powerVars, pixelVars>>

\* wayvnc_start_capture_immediate(); retry is capture_retry_timer at the call.
StartCaptureImmediate(retry) ==
    \/ /\ ~retry
       /\ IF wlr_output_power THEN power = "on" ELSE ~PowerManager
       /\ Start(TRUE)
       /\ UNCHANGED wlr_output_power
    \/ /\ ~retry /\ ~wlr_output_power /\ PowerManager
       /\ wlr_output_power' = TRUE
       /\ UNCHANGED captureVars
    \/ /\ retry \/ (wlr_output_power /\ power # "on")
       /\ UNCHANGED <<captureVars, wlr_output_power>>

\* on_capture_restart_timer()
CaptureRestartTimer ==
    /\ capture_retry_timer
    /\ capture_retry_timer' = FALSE
    /\ StartCaptureImmediate(FALSE)
    /\ UNCHANGED <<bufferVars, pixelVars, next_frame, rate_limiter, nr_clients, power, powered>>

\* on_nvnc_client_new().  neatvnc sends a new client the whole frame it has.
ClientNew ==
    /\ nr_clients < MaxClients
    /\ nr_clients' = nr_clients + 1
    /\ IF nr_clients = 0
       THEN StartCaptureImmediate(capture_retry_timer) /\ view' = fed
       ELSE UNCHANGED <<captureVars, wlr_output_power, view>>
    /\ UNCHANGED <<bufferVars, next_frame, rate_limiter, capture_retry_timer, power,
                   powered, pending, stale, fed>>

\* client_destroy()
ClientDestroy ==
    /\ nr_clients > 0
    /\ nr_clients' = nr_clients - 1
    /\ IF nr_clients = 1
       THEN /\ Stop
            /\ wlr_output_power' = FALSE
            /\ power' = IF wlr_output_power THEN "unknown" ELSE power
       ELSE UNCHANGED <<captureVars, bufferVars, power, wlr_output_power>>
    /\ UNCHANGED <<next_frame, rate_limiter, capture_retry_timer, powered, pixelVars>>

\* output_power_mode() and on_image_source_power_change().  The first event of
\* a zwlr_output_power_v1 tells what the output is; the later ones are changes.
\* The compositor redraws an output that it turns on.
PowerMode(mode) ==
    /\ wlr_output_power /\ mode # power
    /\ power = "unknown" => (mode = "on") = powered
    /\ power' = mode /\ powered' = (mode = "on")
    /\ pending' = IF powered' /\ ~powered THEN Cells ELSE pending
    /\ \/ /\ nr_clients = 0
          /\ UNCHANGED <<captureVars, bufferVars, wlr_output_power, fed, view>>
       \/ /\ nr_clients > 0 /\ mode = "on"
          /\ IF capture_retry_timer THEN UNCHANGED captureVars ELSE Start(TRUE)
          /\ UNCHANGED <<bufferVars, wlr_output_power, fed, view>>
       \/ /\ nr_clients > 0 /\ mode = "off"
          /\ Stop
          /\ fed' = Cells /\ view' = Cells
          /\ UNCHANGED wlr_output_power
    /\ UNCHANGED <<stale, mainVars>>

\* output_power_failed()
PowerFailed ==
    /\ wlr_output_power
    /\ power' = "unknown" /\ wlr_output_power' = FALSE
    /\ UNCHANGED <<captureVars, bufferVars, mainVars, powered, pixelVars>>

-----------------------------------------------------------------------------
(* The environment.                                                        *)

\* Something is drawn on the cells in region.
ScreenChange(region) ==
    /\ pending' = pending \cup region
    /\ stale' = [b \in Buffers |-> stale[b] \cup region]
    /\ fed' = fed \cup region /\ view' = view \cup region
    /\ UNCHANGED <<captureVars, bufferVars, mainVars, powerVars>>

\* The output is turned on or off while wayvnc is not told.
OutputTurned ==
    /\ ~wlr_output_power
    /\ powered' = ~powered
    /\ pending' = IF powered' THEN Cells ELSE pending
    /\ UNCHANGED <<captureVars, bufferVars, mainVars, power, wlr_output_power, stale, fed, view>>

\* The compositor fills the buffer; copy_with_damage waits for damage.  Some
\* compositors count damage from any completed copy, others only from one that
\* was made with copy_with_damage.
CompositorCopy ==
    /\ frame = "copying"
    /\ is_immediate_copy \/ pending # {}
    /\ frame' = "ready"
    /\ report' = IF is_immediate_copy THEN {} ELSE pending
    /\ pending' = {} \/ (is_immediate_copy /\ pending' = pending)
    /\ stale' = [stale EXCEPT ![front] = {}]
    /\ UNCHANGED <<status, front, is_immediate_copy, timer, restarted, bufferVars, mainVars, powerVars,
                   fed, view>>

\* neatvnc drops its last reference to the frame of buffer b.
NeatvncUnref(b) ==
    /\ b \in nvnc_refs
    /\ nvnc_refs' = nvnc_refs \ {b}
    /\ UNCHANGED <<captureVars, frame_damage, nvnc_frame, mainVars, powerVars, pixelVars>>

Drawn == \E region \in SUBSET Cells \ {{}} : ScreenChange(region)
DamageEvent == \E region \in SUBSET Cells \ {{}} : Damage(region)

Next ==
    \/ Poll \/ BufferDone \/ Ready \/ Failed
    \/ DamageEvent
    \/ RateLimitTimeout \/ CaptureRestartTimer
    \/ ClientNew \/ ClientDestroy
    \/ \E mode \in {"on", "off"} : PowerMode(mode)
    \/ PowerFailed
    \/ Drawn \/ OutputTurned \/ CompositorCopy
    \/ \E b \in Buffers : NeatvncUnref(b)

Spec == Init /\ [][Next]_vars

\* The event loop dispatches every armed timer and every event that arrives.
\* The compositor may let a frame fail now and then, hence strong fairness.
Fairness ==
    /\ WF_vars(Poll) /\ WF_vars(RateLimitTimeout) /\ WF_vars(CaptureRestartTimer)
    /\ WF_vars(DamageEvent) /\ WF_vars(Ready)
    /\ SF_vars(BufferDone) /\ SF_vars(CompositorCopy)

FairSpec == Spec /\ Fairness

-----------------------------------------------------------------------------
(* Properties.                                                             *)

\* Each buffer has one user: the compositor, the rate limiter or neatvnc.
\* The asserts of screencopy_buffer_done() and wv_buffer_pool_acquire() and the
\* uses of front in screencopy_flags(), _damage() and _ready() rely on it.
ExclusiveBuffers ==
    /\ nvnc_frame = {front, next_frame} \ {None}
    /\ nvnc_frame \cap nvnc_refs = {}
    /\ (front = None) <=> (frame \in {"none", "requested"})
    /\ front = next_frame => front = None

\* Clients watch an output that is on.
Watched == nr_clients > 0 /\ (PowerManager => wlr_output_power /\ power = "on")

\* While clients watch an output that is on, a capture is in progress, or the
\* retry timer will start one, or the rate limiter holds a frame whose sending
\* does, unless buffers could not be allocated.  A capture in progress comes to
\* an end: wlr_screencopy_start() does nothing until then, so that one with
\* neither timer nor frame would be the last.
NoStall ==
    /\ (status = "in_progress") <=> (timer \/ frame # "none")
    /\ Watched => status \in {"in_progress", "fatal"}
                  \/ capture_retry_timer
                  \/ (status = "done" /\ next_frame # None /\ rate_limiter)

\* What a completed frame and a waiting one will bring up to date, and whether
\* an immediate copy is being made or will be.
Arriving ==
    IF frame # "ready" THEN {}
    ELSE IF is_immediate_copy THEN Cells ELSE report \cup frame_damage[front]
Waiting == IF next_frame = None THEN {} ELSE frame_damage[next_frame]
CopyDue == capture_retry_timer \/ (status = "in_progress" /\ is_immediate_copy)

\* No update is lost on the way to clients that watch: wherever their picture
\* is out of date, the compositor has yet to report the change, or a frame
\* with that damage, or an immediate copy, is on its way or due.  There is one
\* exception: a frame that waits for the rate limiter while the capture stops
\* or fails restarts it when it is sent, and wlr_screencopy_start() then ignores
\* the immediate copy that was to make up for what the stop discarded.
NoLostDamage ==
    Watched /\ powered /\ status # "fatal" /\ ~restarted =>
        CopyDue \/ view \subseteq pending \cup Arriving \cup Waiting

\* Why the screen stays captured: besides NoStall, the timer runs before the
\* frame, a frame that waits has a rate limiter to send it, and only an output
\* whose power wayvnc holds is known to be on or off.
ProgressInv ==
    /\ NoStall
    /\ timer => frame = "none"
    /\ next_frame # None => rate_limiter
    /\ power # "unknown" => wlr_output_power /\ (power = "on") = powered
    /\ wlr_output_power => PowerManager

\* The capture of an output that is on goes on from the last completed frame.
Continued ==
    /\ powered /\ ~restarted
    /\ status = "done" \/ (status = "in_progress" /\ ~is_immediate_copy)

\* Why no damage is lost: what a completed frame lacks has not been reported
\* yet, and while the capture goes on the same is true of a waiting frame, of
\* the last frame sent and of the clients' picture, but for what is on its way.
DamageInv ==
    /\ frame = "ready" => stale[front] \subseteq pending
    /\ Continued =>
        /\ view \subseteq pending \cup Arriving \cup Waiting
        /\ fed \subseteq pending \cup Arriving \cup Waiting
        /\ next_frame # None => stale[next_frame] \subseteq pending \cup Arriving

Inv == TypeOK /\ ExclusiveBuffers /\ ProgressInv /\ DamageInv

\* Once clients stay connected to an output that stays on and the screen comes
\* to rest, their picture becomes the picture on the screen: no failure, stop or
\* ignored start() leaves screencopy.c and main.c waiting for each other.
EventuallyCurrent ==
    (<>[](Watched /\ powered /\ status # "fatal" /\ ~restarted) /\ <>[][~Drawn]_vars) => <>[](view = {})
=============================================================================
