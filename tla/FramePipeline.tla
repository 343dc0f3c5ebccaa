---------------------------- MODULE FramePipeline ----------------------------
(***************************************************************************)
(* How main.c drives the capture of one output and passes the frames on to *)
(* neatvnc: the screencopy object of ImageCopyCapture.tla, the frame       *)
(* consumer of main.c (next_frame and the rate limiter), the output's      *)
(* power management, and clients that come and go.  Every callback of the  *)
(* single-threaded event loop is one action, with everything it calls.     *)
(*                                                                         *)
(* The compositor, neatvnc and the clock are the environment.              *)
(***************************************************************************)
EXTENDS ImageCopyCapture

CONSTANTS
    MaxClients,     \* how many VNC clients may be connected at once
    PowerManager    \* the compositor has zwlr_output_power_manager_v1

ASSUME ClientsAssumption == MaxClients \in Nat
ASSUME PowerAssumption == PowerManager \in BOOLEAN

VARIABLES
    \* struct wayvnc and its wayvnc_display
    next_frame,     \* display->next_frame
    rate_limiter,   \* the frame rate timer is armed
    nr_clients,
    \* struct output
    power, wlr_output_power,
    \* what VNC clients are shown: the cells older than the screen
    view

mainVars == <<next_frame, rate_limiter, nr_clients, power, wlr_output_power, view>>
vars == <<captureVars, mainVars>>

Running == aborted = "no"

TypeOK ==
    /\ CaptureTypeOK
    /\ next_frame \in Buffers \cup {None}
    /\ rate_limiter \in BOOLEAN
    /\ nr_clients \in 0..MaxClients
    /\ power \in {"unknown", "on", "off"}
    /\ wlr_output_power \in BOOLEAN
    /\ view \subseteq Cells

\* main() has fed a placeholder; no client is connected yet.
Init ==
    /\ CaptureInit
    /\ next_frame = None
    /\ rate_limiter = FALSE
    /\ nr_clients = 0
    /\ power = "unknown"
    /\ wlr_output_power = FALSE
    /\ view = Cells

-----------------------------------------------------------------------------
(* Frames on their way from the capture to neatvnc.                        *)

\* nvnc_display_feed_frame() with buffer b and its frame_damage: clients get
\* the pixels of b in the damaged cells and keep what they have elsewhere.
Feed(b, damage) == view' = (view \ damage) \cup (stale[b] \cap damage)

\* wayvnc_display_send_next_frame() for buffer b, which the caller has taken
\* from next_frame or just captured.  start(false) is called before b is
\* released; fr, fc and bd are the frame, the frame_count and the
\* buffer_damage at that time.
SendNextFrame(b, fr, fc, bd) ==
    LET own == nvnc_frame \ {b} IN
    /\ Feed(b, frame_damage[b])
    /\ next_frame' = None
    /\ nvnc_refs' = nvnc_refs \cup {b}
    /\ frame_damage' = [frame_damage EXCEPT ![b] = {}]
    /\ \/ /\ fr # "none"
          /\ nvnc_frame' = own
          /\ UNCHANGED <<sessionVars, poolVars, frame, buffer, frame_count, report,
                         pending, fatal, aborted>>
       \/ /\ fr = "none"
          /\ Start(FALSE, fc, own, nvnc_frame \cup nvnc_refs)
    /\ Settle(bd)

\* frame_handle_ready() when it does not lead to a start().
ReadyOnly ==
    /\ frame' = "none" /\ buffer' = None
    /\ frame_count' = (frame_count + 1) % FrameCountMod
    /\ UNCHANGED <<sessionVars, poolVars, nvnc_refs, report, pending, fatal, aborted, view>>

\* wayvnc_process_frame() while a frame is still waiting: that frame is
\* superseded and its damage is passed on.
Supersede ==
    /\ next_frame # None
    /\ ReadyOnly
    /\ frame_damage' = [frame_damage EXCEPT ![buffer] = @ \cup frame_damage[next_frame],
                                            ![next_frame] = {}]
    /\ nvnc_frame' = nvnc_frame \ {next_frame}
    /\ next_frame' = buffer
    /\ Settle(DamageAll(buffer))
    /\ UNCHANGED rate_limiter

\* wayvnc_process_frame() when time_left > 0: the frame has to wait.
Postpone ==
    /\ next_frame = None
    /\ ReadyOnly
    /\ next_frame' = buffer
    /\ rate_limiter' = TRUE
    /\ UNCHANGED <<frame_damage, nvnc_frame>>
    /\ Settle(DamageAll(buffer))

\* wayvnc_process_frame() when time_left <= 0.
SendAtOnce ==
    /\ next_frame = None
    /\ SendNextFrame(buffer, "none", (frame_count + 1) % FrameCountMod, DamageAll(buffer))
    /\ UNCHANGED rate_limiter

\* frame_handle_ready(), on_capture_done(DONE) and wayvnc_process_frame(), once
\* all damage of the frame has been delivered.
FrameReady ==
    /\ Running
    /\ frame = "ready" /\ report = {}
    /\ Supersede \/ Postpone \/ SendAtOnce
    /\ UNCHANGED <<nr_clients, power, wlr_output_power>>

\* Mutant of RateLimitTimeout: the frame is not sent while a capture runs.
RateLimitTimeoutSkipping ==
    /\ Running
    /\ rate_limiter
    /\ rate_limiter' = FALSE
    /\ IF next_frame = None \/ frame # "none"
       THEN UNCHANGED <<captureVars, next_frame, view>>
       ELSE SendNextFrame(next_frame, frame, frame_count, buffer_damage)
    /\ UNCHANGED <<nr_clients, power, wlr_output_power>>

\* wayvnc_handle_rate_limit_timeout()
RateLimitTimeout ==
    /\ Running
    /\ rate_limiter
    /\ rate_limiter' = FALSE
    /\ IF next_frame = None
       THEN UNCHANGED <<captureVars, next_frame, view>>
       ELSE SendNextFrame(next_frame, frame, frame_count, buffer_damage)
    /\ UNCHANGED <<nr_clients, power, wlr_output_power>>

-----------------------------------------------------------------------------
(* Clients and power.                                                      *)

\* screencopy_start(self->screencopy, true)
StartImmediate ==
    IF frame # "none"
    THEN UNCHANGED captureVars
    ELSE /\ UNCHANGED <<nvnc_refs, frame_damage>>
         /\ Start(TRUE, frame_count, nvnc_frame, Refs)
         /\ Settle(buffer_damage)

\* wayvnc_start_capture_immediate(): output_acquire_power_on() returns 1 when
\* power is held already, 0 when it sends the request, -1 without a manager.
StartCaptureImmediate ==
    \/ /\ wlr_output_power /\ power = "on"
       /\ StartImmediate
       /\ UNCHANGED wlr_output_power
    \/ /\ wlr_output_power /\ power # "on"
       /\ UNCHANGED <<captureVars, wlr_output_power>>
    \/ /\ ~wlr_output_power /\ PowerManager
       /\ wlr_output_power' = TRUE
       /\ UNCHANGED captureVars
    \/ /\ ~wlr_output_power /\ ~PowerManager
       /\ StartImmediate
       /\ UNCHANGED wlr_output_power

\* on_nvnc_client_new()
ClientNew ==
    /\ Running
    /\ nr_clients < MaxClients
    /\ nr_clients' = nr_clients + 1
    /\ IF nr_clients = 0
       THEN StartCaptureImmediate
       ELSE UNCHANGED <<captureVars, wlr_output_power>>
    /\ UNCHANGED <<next_frame, rate_limiter, power, view>>

\* client_destroy(): the last client stops the capture and releases the power.
ClientDestroy ==
    /\ Running
    /\ nr_clients > 0
    /\ nr_clients' = nr_clients - 1
    /\ IF nr_clients = 1
       THEN /\ Stop
            /\ wlr_output_power' = FALSE
            /\ power' = IF wlr_output_power THEN "unknown" ELSE power
       ELSE UNCHANGED <<captureVars, power, wlr_output_power>>
    /\ UNCHANGED <<next_frame, rate_limiter, view>>

\* output_power_mode() and on_image_source_power_change(); blank_screen()
\* shows clients a placeholder.
PowerMode(mode) ==
    /\ Running
    /\ wlr_output_power
    /\ mode # power
    /\ power' = mode
    /\ \/ /\ nr_clients = 0
          /\ UNCHANGED <<captureVars, view>>
       \/ /\ nr_clients > 0 /\ mode = "on"
          /\ StartImmediate
          /\ UNCHANGED view
       \/ /\ nr_clients > 0 /\ mode = "off"
          /\ Stop
          /\ view' = Cells
    /\ UNCHANGED <<next_frame, rate_limiter, nr_clients, wlr_output_power>>

\* output_power_failed()
PowerFailed ==
    /\ Running
    /\ wlr_output_power
    /\ power' = "unknown"
    /\ wlr_output_power' = FALSE
    /\ UNCHANGED <<captureVars, next_frame, rate_limiter, nr_clients, view>>

-----------------------------------------------------------------------------

Constraints ==
    /\ Running
    /\ \/ \E f \in ShmFormats : HandleFormatShm(f)
       \/ \E f \in DmaFormats : HandleFormatDrm(f)
       \/ \E s \in Sizes : HandleDimensions(s)
    /\ UNCHANGED mainVars

ConstraintsDone == Running /\ HandleConstraintsDone /\ UNCHANGED mainVars

CaptureTimer == Running /\ ScheduleFromTimer /\ UNCHANGED mainVars

FrameDamage ==
    /\ Running
    /\ \E region \in SUBSET Cells : region # {} /\ HandleDamage(region)
    /\ UNCHANGED mainVars

FrameFailed ==
    /\ Running
    /\ \E reason \in {"unknown", "buffer_constraints", "stopped"} : HandleFailed(reason)
    /\ UNCHANGED mainVars

ScreenChanged ==
    /\ Running
    /\ \E region \in SUBSET Cells :
        /\ region # {}
        /\ ScreenChange(region)
        /\ view' = view \cup region
    /\ UNCHANGED <<next_frame, rate_limiter, nr_clients, power, wlr_output_power>>

FrameCopied ==
    /\ Running
    /\ \E damage, copied \in SUBSET Cells : CompositorCopy(damage, copied)
    /\ UNCHANGED mainVars

FrameUnref ==
    /\ Running
    /\ \E b \in Buffers : NeatvncUnref(b)
    /\ UNCHANGED mainVars

\* The process is gone.
Dead == ~Running /\ UNCHANGED vars

Next ==
    \/ Constraints \/ ConstraintsDone \/ CaptureTimer
    \/ FrameDamage \/ FrameReady \/ FrameFailed
    \/ RateLimitTimeout
    \/ ClientNew \/ ClientDestroy
    \/ \E mode \in {"on", "off"} : PowerMode(mode)
    \/ PowerFailed
    \/ ScreenChanged \/ FrameCopied \/ FrameUnref
    \/ Dead

Spec == Init /\ [][Next]_vars

\* The compositor announces the constraints of a session until the client has
\* a complete batch, and completes a capture when something has changed.
Announce ==
    /\ Running /\ ~have_constraints /\ ~batch
    /\ \E f \in ShmFormats : HandleFormatShm(f)
    /\ UNCHANGED mainVars
CopyChanges == pending # {} /\ FrameCopied

\* The event loop dispatches every armed timer and every event that arrives.
\* The compositor may reject buffers now and then, hence strong fairness.
Fairness ==
    /\ WF_vars(ConstraintsDone) /\ WF_vars(CaptureTimer)
    /\ WF_vars(FrameDamage) /\ WF_vars(FrameReady) /\ WF_vars(RateLimitTimeout)
    /\ WF_vars(Announce) /\ SF_vars(CopyChanges)

FairSpec == Spec /\ Fairness

-----------------------------------------------------------------------------
(* Properties.                                                             *)

\* Damage that the compositor has accounted for in the frame it completed but
\* that frame_handle_ready() has not yet distributed.
Undistributed == IF frame = "ready" THEN report \cup frame_damage[buffer] ELSE {}

\* Whatever a buffer of the pool shows wrongly will be repaired when it is
\* captured next: it is in the buffer's own buffer_damage, which
\* schedule_capture() declares, or in what the compositor still has to report.
\* This is what wv_buffer_pool_damage_all() must keep up for buffers of every
\* age, across stops, restarts, failures and replaced pools.
BufferAge ==
    \A b \in Buffers : stale[b] \subseteq buffer_damage[b] \cup pending \cup Undistributed

\* No update is lost on the way to the clients: wherever the picture that
\* clients have been fed is out of date, either the compositor has yet to
\* report the change, or the change is in the damage of a frame that is being
\* delivered or that waits for the rate limiter.
NoLostDamage ==
    view \subseteq pending \cup Undistributed
                   \cup (IF next_frame = None THEN {} ELSE frame_damage[next_frame])

\* The compositor never writes into a buffer that waits to be sent or that
\* neatvnc still reads, no buffer is lost, and the nvnc_frame that
\* wv_buffer_pool_acquire() asserts to be NULL is NULL.
ExclusiveBuffers ==
    /\ nvnc_frame = {buffer, next_frame} \ {None}
    /\ nvnc_frame \cap nvnc_refs = {}
    /\ (buffer = None) <=> (frame = "none")
    /\ buffer = next_frame => buffer = None

\* Frames reach neatvnc in the order in which they were captured: a frame that
\* waits for the rate limiter is the newest one that has been completed.
NextFrameIsNewest ==
    next_frame # None => stale[next_frame] \subseteq pending \cup Undistributed

\* The frame that frame_handle_ready() is about to deliver shows everything up
\* to the moment the compositor completed it.
ReadyIsFresh == frame = "ready" => stale[buffer] \subseteq pending

\* The inductive invariant that the properties above rest on.
DamageInv == BufferAge /\ NoLostDamage /\ NextFrameIsNewest /\ ReadyIsFresh
Inv == TypeOK /\ ExclusiveBuffers /\ DamageInv

\* assert(!self->frame) in schedule_capture(): a session never gets a second
\* frame object while it has one.
OneFramePerSession == aborted # "frame_assert"

\* Main.c expects frames of this output.
Capturing ==
    /\ Running /\ ~fatal
    /\ nr_clients > 0
    /\ PowerManager => wlr_output_power /\ power = "on"

\* While clients watch a powered output, the capture never goes to sleep: a
\* frame is in flight, or a timer or an answer of the compositor will start
\* one, or the rate limiter holds a frame whose sending starts the next.
NoStall ==
    Capturing =>
        \/ frame # "none"
        \/ timer
        \/ session /\ should_start
        \/ next_frame # None /\ rate_limiter

\* What NoStall rests on: a frame that waits has a timer that will send it, a
\* session outlives its frames and timers, and power is known only while it is managed.
ProgressInv ==
    /\ next_frame # None => rate_limiter
    /\ frame # "none" \/ frame_count # 0 \/ timer => session
    /\ power = "on" => wlr_output_power
    /\ wlr_output_power => PowerManager
    /\ NoStall

\* Once clients stay connected to an output that stays on and the screen comes
\* to rest, the clients' picture becomes the picture on the screen.
EventuallyCurrent ==
    (<>[]Capturing /\ <>[][~ScreenChanged]_vars) => <>[](view = {})
=============================================================================
