-------------------------- MODULE ImageCopyCapture --------------------------
(***************************************************************************)
(* One capture object of src/ext-image-copy-capture.c with the buffer pool *)
(* of src/buffer.c that belongs to it: the state of both, and the          *)
(* functions that change it.  A function that the code calls from the      *)
(* middle of a handler takes as parameters the values that the handler has *)
(* already changed when it makes the call, so that a handler and all it    *)
(* calls is one step.  FramePipeline.tla puts main.c on top.               *)
(*                                                                         *)
(* Pixels are abstracted to staleness.  The screen is a set of cells;      *)
(* stale[b] is the set of cells of buffer b that are older than what the   *)
(* screen shows now, and pending is what has changed on the screen since   *)
(* the compositor last completed a frame of this session.                  *)
(***************************************************************************)
EXTENDS Naturals, FiniteSets

CONSTANTS
    Cells,          \* the regions of the screen that damage tells apart
    Buffers,        \* identities of wv_buffers: how many can exist at once
    DmaFormats,     \* DMA-BUF format/modifier choices
    ShmFormats,     \* wl_shm formats
    Acceptable,     \* the formats that rate_format() scores above 0
    Sizes,          \* buffer dimensions
    RenderNodeOk,   \* a DRM render node can be opened on this host
    FrameCountMod,  \* 2^32: frame_count is a uint32_t
    None            \* NULL

Formats == DmaFormats \cup ShmFormats

ASSUME FormatsAssumption ==
    /\ DmaFormats \cap ShmFormats = {}
    /\ Acceptable \subseteq Formats
    /\ None \notin Formats \cup Sizes \cup Buffers
ASSUME FrameCountAssumption == FrameCountMod \in Nat /\ FrameCountMod > 1
ASSUME RenderNodeAssumption == RenderNodeOk \in BOOLEAN

VARIABLES
    \* struct ext_image_copy_capture
    session,            \* session # NULL
    frame,              \* the frame object and how far the compositor got
    buffer,             \* the buffer of the frame in flight
    have_constraints, should_start, frame_count,
    timer,              \* the capture rate timer is armed
    dmabuf_formats, wl_shm_formats, size,
    \* struct wv_buffer_pool and its wv_buffers
    pool_config,
    nvnc_pool,          \* the buffers that the present nvnc_pool recycles
    buffer_damage, frame_damage,
    nvnc_frame,         \* the buffers whose nvnc_frame is not NULL
    nvnc_refs,          \* the buffers whose frame neatvnc still references
    \* the compositor and the pixels
    batch,              \* formats were announced since the last "done" event
    report,             \* damage of the completed frame not yet delivered
    pending, stale,
    \* how the process and the capture ended
    fatal,              \* SCREENCOPY_FATAL was the last word on this capture
    aborted             \* an assertion failed or NULL was dereferenced

constraintVars == <<have_constraints, dmabuf_formats, wl_shm_formats, size, batch>>
sessionVars == <<session, constraintVars, should_start, timer>>
poolVars == <<pool_config, nvnc_pool>>
damageVars == <<buffer_damage, frame_damage, stale>>
captureVars == <<sessionVars, poolVars, damageVars, frame, buffer, frame_count,
                 nvnc_frame, nvnc_refs, report, pending, fatal, aborted>>

FrameStates == {"none", "capturing", "ready"}
Outcomes == {"no", "frame_assert", "null_gbm"}

Configs == [format : Formats \cup {None}, size : Sizes \cup {None}]

SessionTypeOK ==
    /\ session \in BOOLEAN
    /\ have_constraints \in BOOLEAN
    /\ should_start \in BOOLEAN
    /\ frame_count \in 0..(FrameCountMod - 1)
    /\ timer \in BOOLEAN
    /\ dmabuf_formats \subseteq DmaFormats
    /\ wl_shm_formats \subseteq ShmFormats
    /\ size \in Sizes \cup {None}
    /\ pool_config \in Configs
    /\ nvnc_pool \subseteq Buffers
    /\ batch \in BOOLEAN
    /\ report \subseteq Cells
    /\ pending \subseteq Cells
    /\ fatal \in BOOLEAN
    /\ aborted \in Outcomes

BufferTypeOK ==
    /\ frame \in FrameStates
    /\ buffer \in Buffers \cup {None}
    /\ buffer_damage \in [Buffers -> SUBSET Cells]
    /\ frame_damage \in [Buffers -> SUBSET Cells]
    /\ nvnc_frame \subseteq Buffers
    /\ nvnc_refs \subseteq Buffers
    /\ stale \in [Buffers -> SUBSET Cells]

CaptureTypeOK == SessionTypeOK /\ BufferTypeOK

\* ext_image_copy_capture_create: a zeroed object with an empty pool.
CaptureInit ==
    /\ session = FALSE /\ frame = "none" /\ buffer = None
    /\ have_constraints = FALSE /\ should_start = FALSE /\ frame_count = 0
    /\ timer = FALSE
    /\ dmabuf_formats = {} /\ wl_shm_formats = {} /\ size = None
    /\ pool_config = [format |-> None, size |-> None]
    /\ nvnc_pool = {}
    /\ buffer_damage = [b \in Buffers |-> Cells]
    /\ frame_damage = [b \in Buffers |-> {}]
    /\ nvnc_frame = {} /\ nvnc_refs = {}
    /\ batch = FALSE /\ report = {} /\ pending = Cells
    /\ stale = [b \in Buffers |-> Cells]
    /\ fatal = FALSE /\ aborted = "no"

-----------------------------------------------------------------------------
(* The buffer pool.                                                        *)

\* wv_buffer_pool_reconfig(): nothing to do when the configuration matches;
\* otherwise a new nvnc_pool, which for DMA-BUFs also needs a render node.
\* The configuration is stored before the node is opened.
Reconfig(cfg, f) ==
    LET new == [format |-> f, size |-> size] IN
    IF cfg = new
    THEN [ok |-> TRUE, config |-> cfg, replaced |-> FALSE]
    ELSE [ok |-> f \in ShmFormats \/ RenderNodeOk, config |-> new, replaced |-> TRUE]

\* config_dma_buffers(): any of the acceptable formats may have the top score.
ConfigDmaBuffers ==
    LET rated == dmabuf_formats \cap Acceptable IN
    IF rated = {}
    THEN {[ok |-> FALSE, config |-> pool_config, replaced |-> FALSE]}
    ELSE {Reconfig(pool_config, f) : f \in rated}

\* config_shm_buffers(), called after config_dma_buffers() returned d.
ConfigShmBuffers(d) ==
    LET rated == wl_shm_formats \cap Acceptable IN
    IF rated = {}
    THEN {d}
    ELSE {[Reconfig(d.config, f) EXCEPT !.replaced = @ \/ d.replaced] : f \in rated}

\* config_buffers(): the outcomes it may have in the present state.
ConfigBuffers ==
    UNION {IF d.ok THEN {d} ELSE ConfigShmBuffers(d) : d \in ConfigDmaBuffers}

PoolAfter(o) == IF o.replaced THEN {} ELSE nvnc_pool

\* pool->list, the wv_buffers that exist.  A buffer is destroyed when its last
\* reference goes and the present nvnc_pool does not recycle it; replacing
\* the nvnc_pool thereby destroys the buffers that nobody references.
PoolList == nvnc_pool \cup nvnc_frame \cup nvnc_refs

\* Mutant of Settle: wv_buffer_create() does not damage the whole new buffer.
SettleUndamaged(bd) ==
    /\ buffer_damage' = [x \in Buffers |-> IF x \in PoolList' THEN bd[x] ELSE {}]
    /\ stale' = [x \in Buffers |-> IF x \in PoolList' THEN stale[x] ELSE Cells]

\* The damage (bd before the step) and the pixels of the buffers that exist
\* after a step.  One that does not is represented as wv_buffer_create() will
\* make it: all of it is buffer_damage, none of its pixels are valid.
Settle(bd) ==
    /\ buffer_damage' = [x \in Buffers |-> IF x \in PoolList' THEN bd[x] ELSE Cells]
    /\ stale' = [x \in Buffers |-> IF x \in PoolList' THEN stale[x] ELSE Cells]

\* Mutant of DamageAll: only the captured buffer is dealt with.
DamageNone(b) == [x \in Buffers |-> IF x = b THEN {} ELSE buffer_damage[x]]

\* wv_buffer_pool_damage_all() and the pixman_region_clear() after it.
DamageAll(b) ==
    [x \in Buffers |-> IF x = b THEN {} ELSE buffer_damage[x] \cup frame_damage[b]]

-----------------------------------------------------------------------------
(* The capture object.                                                     *)

\* clear_constraints(): arrays of an unfinished batch are not cleared.
ClearConstraints ==
    /\ have_constraints' = FALSE
    /\ dmabuf_formats' = IF have_constraints THEN {} ELSE dmabuf_formats
    /\ wl_shm_formats' = IF have_constraints THEN {} ELSE wl_shm_formats

\* Mutant of DeinitSession: the buffer of the frame in flight is not released.
DeinitSessionLeaking ==
    /\ ClearConstraints
    /\ frame' = "none" /\ buffer' = None
    /\ report' = {} /\ pending' = Cells /\ batch' = FALSE
    /\ UNCHANGED <<size, poolVars, nvnc_frame, frame_damage, nvnc_refs, aborted>>

\* ext_image_copy_capture_deinit_session().  Destroying the session makes the
\* compositor forget what it has reported: the first frame of the next one
\* carries full damage.
DeinitSession ==
    /\ ClearConstraints
    /\ frame' = "none" /\ buffer' = None
    /\ report' = {} /\ pending' = Cells /\ batch' = FALSE
    /\ nvnc_frame' = nvnc_frame \ {buffer}
    /\ frame_damage' = [b \in Buffers |-> IF b = buffer THEN {} ELSE frame_damage[b]]
    /\ UNCHANGED <<size, poolVars, nvnc_refs, aborted>>

\* ext_image_copy_capture_stop()
Stop ==
    /\ timer' = FALSE
    /\ DeinitSession
    /\ session' = FALSE
    /\ frame_count' = 0
    /\ UNCHANGED <<should_start, fatal>>
    /\ Settle(buffer_damage)

\* assert(!self->frame) of schedule_capture() fails: the process ends there.
AssertNoFrame ==
    /\ aborted' = "frame_assert"
    /\ UNCHANGED <<sessionVars, poolVars, damageVars, frame, buffer, frame_count,
                   nvnc_frame, nvnc_refs, report, pending, fatal>>

\* ext_image_copy_capture_schedule_capture() after its assertion.  o is the
\* outcome of config_buffers(), which is ignored; own the nvnc_frames and refs
\* all the references at the time of the call.  neatvnc's pool hands out an
\* unreferenced buffer, or else calls wv_buffer_pool__alloc(), which may fail
\* and which dereferences the gbm device of a DMA-BUF configuration.
ScheduleCapture(o, own, refs) ==
    LET free == PoolAfter(o) \ refs
        gbmOk == o.config.format \notin DmaFormats \/ RenderNodeOk
        Acquire(b) ==
            /\ frame' = "capturing" /\ buffer' = b
            /\ nvnc_frame' = own \cup {b}
            /\ nvnc_pool' = PoolAfter(o) \cup {b}
            /\ fatal' = FALSE /\ aborted' = aborted
        Fail(outcome) ==
            /\ frame' = "none" /\ buffer' = None
            /\ nvnc_frame' = own
            /\ nvnc_pool' = PoolAfter(o)
            /\ fatal' = TRUE /\ aborted' = outcome
    IN
    /\ pool_config' = o.config
    /\ \/ \E b \in free : Acquire(b)
       \/ free = {} /\ gbmOk /\ \E b \in Buffers \ (PoolAfter(o) \cup refs) : Acquire(b)
       \/ free = {} /\ gbmOk /\ Fail(aborted)
       \/ free = {} /\ ~gbmOk /\ Fail("null_gbm")
    /\ UNCHANGED <<report, pending>>

\* No buffer is acquired: the part that the early returns of start() share.
NoCapture(own) ==
    /\ frame' = "none" /\ buffer' = None
    /\ nvnc_frame' = own /\ fatal' = FALSE
    /\ UNCHANGED <<poolVars, aborted>>

\* ext_image_copy_capture_start() once it has found no frame in flight, for
\* the value fc of frame_count; own and refs are as above.  Whether the rate
\* limit leaves time to wait is up to the clock.
Start(immediate, fc, own, refs) ==
    /\ frame_count' = fc
    /\ \/ /\ immediate \/ fc = 0       \* restart_session(); buffer is NULL here
          /\ ClearConstraints
          /\ session' = TRUE /\ should_start' = TRUE /\ batch' = FALSE
          /\ report' = {} /\ pending' = Cells
          /\ NoCapture(own)
          /\ UNCHANGED <<timer, size>>
       \/ /\ ~immediate /\ fc # 0 /\ ~have_constraints
          /\ should_start' = TRUE
          /\ NoCapture(own)
          /\ UNCHANGED <<session, constraintVars, timer, report, pending>>
       \/ /\ ~immediate /\ fc # 0 /\ have_constraints   \* time_left > 0
          /\ timer' = TRUE
          /\ NoCapture(own)
          /\ UNCHANGED <<session, constraintVars, should_start, report, pending>>
       \/ /\ ~immediate /\ fc # 0 /\ have_constraints   \* time_left <= 0
          /\ timer' = FALSE
          /\ \E o \in ConfigBuffers : ScheduleCapture(o, own, refs)
          /\ UNCHANGED <<session, constraintVars, should_start>>

-----------------------------------------------------------------------------
(* The Wayland and timer callbacks that stay within the capture object.    *)

Refs == nvnc_frame \cup nvnc_refs

\* What a constraint event leaves alone.
ConstraintEvent ==
    /\ session
    /\ UNCHANGED <<session, should_start, timer, poolVars, damageVars, frame, buffer,
                   frame_count, nvnc_frame, nvnc_refs, report, pending, fatal, aborted>>

\* session_handle_format_shm()
HandleFormatShm(f) ==
    /\ ConstraintEvent
    /\ have_constraints' = FALSE
    /\ wl_shm_formats' = {f} \cup IF have_constraints THEN {} ELSE wl_shm_formats
    /\ dmabuf_formats' = IF have_constraints THEN {} ELSE dmabuf_formats
    /\ batch' = TRUE
    /\ UNCHANGED size

\* session_handle_format_drm()
HandleFormatDrm(f) ==
    /\ ConstraintEvent
    /\ have_constraints' = FALSE
    /\ dmabuf_formats' = {f} \cup IF have_constraints THEN {} ELSE dmabuf_formats
    /\ wl_shm_formats' = IF have_constraints THEN {} ELSE wl_shm_formats
    /\ batch' = TRUE
    /\ UNCHANGED size

\* session_handle_dimensions()
HandleDimensions(s) ==
    /\ ConstraintEvent
    /\ ClearConstraints
    /\ size' = s
    /\ UNCHANGED batch

\* session_handle_constraints_done().  The second config_buffers(), in
\* schedule_capture(), repeats the outcome o of the first.
HandleConstraintsDone ==
    /\ session /\ batch
    /\ UNCHANGED nvnc_refs
    /\ \E o \in ConfigBuffers :
        IF o.ok /\ should_start
        THEN IF frame # "none"
             THEN AssertNoFrame
             ELSE /\ ScheduleCapture(o, nvnc_frame, Refs)
                  /\ should_start' = FALSE
                  /\ have_constraints' = TRUE
                  /\ batch' = FALSE
                  /\ UNCHANGED <<session, timer, dmabuf_formats, wl_shm_formats, size,
                                 frame_damage, frame_count>>
                  /\ Settle(buffer_damage)
        ELSE /\ pool_config' = o.config
             /\ nvnc_pool' = PoolAfter(o)
             /\ have_constraints' = (o.ok \/ have_constraints)
             /\ batch' = FALSE
             /\ UNCHANGED <<session, should_start, timer, dmabuf_formats, wl_shm_formats,
                            size, frame_damage, frame, buffer, frame_count, nvnc_frame,
                            report, pending, fatal, aborted>>
             /\ Settle(buffer_damage)

\* ext_image_copy_capture_schedule_from_timer()
ScheduleFromTimer ==
    /\ timer
    /\ UNCHANGED nvnc_refs
    /\ IF frame # "none"
       THEN AssertNoFrame
       ELSE /\ timer' = FALSE
            /\ \E o \in ConfigBuffers : ScheduleCapture(o, nvnc_frame, Refs)
            /\ UNCHANGED <<session, constraintVars, should_start, frame_damage, frame_count>>
            /\ Settle(buffer_damage)

\* Mutant of HandleDamage: a rectangle replaces the ones before it.
HandleDamageReplacing(region) ==
    /\ frame = "ready"
    /\ region \subseteq report
    /\ report' = report \ region
    /\ frame_damage' = [frame_damage EXCEPT ![buffer] = region]
    /\ UNCHANGED <<sessionVars, poolVars, buffer_damage, stale, frame, buffer,
                   frame_count, nvnc_frame, nvnc_refs, pending, fatal, aborted>>

\* frame_handle_damage() for the rectangle of cells region.
HandleDamage(region) ==
    /\ frame = "ready"
    /\ region \subseteq report
    /\ report' = report \ region
    /\ frame_damage' = [frame_damage EXCEPT ![buffer] = @ \cup region]
    /\ UNCHANGED <<sessionVars, poolVars, buffer_damage, stale, frame, buffer,
                   frame_count, nvnc_frame, nvnc_refs, pending, fatal, aborted>>

\* Mutant of HandleFailed: a constraints failure waits for the next start().
HandleFailedGivingUp(reason) ==
    LET own == nvnc_frame \ {buffer} IN
    /\ frame = "capturing"
    /\ frame_damage' = [frame_damage EXCEPT ![buffer] = {}]
    /\ frame' = "none" /\ buffer' = None /\ nvnc_frame' = own
    /\ fatal' = (reason # "buffer_constraints")
    /\ UNCHANGED <<sessionVars, poolVars, frame_count, nvnc_refs, report, pending, aborted>>
    /\ Settle(buffer_damage)

\* frame_handle_failed(): the buffer is released, and only a constraints
\* failure starts another attempt.
HandleFailed(reason) ==
    LET own == nvnc_frame \ {buffer} IN
    /\ frame = "capturing"
    /\ frame_damage' = [frame_damage EXCEPT ![buffer] = {}]
    /\ UNCHANGED nvnc_refs
    /\ \/ /\ reason = "buffer_constraints"
          /\ Start(FALSE, frame_count, own, own \cup nvnc_refs)
       \/ /\ reason # "buffer_constraints"
          /\ frame' = "none" /\ buffer' = None /\ nvnc_frame' = own
          /\ fatal' = TRUE
          /\ UNCHANGED <<sessionVars, poolVars, frame_count, report, pending, aborted>>
    /\ Settle(buffer_damage)

-----------------------------------------------------------------------------
(* The environment: compositor, screen and neatvnc.                        *)

\* Something is drawn on the cells in region.
ScreenChange(region) ==
    /\ pending' = pending \cup region
    /\ stale' = [b \in Buffers |-> stale[b] \cup region]
    /\ UNCHANGED <<sessionVars, poolVars, buffer_damage, frame_damage, frame, buffer,
                   frame_count, nvnc_frame, nvnc_refs, report, fatal, aborted>>

\* The compositor completes the frame: it copies at least what the client
\* declared with damage_buffer and what it reports itself, and it reports at
\* least what has changed since the last frame that it completed.
CompositorCopy(damage, copied) ==
    /\ frame = "capturing"
    /\ pending \subseteq damage
    /\ buffer_damage[buffer] \cup damage \subseteq copied
    /\ frame' = "ready"
    /\ report' = damage
    /\ pending' = {}
    /\ stale' = [stale EXCEPT ![buffer] = @ \ copied]
    /\ UNCHANGED <<sessionVars, poolVars, buffer_damage, frame_damage, buffer,
                   frame_count, nvnc_frame, nvnc_refs, fatal, aborted>>

\* neatvnc drops its last reference to the frame of buffer b.
NeatvncUnref(b) ==
    /\ b \in nvnc_refs
    /\ nvnc_refs' = nvnc_refs \ {b}
    /\ UNCHANGED <<sessionVars, poolVars, frame_damage, frame, buffer, frame_count,
                   nvnc_frame, report, pending, fatal, aborted>>
    /\ Settle(buffer_damage)
=============================================================================
