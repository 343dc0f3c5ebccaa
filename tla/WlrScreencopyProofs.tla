------------------------- MODULE WlrScreencopyProofs -------------------------
(***************************************************************************)
(* Proofs about WlrScreencopy.tla, for every number of cells, buffers and  *)
(* clients.                                                                *)
(***************************************************************************)
EXTENDS WlrScreencopy, TLAPS

-----------------------------------------------------------------------------
(* What the functions that several handlers call guarantee to them.        *)

\* wlr_screencopy_start() leaves a capture in progress, and the one that was in
\* progress before it alone.
LEMMA StartEffect ==
    ASSUME Inv, NEW immediate \in BOOLEAN, Start(immediate)
    PROVE  /\ status' = "in_progress" /\ is_immediate_copy' \in BOOLEAN /\ timer' \in BOOLEAN
           /\ frame' \in {"none", "requested", "copying", "ready"}
           /\ timer' \/ frame' # "none"
           /\ timer' => frame' = "none"
           /\ front' = front /\ report' \subseteq Cells
           /\ \/ UNCHANGED <<frame, is_immediate_copy, report>>
              \/ frame = "none" /\ front = None /\ frame' \in {"none", "requested"}
           /\ restarted' \in BOOLEAN
           /\ powered /\ ~restarted' /\ ~is_immediate_copy' => Continued
<1>1. /\ status' = "in_progress" /\ is_immediate_copy' \in BOOLEAN /\ timer' \in BOOLEAN
      /\ frame' \in {"none", "requested", "copying", "ready"}
      /\ timer' \/ frame' # "none"
      /\ timer' => frame' = "none"
      /\ front' = front /\ report' \subseteq Cells
      /\ \/ UNCHANGED <<frame, is_immediate_copy, report>>
         \/ frame = "none" /\ front = None /\ frame' \in {"none", "requested"}
  BY Zenon DEF Start, Begin, captureVars, Inv, TypeOK, ExclusiveBuffers, ProgressInv, NoStall
<1>2. CASE status = "in_progress"
  BY <1>1, <1>2 DEF Start, captureVars, Inv, TypeOK, Continued
<1>3. CASE status # "in_progress"
  <2>1. /\ is_immediate_copy' = immediate
        /\ restarted' = (~immediate /\ (restarted \/ (powered /\ status \notin {"in_progress", "done"})))
    BY <1>3 DEF Start, Begin
  <2>2. restarted' \in BOOLEAN
    BY Zenon, <2>1
  <2>3. powered /\ ~restarted' /\ ~is_immediate_copy' => Continued
    BY Zenon, <1>3, <2>1 DEF Continued
  <2> QED
    BY <1>1, <2>2, <2>3
<1> QED
  BY <1>2, <1>3

\* wlr_screencopy_stop() keeps the books of the buffers and the progress; that
\* nothing is captured any more is for its callers to justify.
LEMMA StopEffect ==
    ASSUME Inv, Stop, UNCHANGED <<next_frame, rate_limiter, capture_retry_timer>>
    PROVE  /\ status' = "stopped" /\ front' = None /\ frame' = "none" /\ timer' = FALSE
           /\ is_immediate_copy' = is_immediate_copy /\ report' = {}
           /\ nvnc_frame' = nvnc_frame \ {front} /\ nvnc_refs' = nvnc_refs
           /\ frame_damage' \in [Buffers -> SUBSET Cells]
           /\ \A b \in Buffers \ {front} : frame_damage'[b] = frame_damage[b]
           /\ restarted' = restarted
           /\ ExclusiveBuffers'
<1>1. /\ status' = "stopped" /\ front' = None /\ frame' = "none" /\ timer' = FALSE
      /\ is_immediate_copy' = is_immediate_copy /\ report' = {} /\ restarted' = restarted
      /\ nvnc_frame' = nvnc_frame \ ({front} \ {None}) /\ nvnc_refs' = nvnc_refs
      /\ frame_damage' = [b \in Buffers |-> IF b \in {front} \ {None} THEN {} ELSE frame_damage[b]]
  BY DEF Stop, StopAs, Release
<1>2. None \notin nvnc_frame
  BY DEF Inv, ExclusiveBuffers
<1>3. ExclusiveBuffers'
  BY <1>1, <1>2 DEF Inv, TypeOK, ExclusiveBuffers
<1> QED
  BY <1>1, <1>2, <1>3 DEF Inv, TypeOK

\* A step that draws nothing, sends nothing and neither completes nor drops a
\* completed frame keeps DamageInv.
LEMMA DamageKept ==
    ASSUME DamageInv, UNCHANGED <<next_frame, pixelVars>>, Continued' => Continued,
           frame' = "ready" => frame = "ready" /\ front' = front,
           Arriving' = Arriving, Waiting' = Waiting
    PROVE  DamageInv'
  BY Zenon DEF DamageInv, pixelVars

-----------------------------------------------------------------------------
(* Every handler preserves the invariant.                                  *)

\* screencopy__poll()
LEMMA PollInv == Inv /\ Poll => Inv'
<1>. SUFFICES ASSUME Inv, Poll PROVE Inv'
  OBVIOUS
<1>. USE DEF Poll, bufferVars, mainVars, powerVars, pixelVars, Inv
<1>1. TypeOK'
  BY Zenon DEF TypeOK
<1>2. ExclusiveBuffers'
  BY DEF TypeOK, ExclusiveBuffers, ProgressInv, NoStall
<1>3. ProgressInv'
  BY DEF TypeOK, ProgressInv, NoStall, Watched
<1>4. DamageInv'
  <2>1. frame = "none" /\ frame' = "requested"
    BY DEF ProgressInv
  <2> QED
    BY <2>1, DamageKept DEF Arriving, Waiting, Continued
<1> QED
  BY <1>1, <1>2, <1>3, <1>4

\* screencopy_buffer_done()
LEMMA BufferDoneInv == Inv /\ BufferDone => Inv'
<1>. SUFFICES ASSUME Inv, BufferDone PROVE Inv'
  OBVIOUS
<1>. USE DEF bufferVars, mainVars, powerVars, pixelVars, Inv
<1>1. /\ frame = "requested" /\ front = None /\ status = "in_progress" /\ ~timer
      /\ UNCHANGED <<next_frame, rate_limiter, capture_retry_timer, nr_clients, power,
                     wlr_output_power, powered, pending, stale, fed, view>>
  BY DEF BufferDone, ExclusiveBuffers, ProgressInv, NoStall
<1>2. CASE \E b \in Buffers \ (nvnc_frame \cup nvnc_refs) :
            /\ front' = b
            /\ nvnc_frame' = nvnc_frame \cup {b}
            /\ frame' = "copying"
            /\ UNCHANGED <<status, is_immediate_copy, timer, report, restarted,
                           frame_damage, nvnc_refs>>
  <2>1. PICK b \in Buffers \ (nvnc_frame \cup nvnc_refs) :
            /\ front' = b
            /\ nvnc_frame' = nvnc_frame \cup {b}
            /\ frame' = "copying"
            /\ UNCHANGED <<status, is_immediate_copy, timer, report, restarted,
                           frame_damage, nvnc_refs>>
    BY <1>2
  <2>2. TypeOK'
    BY <1>1, <2>1 DEF TypeOK
  <2>3. ExclusiveBuffers'
    BY <1>1, <2>1, BuffersAssumption DEF TypeOK, ExclusiveBuffers
  <2>4. ProgressInv'
    BY <1>1, <2>1 DEF TypeOK, ProgressInv, NoStall, Watched
  <2>5. DamageInv'
    BY <1>1, <2>1, DamageKept DEF Arriving, Waiting, Continued
  <2> QED
    BY <2>2, <2>3, <2>4, <2>5
<1>3. CASE StopAs("fatal") /\ UNCHANGED bufferVars
  <2>2. TypeOK'
    BY <1>1, <1>3, Zenon DEF TypeOK, StopAs
  <2>3. ExclusiveBuffers'
    BY <1>1, <1>3 DEF StopAs, ExclusiveBuffers
  <2>4. ProgressInv'
    BY <1>1, <1>3 DEF StopAs, ProgressInv, NoStall, Watched
  <2>5. DamageInv'
    BY <1>1, <1>3, DamageKept DEF StopAs, Arriving, Waiting, Continued
  <2> QED
    BY <2>2, <2>3, <2>4, <2>5
<1> QED
  BY <1>2, <1>3 DEF BufferDone

\* screencopy_damage()
LEMMA DamageEventInv == Inv /\ DamageEvent => Inv'
<1>. SUFFICES ASSUME Inv, NEW region \in SUBSET Cells, Damage(region) PROVE Inv'
  BY DEF DamageEvent
<1>. USE DEF Damage, mainVars, powerVars, pixelVars, Inv
<1>1. front \in Buffers /\ front # next_frame
  BY DEF TypeOK, ExclusiveBuffers
<1>2. TypeOK'
  BY <1>1 DEF TypeOK
<1>3. ExclusiveBuffers'
  BY DEF ExclusiveBuffers
<1>4. ProgressInv'
  BY DEF ProgressInv, NoStall, Watched
<1>5. DamageInv'
  <2>1. Waiting' = Waiting
    BY <1>1 DEF Waiting, TypeOK
  <2>2. Arriving' = Arriving
    <3>1. report \cup frame_damage[front] = report' \cup frame_damage'[front]
      BY <1>1 DEF TypeOK
    <3> QED
      BY <3>1 DEF Arriving
  <2> QED
    BY <2>1, <2>2, DamageKept DEF Continued
<1> QED
  BY <1>2, <1>3, <1>4, <1>5

\* screencopy_ready(): the frame takes the place of one that waits.
LEMMA SupersedeInv ==
    ASSUME Inv, frame = "ready", report = {}, Supersede,
           UNCHANGED <<capture_retry_timer, nr_clients, powerVars>>
    PROVE  Inv'
<1>. USE DEF pixelVars, powerVars, Inv
<1>1. /\ front \in Buffers /\ next_frame \in Buffers /\ front # next_frame
      /\ rate_limiter
  BY DEF Supersede, TypeOK, ExclusiveBuffers, ProgressInv
<1>2. /\ status' = "done" /\ timer' = FALSE /\ frame' = "none" /\ report' = {} /\ front' = None
      /\ next_frame' = front /\ nvnc_frame' = nvnc_frame \ {next_frame}
      /\ UNCHANGED <<is_immediate_copy, nvnc_refs, rate_limiter, capture_retry_timer, nr_clients,
                     power, wlr_output_power, powered, restarted, pending, stale, fed, view>>
  BY DEF Supersede, StopAs
<1>3. ReadyDamage \subseteq Cells
  BY <1>1 DEF ReadyDamage, TypeOK
<1>4. /\ frame_damage' \in [Buffers -> SUBSET Cells]
      /\ frame_damage'[front] = ReadyDamage \cup frame_damage[next_frame]
  BY <1>1, <1>3 DEF Supersede, TypeOK
<1>5. TypeOK'
  BY <1>1, <1>2, <1>4, Zenon DEF TypeOK
<1>6. ExclusiveBuffers'
  BY <1>1, <1>2, BuffersAssumption DEF TypeOK, ExclusiveBuffers
<1>7. ProgressInv'
  BY <1>1, <1>2, BuffersAssumption DEF ProgressInv, NoStall, Watched
<1>8. DamageInv'
  <2>1. Arriving' = {} /\ Waiting' = ReadyDamage \cup Waiting /\ Arriving = ReadyDamage
    BY <1>1, <1>2, <1>4, BuffersAssumption DEF Arriving, Waiting, ReadyDamage
  <2>2. CASE is_immediate_copy
    BY <1>1, <1>2, <2>1, <2>2 DEF DamageInv, ReadyDamage, TypeOK
  <2>3. CASE ~is_immediate_copy
    <3>1. Continued' => Continued
      BY <1>2, <2>3 DEF Continued, ProgressInv, NoStall
    <3> QED
      BY <1>2, <2>1, <3>1 DEF DamageInv
  <2> QED
    BY <2>2, <2>3
<1> QED
  BY <1>5, <1>6, <1>7, <1>8

\* screencopy_ready(): the frame has to wait for the rate limiter.
LEMMA PostponeInv ==
    ASSUME Inv, frame = "ready", report = {}, Postpone,
           UNCHANGED <<capture_retry_timer, nr_clients, powerVars>>
    PROVE  Inv'
<1>. USE DEF pixelVars, powerVars, Inv
<1>1. front \in Buffers /\ next_frame = None
  BY DEF Postpone, TypeOK, ExclusiveBuffers
<1>2. /\ status' = "done" /\ timer' = FALSE /\ frame' = "none" /\ report' = {} /\ front' = None
      /\ next_frame' = front /\ rate_limiter' = TRUE
      /\ UNCHANGED <<is_immediate_copy, nvnc_frame, nvnc_refs, capture_retry_timer, nr_clients,
                     power, wlr_output_power, powered, restarted, pending, stale, fed, view>>
  BY DEF Postpone, StopAs
<1>3. ReadyDamage \subseteq Cells
  BY <1>1 DEF ReadyDamage, TypeOK
<1>4. /\ frame_damage' \in [Buffers -> SUBSET Cells]
      /\ frame_damage'[front] = ReadyDamage
  BY <1>1, <1>3 DEF Postpone, TypeOK
<1>5. TypeOK'
  BY <1>1, <1>2, <1>4, Zenon DEF TypeOK
<1>6. ExclusiveBuffers'
  BY <1>1, <1>2, BuffersAssumption DEF TypeOK, ExclusiveBuffers
<1>7. ProgressInv'
  BY <1>1, <1>2, BuffersAssumption DEF ProgressInv, NoStall, Watched
<1>8. DamageInv'
  <2>1. Arriving' = {} /\ Waiting' = ReadyDamage /\ Arriving = ReadyDamage /\ Waiting = {}
    BY <1>1, <1>2, <1>4, BuffersAssumption DEF Arriving, Waiting, ReadyDamage
  <2>2. CASE is_immediate_copy
    BY <1>1, <1>2, <2>1, <2>2 DEF DamageInv, ReadyDamage, TypeOK
  <2>3. CASE ~is_immediate_copy
    <3>1. Continued' => Continued
      BY <1>2, <2>3 DEF Continued, ProgressInv, NoStall
    <3> QED
      BY <1>2, <2>1, <3>1 DEF DamageInv
  <2> QED
    BY <2>2, <2>3
<1> QED
  BY <1>5, <1>6, <1>7, <1>8

\* screencopy_ready(): the frame is sent at once.
LEMMA SendAtOnceInv ==
    ASSUME Inv, frame = "ready", report = {}, SendAtOnce,
           UNCHANGED <<capture_retry_timer, nr_clients, powerVars>>
    PROVE  Inv'
<1>. USE DEF powerVars, Inv
<1>1. front \in Buffers /\ next_frame = None
  BY DEF SendAtOnce, TypeOK, ExclusiveBuffers
<1>2. ReadyDamage \subseteq Cells
  BY <1>1 DEF ReadyDamage, TypeOK
<1>3. /\ frame_damage' = [frame_damage EXCEPT ![front] = {}]
      /\ Begin(FALSE)
  BY Zenon DEF SendAtOnce, SendNextFrame
<1>4. /\ view' = (view \ ReadyDamage) \cup (stale[front] \cap ReadyDamage)
      /\ fed' = stale[front] /\ next_frame' = None
      /\ nvnc_frame' = nvnc_frame \ {front} /\ nvnc_refs' = nvnc_refs \cup {front}
      /\ frame_damage' \in [Buffers -> SUBSET Cells]
      /\ pending' = pending /\ stale' = stale
      /\ view' \subseteq Cells /\ fed' \subseteq Cells
      /\ nvnc_frame' \subseteq Buffers /\ nvnc_refs' \subseteq Buffers
  <2>1. /\ view' = (view \ ReadyDamage) \cup (stale[front] \cap ReadyDamage)
        /\ fed' = stale[front] /\ next_frame' = None
        /\ nvnc_frame' = nvnc_frame \ {front} /\ nvnc_refs' = nvnc_refs \cup {front}
        /\ pending' = pending /\ stale' = stale
    BY DEF SendAtOnce, SendNextFrame
  <2> QED
    BY <1>1, <1>2, <1>3, <2>1 DEF TypeOK
<1>5. /\ status' = "in_progress" /\ front' = None /\ report' = {} /\ is_immediate_copy' = FALSE
      /\ (timer' = TRUE /\ frame' = "none") \/ (timer' = FALSE /\ frame' = "requested")
      /\ UNCHANGED <<rate_limiter, capture_retry_timer, nr_clients, power, wlr_output_power,
                     powered, restarted>>
  <2>1. UNCHANGED <<rate_limiter, capture_retry_timer, nr_clients, power, wlr_output_power, powered>>
    BY DEF SendAtOnce
  <2>2. restarted' = restarted
    <3>1. status = "in_progress" /\ restarted \in BOOLEAN
      BY DEF ProgressInv, NoStall, TypeOK
    <3>2. restarted' = (~FALSE /\ (restarted \/ (powered /\ status \notin {"in_progress", "done"})))
      BY <1>3 DEF Begin
    <3> QED
      BY Zenon, <3>1, <3>2
  <2> QED
    BY Zenon, <1>3, <2>1, <2>2 DEF Begin
<1>6. TypeOK'
  BY <1>1, <1>4, <1>5, Zenon DEF TypeOK
<1>7. ExclusiveBuffers'
  BY <1>1, <1>4, <1>5, BuffersAssumption DEF TypeOK, ExclusiveBuffers
<1>8. ProgressInv'
  BY <1>1, <1>4, <1>5 DEF ProgressInv, NoStall, Watched
<1>9. DamageInv'
  <2>1. Arriving' = {} /\ Waiting' = {} /\ Arriving = ReadyDamage /\ Waiting = {}
    BY <1>1, <1>4, <1>5 DEF Arriving, Waiting, ReadyDamage
  <2>2. stale[front] \subseteq pending
    BY DEF DamageInv
  <2>3. Continued' => view' \subseteq pending
    <3>1. CASE is_immediate_copy
      BY <1>4, <2>2, <3>1 DEF ReadyDamage, TypeOK
    <3>2. CASE ~is_immediate_copy
      <4>1. Continued' => Continued
        BY <1>5, <3>2 DEF Continued, ProgressInv, NoStall
      <4> QED
        BY <1>4, <2>1, <2>2, <4>1 DEF DamageInv
    <3> QED
      BY <3>1, <3>2
  <2> QED
    BY <1>4, <1>5, <2>1, <2>2, <2>3 DEF DamageInv
<1> QED
  BY <1>6, <1>7, <1>8, <1>9

\* screencopy_ready() and wayvnc_process_frame()
LEMMA ReadyInv == Inv /\ Ready => Inv'
  BY SupersedeInv, PostponeInv, SendAtOnceInv DEF Ready

\* wayvnc_handle_rate_limit_timeout()
LEMMA RateLimitTimeoutInv == Inv /\ RateLimitTimeout => Inv'
<1>. SUFFICES ASSUME Inv, RateLimitTimeout PROVE Inv'
  OBVIOUS
<1>. USE DEF powerVars, Inv
<1>1. rate_limiter' = FALSE /\ UNCHANGED <<capture_retry_timer, nr_clients, power, wlr_output_power, powered>>
  BY DEF RateLimitTimeout
<1>2. CASE next_frame = None
  <2>1. UNCHANGED <<captureVars, bufferVars, pixelVars, next_frame>>
    BY <1>2 DEF RateLimitTimeout
  <2>. USE DEF captureVars, bufferVars, pixelVars
  <2>2. TypeOK'
    BY <1>1, <2>1, Zenon DEF TypeOK
  <2>3. ExclusiveBuffers'
    BY <2>1 DEF ExclusiveBuffers
  <2>4. ProgressInv'
    BY <1>1, <1>2, <2>1 DEF ProgressInv, NoStall, Watched
  <2>5. DamageInv'
    BY <1>1, <2>1, DamageKept DEF Arriving, Waiting, Continued
  <2> QED
    BY <2>2, <2>3, <2>4, <2>5
<1>3. CASE next_frame # None
  <2>. DEFINE b == next_frame
              d == frame_damage[next_frame]
  <2>1. b \in Buffers /\ d \in SUBSET Cells /\ b # front
    BY <1>3 DEF TypeOK, ExclusiveBuffers
  <2>2. /\ view' = (view \ d) \cup (stale[b] \cap d)
        /\ fed' = stale[b] /\ next_frame' = None
        /\ nvnc_frame' = nvnc_frame \ {b} /\ nvnc_refs' = nvnc_refs \cup {b}
        /\ frame_damage' = [frame_damage EXCEPT ![b] = {}]
        /\ pending' = pending /\ stale' = stale
        /\ Start(FALSE)
    BY Zenon, <1>3 DEF RateLimitTimeout, SendNextFrame
  <2>3. /\ frame_damage' \in [Buffers -> SUBSET Cells]
        /\ \A x \in Buffers \ {b} : frame_damage'[x] = frame_damage[x]
        /\ view' \subseteq Cells /\ fed' \subseteq Cells
        /\ nvnc_frame' \subseteq Buffers /\ nvnc_refs' \subseteq Buffers
    BY <2>1, <2>2 DEF TypeOK
  <2>4. /\ status' = "in_progress" /\ is_immediate_copy' \in BOOLEAN /\ timer' \in BOOLEAN
        /\ frame' \in {"none", "requested", "copying", "ready"}
        /\ timer' \/ frame' # "none"
        /\ timer' => frame' = "none"
        /\ front' = front /\ report' \subseteq Cells
        /\ \/ UNCHANGED <<frame, is_immediate_copy, report>>
           \/ frame = "none" /\ front = None /\ frame' \in {"none", "requested"}
        /\ restarted' \in BOOLEAN
        /\ powered /\ ~restarted' /\ ~is_immediate_copy' => Continued
    BY <2>2, StartEffect, Zenon
  <2>5. TypeOK'
    BY <1>1, <2>2, <2>3, <2>4, Zenon DEF TypeOK
  <2>6. ExclusiveBuffers'
    BY <2>1, <2>2, <2>4, BuffersAssumption DEF TypeOK, ExclusiveBuffers
  <2>7. ProgressInv'
    BY <1>1, <2>2, <2>3, <2>4 DEF ProgressInv, NoStall, Watched
  <2>8. DamageInv'
    <3>1. Waiting' = {} /\ Waiting = d
      BY <1>3, <2>2 DEF Waiting
    <3>2. Arriving' = Arriving
      <4>1. frame = "ready" => front \in Buffers \ {b}
        BY <2>1 DEF TypeOK, ExclusiveBuffers
      <4>2. CASE frame' # "ready"
        BY <2>4, <4>2 DEF Arriving
      <4>3. CASE frame' = "ready"
        <5>1. /\ UNCHANGED <<frame, is_immediate_copy, report, front>>
              /\ frame_damage'[front] = frame_damage[front]
          BY <2>3, <2>4, <4>1, <4>3
        <5> QED
          BY Zenon, <5>1 DEF Arriving
      <4> QED
        BY <4>2, <4>3
    <3>3. frame' = "ready" => stale'[front'] \subseteq pending'
      BY <2>2, <2>4 DEF DamageInv
    <3>4. Continued' => Continued
      BY <1>1, <2>4 DEF Continued
    <3>5. Continued =>
            /\ view \subseteq pending \cup Arriving \cup d
            /\ stale[b] \subseteq pending \cup Arriving
      BY <1>3, <3>1 DEF DamageInv
    <3>. HIDE DEF b, d
    <3>6. Continued => view' \subseteq pending \cup Arriving
      BY <2>2, <3>5
    <3> QED
      BY <2>2, <3>1, <3>2, <3>3, <3>4, <3>5, <3>6 DEF DamageInv
  <2> QED
    BY <2>5, <2>6, <2>7, <2>8
<1> QED
  BY <1>2, <1>3

\* screencopy_failed() and wayvnc_restart_capture()
LEMMA FailedInv == Inv /\ Failed => Inv'
<1>. SUFFICES ASSUME Inv, Failed PROVE Inv'
  OBVIOUS
<1>. USE DEF powerVars, pixelVars, Inv
<1>1. /\ frame \in {"requested", "copying"} /\ status' = "failed" /\ timer' = FALSE
      /\ frame' = "none" /\ report' = {} /\ front' = None
      /\ nvnc_frame' = nvnc_frame \ ({front} \ {None})
      /\ frame_damage' = [b \in Buffers |-> IF b \in {front} \ {None} THEN {} ELSE frame_damage[b]]
      /\ capture_retry_timer' = TRUE
      /\ UNCHANGED <<is_immediate_copy, restarted, nvnc_refs, next_frame, rate_limiter, nr_clients,
                     power, wlr_output_power, powered, pending, stale, fed, view>>
  BY DEF Failed, StopAs, Release
<1>2. TypeOK'
  BY <1>1, Zenon DEF TypeOK
<1>3. ExclusiveBuffers'
  BY <1>1 DEF TypeOK, ExclusiveBuffers
<1>4. ProgressInv'
  BY <1>1 DEF ProgressInv, NoStall
<1>5. DamageInv'
  <2>1. next_frame # None => frame_damage'[next_frame] = frame_damage[next_frame]
    BY <1>1 DEF TypeOK, ExclusiveBuffers
  <2> QED
    BY <1>1, <2>1, DamageKept DEF Arriving, Waiting, Continued
<1> QED
  BY <1>2, <1>3, <1>4, <1>5

\* wlr_screencopy_start(TRUE), or nothing when the start is left to the retry
\* timer or to the power of the output, keeps the invariant in a step that
\* changes nothing else of the capture and of the pixels.
LEMMA StartOrWaitInv ==
    ASSUME Inv, Start(TRUE) \/ UNCHANGED captureVars,
           UNCHANGED <<bufferVars, next_frame, rate_limiter, powered, pending, stale, fed>>,
           nr_clients' \in 0..MaxClients, capture_retry_timer' \in BOOLEAN,
           wlr_output_power' \in BOOLEAN, view' = view \/ view' = fed,
           power' \in {"unknown", "on", "off"},
           power' # "unknown" => wlr_output_power' /\ (power' = "on") = powered',
           wlr_output_power' => PowerManager,
           NoStall'
    PROVE  Inv'
<1>. USE DEF bufferVars, captureVars, Inv
<1>1. /\ is_immediate_copy' \in BOOLEAN /\ timer' \in BOOLEAN
      /\ frame' \in {"none", "requested", "copying", "ready"}
      /\ status' \in {"stopped", "in_progress", "failed", "fatal", "done"}
      /\ timer' => frame' = "none"
      /\ front' = front /\ report' \subseteq Cells
      /\ \/ UNCHANGED <<frame, is_immediate_copy, report>>
         \/ frame = "none" /\ front = None /\ frame' \in {"none", "requested"}
      /\ restarted' \in BOOLEAN
      /\ Continued' => Continued
  <2>1. CASE Start(TRUE)
    BY <2>1, StartEffect, Zenon DEF Continued
  <2>2. CASE UNCHANGED captureVars
    BY <2>2 DEF TypeOK, ProgressInv, Continued
  <2> QED
    BY <2>1, <2>2, Zenon
<1>2. TypeOK'
  BY <1>1 DEF TypeOK
<1>3. ExclusiveBuffers'
  BY <1>1 DEF ExclusiveBuffers
<1>4. ProgressInv'
  BY <1>1 DEF ProgressInv
<1>5. DamageInv'
  <2>1. Waiting' = Waiting
    BY DEF Waiting
  <2>2. Arriving' = Arriving
    <3>1. CASE frame' # "ready"
      BY <1>1, <3>1 DEF Arriving
    <3>2. CASE frame' = "ready"
      <4>1. UNCHANGED <<frame, is_immediate_copy, report, front, frame_damage>>
        BY <1>1, <3>2
      <4> QED
        BY Zenon, <4>1 DEF Arriving
    <3> QED
      BY <3>1, <3>2
  <2>3. frame' = "ready" => stale'[front'] \subseteq pending'
    BY <1>1 DEF DamageInv
  <2> QED
    BY <1>1, <2>1, <2>2, <2>3 DEF DamageInv
<1> QED
  BY <1>2, <1>3, <1>4, <1>5

\* A capture in progress is no stall.
LEMMA InProgressNoStall ==
    ASSUME Inv, Start(TRUE)
    PROVE  NoStall'
  BY StartEffect, Zenon DEF NoStall

\* on_capture_restart_timer()
LEMMA CaptureRestartTimerInv == Inv /\ CaptureRestartTimer => Inv'
<1>. SUFFICES ASSUME Inv, CaptureRestartTimer PROVE Inv'
  OBVIOUS
<1>1. /\ capture_retry_timer' = FALSE /\ StartCaptureImmediate(FALSE)
      /\ UNCHANGED <<bufferVars, pending, stale, fed, view, next_frame, rate_limiter, nr_clients,
                     power, powered>>
  BY Zenon DEF CaptureRestartTimer, pixelVars
<1>2. nr_clients' \in 0..MaxClients /\ capture_retry_timer' \in BOOLEAN
  BY <1>1, Zenon DEF Inv, TypeOK
<1>3. CASE Start(TRUE) /\ UNCHANGED wlr_output_power
  BY <1>1, <1>2, <1>3, StartOrWaitInv, InProgressNoStall DEF Inv, TypeOK, ProgressInv
<1>4. CASE ~wlr_output_power /\ PowerManager /\ wlr_output_power' = TRUE /\ UNCHANGED captureVars
  <2>1. power = "unknown"
    BY <1>4 DEF Inv, ProgressInv
  <2>2. NoStall'
    BY <1>1, <1>4, <2>1, SMTT(30) DEF Inv, ProgressInv, NoStall, Watched, captureVars
  <2> QED
    BY <1>1, <1>2, <1>4, <2>1, <2>2, StartOrWaitInv
<1>5. CASE /\ wlr_output_power /\ power # "on"
           /\ UNCHANGED <<captureVars, wlr_output_power>>
  <2>1. NoStall'
    BY <1>1, <1>5 DEF Inv, ProgressInv, NoStall, Watched, captureVars
  <2> QED
    BY <1>1, <1>2, <1>5, <2>1, StartOrWaitInv DEF Inv, TypeOK, ProgressInv
<1> QED
  BY <1>1, <1>3, <1>4, <1>5, Zenon DEF StartCaptureImmediate

\* on_nvnc_client_new()
LEMMA ClientNewInv == Inv /\ ClientNew => Inv'
<1>. SUFFICES ASSUME Inv, ClientNew PROVE Inv'
  OBVIOUS
<1>1. /\ nr_clients' = nr_clients + 1 /\ nr_clients < MaxClients
      /\ UNCHANGED <<bufferVars, next_frame, rate_limiter, capture_retry_timer, power,
                     powered, pending, stale, fed>>
  BY DEF ClientNew
<1>2. nr_clients' \in 0..MaxClients /\ capture_retry_timer' \in BOOLEAN /\ nr_clients \in Nat
  BY <1>1, ClientsAssumption, SMTT(30) DEF Inv, TypeOK
<1>3. CASE nr_clients # 0
  <2>1. UNCHANGED <<captureVars, wlr_output_power, view>>
    BY <1>3 DEF ClientNew
  <2>2. nr_clients > 0
    BY <1>2, <1>3
  <2>3. NoStall'
    BY Zenon, <1>1, <2>1, <2>2 DEF Inv, ProgressInv, NoStall, Watched, captureVars
  <2> QED
    BY <1>1, <1>2, <2>1, <2>3, StartOrWaitInv DEF Inv, TypeOK, ProgressInv
<1>4. CASE nr_clients = 0
  <2>1. StartCaptureImmediate(capture_retry_timer) /\ view' = fed
    BY <1>4 DEF ClientNew
  <2>2. CASE Start(TRUE) /\ UNCHANGED wlr_output_power
    BY <1>1, <1>2, <2>1, <2>2, StartOrWaitInv, InProgressNoStall DEF Inv, TypeOK, ProgressInv
  <2>3. CASE ~wlr_output_power /\ PowerManager /\ wlr_output_power' = TRUE /\ UNCHANGED captureVars
    <3>1. power = "unknown"
      BY <2>3 DEF Inv, ProgressInv
    <3>2. NoStall'
      BY <1>1, <2>3, <3>1, SMTT(30) DEF Inv, ProgressInv, NoStall, Watched, captureVars
    <3> QED
      BY <1>1, <1>2, <2>1, <2>3, <3>1, <3>2, StartOrWaitInv
  <2>4. CASE /\ capture_retry_timer \/ (wlr_output_power /\ power # "on")
             /\ UNCHANGED <<captureVars, wlr_output_power>>
    <3>1. NoStall'
      BY <1>1, <2>4 DEF Inv, ProgressInv, NoStall, Watched, captureVars
    <3> QED
      BY <1>1, <1>2, <2>1, <2>4, <3>1, StartOrWaitInv DEF Inv, TypeOK, ProgressInv
  <2> QED
    BY <2>1, <2>2, <2>3, <2>4, Zenon DEF StartCaptureImmediate
<1> QED
  BY <1>3, <1>4

\* client_destroy()
LEMMA ClientDestroyInv == Inv /\ ClientDestroy => Inv'
<1>. SUFFICES ASSUME Inv, ClientDestroy PROVE Inv'
  OBVIOUS
<1>. USE DEF pixelVars, powerVars
<1>1. /\ nr_clients > 0 /\ nr_clients' = nr_clients - 1
      /\ UNCHANGED <<next_frame, rate_limiter, capture_retry_timer, powered, pending, stale, fed,
                     view>>
  BY DEF ClientDestroy
<1>2. nr_clients \in Nat /\ nr_clients' \in 0..MaxClients /\ capture_retry_timer' \in BOOLEAN
  BY <1>1, ClientsAssumption, SMTT(30) DEF Inv, TypeOK
<1>3. CASE nr_clients # 1
  <2>1. UNCHANGED <<captureVars, bufferVars, power, wlr_output_power>>
    BY <1>3 DEF ClientDestroy
  <2>2. NoStall'
    BY Zenon, <1>1, <2>1 DEF Inv, ProgressInv, NoStall, Watched, captureVars
  <2> QED
    BY <1>1, <1>2, <2>1, <2>2, StartOrWaitInv DEF Inv, TypeOK, ProgressInv
<1>4. CASE nr_clients = 1
  <2>1. Stop /\ wlr_output_power' = FALSE /\ power' = IF wlr_output_power THEN "unknown" ELSE power
    BY <1>4 DEF ClientDestroy
  <2>2. power' = "unknown"
    BY <2>1 DEF Inv, ProgressInv
  <2>3. /\ status' = "stopped" /\ front' = None /\ frame' = "none" /\ timer' = FALSE
        /\ is_immediate_copy' = is_immediate_copy /\ report' = {}
        /\ nvnc_frame' = nvnc_frame \ {front} /\ nvnc_refs' = nvnc_refs
        /\ frame_damage' \in [Buffers -> SUBSET Cells] /\ restarted' = restarted
        /\ ExclusiveBuffers'
    BY <1>1, <2>1, StopEffect
  <2>4. TypeOK'
    BY <1>1, <1>2, <2>1, <2>2, <2>3, Zenon DEF Inv, TypeOK
  <2>5. ~Watched'
    BY <1>1, <1>4 DEF Watched
  <2>6. ProgressInv'
    BY <1>1, <2>1, <2>2, <2>3, <2>5 DEF Inv, ProgressInv, NoStall
  <2>7. DamageInv'
    BY <2>3 DEF DamageInv, Continued
  <2> QED
    BY <2>3, <2>4, <2>6, <2>7 DEF Inv
<1> QED
  BY <1>3, <1>4

\* An output that turns out to be on is captured, or nobody watches it, or the
\* retry timer will start the capture.
LEMMA PowerOnNoStall ==
    ASSUME Inv, UNCHANGED <<next_frame, rate_limiter, nr_clients, capture_retry_timer>>,
           \/ Start(TRUE)
           \/ UNCHANGED captureVars /\ (nr_clients = 0 \/ capture_retry_timer)
    PROVE  NoStall'
<1>1. CASE Start(TRUE)
  BY <1>1, InProgressNoStall
<1>2. CASE UNCHANGED captureVars /\ nr_clients = 0
  <2>1. ~Watched'
    BY <1>2 DEF Watched
  <2> QED
    BY <1>2, <2>1 DEF Inv, ProgressInv, NoStall, captureVars
<1>3. CASE UNCHANGED captureVars /\ capture_retry_timer
  BY <1>3 DEF Inv, ProgressInv, NoStall, captureVars
<1> QED
  BY <1>1, <1>2, <1>3, Zenon

\* output_power_mode(): wayvnc learns that the output is on, and goes on from
\* where it is unless an immediate copy begins.
LEMMA PowerKnownInv ==
    ASSUME Inv, PowerMode("on"), powered
    PROVE  Inv'
<1>1. /\ power' = "on" /\ powered' = powered /\ pending' = pending
      /\ UNCHANGED <<bufferVars, mainVars, stale, wlr_output_power, fed, view>>
  <2>1. powered = TRUE /\ powered' = TRUE
    BY Zenon DEF PowerMode, Inv, TypeOK
  <2> QED
    BY <2>1, Zenon DEF PowerMode
<1>2. \/ Start(TRUE)
      \/ /\ UNCHANGED captureVars
         /\ nr_clients = 0 \/ capture_retry_timer
  BY Zenon DEF PowerMode
<1>3. NoStall'
  BY <1>1, <1>2, PowerOnNoStall, Zenon DEF mainVars
<1>4. /\ nr_clients' \in 0..MaxClients /\ capture_retry_timer' \in BOOLEAN
      /\ wlr_output_power /\ wlr_output_power' \in BOOLEAN /\ (wlr_output_power' => PowerManager)
      /\ power' \in {"unknown", "on", "off"} /\ (power' = "on") = powered'
  <2>1. (power' = "on") = powered'
    BY Zenon DEF PowerMode
  <2> QED
    BY <1>1, <2>1 DEF PowerMode, Inv, TypeOK, ProgressInv, mainVars
<1> QED
  BY <1>1, <1>2, <1>3, <1>4, StartOrWaitInv, Zenon DEF mainVars

\* output_power_mode(): an output that has been turned on is drawn anew, so that
\* DamageInv holds whatever was captured before.
LEMMA TurnedOnInv ==
    ASSUME Inv, PowerMode("on"), ~powered
    PROVE  Inv'
<1>. USE DEF bufferVars, captureVars, mainVars
<1>1. /\ wlr_output_power /\ power' = "on" /\ powered' = TRUE /\ pending' = Cells
      /\ UNCHANGED <<bufferVars, mainVars, stale, wlr_output_power, fed, view>>
  <2>1. powered' = TRUE
    BY Zenon DEF PowerMode
  <2> QED
    BY <2>1, Zenon DEF PowerMode
<1>2. \/ Start(TRUE)
      \/ /\ UNCHANGED captureVars
         /\ nr_clients = 0 \/ capture_retry_timer
  BY Zenon DEF PowerMode
<1>3. /\ is_immediate_copy' \in BOOLEAN /\ timer' \in BOOLEAN
      /\ frame' \in {"none", "requested", "copying", "ready"}
      /\ status' \in {"stopped", "in_progress", "failed", "fatal", "done"}
      /\ timer' => frame' = "none"
      /\ front' = front /\ report' \subseteq Cells
      /\ frame' = "ready" => frame = "ready"
      /\ frame' \in {"none", "requested"} <=> frame \in {"none", "requested"}
      /\ restarted' \in BOOLEAN
  <2>1. CASE Start(TRUE)
    BY <2>1, StartEffect, Zenon
  <2>2. CASE UNCHANGED captureVars
    BY <2>2 DEF Inv, TypeOK, ProgressInv
  <2> QED
    BY <1>2, <2>1, <2>2, Zenon
<1>4. TypeOK'
  BY <1>1, <1>3 DEF Inv, TypeOK
<1>5. ExclusiveBuffers'
  BY <1>1, <1>3 DEF Inv, ExclusiveBuffers
<1>6. NoStall'
  BY <1>1, <1>2, PowerOnNoStall, Zenon
<1>7. ProgressInv'
  BY <1>1, <1>3, <1>6, Zenon DEF Inv, ProgressInv
<1>8. DamageInv'
  <2>1. frame' = "ready" => front' \in Buffers
    BY <1>3 DEF Inv, TypeOK, ExclusiveBuffers
  <2>2. /\ view' \subseteq Cells /\ fed' \subseteq Cells
        /\ frame' = "ready" => stale'[front'] \subseteq Cells
        /\ next_frame' # None => stale'[next_frame'] \subseteq Cells
    BY <1>4, <2>1 DEF TypeOK
  <2> QED
    BY <1>1, <2>2 DEF DamageInv
<1> QED
  BY <1>4, <1>5, <1>7, <1>8 DEF Inv

\* output_power_mode() of an output that is on
LEMMA PowerOnInv == Inv /\ PowerMode("on") => Inv'
  BY PowerKnownInv, TurnedOnInv

\* output_power_mode(): the capture of an output that has been turned off stops.
LEMMA PowerOffInv == Inv /\ PowerMode("off") => Inv'
<1>. SUFFICES ASSUME Inv, PowerMode("off") PROVE Inv'
  OBVIOUS
<1>. USE DEF mainVars
<1>1. /\ wlr_output_power /\ power' = "off" /\ powered' = FALSE
      /\ UNCHANGED <<mainVars, pending, stale, wlr_output_power>>
  <2>1. powered' = FALSE
    BY Zenon DEF PowerMode
  <2> QED
    BY <2>1, Zenon DEF PowerMode
<1>2. ~Watched'
  BY <1>1 DEF Inv, ProgressInv, Watched
<1>3. CASE UNCHANGED <<captureVars, bufferVars, fed, view>>
  <2>. USE <1>3 DEF captureVars, bufferVars
  <2>1. TypeOK'
    BY <1>1, Zenon DEF Inv, TypeOK
  <2>2. ExclusiveBuffers'
    BY <1>1 DEF Inv, ExclusiveBuffers
  <2>3. ProgressInv'
    BY <1>1, <1>2, Zenon DEF Inv, ProgressInv, NoStall
  <2>4. DamageInv'
    BY <1>1 DEF Inv, DamageInv, Continued
  <2> QED
    BY <2>1, <2>2, <2>3, <2>4 DEF Inv
<1>4. CASE Stop /\ fed' = Cells /\ view' = Cells
  <2>1. /\ status' = "stopped" /\ front' = None /\ frame' = "none" /\ timer' = FALSE
        /\ is_immediate_copy' = is_immediate_copy /\ report' = {}
        /\ nvnc_frame' = nvnc_frame \ {front} /\ nvnc_refs' = nvnc_refs
        /\ frame_damage' \in [Buffers -> SUBSET Cells] /\ restarted' = restarted
        /\ ExclusiveBuffers'
    BY <1>1, <1>4, StopEffect
  <2>2. TypeOK'
    BY <1>1, <1>4, <2>1, Zenon DEF Inv, TypeOK
  <2>3. ProgressInv'
    BY <1>1, <1>2, <2>1, Zenon DEF Inv, ProgressInv, NoStall
  <2>4. DamageInv'
    BY <1>1, <2>1 DEF DamageInv, Continued
  <2> QED
    BY <2>1, <2>2, <2>3, <2>4 DEF Inv
<1> QED
  BY <1>3, <1>4, Zenon DEF PowerMode

\* output_power_failed()
LEMMA PowerFailedInv == Inv /\ PowerFailed => Inv'
<1>. SUFFICES ASSUME Inv, PowerFailed PROVE Inv'
  OBVIOUS
<1>. USE DEF PowerFailed, captureVars, bufferVars, mainVars, pixelVars
<1>1. TypeOK'
  BY Zenon DEF Inv, TypeOK
<1>2. ExclusiveBuffers'
  BY DEF Inv, ExclusiveBuffers
<1>3. ProgressInv'
  BY DEF Inv, ProgressInv, NoStall, Watched
<1>4. DamageInv'
  BY DamageKept DEF Inv, Arriving, Waiting, Continued
<1> QED
  BY <1>1, <1>2, <1>3, <1>4 DEF Inv

\* The output is turned on or off behind wayvnc's back.
LEMMA OutputTurnedInv == Inv /\ OutputTurned => Inv'
<1>. SUFFICES ASSUME Inv, OutputTurned PROVE Inv'
  OBVIOUS
<1>. USE DEF OutputTurned, captureVars, bufferVars, mainVars
<1>1. TypeOK'
  <2>1. {wlr_output_power', powered', restarted'} \subseteq BOOLEAN
    BY Zenon DEF Inv, TypeOK
  <2> QED
    BY <2>1 DEF Inv, TypeOK
<1>2. ExclusiveBuffers'
  BY DEF Inv, ExclusiveBuffers
<1>3. ProgressInv'
  BY DEF Inv, ProgressInv, NoStall, Watched
<1>4. DamageInv'
  <2>1. frame' = "ready" => front' \in Buffers /\ pending \subseteq pending'
    BY DEF Inv, TypeOK, ExclusiveBuffers
  <2>2. frame' = "ready" => stale'[front'] \subseteq pending'
    BY <2>1 DEF Inv, DamageInv
  <2>3. CASE powered'
    <3>1. pending' = Cells
      BY <2>3
    <3>2. /\ view' \subseteq Cells /\ fed' \subseteq Cells
          /\ next_frame' # None => stale'[next_frame'] \subseteq Cells
      BY <1>1 DEF TypeOK
    <3> QED
      BY <2>2, <3>1, <3>2 DEF DamageInv
  <2>4. CASE ~powered'
    BY <2>2, <2>4 DEF DamageInv, Continued
  <2> QED
    BY <2>3, <2>4
<1> QED
  BY <1>1, <1>2, <1>3, <1>4 DEF Inv

\* What is drawn is damage that the compositor will report.
LEMMA DrawnInv == Inv /\ Drawn => Inv'
<1>. SUFFICES ASSUME Inv, NEW region \in SUBSET Cells, ScreenChange(region) PROVE Inv'
  BY DEF Drawn
<1>. USE DEF ScreenChange, captureVars, bufferVars, mainVars, powerVars
<1>1. TypeOK'
  BY SMTT(30) DEF Inv, TypeOK
<1>2. ExclusiveBuffers'
  BY DEF Inv, ExclusiveBuffers
<1>3. ProgressInv'
  BY DEF Inv, ProgressInv, NoStall, Watched
<1>4. DamageInv'
  <2>1. Arriving' = Arriving /\ Waiting' = Waiting
    BY Zenon DEF Arriving, Waiting
  <2>2. \A b \in Buffers : stale'[b] = stale[b] \cup region
    OBVIOUS
  <2>3. /\ frame = "ready" => front \in Buffers
        /\ next_frame # None => next_frame \in Buffers
    BY DEF Inv, TypeOK, ExclusiveBuffers
  <2> QED
    BY <2>1, <2>2, <2>3 DEF Inv, DamageInv, Continued
<1> QED
  BY <1>1, <1>2, <1>3, <1>4 DEF Inv

\* The compositor completes a frame: what it takes from the damage to come it
\* puts into the report of this frame.
LEMMA CompositorCopyInv == Inv /\ CompositorCopy => Inv'
<1>. SUFFICES ASSUME Inv, CompositorCopy PROVE Inv'
  OBVIOUS
<1>. USE DEF CompositorCopy, bufferVars, mainVars, powerVars
<1>1. front \in Buffers /\ front # next_frame
  BY DEF Inv, TypeOK, ExclusiveBuffers
<1>2. TypeOK'
  BY <1>1 DEF Inv, TypeOK
<1>3. ExclusiveBuffers'
  BY DEF Inv, ExclusiveBuffers
<1>4. ProgressInv'
  BY DEF Inv, ProgressInv, NoStall, Watched
<1>5. DamageInv'
  <2>1. Waiting' = Waiting
    BY DEF Waiting
  <2>2. Arriving = {} /\ pending \subseteq Arriving'
    BY DEF Inv, TypeOK, Arriving
  <2>3. stale'[front] = {} /\ (next_frame # None => stale'[next_frame] = stale[next_frame])
    BY <1>1 DEF Inv, TypeOK
  <2> QED
    BY <2>1, <2>2, <2>3 DEF Inv, DamageInv, Continued
<1> QED
  BY <1>2, <1>3, <1>4, <1>5 DEF Inv

\* neatvnc drops a frame.
LEMMA NeatvncUnrefInv ==
    ASSUME NEW b \in Buffers, Inv, NeatvncUnref(b)
    PROVE  Inv'
<1>. USE DEF NeatvncUnref, captureVars, mainVars, powerVars, pixelVars
<1>1. TypeOK'
  BY DEF Inv, TypeOK
<1>2. ExclusiveBuffers'
  BY DEF Inv, ExclusiveBuffers
<1>3. ProgressInv'
  BY DEF Inv, ProgressInv, NoStall, Watched
<1>4. DamageInv'
  BY DamageKept DEF Inv, Arriving, Waiting, Continued
<1> QED
  BY <1>1, <1>2, <1>3, <1>4 DEF Inv

-----------------------------------------------------------------------------
(* The theorems.                                                           *)

\* The invariant holds throughout, for every number of cells, buffers and
\* clients, with and without a power manager.
THEOREM InvHolds == Spec => []Inv
<1>1. Init => Inv
  <2>. SUFFICES ASSUME Init PROVE Inv
    OBVIOUS
  <2>1. TypeOK
    <3>1. {is_immediate_copy, timer, rate_limiter, capture_retry_timer} \subseteq BOOLEAN
      BY Zenon DEF Init
    <3>2. frame_damage \in [Buffers -> SUBSET Cells] /\ stale \in [Buffers -> SUBSET Cells]
      BY DEF Init
    <3>3. nr_clients \in 0..MaxClients
      BY ClientsAssumption DEF Init
    <3>4. {wlr_output_power, powered, restarted} \subseteq BOOLEAN
      BY Zenon DEF Init
    <3> QED
      BY <3>1, <3>2, <3>3, <3>4 DEF Init, TypeOK
  <2>2. ExclusiveBuffers
    BY DEF Init, ExclusiveBuffers
  <2>3. ProgressInv
    BY DEF Init, ProgressInv, NoStall, Watched
  <2>4. DamageInv
    BY DEF Init, DamageInv, Continued
  <2> QED
    BY <2>1, <2>2, <2>3, <2>4 DEF Inv
<1>2. Inv /\ [Next]_vars => Inv'
  <2>1. Inv /\ UNCHANGED vars => Inv'
    BY DEF vars, captureVars, bufferVars, mainVars, powerVars, pixelVars, Inv, TypeOK,
           ExclusiveBuffers, ProgressInv, NoStall, Watched, DamageInv, Continued, Arriving, Waiting
  <2> QED
    BY SMTT(30), <2>1, PollInv, BufferDoneInv, ReadyInv, FailedInv, DamageEventInv, RateLimitTimeoutInv,
       CaptureRestartTimerInv, ClientNewInv, ClientDestroyInv, PowerOnInv, PowerOffInv,
       PowerFailedInv, OutputTurnedInv, DrawnInv, CompositorCopyInv, NeatvncUnrefInv DEF Next
<1> QED
  BY <1>1, <1>2, PTL DEF Spec

\* Each buffer has one user, whatever fails or is stopped: the asserts of
\* screencopy_buffer_done() and wv_buffer_pool_acquire() hold, and front is set
\* whenever screencopy_damage() or screencopy_ready() use it.
THEOREM ExclusiveBuffersHolds == Spec => []ExclusiveBuffers
<1>1. Inv => ExclusiveBuffers
  BY DEF Inv
<1> QED
  BY <1>1, InvHolds, PTL

\* While clients watch an output that is on, start() is not ignored for good:
\* a capture that is in progress has a timer or a frame, and one that is not
\* will be started by the retry timer or by the rate limiter of main.c.
THEOREM NoStallHolds == Spec => []NoStall
<1>1. Inv => NoStall
  BY DEF Inv, ProgressInv
<1> QED
  BY <1>1, InvHolds, PTL

\* No update is lost on the way from the compositor to the clients, with and
\* without a power manager and whichever way the compositor counts damage after
\* an immediate copy, unless the rate limiter restarts a capture that was
\* stopped or has failed before wayvnc_start_capture_immediate() does.
THEOREM NoLostDamageHolds == Spec => []NoLostDamage
<1>1. Inv => NoLostDamage
  <2>. SUFFICES ASSUME Inv, Watched, powered, status # "fatal", ~restarted, ~CopyDue
                PROVE  view \subseteq pending \cup Arriving \cup Waiting
    BY SMTT(30) DEF NoLostDamage
  <2>1. Continued
    BY DEF CopyDue, Continued, Inv, TypeOK, ProgressInv, NoStall
  <2> QED
    BY <2>1 DEF Inv, DamageInv
<1> QED
  BY <1>1, InvHolds, PTL
=============================================================================
