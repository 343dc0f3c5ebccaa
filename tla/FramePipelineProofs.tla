------------------------- MODULE FramePipelineProofs -------------------------
(***************************************************************************)
(* Proofs about FramePipeline.tla, for every number of cells, buffers,     *)
(* formats and clients.                                                    *)
(***************************************************************************)
EXTENDS FramePipeline, TLAPS

-----------------------------------------------------------------------------
(* What the functions of the capture object guarantee to their callers.    *)

\* Whatever formats and ratings config_buffers() meets, the configuration it
\* leaves in the pool is a proper one.
LEMMA ConfigBuffersType ==
    ASSUME CaptureTypeOK, NEW o \in ConfigBuffers
    PROVE  /\ o.config \in Configs
           /\ o.ok \in BOOLEAN
           /\ o.replaced \in BOOLEAN
<1> DEFINE Good(r) == r \in [ok : BOOLEAN, config : Configs, replaced : BOOLEAN]
<1>1. ASSUME NEW cfg \in Configs, NEW f \in Formats
      PROVE  Good(Reconfig(cfg, f))
  BY <1>1, RenderNodeAssumption DEF Reconfig, Configs, CaptureTypeOK, SessionTypeOK, BufferTypeOK, Formats
<1>2. ASSUME NEW d \in ConfigDmaBuffers
      PROVE  Good(d)
  <2>1. CASE dmabuf_formats \cap Acceptable = {}
    <3>1. d = [ok |-> FALSE, config |-> pool_config, replaced |-> FALSE]
      BY <2>1, <1>2 DEF ConfigDmaBuffers
    <3> QED
      BY <3>1 DEF CaptureTypeOK, SessionTypeOK, BufferTypeOK
  <2>2. CASE dmabuf_formats \cap Acceptable # {}
    <3>1. PICK f \in dmabuf_formats \cap Acceptable : d = Reconfig(pool_config, f)
      BY <2>2, <1>2 DEF ConfigDmaBuffers
    <3>2. f \in Formats /\ pool_config \in Configs
      BY DEF CaptureTypeOK, SessionTypeOK, BufferTypeOK, Formats
    <3> QED
      BY <1>1, <3>1, <3>2
  <2> QED
    BY <2>1, <2>2
<1>3. ASSUME NEW d \in ConfigDmaBuffers, NEW e \in ConfigShmBuffers(d)
      PROVE  Good(e)
  <2>1. Good(d)
    BY <1>2
  <2>2. CASE wl_shm_formats \cap Acceptable = {}
    BY <2>1, <2>2, <1>3 DEF ConfigShmBuffers
  <2>3. CASE wl_shm_formats \cap Acceptable # {}
    <3>1. PICK f \in wl_shm_formats \cap Acceptable :
              e = [Reconfig(d.config, f) EXCEPT !.replaced = @ \/ d.replaced]
      BY <2>3, <1>3 DEF ConfigShmBuffers
    <3>2. Good(Reconfig(d.config, f))
      BY <1>1, <2>1 DEF CaptureTypeOK, SessionTypeOK, BufferTypeOK, Formats
    <3>. HIDE DEF Reconfig
    <3> QED
      BY <3>1, <3>2, <2>1
  <2> QED
    BY <2>2, <2>3
<1> QED
  BY <1>2, <1>3 DEF ConfigBuffers

\* schedule_capture() acquires a buffer that nobody references, or none.
LEMMA ScheduleCaptureEffect ==
    ASSUME CaptureTypeOK, NEW o \in ConfigBuffers,
           NEW own \in SUBSET Buffers, NEW refs \in SUBSET Buffers,
           ScheduleCapture(o, own, refs)
    PROVE  /\ pool_config' \in Configs
           /\ nvnc_pool' \in SUBSET Buffers
           /\ fatal' \in BOOLEAN
           /\ aborted' \in Outcomes
           /\ report' = report /\ pending' = pending
           /\ \/ frame' = "none" /\ buffer' = None /\ nvnc_frame' = own /\ fatal'
              \/ /\ frame' = "capturing" /\ buffer' \in Buffers \ refs
                 /\ nvnc_frame' = own \cup {buffer'}
<1>1. o.config \in Configs
  BY ConfigBuffersType
<1>2. PoolAfter(o) \in SUBSET Buffers
  BY DEF PoolAfter, CaptureTypeOK, SessionTypeOK, BufferTypeOK
<1> QED
  BY Zenon, <1>1, <1>2 DEF ScheduleCapture, CaptureTypeOK, SessionTypeOK, BufferTypeOK, Outcomes

\* start() keeps the session's state well-formed; it either leaves the
\* compositor's account of changes alone or begins a session that reports
\* everything; and unless it fails to acquire a buffer, something is left
\* that will lead to the next frame.
LEMMA StartEffect ==
    ASSUME CaptureTypeOK, NEW immediate \in BOOLEAN, NEW fc \in 0..(FrameCountMod - 1),
           NEW own \in SUBSET Buffers, NEW refs \in SUBSET Buffers,
           Start(immediate, fc, own, refs)
    PROVE  /\ SessionTypeOK'
           /\ frame_count' = fc
           /\ pending' = pending \/ pending' = Cells
           /\ \/ frame' = "none" /\ buffer' = None /\ nvnc_frame' = own
              \/ /\ frame' = "capturing" /\ buffer' \in Buffers \ refs
                 /\ nvnc_frame' = own \cup {buffer'}
           /\ session \/ fc = 0 =>
                  session' /\ (fatal' \/ frame' # "none" \/ timer' \/ should_start')
<1>0. timer' \in BOOLEAN
  BY Zenon DEF Start, CaptureTypeOK, SessionTypeOK, BufferTypeOK
<1>1. CASE immediate \/ fc = 0
  BY Zenon, <1>1 DEF Start, NoCapture, ClearConstraints, poolVars, CaptureTypeOK, SessionTypeOK, BufferTypeOK
<1>2. CASE ~immediate /\ fc # 0 /\ ~have_constraints
  BY Zenon, <1>2 DEF Start, NoCapture, constraintVars, poolVars, CaptureTypeOK, SessionTypeOK, BufferTypeOK
<1>3. CASE ~immediate /\ fc # 0 /\ have_constraints /\ timer'
  BY Zenon, <1>3 DEF Start, NoCapture, constraintVars, poolVars, CaptureTypeOK, SessionTypeOK, BufferTypeOK
<1>4. CASE ~immediate /\ fc # 0 /\ have_constraints /\ ~timer'
  <2>1. PICK o \in ConfigBuffers : ScheduleCapture(o, own, refs)
    BY <1>4 DEF Start
  <2>2. /\ frame_count' = fc
        /\ UNCHANGED <<session, constraintVars, should_start>>
    BY <1>4 DEF Start
  <2>3. /\ pool_config' \in Configs /\ nvnc_pool' \in SUBSET Buffers
        /\ fatal' \in BOOLEAN /\ aborted' \in Outcomes
        /\ report' = report /\ pending' = pending
        /\ \/ frame' = "none" /\ buffer' = None /\ nvnc_frame' = own /\ fatal'
           \/ /\ frame' = "capturing" /\ buffer' \in Buffers \ refs
              /\ nvnc_frame' = own \cup {buffer'}
    BY <2>1, ScheduleCaptureEffect
  <2> QED
    BY <1>4, <1>0, <2>2, <2>3 DEF constraintVars, CaptureTypeOK, SessionTypeOK, BufferTypeOK
<1> QED
  BY <1>1, <1>2, <1>3, <1>4, <1>0 DEF CaptureTypeOK, SessionTypeOK, BufferTypeOK

\* A buffer that survives a step keeps its damage and its pixels, and the next
\* one in its place starts with all of it damaged.
LEMMA SettleEffect ==
    ASSUME CaptureTypeOK, NEW bd \in [Buffers -> SUBSET Cells], Settle(bd)
    PROVE  /\ buffer_damage' \in [Buffers -> SUBSET Cells]
           /\ stale' \in [Buffers -> SUBSET Cells]
           /\ \A b \in Buffers : b \in PoolList' =>
                  buffer_damage'[b] = bd[b] /\ stale'[b] = stale[b]
           /\ \A b \in Buffers : b \notin PoolList' =>
                  buffer_damage'[b] = Cells /\ stale'[b] = Cells
  BY DEF Settle, CaptureTypeOK, SessionTypeOK, BufferTypeOK

\* The steps that begin no new account of changes, or a complete one, keep
\* BufferAge as long as they keep the damage of each buffer.
LEMMA SettleAge ==
    ASSUME CaptureTypeOK, NEW bd \in [Buffers -> SUBSET Cells], Settle(bd),
           pending' = pending \/ pending' = Cells,
           \A b \in Buffers : stale[b] \subseteq bd[b] \cup pending \cup Undistributed'
    PROVE  BufferAge'
<1>1. ASSUME NEW b \in Buffers
      PROVE  stale'[b] \subseteq buffer_damage'[b] \cup pending' \cup Undistributed'
  <2>1. stale[b] \in SUBSET Cells
    BY DEF CaptureTypeOK, SessionTypeOK, BufferTypeOK
  <2>2. CASE b \in PoolList'
    BY <2>1, <2>2, SettleEffect
  <2>3. CASE b \notin PoolList'
    BY <2>3, SettleEffect
  <2> QED
    BY <2>2, <2>3
<1> QED
  BY <1>1 DEF BufferAge

-----------------------------------------------------------------------------
(* The inductive invariant.                                                *)

\* screencopy_start(true) keeps the invariant.
LEMMA StartImmediateInv ==
    ASSUME Inv, StartImmediate, UNCHANGED <<next_frame, view>>
    PROVE  CaptureTypeOK' /\ ExclusiveBuffers' /\ DamageInv'
<1>. USE DEF Inv, TypeOK
<1>1. CASE frame # "none"
  <2>1. UNCHANGED captureVars
    BY <1>1 DEF StartImmediate
  <2>2. CaptureTypeOK'
    BY <2>1 DEF CaptureTypeOK, SessionTypeOK, BufferTypeOK, captureVars, sessionVars, constraintVars, poolVars, damageVars
  <2>3. ExclusiveBuffers'
    BY <2>1 DEF ExclusiveBuffers, captureVars
  <2>4. DamageInv'
    BY <2>1 DEF DamageInv, BufferAge, NoLostDamage, NextFrameIsNewest, ReadyIsFresh,
                Undistributed, captureVars, damageVars
  <2> QED
    BY <2>2, <2>3, <2>4
<1>2. CASE frame = "none"
  <2>1. /\ UNCHANGED <<nvnc_refs, frame_damage>>
        /\ Start(TRUE, frame_count, nvnc_frame, Refs)
        /\ Settle(buffer_damage)
    BY Zenon, <1>2 DEF StartImmediate
  <2>2. /\ frame' = "none" /\ buffer' = None /\ nvnc_frame' = nvnc_frame
        /\ pending' = Cells /\ report' = {} /\ UNCHANGED poolVars
    BY <2>1 DEF Start, NoCapture
  <2>3. /\ buffer_damage' \in [Buffers -> SUBSET Cells]
        /\ stale' \in [Buffers -> SUBSET Cells]
    BY <2>1, SettleEffect DEF CaptureTypeOK, SessionTypeOK, BufferTypeOK
  <2>4. CaptureTypeOK'
    <3>1. /\ nvnc_frame \in SUBSET Buffers /\ Refs \in SUBSET Buffers
          /\ frame_count \in 0..(FrameCountMod - 1) /\ TRUE \in BOOLEAN
      BY DEF CaptureTypeOK, SessionTypeOK, BufferTypeOK, Refs
    <3> QED
      BY Zenon, <2>1, <2>2, <2>3, <3>1, StartEffect DEF CaptureTypeOK, SessionTypeOK, BufferTypeOK, FrameStates
  <2>5. ExclusiveBuffers'
    BY <1>2, <2>1, <2>2 DEF ExclusiveBuffers
  <2>6. DamageInv'
    BY <2>2, <2>3, FormatsAssumption
       DEF DamageInv, BufferAge, NoLostDamage, NextFrameIsNewest, ReadyIsFresh, Undistributed
  <2> QED
    BY <2>4, <2>5, <2>6
<1> QED
  BY <1>1, <1>2

\* screencopy_stop() keeps the invariant, whatever clients are then shown.
LEMMA StopInv ==
    ASSUME Inv, Stop, UNCHANGED next_frame, view' \subseteq Cells
    PROVE  CaptureTypeOK' /\ ExclusiveBuffers' /\ DamageInv'
<1>. USE DEF Inv, TypeOK
<1>1. /\ buffer_damage' \in [Buffers -> SUBSET Cells]
      /\ stale' \in [Buffers -> SUBSET Cells]
  BY SettleEffect DEF Stop, CaptureTypeOK, SessionTypeOK, BufferTypeOK
<1>2. CaptureTypeOK'
  <2>1. frame_damage' \in [Buffers -> SUBSET Cells]
    BY DEF Stop, DeinitSession, CaptureTypeOK, SessionTypeOK, BufferTypeOK
  <2>2. /\ frame_count' \in 0..(FrameCountMod - 1)
        /\ nvnc_frame' \subseteq Buffers
    BY FrameCountAssumption DEF Stop, DeinitSession, CaptureTypeOK, SessionTypeOK, BufferTypeOK
  <2> QED
    BY Zenon, <1>1, <2>1, <2>2
       DEF Stop, DeinitSession, ClearConstraints, poolVars, CaptureTypeOK, SessionTypeOK, BufferTypeOK, FrameStates
<1>3. ExclusiveBuffers'
  BY FormatsAssumption DEF Stop, DeinitSession, ExclusiveBuffers, CaptureTypeOK, SessionTypeOK, BufferTypeOK
<1>4. pending' = Cells /\ frame' = "none"
  BY DEF Stop, DeinitSession
<1>5. next_frame' \in Buffers \cup {None}
  OBVIOUS
<1>6. DamageInv'
  BY <1>1, <1>4, <1>5
     DEF DamageInv, BufferAge, NoLostDamage, NextFrameIsNewest, ReadyIsFresh, Undistributed
<1> QED
  BY <1>2, <1>3, <1>6

\* Sending a frame keeps the invariant.  The frame sent is in wayvnc's hands
\* and shows all that has been accounted for, and the buffer_damage bd covers
\* what the frame just delivered has changed.
LEMMA SendNextFrameInv ==
    ASSUME TypeOK, ExclusiveBuffers,
           NEW b \in Buffers, NEW fr \in FrameStates, NEW fc \in 0..(FrameCountMod - 1),
           NEW bd \in [Buffers -> SUBSET Cells],
           SendNextFrame(b, fr, fc, bd),
           \/ b = next_frame /\ fr = frame
           \/ b = buffer /\ fr = "none" /\ next_frame = None,
           frame = "ready" /\ fr # "none" => stale[buffer] \subseteq pending,
           stale[b] \subseteq pending \cup IF fr = "none" THEN {} ELSE Undistributed,
           view \subseteq pending \cup frame_damage[b]
                            \cup IF fr = "none" THEN {} ELSE Undistributed,
           \A x \in Buffers : stale[x] \subseteq bd[x] \cup pending
                            \cup IF fr = "none" THEN {} ELSE Undistributed
    PROVE  /\ CaptureTypeOK' /\ ExclusiveBuffers' /\ DamageInv'
           /\ next_frame' = None /\ view' \subseteq Cells
<1>. DEFINE own == nvnc_frame \ {b}
            refs == nvnc_frame \cup nvnc_refs
<1>1. b # None /\ b \in nvnc_frame /\ b \notin nvnc_refs
  BY FormatsAssumption DEF ExclusiveBuffers
<1>2. /\ view' = (view \ frame_damage[b]) \cup (stale[b] \cap frame_damage[b])
      /\ next_frame' = None
      /\ nvnc_refs' = nvnc_refs \cup {b}
      /\ frame_damage' = [frame_damage EXCEPT ![b] = {}]
      /\ Settle(bd)
  BY DEF SendNextFrame, Feed
<1>3. /\ buffer_damage' \in [Buffers -> SUBSET Cells]
      /\ stale' \in [Buffers -> SUBSET Cells]
  BY <1>2, SettleEffect DEF TypeOK
<1>4. /\ view' \subseteq Cells
      /\ nvnc_refs' \subseteq Buffers
      /\ frame_damage' \in [Buffers -> SUBSET Cells]
  BY <1>2 DEF TypeOK, CaptureTypeOK, SessionTypeOK, BufferTypeOK
<1>5. CASE fr # "none"
  <2>1. /\ nvnc_frame' = own
        /\ UNCHANGED <<sessionVars, poolVars, frame, buffer, frame_count, report,
                       pending, fatal, aborted>>
    BY Zenon, <1>5 DEF SendNextFrame
  <2>2. b = next_frame /\ fr = frame /\ b # buffer
    BY <1>1, <1>5 DEF ExclusiveBuffers
  <2>3. CaptureTypeOK'
    BY <1>3, <1>4, <2>1 DEF TypeOK, CaptureTypeOK, SessionTypeOK, BufferTypeOK, sessionVars, constraintVars, poolVars
  <2>4. ExclusiveBuffers'
    BY <1>1, <1>2, <2>1, <2>2 DEF ExclusiveBuffers
  <2>5. Undistributed' = Undistributed
    <3>1. frame = "ready" => frame_damage'[buffer] = frame_damage[buffer]
      BY <1>2, <2>2 DEF ExclusiveBuffers, TypeOK, CaptureTypeOK, SessionTypeOK, BufferTypeOK
    <3> QED
      BY Zenon, <2>1, <3>1 DEF Undistributed
  <2>6. BufferAge'
    BY <1>2, <1>5, <2>1, <2>5, SettleAge DEF TypeOK
  <2>7. NoLostDamage' /\ NextFrameIsNewest'
    BY <1>2, <1>5, <2>1, <2>5 DEF NoLostDamage, NextFrameIsNewest
  <2>8. ReadyIsFresh'
    <3>1. ASSUME frame = "ready"
          PROVE  stale'[buffer] = stale[buffer]
      <4>1. buffer \in Buffers /\ buffer \in PoolList'
        BY <2>1, <2>2, <3>1 DEF ExclusiveBuffers, PoolList, TypeOK, CaptureTypeOK, SessionTypeOK, BufferTypeOK
      <4> QED
        BY <4>1, <1>2, SettleEffect DEF TypeOK
    <3> QED
      BY <3>1, <2>1, <2>2, <1>5 DEF ReadyIsFresh
  <2> QED
    BY <1>2, <1>4, <2>3, <2>4, <2>6, <2>7, <2>8 DEF DamageInv
<1>6. CASE fr = "none"
  <2>1. Start(FALSE, fc, own, refs)
    BY Zenon, <1>6 DEF SendNextFrame
  <2>2. own \in SUBSET Buffers /\ refs \in SUBSET Buffers /\ FALSE \in BOOLEAN
    BY DEF TypeOK, CaptureTypeOK, SessionTypeOK, BufferTypeOK
  <2>3. /\ pending' = pending \/ pending' = Cells
        /\ \/ frame' = "none" /\ buffer' = None /\ nvnc_frame' = own
           \/ /\ frame' = "capturing" /\ buffer' \in Buffers \ refs
              /\ nvnc_frame' = own \cup {buffer'}
    BY Zenon, <2>1, <2>2, StartEffect DEF TypeOK
  <2>4. CaptureTypeOK'
    <3>1. SessionTypeOK'
      BY Zenon, <2>1, <2>2, StartEffect DEF TypeOK
    <3>2. nvnc_frame' \subseteq Buffers
          /\ buffer' \in Buffers \cup {None} /\ frame' \in FrameStates
      BY <2>2, <2>3 DEF TypeOK, CaptureTypeOK, SessionTypeOK, BufferTypeOK, FrameStates
    <3> QED
      BY <1>3, <1>4, <3>1, <3>2 DEF CaptureTypeOK, SessionTypeOK, BufferTypeOK
  <2>5. ExclusiveBuffers'
    <3>1. own = {}
      BY <1>6, <1>1, FormatsAssumption DEF ExclusiveBuffers
    <3> QED
      BY <1>1, <1>2, <2>3, <3>1, FormatsAssumption DEF ExclusiveBuffers
  <2>6. Undistributed' = {}
    BY <2>3 DEF Undistributed
  <2>7. BufferAge'
    BY <1>2, <1>6, <2>3, <2>6, SettleAge DEF TypeOK
  <2>8. NoLostDamage' /\ NextFrameIsNewest' /\ ReadyIsFresh'
    BY <1>2, <1>4, <1>6, <2>3, <2>6 DEF NoLostDamage, NextFrameIsNewest, ReadyIsFresh
  <2> QED
    BY <1>2, <1>4, <2>4, <2>5, <2>7, <2>8 DEF DamageInv
<1> QED
  BY <1>5, <1>6

\* Acquiring a buffer when none is in flight keeps the invariant.
LEMMA ScheduleCaptureInv ==
    ASSUME Inv, frame = "none", NEW o \in ConfigBuffers,
           ScheduleCapture(o, nvnc_frame, Refs), Settle(buffer_damage),
           SessionTypeOK', UNCHANGED <<frame_damage, nvnc_refs, mainVars>>
    PROVE  Inv'
<1>. USE DEF Inv, TypeOK, CaptureTypeOK
<1>1. nvnc_frame \in SUBSET Buffers /\ Refs \in SUBSET Buffers
  BY DEF Refs, BufferTypeOK
<1>2. /\ pending' = pending
      /\ \/ frame' = "none" /\ buffer' = None /\ nvnc_frame' = nvnc_frame
         \/ /\ frame' = "capturing" /\ buffer' \in Buffers \ Refs
            /\ nvnc_frame' = nvnc_frame \cup {buffer'}
  BY <1>1, ScheduleCaptureEffect
<1>3. buffer_damage \in [Buffers -> SUBSET Cells]
  BY DEF BufferTypeOK
<1>4. BufferTypeOK'
  BY <1>2, <1>3, SettleEffect DEF BufferTypeOK, FrameStates
<1>5. ExclusiveBuffers'
  BY <1>2, FormatsAssumption DEF ExclusiveBuffers, Refs, mainVars
<1>6. Undistributed' = {} /\ Undistributed = {}
  BY <1>2 DEF Undistributed
<1>7. BufferAge'
  BY <1>2, <1>3, <1>6, SettleAge DEF DamageInv, BufferAge
<1>8. NoLostDamage' /\ ReadyIsFresh'
  BY <1>2, <1>6 DEF DamageInv, NoLostDamage, ReadyIsFresh, mainVars
<1>9. NextFrameIsNewest'
  <2>1. ASSUME next_frame # None
        PROVE  stale'[next_frame] = stale[next_frame]
    <3>1. next_frame \in PoolList' /\ next_frame \in Buffers
      BY <2>1, <1>2 DEF ExclusiveBuffers, PoolList
    <3> QED
      BY <3>1, <1>3, SettleEffect
  <2> QED
    BY <2>1, <1>2, <1>6 DEF DamageInv, NextFrameIsNewest, mainVars
<1> QED
  BY <1>4, <1>5, <1>7, <1>8, <1>9 DEF DamageInv, mainVars

\* Steps that touch neither buffers nor damage nor what clients see.
LEMMA OtherInv ==
    ASSUME Inv, SessionTypeOK',
           UNCHANGED <<damageVars, frame, buffer, nvnc_frame, nvnc_refs, report, pending,
                       next_frame, view>>,
           rate_limiter' \in BOOLEAN, nr_clients' \in 0..MaxClients,
           power' \in {"unknown", "on", "off"}, wlr_output_power' \in BOOLEAN
    PROVE  Inv'
<1>1. TypeOK'
  BY DEF Inv, TypeOK, CaptureTypeOK, BufferTypeOK, damageVars
<1>2. ExclusiveBuffers'
  BY DEF Inv, ExclusiveBuffers
<1>3. DamageInv'
  BY DEF Inv, DamageInv, BufferAge, NoLostDamage, NextFrameIsNewest, ReadyIsFresh,
         Undistributed, damageVars
<1> QED
  BY <1>1, <1>2, <1>3 DEF Inv

\* Steps after which buffers may have ceased to exist, and nothing else
\* happened to buffers, damage or what clients see.
LEMMA SettleOnlyInv ==
    ASSUME Inv, SessionTypeOK', Settle(buffer_damage), nvnc_refs' \subseteq nvnc_refs,
           UNCHANGED <<frame_damage, frame, buffer, nvnc_frame, report, pending, mainVars>>
    PROVE  Inv'
<1>. USE DEF Inv, TypeOK, CaptureTypeOK
<1>1. buffer_damage \in [Buffers -> SUBSET Cells]
  BY DEF BufferTypeOK
<1>2. BufferTypeOK'
  BY <1>1, SettleEffect DEF BufferTypeOK
<1>3. ExclusiveBuffers'
  BY DEF ExclusiveBuffers, mainVars
<1>4. Undistributed' = Undistributed
  BY DEF Undistributed
<1>5. BufferAge'
  BY <1>1, <1>4, SettleAge DEF DamageInv, BufferAge
<1>6. ASSUME NEW b \in nvnc_frame
      PROVE  stale'[b] = stale[b]
  BY Zenon, <1>1, <1>6, SettleEffect DEF PoolList, BufferTypeOK
<1>7. NoLostDamage'
  BY Zenon, <1>4 DEF DamageInv, NoLostDamage, mainVars
<1>8. NextFrameIsNewest' /\ ReadyIsFresh'
  BY <1>4, <1>6 DEF DamageInv, NextFrameIsNewest, ReadyIsFresh, ExclusiveBuffers, mainVars
<1> QED
  BY <1>2, <1>3, <1>5, <1>7, <1>8 DEF DamageInv, mainVars

\* Constraint events keep the invariant.
LEMMA ConstraintsInv == Inv /\ Constraints => Inv'
<1>. SUFFICES ASSUME Inv, Constraints
              PROVE  Inv'
  OBVIOUS
<1>1. SessionTypeOK'
  BY Zenon DEF Constraints, HandleFormatShm, HandleFormatDrm, HandleDimensions, ConstraintEvent,
         ClearConstraints, Inv, TypeOK, CaptureTypeOK, SessionTypeOK, poolVars
<1>2. UNCHANGED <<damageVars, frame, buffer, nvnc_frame, nvnc_refs, report, pending, mainVars>>
  BY DEF Constraints, HandleFormatShm, HandleFormatDrm, HandleDimensions, ConstraintEvent
<1> QED
  BY <1>1, <1>2, OtherInv DEF mainVars, Inv, TypeOK

\* A failed assertion ends the process and changes nothing else.
LEMMA AssertNoFrameInv ==
    ASSUME Inv, AssertNoFrame, UNCHANGED mainVars
    PROVE  Inv'
<1>1. SessionTypeOK'
  BY DEF AssertNoFrame, Inv, TypeOK, CaptureTypeOK, SessionTypeOK, sessionVars,
         constraintVars, poolVars, Outcomes
<1> QED
  BY <1>1, OtherInv DEF AssertNoFrame, mainVars, Inv, TypeOK

\* The end of a batch of constraints keeps the invariant.
LEMMA ConstraintsDoneInv == Inv /\ ConstraintsDone => Inv'
<1>. SUFFICES ASSUME Inv, ConstraintsDone
              PROVE  Inv'
  OBVIOUS
<1>. USE DEF Inv, TypeOK, CaptureTypeOK
<1>0. nvnc_refs' = nvnc_refs /\ UNCHANGED mainVars
  BY DEF ConstraintsDone, HandleConstraintsDone
<1>1. PICK o \in ConfigBuffers :
        IF o.ok /\ should_start
        THEN IF frame # "none"
             THEN AssertNoFrame
             ELSE /\ ScheduleCapture(o, nvnc_frame, Refs)
                  /\ should_start' = FALSE
                  /\ have_constraints' = TRUE
                  /\ batch' = FALSE
                  /\ UNCHANGED <<session, timer, dmabuf_formats, wl_shm_formats, size,
                                 frame_damage, frame_count>>
                  /\ Settle(buffer_damage)
        ELSE /\ pool_config' = o.config
             /\ nvnc_pool' = PoolAfter(o)
             /\ have_constraints' = (o.ok \/ have_constraints)
             /\ batch' = FALSE
             /\ UNCHANGED <<session, should_start, timer, dmabuf_formats, wl_shm_formats,
                            size, frame_damage, frame, buffer, frame_count, nvnc_frame,
                            report, pending, fatal, aborted>>
             /\ Settle(buffer_damage)
  BY Zenon DEF ConstraintsDone, HandleConstraintsDone
<1>2. CASE o.ok /\ should_start /\ frame # "none"
  BY <1>0, <1>1, <1>2, AssertNoFrameInv
<1>3. CASE o.ok /\ should_start /\ frame = "none"
  <2>1. nvnc_frame \in SUBSET Buffers /\ Refs \in SUBSET Buffers
    BY DEF Refs, BufferTypeOK
  <2>2. /\ pool_config' \in Configs /\ nvnc_pool' \in SUBSET Buffers
        /\ fatal' \in BOOLEAN /\ aborted' \in Outcomes
        /\ report' = report /\ pending' = pending
    BY <1>1, <1>3, <2>1, ScheduleCaptureEffect
  <2>3. SessionTypeOK'
    BY Zenon, <1>1, <1>3, <2>2 DEF SessionTypeOK
  <2> QED
    BY <1>0, <1>1, <1>3, <2>3, ScheduleCaptureInv
<1>4. CASE ~(o.ok /\ should_start)
  <2>1. o.config \in Configs /\ o.ok \in BOOLEAN
    BY ConfigBuffersType
  <2>2. /\ SessionTypeOK'
        /\ UNCHANGED <<frame_damage, frame, buffer, nvnc_frame, report, pending>>
        /\ Settle(buffer_damage)
    BY Zenon, <1>1, <1>4, <2>1 DEF SessionTypeOK, PoolAfter
  <2> QED
    BY <1>0, <2>2, SettleOnlyInv
<1> QED
  BY <1>2, <1>3, <1>4

\* The capture timer keeps the invariant.
LEMMA CaptureTimerInv == Inv /\ CaptureTimer => Inv'
<1>. SUFFICES ASSUME Inv, CaptureTimer
              PROVE  Inv'
  OBVIOUS
<1>. USE DEF Inv, TypeOK, CaptureTypeOK
<1>1. CASE frame # "none"
  BY <1>1, AssertNoFrameInv DEF CaptureTimer, ScheduleFromTimer
<1>2. CASE frame = "none"
  <2>1. PICK o \in ConfigBuffers : ScheduleCapture(o, nvnc_frame, Refs)
    BY <1>2 DEF CaptureTimer, ScheduleFromTimer
  <2>2. /\ timer' = FALSE /\ nvnc_refs' = nvnc_refs
        /\ UNCHANGED <<session, constraintVars, should_start, frame_damage, frame_count>>
        /\ Settle(buffer_damage) /\ UNCHANGED mainVars
    BY <1>2 DEF CaptureTimer, ScheduleFromTimer
  <2>3. nvnc_frame \in SUBSET Buffers /\ Refs \in SUBSET Buffers
    BY DEF Refs, BufferTypeOK
  <2>4. /\ pool_config' \in Configs /\ nvnc_pool' \in SUBSET Buffers
        /\ fatal' \in BOOLEAN /\ aborted' \in Outcomes
        /\ report' = report /\ pending' = pending
    BY <2>1, <2>3, ScheduleCaptureEffect
  <2>5. SessionTypeOK'
    BY Zenon, <2>2, <2>4 DEF SessionTypeOK, constraintVars
  <2> QED
    BY <1>2, <2>1, <2>2, <2>5, ScheduleCaptureInv
<1> QED
  BY <1>1, <1>2

\* Damage events keep the invariant.
LEMMA FrameDamageInv == Inv /\ FrameDamage => Inv'
<1>. SUFFICES ASSUME Inv, FrameDamage
              PROVE  Inv'
  OBVIOUS
<1>. USE DEF Inv, TypeOK, CaptureTypeOK
<1>1. PICK region \in SUBSET Cells : HandleDamage(region)
  BY DEF FrameDamage
<1>2. UNCHANGED mainVars
  BY DEF FrameDamage
<1>3. frame = "ready" /\ buffer \in Buffers /\ region \subseteq report
  BY <1>1 DEF HandleDamage, ExclusiveBuffers, BufferTypeOK
<1>4. frame_damage' \in [Buffers -> SUBSET Cells]
  BY <1>1, <1>3 DEF HandleDamage, BufferTypeOK
<1>5. frame_damage'[buffer] = frame_damage[buffer] \cup region
  BY <1>1, <1>3 DEF HandleDamage, BufferTypeOK
<1>6. CaptureTypeOK'
  BY <1>1, <1>4 DEF HandleDamage, SessionTypeOK, BufferTypeOK, sessionVars, constraintVars,
                    poolVars
<1>7. ExclusiveBuffers'
  BY <1>1, <1>2 DEF HandleDamage, ExclusiveBuffers, mainVars
<1>8. Undistributed' = Undistributed
  BY <1>1, <1>3, <1>5 DEF HandleDamage, Undistributed
<1>9. next_frame # None => frame_damage'[next_frame] = frame_damage[next_frame]
  BY Zenon, <1>1, <1>3 DEF HandleDamage, ExclusiveBuffers, BufferTypeOK
<1>10. DamageInv'
  BY <1>1, <1>2, <1>8, <1>9
     DEF HandleDamage, DamageInv, BufferAge, NoLostDamage, NextFrameIsNewest, ReadyIsFresh,
         mainVars
<1> QED
  BY <1>2, <1>6, <1>7, <1>10 DEF mainVars

\* A failed capture keeps the invariant.
LEMMA FrameFailedInv == Inv /\ FrameFailed => Inv'
<1>. SUFFICES ASSUME Inv, FrameFailed
              PROVE  Inv'
  OBVIOUS
<1>. USE DEF Inv, TypeOK, CaptureTypeOK
<1>. DEFINE own == nvnc_frame \ {buffer}
<1>1. PICK reason \in {"unknown", "buffer_constraints", "stopped"} : HandleFailed(reason)
  BY DEF FrameFailed
<1>2. UNCHANGED mainVars
  BY DEF FrameFailed
<1>3. /\ frame = "capturing" /\ buffer \in Buffers
      /\ frame_damage' = [frame_damage EXCEPT ![buffer] = {}]
      /\ nvnc_refs' = nvnc_refs
      /\ Settle(buffer_damage)
  BY <1>1 DEF HandleFailed, ExclusiveBuffers, BufferTypeOK
<1>4. own \in SUBSET Buffers /\ own \cup nvnc_refs \in SUBSET Buffers /\ FALSE \in BOOLEAN
      /\ frame_count \in 0..(FrameCountMod - 1)
  BY DEF BufferTypeOK, SessionTypeOK
<1>5. /\ SessionTypeOK'
      /\ pending' = pending \/ pending' = Cells
      /\ \/ frame' = "none" /\ buffer' = None /\ nvnc_frame' = own
         \/ /\ frame' = "capturing" /\ buffer' \in Buffers \ (own \cup nvnc_refs)
            /\ nvnc_frame' = own \cup {buffer'}
  <2>1. CASE reason = "buffer_constraints"
    <3>1. Start(FALSE, frame_count, own, own \cup nvnc_refs)
      BY Zenon, <1>1, <2>1 DEF HandleFailed
    <3>. HIDE DEF own
    <3> QED
      BY Zenon, <3>1, <1>4, StartEffect
  <2>2. CASE reason # "buffer_constraints"
    BY Zenon, <1>1, <2>2 DEF HandleFailed, SessionTypeOK, sessionVars, constraintVars, poolVars
  <2> QED
    BY <2>1, <2>2
<1>6. buffer_damage \in [Buffers -> SUBSET Cells]
  BY DEF BufferTypeOK
<1>7. BufferTypeOK'
  BY <1>3, <1>5, <1>6, SettleEffect DEF BufferTypeOK, FrameStates
<1>8. ExclusiveBuffers'
  BY <1>2, <1>3, <1>5, FormatsAssumption DEF ExclusiveBuffers, mainVars
<1>9. Undistributed' = {} /\ Undistributed = {}
  BY Zenon, <1>3, <1>5 DEF Undistributed
<1>10. BufferAge'
  BY <1>3, <1>5, <1>6, <1>9, SettleAge DEF DamageInv, BufferAge
<1>11. ASSUME next_frame # None
       PROVE  /\ stale'[next_frame] = stale[next_frame]
              /\ frame_damage'[next_frame] = frame_damage[next_frame]
  <2>1. next_frame \in Buffers /\ next_frame \in PoolList' /\ next_frame # buffer
    BY <1>5, <1>11, <1>3 DEF ExclusiveBuffers, PoolList
  <2> QED
    BY <2>1, <1>3, <1>6, SettleEffect DEF BufferTypeOK
<1>12. pending \subseteq pending'
  BY <1>5 DEF SessionTypeOK
<1>13. NoLostDamage' /\ NextFrameIsNewest' /\ ReadyIsFresh'
  BY Zenon, <1>2, <1>5, <1>9, <1>11, <1>12
     DEF DamageInv, NoLostDamage, NextFrameIsNewest, ReadyIsFresh, mainVars
<1> QED
  BY <1>2, <1>5, <1>7, <1>8, <1>10, <1>13 DEF DamageInv, mainVars

\* Delivering a frame keeps the invariant: wv_buffer_pool_damage_all() adds the
\* frame's damage to every other buffer, and the frame that now waits or is
\* sent carries the damage of the one it supersedes.
LEMMA FrameReadyInv == Inv /\ FrameReady => Inv'
<1>. SUFFICES ASSUME Inv, FrameReady
              PROVE  Inv'
  OBVIOUS
<1>. USE DEF Inv, TypeOK, CaptureTypeOK
<1>. DEFINE bd == DamageAll(buffer)
            fc == (frame_count + 1) % FrameCountMod
<1>1. /\ frame = "ready" /\ report = {} /\ buffer \in Buffers /\ buffer # None
      /\ UNCHANGED <<nr_clients, power, wlr_output_power>>
  BY DEF FrameReady, ExclusiveBuffers, BufferTypeOK
<1>2. bd \in [Buffers -> SUBSET Cells]
  BY <1>1 DEF DamageAll, BufferTypeOK
<1>3. fc \in 0..(FrameCountMod - 1)
  BY FrameCountAssumption DEF SessionTypeOK
<1>4. /\ stale[buffer] \subseteq pending
      /\ view \subseteq pending \cup frame_damage[buffer]
                 \cup (IF next_frame = None THEN {} ELSE frame_damage[next_frame])
  BY <1>1 DEF DamageInv, ReadyIsFresh, NoLostDamage, Undistributed
<1>5. \A x \in Buffers : stale[x] \subseteq bd[x] \cup pending
  BY Zenon, <1>1, <1>4 DEF DamageInv, BufferAge, Undistributed, DamageAll
<1>6. ASSUME ReadyOnly, Settle(bd), next_frame' = buffer,
             frame_damage' \in [Buffers -> SUBSET Cells],
             rate_limiter' \in BOOLEAN,
             nvnc_frame' = nvnc_frame \ ({next_frame} \ {None}),
             IF next_frame = None
             THEN frame_damage[buffer] \subseteq frame_damage'[buffer]
             ELSE frame_damage[buffer] \cup frame_damage[next_frame]
                      \subseteq frame_damage'[buffer]
      PROVE  Inv'
  <2>. HIDE DEF bd
  <2>1. SessionTypeOK'
    BY Zenon, <1>3, <1>6 DEF ReadyOnly, SessionTypeOK, sessionVars, constraintVars, poolVars
  <2>2. BufferTypeOK'
    BY Zenon, <1>1, <1>2, <1>6, SettleEffect DEF ReadyOnly, BufferTypeOK, FrameStates
  <2>3. ExclusiveBuffers'
    BY <1>1, <1>6 DEF ReadyOnly, ExclusiveBuffers
  <2>4. Undistributed' = {}
    BY Zenon, <1>6 DEF ReadyOnly, Undistributed
  <2>5. BufferAge'
    BY Zenon, <1>2, <1>5, <1>6, <2>4, SettleAge DEF ReadyOnly
  <2>6. NoLostDamage'
    BY Zenon, <1>1, <1>4, <1>6, <2>4 DEF ReadyOnly, NoLostDamage
  <2>7. NextFrameIsNewest'
    <3>1. buffer \in PoolList'
      BY Zenon, <1>1, <1>6 DEF PoolList, ExclusiveBuffers
    <3>2. stale'[buffer] = stale[buffer]
      BY Zenon, <3>1, <1>1, <1>2, <1>6, SettleEffect
    <3> QED
      BY Zenon, <3>2, <1>4, <1>6 DEF ReadyOnly, NextFrameIsNewest
  <2>8. ReadyIsFresh'
    BY <1>6 DEF ReadyOnly, ReadyIsFresh
  <2> QED
    BY Zenon, <1>1, <1>6, <2>1, <2>2, <2>3, <2>5, <2>6, <2>7, <2>8 DEF ReadyOnly, DamageInv
<1>7. CASE next_frame # None
  <2>1. /\ ReadyOnly /\ Settle(bd) /\ next_frame' = buffer /\ rate_limiter' = rate_limiter
        /\ nvnc_frame' = nvnc_frame \ {next_frame}
        /\ frame_damage' = [frame_damage EXCEPT
                               ![buffer] = @ \cup frame_damage[next_frame],
                               ![next_frame] = {}]
    BY <1>7 DEF FrameReady, Supersede, Postpone, SendAtOnce
  <2>2. next_frame \in Buffers /\ next_frame # buffer
    BY <1>1, <1>7 DEF ExclusiveBuffers
  <2>3. /\ frame_damage' \in [Buffers -> SUBSET Cells]
        /\ frame_damage[buffer] \cup frame_damage[next_frame] \subseteq frame_damage'[buffer]
    BY Zenon, <1>1, <2>1, <2>2 DEF BufferTypeOK
  <2>. HIDE DEF bd
  <2> QED
    BY Zenon, <1>6, <1>7, <2>1, <2>3
<1>8. CASE next_frame = None /\ ReadyOnly
  <2>1. /\ Settle(bd) /\ next_frame' = buffer /\ rate_limiter' \in BOOLEAN
        /\ UNCHANGED <<frame_damage, nvnc_frame>>
    BY Zenon, <1>8, <1>1 DEF FrameReady, Supersede, Postpone, SendAtOnce, SendNextFrame,
                      ReadyOnly, ExclusiveBuffers
  <2>. HIDE DEF bd
  <2> QED
    BY <1>6, <1>8, <2>1 DEF BufferTypeOK
<1>9. CASE /\ next_frame = None /\ rate_limiter' = rate_limiter
           /\ SendNextFrame(buffer, "none", fc, bd)
  <2>. HIDE DEF bd, fc
  <2>1. "none" \in FrameStates
    BY Zenon DEF FrameStates
  <2>2. /\ CaptureTypeOK' /\ ExclusiveBuffers' /\ DamageInv'
        /\ next_frame' = None /\ view' \subseteq Cells
    BY Zenon, <1>1, <1>2, <1>3, <1>4, <1>5, <1>9, <2>1, SendNextFrameInv
  <2> QED
    BY <1>1, <1>9, <2>2
<1> QED
  BY <1>7, <1>8, <1>9 DEF FrameReady, Supersede, Postpone, SendAtOnce

\* The rate limiter's timeout keeps the invariant.
LEMMA RateLimitTimeoutInv == Inv /\ RateLimitTimeout => Inv'
<1>. SUFFICES ASSUME Inv, RateLimitTimeout
              PROVE  Inv'
  OBVIOUS
<1>. USE DEF Inv, TypeOK, CaptureTypeOK
<1>1. rate_limiter' = FALSE /\ UNCHANGED <<nr_clients, power, wlr_output_power>>
  BY DEF RateLimitTimeout
<1>2. CASE next_frame = None
  <2>1. UNCHANGED <<captureVars, next_frame, view>>
    BY Zenon, <1>2 DEF RateLimitTimeout
  <2>2. SessionTypeOK'
    BY <2>1 DEF captureVars, SessionTypeOK, sessionVars, constraintVars, poolVars
  <2> QED
    BY Zenon, <1>1, <2>1, <2>2, OtherInv DEF captureVars
<1>3. CASE next_frame # None
  <2>1. SendNextFrame(next_frame, frame, frame_count, buffer_damage)
    BY Zenon, <1>3 DEF RateLimitTimeout
  <2>2. /\ next_frame \in Buffers /\ frame \in FrameStates
        /\ frame_count \in 0..(FrameCountMod - 1)
        /\ buffer_damage \in [Buffers -> SUBSET Cells]
    BY Zenon, <1>3 DEF SessionTypeOK, BufferTypeOK
  <2>3. Undistributed = IF frame = "none" THEN {} ELSE Undistributed
    BY Zenon DEF Undistributed
  <2>4. /\ frame = "ready" => stale[buffer] \subseteq pending
        /\ stale[next_frame] \subseteq pending \cup Undistributed
        /\ view \subseteq pending \cup frame_damage[next_frame] \cup Undistributed
        /\ \A x \in Buffers : stale[x] \subseteq buffer_damage[x] \cup pending \cup Undistributed
    BY Zenon, <1>3 DEF DamageInv, ReadyIsFresh, NextFrameIsNewest, NoLostDamage, BufferAge
  <2>5. /\ CaptureTypeOK' /\ ExclusiveBuffers' /\ DamageInv'
        /\ next_frame' = None /\ view' \subseteq Cells
    BY <2>1, <2>2, <2>3, <2>4, SendNextFrameInv
  <2> QED
    BY Zenon, <1>1, <2>5
<1> QED
  BY <1>2, <1>3

\* Connecting clients keep the invariant.
LEMMA ClientNewInv == Inv /\ ClientNew => Inv'
<1>. SUFFICES ASSUME Inv, ClientNew
              PROVE  Inv'
  OBVIOUS
<1>1. /\ UNCHANGED <<next_frame, rate_limiter, power, view>>
      /\ nr_clients' \in 0..MaxClients
      /\ wlr_output_power' \in BOOLEAN
  <2>1. nr_clients' \in 0..MaxClients
    BY ClientsAssumption DEF ClientNew, Inv, TypeOK
  <2>2. wlr_output_power' = TRUE \/ wlr_output_power' = wlr_output_power
    BY Zenon DEF ClientNew, StartCaptureImmediate
  <2> QED
    BY Zenon, <2>1, <2>2 DEF ClientNew, Inv, TypeOK
<1>2. StartImmediate \/ UNCHANGED captureVars
  BY Zenon DEF ClientNew, StartCaptureImmediate
<1>3. CASE StartImmediate
  BY Zenon, <1>1, <1>3, StartImmediateInv DEF Inv, TypeOK
<1>4. CASE UNCHANGED captureVars
  <2>1. SessionTypeOK'
    BY <1>4 DEF Inv, TypeOK, CaptureTypeOK, captureVars, SessionTypeOK, sessionVars,
                constraintVars, poolVars
  <2> QED
    BY Zenon, <1>1, <1>4, <2>1, OtherInv DEF captureVars, Inv, TypeOK
<1> QED
  BY <1>2, <1>3, <1>4

\* Disconnecting clients keep the invariant.
LEMMA ClientDestroyInv == Inv /\ ClientDestroy => Inv'
<1>. SUFFICES ASSUME Inv, ClientDestroy
              PROVE  Inv'
  OBVIOUS
<1>1. /\ UNCHANGED <<next_frame, rate_limiter, view>>
      /\ nr_clients' \in 0..MaxClients
      /\ wlr_output_power' \in BOOLEAN
      /\ power' \in {"unknown", "on", "off"}
  <2>1. nr_clients' \in 0..MaxClients
    BY ClientsAssumption DEF ClientDestroy, Inv, TypeOK
  <2>2. wlr_output_power' = FALSE \/ wlr_output_power' = wlr_output_power
    BY Zenon DEF ClientDestroy
  <2>3. power' = "unknown" \/ power' = power
    BY Zenon DEF ClientDestroy
  <2> QED
    BY Zenon, <2>1, <2>2, <2>3 DEF ClientDestroy, Inv, TypeOK
<1>2. Stop \/ UNCHANGED captureVars
  BY Zenon DEF ClientDestroy
<1>3. CASE Stop
  BY Zenon, <1>1, <1>3, StopInv DEF Inv, TypeOK
<1>4. CASE UNCHANGED captureVars
  <2>1. SessionTypeOK'
    BY <1>4 DEF Inv, TypeOK, CaptureTypeOK, captureVars, SessionTypeOK, sessionVars,
                constraintVars, poolVars
  <2> QED
    BY <1>1, <1>4, <2>1, OtherInv DEF captureVars, Inv, TypeOK
<1> QED
  BY <1>2, <1>3, <1>4

\* Power events keep the invariant.
LEMMA PowerModeInv == ASSUME NEW mode \in {"on", "off"}, Inv, PowerMode(mode) PROVE Inv'
<1>1. /\ UNCHANGED <<next_frame, rate_limiter, nr_clients, wlr_output_power>>
      /\ power' \in {"unknown", "on", "off"}
      /\ \/ StartImmediate /\ UNCHANGED view
         \/ Stop /\ view' = Cells
         \/ UNCHANGED captureVars /\ UNCHANGED view
  BY Zenon DEF PowerMode
<1>2. CASE StartImmediate /\ UNCHANGED view
  BY Zenon, <1>1, <1>2, StartImmediateInv DEF Inv, TypeOK
<1>3. CASE Stop /\ view' = Cells
  BY Zenon, <1>1, <1>3, StopInv DEF Inv, TypeOK
<1>4. CASE UNCHANGED captureVars /\ UNCHANGED view
  <2>1. SessionTypeOK'
    BY Zenon, <1>4 DEF Inv, TypeOK, CaptureTypeOK, captureVars, SessionTypeOK, sessionVars,
                constraintVars, poolVars
  <2> QED
    BY Zenon, <1>1, <1>4, <2>1, OtherInv DEF captureVars, Inv, TypeOK
<1> QED
  BY <1>1, <1>2, <1>3, <1>4

\* What is drawn on the screen keeps the invariant: the compositor accounts
\* for all of it.
LEMMA ScreenChangedInv == Inv /\ ScreenChanged => Inv'
<1>. SUFFICES ASSUME Inv, ScreenChanged
              PROVE  Inv'
  OBVIOUS
<1>. USE DEF Inv, TypeOK, CaptureTypeOK
<1>1. PICK region \in SUBSET Cells : ScreenChange(region) /\ view' = view \cup region
  BY Zenon DEF ScreenChanged
<1>2. UNCHANGED <<next_frame, rate_limiter, nr_clients, power, wlr_output_power>>
  BY Zenon DEF ScreenChanged
<1>3. /\ stale' \in [Buffers -> SUBSET Cells]
      /\ \A b \in Buffers : stale'[b] = stale[b] \cup region
      /\ pending' = pending \cup region
  BY Zenon, <1>1 DEF ScreenChange, BufferTypeOK
<1>4. TypeOK'
  BY <1>1, <1>2, <1>3 DEF ScreenChange, BufferTypeOK, SessionTypeOK, sessionVars,
                          constraintVars, poolVars
<1>5. ExclusiveBuffers'
  BY Zenon, <1>1, <1>2 DEF ScreenChange, ExclusiveBuffers
<1>6. Undistributed' = Undistributed
  BY Zenon, <1>1 DEF ScreenChange, Undistributed
<1>7. BufferAge'
  BY Zenon, <1>1, <1>3, <1>6 DEF ScreenChange, DamageInv, BufferAge
<1>8. NoLostDamage'
  BY Zenon, <1>1, <1>2, <1>3, <1>6 DEF ScreenChange, DamageInv, NoLostDamage
<1>9. NextFrameIsNewest'
  BY Zenon, <1>2, <1>3, <1>6 DEF DamageInv, NextFrameIsNewest
<1>10. ReadyIsFresh'
  <2>1. frame = "ready" => buffer \in Buffers
    BY Zenon DEF ExclusiveBuffers, BufferTypeOK
  <2> QED
    BY Zenon, <1>1, <1>3, <2>1 DEF ScreenChange, DamageInv, ReadyIsFresh
<1> QED
  BY Zenon, <1>4, <1>5, <1>7, <1>8, <1>9, <1>10 DEF DamageInv

\* The completion of a frame keeps the invariant: the damage declared for the
\* buffer and the damage reported make up for all that was stale in it.
LEMMA FrameCopiedInv == Inv /\ FrameCopied => Inv'
<1>. SUFFICES ASSUME Inv, FrameCopied
              PROVE  Inv'
  OBVIOUS
<1>. USE DEF Inv, TypeOK, CaptureTypeOK
<1>1. PICK damage \in SUBSET Cells, copied \in SUBSET Cells : CompositorCopy(damage, copied)
  BY DEF FrameCopied
<1>2. UNCHANGED mainVars
  BY Zenon DEF FrameCopied
<1>3. frame = "capturing" /\ buffer \in Buffers
  BY Zenon, <1>1 DEF CompositorCopy, ExclusiveBuffers, BufferTypeOK
<1>4. stale' \in [Buffers -> SUBSET Cells]
  BY Zenon, <1>1, <1>3 DEF CompositorCopy, BufferTypeOK
<1>5. CaptureTypeOK'
  BY <1>1, <1>4 DEF CompositorCopy, BufferTypeOK, SessionTypeOK, sessionVars, constraintVars,
                    poolVars, FrameStates
<1>6. ExclusiveBuffers'
  BY Zenon, <1>1, <1>2, <1>3 DEF CompositorCopy, ExclusiveBuffers, mainVars
<1>7. /\ Undistributed = {} /\ damage \subseteq Undistributed' /\ pending \subseteq damage
      /\ buffer_damage' = buffer_damage
  BY Zenon, <1>1, <1>3 DEF CompositorCopy, Undistributed
<1>8. stale'[buffer] = {}
  BY Zenon, <1>1, <1>3, <1>7 DEF CompositorCopy, DamageInv, BufferAge, BufferTypeOK
<1>9. \A b \in Buffers : b # buffer => stale'[b] = stale[b]
  BY <1>1, <1>3 DEF CompositorCopy, BufferTypeOK
<1>10. BufferAge'
  BY Zenon, <1>7, <1>8, <1>9 DEF DamageInv, BufferAge
<1>11. NoLostDamage'
  BY Zenon, <1>1, <1>2, <1>7 DEF CompositorCopy, DamageInv, NoLostDamage, mainVars
<1>12. NextFrameIsNewest'
  BY Zenon, <1>2, <1>3, <1>7, <1>9 DEF DamageInv, NextFrameIsNewest, ExclusiveBuffers, mainVars
<1>13. ReadyIsFresh'
  BY <1>1, <1>8 DEF CompositorCopy, ReadyIsFresh
<1> QED
  BY <1>2, <1>5, <1>6, <1>10, <1>11, <1>12, <1>13 DEF DamageInv, mainVars

\* The inductive invariant holds in every reachable state: buffers are used
\* exclusively, and damage is accounted for from the screen to the clients.
THEOREM InvHolds == Spec => []Inv
<1>1. Init => Inv
  <2>. SUFFICES ASSUME Init
                PROVE  Inv
    OBVIOUS
  <2>. USE DEF Init, CaptureInit
  <2>1. SessionTypeOK
    <3>1. frame_count \in 0..(FrameCountMod - 1)
      BY FrameCountAssumption
    <3>2. pool_config \in Configs
      BY Zenon DEF Configs
    <3> QED
      BY Zenon, <3>1, <3>2 DEF SessionTypeOK, Outcomes
  <2>2. BufferTypeOK
    BY DEF BufferTypeOK, FrameStates
  <2>3. TypeOK
    <3>1. nr_clients \in 0..MaxClients
      BY ClientsAssumption
    <3> QED
      BY Zenon, <2>1, <2>2, <3>1 DEF TypeOK, CaptureTypeOK
  <2>4. ExclusiveBuffers
    BY Zenon DEF ExclusiveBuffers
  <2>5. DamageInv
    BY Zenon DEF DamageInv, BufferAge, NoLostDamage, NextFrameIsNewest, ReadyIsFresh
  <2> QED
    BY <2>3, <2>4, <2>5 DEF Inv
<1>2. Inv /\ [Next]_vars => Inv'
  <2>. SUFFICES ASSUME Inv, [Next]_vars
                PROVE  Inv'
    OBVIOUS
  <2>1. CASE PowerFailed
    <3>1. SessionTypeOK'
      BY Zenon, <2>1 DEF PowerFailed, Inv, TypeOK, CaptureTypeOK, captureVars, SessionTypeOK,
                  sessionVars, constraintVars, poolVars
    <3> QED
      BY Zenon, <2>1, <3>1, OtherInv DEF PowerFailed, captureVars, Inv, TypeOK
  <2>2. CASE FrameUnref
    <3>1. PICK b \in Buffers : NeatvncUnref(b)
      BY Zenon, <2>2 DEF FrameUnref
    <3>2. SessionTypeOK'
      BY Zenon, <3>1 DEF NeatvncUnref, Inv, TypeOK, CaptureTypeOK, SessionTypeOK, sessionVars,
                  constraintVars, poolVars
    <3> QED
      BY <2>2, <3>1, <3>2, SettleOnlyInv DEF FrameUnref, NeatvncUnref
  <2>3. CASE UNCHANGED vars
    <3>1. SessionTypeOK'
      BY <2>3 DEF vars, Inv, TypeOK, CaptureTypeOK, captureVars, SessionTypeOK, sessionVars,
                  constraintVars, poolVars
    <3> QED
      BY Zenon, <2>3, <3>1, OtherInv DEF vars, captureVars, mainVars, Inv, TypeOK
  <2>4. CASE Dead
    BY <2>3, <2>4 DEF Dead
  <2> QED
    BY <2>1, <2>2, <2>3, <2>4, ConstraintsInv, ConstraintsDoneInv, CaptureTimerInv,
       FrameDamageInv, FrameReadyInv, FrameFailedInv, RateLimitTimeoutInv, ClientNewInv,
       ClientDestroyInv, PowerModeInv, ScreenChangedInv, FrameCopiedInv DEF Next
<1> QED
  BY <1>1, <1>2, PTL DEF Spec

\* Every variable keeps its type.
THEOREM TypeCorrect == Spec => []TypeOK
<1>1. Inv => TypeOK
  BY DEF Inv
<1> QED
  BY <1>1, InvHolds, PTL

\* Whatever is stale in a buffer will be captured when it is next used.
THEOREM BufferAgeHolds == Spec => []BufferAge
<1>1. Inv => BufferAge
  BY DEF Inv, DamageInv
<1> QED
  BY <1>1, InvHolds, PTL

\* No change of the screen is lost between the compositor and the clients.
THEOREM NoLostDamageHolds == Spec => []NoLostDamage
<1>1. Inv => NoLostDamage
  BY DEF Inv, DamageInv
<1> QED
  BY <1>1, InvHolds, PTL

\* No buffer is written to while it is read or waits to be sent.
THEOREM ExclusiveBuffersHolds == Spec => []ExclusiveBuffers
<1>1. Inv => ExclusiveBuffers
  BY Zenon DEF Inv
<1> QED
  BY <1>1, InvHolds, PTL

-----------------------------------------------------------------------------
(* The capture does not go to sleep.                                       *)

\* Starting the capture at once leaves it active.
LEMMA StartImmediateActive ==
    ASSUME Inv, ProgressInv, StartImmediate
    PROVE  /\ frame' # "none" \/ (session' /\ should_start')
           /\ frame' # "none" \/ frame_count' # 0 \/ timer' => session'
<1>1. CASE frame # "none"
  BY <1>1 DEF StartImmediate, captureVars, sessionVars, ProgressInv
<1>2. CASE frame = "none"
  <2>1. Start(TRUE, frame_count, nvnc_frame, Refs)
    BY Zenon, <1>2 DEF StartImmediate
  <2>2. session' = TRUE /\ should_start' = TRUE
    BY Zenon, <2>1 DEF Start
  <2> QED
    BY <2>2
<1> QED
  BY Zenon, <1>1, <1>2

\* Sending a frame starts the next capture, or finds one in flight.
LEMMA SendNextFrameActive ==
    ASSUME Inv, NEW b \in Buffers, NEW fr \in FrameStates, NEW fc \in 0..(FrameCountMod - 1),
           NEW bd, SendNextFrame(b, fr, fc, bd), session \/ fc = 0,
           frame # "none" \/ timer => session,
           fr = "none" \/ (fr = frame /\ fc = frame_count)
    PROVE  /\ fatal' \/ frame' # "none" \/ timer' \/ (session' /\ should_start')
           /\ frame' # "none" \/ frame_count' # 0 \/ timer' => session'
           /\ next_frame' = None
<1>. DEFINE own == nvnc_frame \ {b}
            refs == nvnc_frame \cup nvnc_refs
<1>1. next_frame' = None
  BY Zenon DEF SendNextFrame
<1>2. CASE fr # "none"
  <2>1. UNCHANGED <<sessionVars, frame, frame_count>>
    BY Zenon, <1>2 DEF SendNextFrame
  <2> QED
    BY <1>1, <1>2, <2>1 DEF sessionVars
<1>3. CASE fr = "none"
  <2>1. Start(FALSE, fc, own, refs)
    BY Zenon, <1>3 DEF SendNextFrame
  <2>2. own \in SUBSET Buffers /\ refs \in SUBSET Buffers /\ FALSE \in BOOLEAN /\ CaptureTypeOK
    BY DEF Inv, TypeOK, CaptureTypeOK, BufferTypeOK
  <2>. HIDE DEF own, refs
  <2>3. session' /\ (fatal' \/ frame' # "none" \/ timer' \/ should_start')
    BY Zenon, <2>1, <2>2, StartEffect
  <2> QED
    BY <1>1, <2>3
<1> QED
  BY Zenon, <1>2, <1>3

\* Steps of the capture object alone, which leave main.c's variables as they
\* are, need only keep the capture active unless it has failed for good.
LEMMA CaptureStepProgress ==
    ASSUME ProgressInv, UNCHANGED mainVars, Running,
           frame' # "none" \/ frame_count' # 0 \/ timer' => session',
           ~Running' \/ fatal' \/ frame' # "none" \/ timer' \/ (session' /\ should_start')
               \/ UNCHANGED <<frame, timer, session, should_start, fatal>>
    PROVE  ProgressInv'
  BY DEF ProgressInv, NoStall, Capturing, Running, mainVars

\* Events and timers of the capture object keep the capture going.
LEMMA CaptureProgress ==
    ASSUME Inv, ProgressInv,
           Constraints \/ ConstraintsDone \/ CaptureTimer \/ FrameDamage \/ FrameFailed
               \/ FrameCopied \/ FrameUnref
    PROVE  ProgressInv'
<1>1. CASE Constraints
  <2>1. UNCHANGED <<session, should_start, timer, frame, frame_count, fatal, aborted, mainVars>>
    BY Zenon, <1>1 DEF Constraints, HandleFormatShm, HandleFormatDrm, HandleDimensions, ConstraintEvent
  <2> QED
    BY Zenon, <2>1 DEF ProgressInv, NoStall, Capturing, Running, mainVars
<1>2. CASE ConstraintsDone
  <2>1. UNCHANGED mainVars /\ session /\ Running
    BY <1>2 DEF ConstraintsDone, HandleConstraintsDone
  <2>2. PICK o \in ConfigBuffers :
          \/ AssertNoFrame
          \/ ScheduleCapture(o, nvnc_frame, Refs) /\ UNCHANGED <<session, timer, frame_count>>
          \/ UNCHANGED <<session, should_start, timer, frame, frame_count, fatal>>
    BY <1>2, Zenon DEF ConstraintsDone, HandleConstraintsDone
  <2>3. CASE AssertNoFrame
    BY Zenon, <2>1, <2>3, CaptureStepProgress DEF AssertNoFrame, sessionVars, Running
  <2>4. CASE ScheduleCapture(o, nvnc_frame, Refs) /\ UNCHANGED <<session, timer, frame_count>>
    <3>1. fatal' \/ frame' # "none"
      BY Zenon, <2>4 DEF ScheduleCapture
    <3> QED
      BY Zenon, <2>1, <2>4, <3>1, CaptureStepProgress
  <2>5. CASE UNCHANGED <<session, should_start, timer, frame, frame_count, fatal>>
    BY <2>1, <2>5, CaptureStepProgress
  <2> QED
    BY Zenon, <2>2, <2>3, <2>4, <2>5
<1>3. CASE CaptureTimer
  <2>1. UNCHANGED mainVars /\ Running
    BY Zenon, <1>3 DEF CaptureTimer
  <2>2. CASE frame # "none"
    <3>1. AssertNoFrame
      BY Zenon, <1>3, <2>2 DEF CaptureTimer, ScheduleFromTimer
    <3> QED
      BY Zenon, <2>1, <2>2, <3>1, CaptureStepProgress DEF AssertNoFrame, sessionVars, Running, ProgressInv
  <2>3. CASE frame = "none"
    <3>1. PICK o \in ConfigBuffers : ScheduleCapture(o, nvnc_frame, Refs)
      BY Zenon, <1>3, <2>3 DEF CaptureTimer, ScheduleFromTimer
    <3>2. UNCHANGED <<session, frame_count>>
      BY Zenon, <1>3, <2>3 DEF CaptureTimer, ScheduleFromTimer
    <3>3. fatal' \/ frame' # "none"
      BY Zenon, <3>1 DEF ScheduleCapture
    <3>4. session
      BY Zenon, <1>3 DEF CaptureTimer, ScheduleFromTimer, ProgressInv
    <3> QED
      BY Zenon, <2>1, <3>2, <3>3, <3>4, CaptureStepProgress
  <2> QED
    BY <2>2, <2>3
<1>4. CASE FrameDamage
  <2>1. UNCHANGED <<session, should_start, timer, frame, frame_count, fatal, aborted, mainVars>>
    BY <1>4 DEF FrameDamage, HandleDamage, sessionVars
  <2> QED
    BY Zenon, <2>1 DEF ProgressInv, NoStall, Capturing, Running, mainVars
<1>5. CASE FrameFailed
  <2>1. PICK reason \in {"unknown", "buffer_constraints", "stopped"} : HandleFailed(reason)
    BY Zenon, <1>5 DEF FrameFailed
  <2>2. UNCHANGED mainVars /\ Running /\ session
    BY Zenon, <1>5, <2>1 DEF FrameFailed, HandleFailed, ProgressInv
  <2>3. CASE reason = "buffer_constraints"
    <3>. DEFINE own == nvnc_frame \ {buffer}
                refs == own \cup nvnc_refs
    <3>1. Start(FALSE, frame_count, own, refs)
      BY Zenon, <2>1, <2>3 DEF HandleFailed
    <3>2. /\ own \in SUBSET Buffers /\ refs \in SUBSET Buffers /\ FALSE \in BOOLEAN
          /\ CaptureTypeOK /\ frame_count \in 0..(FrameCountMod - 1)
      BY DEF Inv, TypeOK, CaptureTypeOK, BufferTypeOK, SessionTypeOK
    <3>. HIDE DEF own, refs
    <3>3. session' /\ (fatal' \/ frame' # "none" \/ timer' \/ should_start')
      BY Zenon, <2>2, <3>1, <3>2, StartEffect
    <3> QED
      BY <2>2, <3>3, CaptureStepProgress
  <2>4. CASE reason # "buffer_constraints"
    <3>1. fatal' = TRUE /\ UNCHANGED sessionVars
      BY Zenon, <2>1, <2>4 DEF HandleFailed
    <3> QED
      BY <2>2, <3>1, CaptureStepProgress DEF sessionVars
  <2> QED
    BY <2>3, <2>4
<1>6. CASE FrameCopied
  <2>1. /\ UNCHANGED <<session, should_start, timer, frame_count, fatal, aborted, mainVars>>
        /\ frame # "none" /\ frame' # "none"
    BY Zenon, <1>6 DEF FrameCopied, CompositorCopy, sessionVars
  <2> QED
    BY Zenon, <2>1 DEF ProgressInv, NoStall, Capturing, Running, mainVars
<1>7. CASE FrameUnref
  <2>1. UNCHANGED <<session, should_start, timer, frame, frame_count, fatal, aborted, mainVars>>
    BY <1>7 DEF FrameUnref, NeatvncUnref, sessionVars
  <2> QED
    BY <2>1 DEF ProgressInv, NoStall, Capturing, Running, mainVars
<1> QED
  BY Zenon, <1>1, <1>2, <1>3, <1>4, <1>5, <1>6, <1>7

\* A delivered frame is sent, which starts the next capture, or waits for the
\* rate limiter.
LEMMA FrameReadyProgress == Inv /\ ProgressInv /\ FrameReady => ProgressInv'
<1>. SUFFICES ASSUME Inv, ProgressInv, FrameReady
              PROVE  ProgressInv'
  OBVIOUS
<1>. DEFINE fc == (frame_count + 1) % FrameCountMod
<1>1. /\ frame = "ready" /\ session /\ buffer \in Buffers
      /\ UNCHANGED <<nr_clients, power, wlr_output_power>>
  BY Zenon DEF FrameReady, ProgressInv, Inv, ExclusiveBuffers, TypeOK, CaptureTypeOK, BufferTypeOK
<1>2. fc \in 0..(FrameCountMod - 1)
  BY FrameCountAssumption DEF Inv, TypeOK, CaptureTypeOK, SessionTypeOK
<1>3. CASE ReadyOnly /\ next_frame' = buffer /\ rate_limiter'
  <2>1. session' /\ next_frame' # None
    BY Zenon, <1>1, <1>3, FormatsAssumption DEF ReadyOnly, sessionVars
  <2> QED
    BY Zenon, <1>1, <1>3, <2>1 DEF ProgressInv, NoStall
<1>4. CASE SendNextFrame(buffer, "none", fc, DamageAll(buffer))
  <2>. HIDE DEF fc
  <2>1. "none" \in FrameStates
    BY Zenon DEF FrameStates
  <2>2. /\ fatal' \/ frame' # "none" \/ timer' \/ (session' /\ should_start')
        /\ frame' # "none" \/ frame_count' # 0 \/ timer' => session'
        /\ next_frame' = None
    BY <1>1, <1>2, <1>4, <2>1, SendNextFrameActive
  <2> QED
    BY <1>1, <2>2 DEF ProgressInv, NoStall, Capturing
<1>5. CASE next_frame # None
  <2>1. ReadyOnly /\ next_frame' = buffer /\ rate_limiter' = rate_limiter
    BY <1>5, Zenon DEF FrameReady, Supersede, Postpone, SendAtOnce
  <2>2. rate_limiter
    BY Zenon, <1>5 DEF ProgressInv
  <2> QED
    BY <1>3, <2>1, <2>2
<1>6. CASE next_frame = None
  <2>1. \/ ReadyOnly /\ next_frame' = buffer /\ rate_limiter' = TRUE
        \/ SendNextFrame(buffer, "none", fc, DamageAll(buffer))
    BY <1>6, Zenon DEF FrameReady, Supersede, Postpone, SendAtOnce
  <2> QED
    BY <1>3, <1>4, <2>1
<1> QED
  BY <1>5, <1>6

\* The rate limiter sends the frame that waits, which starts the next capture.
LEMMA RateLimitTimeoutProgress == Inv /\ ProgressInv /\ RateLimitTimeout => ProgressInv'
<1>. SUFFICES ASSUME Inv, ProgressInv, RateLimitTimeout
              PROVE  ProgressInv'
  OBVIOUS
<1>1. UNCHANGED <<nr_clients, power, wlr_output_power>>
  BY Zenon DEF RateLimitTimeout
<1>2. CASE next_frame = None
  <2>1. UNCHANGED <<session, should_start, timer, frame, frame_count, fatal, aborted, next_frame>>
    BY Zenon, <1>2 DEF RateLimitTimeout, captureVars, sessionVars
  <2> QED
    BY Zenon, <1>1, <1>2, <2>1 DEF ProgressInv, NoStall, Capturing, Running
<1>3. CASE next_frame # None
  <2>1. /\ SendNextFrame(next_frame, frame, frame_count, buffer_damage)
        /\ next_frame \in Buffers /\ frame \in FrameStates
        /\ frame_count \in 0..(FrameCountMod - 1)
    BY <1>3 DEF RateLimitTimeout, Inv, TypeOK, CaptureTypeOK, BufferTypeOK, SessionTypeOK
  <2>2. session \/ frame_count = 0
    BY DEF ProgressInv
  <2>3. frame # "none" \/ timer => session
    BY Zenon DEF ProgressInv
  <2>4. /\ fatal' \/ frame' # "none" \/ timer' \/ (session' /\ should_start')
        /\ frame' # "none" \/ frame_count' # 0 \/ timer' => session'
        /\ next_frame' = None
    BY Zenon, <2>1, <2>2, <2>3, SendNextFrameActive
  <2> QED
    BY Zenon, <1>1, <2>4 DEF ProgressInv, NoStall, Capturing
<1> QED
  BY <1>2, <1>3

\* Stopping the capture is right once no frames are expected.
LEMMA StopProgress ==
    ASSUME ProgressInv, Stop, UNCHANGED <<next_frame, rate_limiter>>, ~Capturing',
           power' = "on" => wlr_output_power', wlr_output_power' => PowerManager
    PROVE  ProgressInv'
<1>1. frame' = "none" /\ frame_count' = 0 /\ timer' = FALSE
  BY Zenon DEF Stop, DeinitSession
<1> QED
  BY <1>1 DEF ProgressInv, NoStall

\* The first client starts the capture, or waits for the output to be on.
LEMMA ClientNewProgress == Inv /\ ProgressInv /\ ClientNew => ProgressInv'
<1>. SUFFICES ASSUME Inv, ProgressInv, ClientNew
              PROVE  ProgressInv'
  OBVIOUS
<1>1. UNCHANGED <<next_frame, rate_limiter, power>> /\ Running
  BY Zenon DEF ClientNew
<1>2. CASE nr_clients # 0
  <2>1. UNCHANGED <<captureVars, wlr_output_power>>
    BY <1>2 DEF ClientNew
  <2>2. nr_clients > 0
    BY <1>2 DEF Inv, TypeOK
  <2> QED
    BY <1>1, <2>1, <2>2 DEF captureVars, sessionVars, ProgressInv, NoStall, Capturing, Running
<1>3. CASE nr_clients = 0 /\ StartImmediate /\ UNCHANGED wlr_output_power
  BY Zenon, <1>1, <1>3, StartImmediateActive DEF ProgressInv, NoStall
<1>4. CASE nr_clients = 0 /\ UNCHANGED captureVars /\ PowerManager
           /\ power # "on" /\ wlr_output_power' \in BOOLEAN
  BY <1>1, <1>4 DEF captureVars, sessionVars, ProgressInv, NoStall, Capturing
<1>5. nr_clients = 0 =>
          \/ StartImmediate /\ UNCHANGED wlr_output_power
          \/ wlr_output_power /\ power # "on" /\ UNCHANGED <<captureVars, wlr_output_power>>
          \/ ~wlr_output_power /\ PowerManager /\ wlr_output_power' = TRUE
             /\ UNCHANGED captureVars
  BY Zenon DEF ClientNew, StartCaptureImmediate
<1>6. /\ wlr_output_power => PowerManager
      /\ power = "on" => wlr_output_power
      /\ wlr_output_power \in BOOLEAN
  BY DEF ProgressInv, Inv, TypeOK
<1> QED
  BY Zenon, <1>2, <1>3, <1>4, <1>5, <1>6

\* The last client's departure ends the capture.
LEMMA ClientDestroyProgress == Inv /\ ProgressInv /\ ClientDestroy => ProgressInv'
<1>. SUFFICES ASSUME Inv, ProgressInv, ClientDestroy
              PROVE  ProgressInv'
  OBVIOUS
<1>1. UNCHANGED <<next_frame, rate_limiter>> /\ Running /\ nr_clients > 0
      /\ nr_clients' = nr_clients - 1
  BY DEF ClientDestroy
<1>2. CASE nr_clients = 1
  <2>1. /\ Stop /\ wlr_output_power' = FALSE
        /\ power' = IF wlr_output_power THEN "unknown" ELSE power
    BY <1>2 DEF ClientDestroy
  <2>2. nr_clients' = 0
    BY <1>1, <1>2
  <2>3. ~Capturing'
    BY <2>2 DEF Capturing
  <2>4. power' # "on"
    BY Zenon, <2>1 DEF ProgressInv
  <2> QED
    BY <1>1, <2>1, <2>3, <2>4, StopProgress
<1>3. CASE nr_clients # 1
  <2>1. UNCHANGED <<captureVars, power, wlr_output_power>>
    BY <1>3 DEF ClientDestroy
  <2> QED
    BY <1>1, <2>1 DEF captureVars, sessionVars, ProgressInv, NoStall, Capturing, Running
<1> QED
  BY <1>2, <1>3

\* An output that comes on is captured at once, one that goes off is not.
LEMMA PowerModeProgress ==
    ASSUME Inv, ProgressInv, NEW mode \in {"on", "off"}, PowerMode(mode)
    PROVE  ProgressInv'
<1>1. /\ UNCHANGED <<next_frame, rate_limiter, nr_clients, wlr_output_power>>
      /\ wlr_output_power /\ PowerManager /\ power' = mode /\ nr_clients \in Nat
  BY ClientsAssumption DEF PowerMode, ProgressInv, Inv, TypeOK
<1>2. CASE nr_clients = 0
  <2>1. ~(nr_clients > 0)
    BY <1>2
  <2>2. UNCHANGED <<session, timer, frame, frame_count>>
    BY Zenon, <2>1 DEF PowerMode, captureVars, sessionVars
  <2> QED
    BY Zenon, <1>1, <2>1, <2>2 DEF ProgressInv, NoStall, Capturing
<1>3. CASE nr_clients > 0 /\ mode = "on"
  <2>1. StartImmediate
    BY <1>3 DEF PowerMode
  <2> QED
    BY <1>1, <2>1, StartImmediateActive DEF ProgressInv, NoStall
<1>4. CASE nr_clients > 0 /\ mode = "off"
  <2>1. Stop
    BY <1>4 DEF PowerMode
  <2>2. ~Capturing'
    BY <1>1, <1>4 DEF Capturing
  <2> QED
    BY <1>1, <1>4, <2>1, <2>2, StopProgress
<1> QED
  BY <1>1, <1>2, <1>3, <1>4

\* While clients watch an output that is on, the capture never goes to sleep.
THEOREM NoStallHolds == Spec => []NoStall
<1>1. Init => ProgressInv
  BY DEF Init, CaptureInit, ProgressInv, NoStall, Capturing
<1>2. Inv /\ ProgressInv /\ [Next]_vars => ProgressInv'
  <2>. SUFFICES ASSUME Inv, ProgressInv, [Next]_vars
                PROVE  ProgressInv'
    OBVIOUS
  <2>1. CASE PowerFailed
    BY Zenon, <2>1 DEF PowerFailed, captureVars, sessionVars, ProgressInv, NoStall, Capturing, Running
  <2>2. CASE ScreenChanged
    <3>1. UNCHANGED <<session, should_start, timer, frame, frame_count, fatal, aborted,
                      next_frame, rate_limiter, nr_clients, power, wlr_output_power>>
      BY Zenon, <2>2 DEF ScreenChanged, ScreenChange, sessionVars
    <3> QED
      BY Zenon, <3>1 DEF ProgressInv, NoStall, Capturing, Running
  <2>3. CASE UNCHANGED vars
    BY <2>3 DEF vars, captureVars, sessionVars, mainVars, ProgressInv, NoStall, Capturing, Running
  <2>4. CASE Dead
    BY <2>3, <2>4 DEF Dead
  <2> QED
    BY <2>1, <2>2, <2>3, <2>4, CaptureProgress, FrameReadyProgress, RateLimitTimeoutProgress,
       ClientNewProgress, ClientDestroyProgress, PowerModeProgress DEF Next
<1>3. ProgressInv => NoStall
  BY DEF ProgressInv
<1> QED
  BY <1>1, <1>2, <1>3, InvHolds, PTL DEF Spec
=============================================================================
