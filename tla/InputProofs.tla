----------------------------- MODULE InputProofs -----------------------------
(***************************************************************************)
(* Proofs about Input.tla, for every keymap, number of groups and keys     *)
(* held, for every resolution of the pointer and all points and            *)
(* transforms.                                                             *)
(***************************************************************************)
EXTENDS Input, TLAPS

KeyboardFields ==
    {"state", "key_state", "depressed", "locked", "unlock", "group", "last_sent_group"}
VkFields == {"pressed", "depressed", "locked", "group", "told", "repeated", "typed"}

-----------------------------------------------------------------------------
(* The keyboard.                                                           *)

\* xkb_state_update_key() leaves the set of pressed keys alone.
LEMMA UpdateKeyEffect ==
    ASSUME NEW k, DOMAIN k = KeyboardFields, NEW code, NEW pressed
    PROVE  /\ DOMAIN UpdateKey(k, code, pressed) = KeyboardFields
           /\ UpdateKey(k, code, pressed).key_state = k.key_state
           /\ UpdateKey(k, code, pressed).state = k.state
  BY DEF UpdateKey, KeyboardFields

\* keyboard_send_mods() tells the compositor the modifiers and the group.
LEMMA SendModsEffect ==
    ASSUME NEW v, DOMAIN v = VkFields, NEW k
    PROVE  /\ DOMAIN SendMods(v, k) = VkFields
           /\ SendMods(v, k).pressed = v.pressed
           /\ SendMods(v, k).repeated = v.repeated
           /\ SendMods(v, k).depressed = k.depressed
           /\ SendMods(v, k).locked = k.locked
  BY DEF SendMods, VkFields

\* A keyboard and a virtual keyboard that agree
Agree(k, v) ==
    /\ DOMAIN k = KeyboardFields /\ DOMAIN v = VkFields
    /\ v.pressed = k.key_state /\ ~v.repeated
    /\ v.depressed = k.depressed /\ v.locked = k.locked

\* The invariant of the keyboard in terms of Agree
LEMMA KeyboardInvAgree == KeyboardInv <=> Agree(keyboard, vk)
  BY DEF KeyboardInv, KeyboardAgrees, Agree, KeyboardFields, VkFields

\* A key that changes its state is sent once, and with it the modifiers that it
\* changes; those of send_key_with_level() are taken back.
LEMMA PressKeyInv ==
    ASSUME NEW k, Agree(k, vk), NEW code, NEW pressed \in BOOLEAN, NEW matches \in BOOLEAN,
           NEW level, NEW want, Changes(k, code, pressed),
           PressKey(k, code, pressed, matches, level, want)
    PROVE  KeyboardInv'
<1>. DEFINE kept == UpdateKeyState(k, code, pressed)
            next == UpdateKey(kept, code, pressed)
            applies == AppliesMods(k, next)
            told == IF applies THEN SendMods(vk, next) ELSE vk
            down == IF pressed THEN k.key_state \cup {code} ELSE k.key_state \ {code}
<1>1. /\ DOMAIN kept = KeyboardFields /\ kept.key_state = down
      /\ kept.depressed = k.depressed /\ kept.locked = k.locked
  BY DEF UpdateKeyState, Agree, KeyboardFields
<1>2. DOMAIN next = KeyboardFields /\ next.key_state = down
  <2>. HIDE DEF kept
  <2> QED
    BY <1>1, UpdateKeyEffect
<1>3. ~applies => next.depressed = k.depressed /\ next.locked = k.locked
  BY DEF AppliesMods
<1>4. /\ DOMAIN told = VkFields /\ told.pressed = k.key_state /\ ~told.repeated
      /\ told.depressed = next.depressed /\ told.locked = next.locked
  <2>. HIDE DEF next, applies
  <2>1. CASE applies
    BY <2>1, SendModsEffect DEF Agree
  <2>2. CASE ~applies
    BY <1>3, <2>2 DEF Agree
  <2> QED
    BY <2>1, <2>2
<1>5. /\ keyboard' = IF applies \/ ~matches THEN SentMods(next) ELSE next
      /\ vk' = IF matches THEN SendKey(told, code, pressed, want)
               ELSE SendKeyWithLevel(told, next, code, pressed, level, want)
  BY DEF PressKey
<1>. HIDE DEF next, applies, told
<1>6. /\ DOMAIN keyboard' = KeyboardFields /\ keyboard'.key_state = down
      /\ keyboard'.depressed = next.depressed /\ keyboard'.locked = next.locked
  BY <1>2, <1>5 DEF SentMods, KeyboardFields
<1>7. code \in k.key_state <=> ~pressed
  BY DEF Changes
<1>8. CASE matches
  <2>1. vk' = SendKey(told, code, pressed, want)
    BY <1>5, <1>8
  <2>2. /\ DOMAIN vk' = VkFields /\ vk'.pressed = down /\ ~vk'.repeated
        /\ vk'.depressed = next.depressed /\ vk'.locked = next.locked
    <3>1. ~told.repeated /\ (code \in told.pressed <=> ~pressed)
      BY <1>4, <1>7
    <3>2. DOMAIN told = VkFields /\ told.pressed = k.key_state
      BY <1>4
    <3>3. /\ DOMAIN vk' = VkFields /\ ~vk'.repeated
          /\ pressed => vk'.pressed = told.pressed \cup {code}
          /\ ~pressed => vk'.pressed = told.pressed \ {code}
          /\ vk'.depressed = told.depressed /\ vk'.locked = told.locked
      BY <2>1, <3>1, <3>2, Zenon DEF SendKey, VkFields
    <3> QED
      BY <1>4, <3>2, <3>3
  <2> QED
    BY <1>6, <2>2, KeyboardInvAgree DEF KeyboardInv, KeyboardAgrees, KeyboardFields, VkFields
<1>9. CASE ~matches
  <2>. DEFINE lev == SendMods(told, Levelled(next, level))
              sent == SendKey(lev, code, pressed, want)
  <2>1. vk' = SendMods(sent, next)
    BY <1>5, <1>9 DEF SendKeyWithLevel
  <2>2. DOMAIN lev = VkFields /\ lev.pressed = k.key_state /\ ~lev.repeated
    BY <1>4, SendModsEffect
  <2>. HIDE DEF lev
  <2>3. DOMAIN sent = VkFields /\ sent.pressed = down /\ ~sent.repeated
    <3>1. code \in lev.pressed <=> ~pressed
      BY <1>7, <2>2
    <3>2. /\ DOMAIN sent = VkFields /\ ~sent.repeated
          /\ pressed => sent.pressed = lev.pressed \cup {code}
          /\ ~pressed => sent.pressed = lev.pressed \ {code}
      BY <2>2, <3>1, Zenon DEF SendKey, VkFields
    <3>. HIDE DEF sent
    <3> QED
      BY <2>2, <3>2
  <2>. HIDE DEF sent
  <2>4. /\ DOMAIN vk' = VkFields /\ vk'.pressed = down /\ ~vk'.repeated
        /\ vk'.depressed = next.depressed /\ vk'.locked = next.locked
    BY <2>1, <2>3, SendModsEffect
  <2> QED
    BY <1>6, <2>4 DEF KeyboardInv, KeyboardAgrees, KeyboardFields, VkFields
<1> QED
  BY <1>8, <1>9

\* keyboard_feed()
LEMMA FeedInv ==
    ASSUME KeyboardInv, NEW symbol, NEW pressed \in BOOLEAN, Feed(symbol, pressed)
    PROVE  KeyboardInv'
<1>. DEFINE find == FindSymbol(keyboard, symbol)
            k == [keyboard EXCEPT !.group = find.group]
            match == IF symbol \in ModSymbols THEN find.entry ELSE MatchLevel(k, find.entry)
            entry == LookupTable[IF match # 0 THEN match ELSE find.entry]
            want == IF symbol \in ModSymbols THEN Unknown ELSE symbol
<1>1. Agree(k, vk)
  BY KeyboardInvAgree DEF Agree, KeyboardFields
<1>2. \/ UNCHANGED <<keyboard, vk>>
      \/ /\ Changes(k, entry.code, pressed)
         /\ PressKey(k, entry.code, pressed, match # 0, entry.level, want)
      \/ keyboard' = k /\ UNCHANGED vk
  BY DEF Feed
<1>. HIDE DEF k, match, entry, want
<1>3. CASE UNCHANGED <<keyboard, vk>>
  BY <1>3 DEF KeyboardInv, KeyboardAgrees
<1>4. CASE keyboard' = k /\ UNCHANGED vk
  BY <1>1, <1>4 DEF Agree, KeyboardInv, KeyboardAgrees, KeyboardFields, VkFields
<1>5. CASE /\ Changes(k, entry.code, pressed)
           /\ PressKey(k, entry.code, pressed, match # 0, entry.level, want)
  <2>1. (match # 0) \in BOOLEAN
    OBVIOUS
  <2> QED
    BY <1>1, <1>5, <2>1, PressKeyInv, Zenon
<1> QED
  BY <1>2, <1>3, <1>4, <1>5

\* keyboard_feed_code()
LEMMA FeedCodeInv ==
    ASSUME KeyboardInv, NEW code, NEW pressed \in BOOLEAN, FeedCode(code, pressed)
    PROVE  KeyboardInv'
<1>1. CASE Changes(keyboard, code, pressed)
  <2>1. PressKey(keyboard, code, pressed, TRUE, 0, Unknown)
    BY <1>1, Zenon DEF FeedCode
  <2>2. TRUE \in BOOLEAN
    OBVIOUS
  <2> QED
    BY <1>1, <2>1, <2>2, KeyboardInvAgree, PressKeyInv, Zenon
<1>2. CASE ~Changes(keyboard, code, pressed)
  BY <1>2 DEF FeedCode, KeyboardInv, KeyboardAgrees
<1> QED
  BY <1>1, <1>2

\* keyboard_init() and keyboard_destroy()
LEMMA KeyboardLifeInv ==
    ASSUME KeyboardInv, KeyboardInit \/ KeyboardDestroy
    PROVE  KeyboardInv'
<1>1. /\ DOMAIN keyboard' = KeyboardFields /\ keyboard'.key_state = {}
      /\ keyboard'.depressed = {} /\ keyboard'.locked = {}
  BY Zenon DEF KeyboardInit, KeyboardDestroy, KeyboardInv, KeyboardFields
<1>2. vk' = NewVirtualKeyboard
  BY Zenon DEF KeyboardInit, KeyboardDestroy
<1>3. /\ DOMAIN vk' = VkFields /\ vk'.pressed = {} /\ ~vk'.repeated
      /\ vk'.depressed = {} /\ vk'.locked = {}
  BY <1>2 DEF NewVirtualKeyboard, VkFields
<1> QED
  BY <1>1, <1>3 DEF KeyboardInv, KeyboardAgrees, KeyboardFields, VkFields

\* on_key_event() and on_key_code_event() of a keyboard without a keymap
LEMMA CrashInv ==
    ASSUME KeyboardInv, Crash
    PROVE  KeyboardInv'
<1>1. /\ DOMAIN keyboard' = KeyboardFields /\ keyboard'.key_state = keyboard.key_state
      /\ keyboard'.depressed = keyboard.depressed /\ keyboard'.locked = keyboard.locked
  BY DEF Crash, KeyboardInv, KeyboardFields
<1> QED
  BY <1>1 DEF Crash, KeyboardInv, KeyboardAgrees, KeyboardFields

\* However a client presses, releases and repeats keys, by symbol or by code,
\* and whenever the server detaches and attaches: after each callback the
\* compositor has the pressed keys and modifiers that keyboard.c believes it to
\* have, and it never gets a press of a pressed key or a release of a released
\* one.
THEOREM KeyboardAgreesHolds == Spec => []KeyboardAgrees
<1>1. Init => KeyboardInv
  BY DEF Init, KeyboardCreate, NewVirtualKeyboard, KeyboardInv, KeyboardAgrees
<1>2. KeyboardInv /\ [Next]_vars => KeyboardInv'
  <2>. SUFFICES ASSUME KeyboardInv, [Next]_vars PROVE KeyboardInv'
    OBVIOUS
  <2>0. ASSUME UNCHANGED keyboardVars PROVE KeyboardInv'
    BY <2>0 DEF keyboardVars, KeyboardInv, KeyboardAgrees
  <2>1. ASSUME NEW s, NEW pressed \in BOOLEAN, OnKeyEvent(s, pressed) PROVE KeyboardInv'
    BY <2>0, <2>1, CrashInv, FeedInv DEF OnKeyEvent, KeyEvent, KeyboardInv
  <2>2. ASSUME NEW c, NEW pressed \in BOOLEAN, OnKeyCodeEvent(c, pressed) PROVE KeyboardInv'
    BY <2>0, <2>2, CrashInv, FeedCodeInv DEF OnKeyCodeEvent, KeyCodeEvent, KeyboardInv
  <2>3. ASSUME NEW source, Attach(source) PROVE KeyboardInv'
    BY <2>3, KeyboardLifeInv DEF Attach
  <2>4. CASE Detach
    BY <2>4, KeyboardLifeInv DEF Detach
  <2> QED
    BY <2>0, <2>1, <2>2, <2>3, <2>4 DEF Next, OnPointerEvent, SwitchSource, Dead, vars
<1>3. KeyboardInv => KeyboardAgrees
  BY DEF KeyboardInv
<1> QED
  BY <1>1, <1>2, <1>3, PTL DEF Spec

-----------------------------------------------------------------------------
(* The pointer.                                                            *)

\* A clamped point is on the picture, and so is its transform.
LEMMA CanvasPointType ==
    ASSUME NEW p \in Points, NEW transform \in Transforms
    PROVE  CanvasPoint(transform, <<Clamp(p[1]), Clamp(p[2])>>) \in Coordinates \X Coordinates
<1>1. Clamp(p[1]) \in Coordinates /\ Clamp(p[2]) \in Coordinates
  BY PointsAssumption, UnitAssumption DEF Clamp, Coordinates
<1>2. ASSUME NEW x \in Coordinates, NEW y \in Coordinates
      PROVE  CanvasPoint(transform, <<x, y>>) \in Coordinates \X Coordinates
  <2>1. Unit - x \in Coordinates /\ Unit - y \in Coordinates
    BY UnitAssumption DEF Coordinates
  <2> QED
    BY <2>1, TransformsAssumption DEF CanvasPoint, AllTransforms
<1> QED
  BY <1>1, <1>2

\* What the integers current_x and current_y keep of a coordinate: whether it
\* is 1.0.
LEMMA StoredType ==
    ASSUME NEW q \in Coordinates \X Coordinates
    PROVE  Stored(q) \in {0, 1} \X {0, 1}
<1>1. ASSUME NEW n \in Coordinates PROVE n \div Unit \in {0, 1}
  <2>1. CASE n = Unit
    BY <2>1, UnitAssumption DEF Coordinates
  <2>2. CASE n < Unit
    BY <2>2, UnitAssumption DEF Coordinates
  <2> QED
    BY <2>1, <2>2, UnitAssumption DEF Coordinates
<1> QED
  BY <1>1 DEF Stored

\* pointer_set() moves the virtual pointer, except perhaps into a corner, and
\* gives it the buttons of the mask but for those carried over.
LEMMA SetEffect ==
    ASSUME PointerInv, pointer.exists, NEW q \in Coordinates \X Coordinates,
           NEW m \in Masks, Set(q, m)
    PROVE  /\ pointer' \in [exists : BOOLEAN, current : {0, 1} \X {0, 1}, current_mask : Masks]
           /\ vp' \in [pos : (Coordinates \X Coordinates) \cup {Nowhere},
                       buttons : SUBSET Buttons, scrolled : SUBSET Scrolls]
           /\ pointer'.exists /\ pointer'.current_mask = m
           /\ q \notin Corners => vp'.pos = q
           /\ vp'.buttons = (m \cap Buttons) \ (carried \cap m)
<1>. DEFINE sent == IF Moves(pointer, q) THEN [vp EXCEPT !.pos = q, !.scrolled = {}]
                     ELSE [vp EXCEPT !.scrolled = {}]
            stored == [pointer EXCEPT !.current = Stored(q)]
            diff == (pointer.current_mask \ m) \cup (m \ pointer.current_mask)
<1>1. /\ pointer \in [exists : BOOLEAN, current : {0, 1} \X {0, 1}, current_mask : Masks]
      /\ vp \in [pos : (Coordinates \X Coordinates) \cup {Nowhere},
                 buttons : SUBSET Buttons, scrolled : SUBSET Scrolls]
      /\ carried \subseteq Buttons /\ carried \subseteq pointer.current_mask
      /\ vp.buttons = (pointer.current_mask \cap Buttons) \ carried
  BY DEF PointerInv, PointerTypeOK
<1>2. q \notin Corners => Moves(pointer, q)
  <2>. SUFFICES ASSUME ~Moves(pointer, q) PROVE q \in Corners
    OBVIOUS
  <2>1. /\ pointer.current[1] \in {0, 1} /\ pointer.current[2] \in {0, 1}
        /\ q[1] = Unit * pointer.current[1] /\ q[2] = Unit * pointer.current[2]
    BY <1>1 DEF Moves
  <2>2. Unit * 0 = 0 /\ Unit * 1 = Unit
    BY UnitAssumption
  <2>3. q[1] \in {0, Unit} /\ q[2] \in {0, Unit} /\ q = <<q[1], q[2]>>
    BY <2>1, <2>2
  <2> QED
    BY <2>3 DEF Corners
<1>3. /\ sent \in [pos : (Coordinates \X Coordinates) \cup {Nowhere},
                    buttons : SUBSET Buttons, scrolled : SUBSET Scrolls]
      /\ sent.buttons = vp.buttons
      /\ q \notin Corners => sent.pos = q
  BY <1>1, <1>2, Zenon
<1>4. /\ stored \in [exists : BOOLEAN, current : {0, 1} \X {0, 1}, current_mask : Masks]
      /\ stored.exists /\ stored.current_mask = pointer.current_mask
  BY <1>1, StoredType
<1>5. CASE m = pointer.current_mask
  <2>1. pointer' = stored /\ vp' = sent
    BY <1>5 DEF Set
  <2>. HIDE DEF stored, sent
  <2> QED
    BY <1>1, <1>3, <1>4, <1>5, <2>1
<1>6. CASE m # pointer.current_mask
  <2>1. /\ pointer' = [stored EXCEPT !.current_mask = m]
        /\ vp' = [sent EXCEPT
                    !.buttons = (@ \ ((stored.current_mask \ m) \cup (m \ stored.current_mask)))
                                \cup (((stored.current_mask \ m) \cup (m \ stored.current_mask))
                                      \cap m \cap Buttons),
                    !.scrolled = ((stored.current_mask \ m) \cup (m \ stored.current_mask))
                                 \cap Scrolls \cap (Scrolls \ m)]
    BY <1>6 DEF Set, SetButtonMask
  <2>. HIDE DEF stored, sent, diff
  <2>2. /\ pointer' \in [exists : BOOLEAN, current : {0, 1} \X {0, 1}, current_mask : Masks]
        /\ pointer'.exists /\ pointer'.current_mask = m
    BY <1>4, <2>1
  <2>3. /\ vp'.pos = sent.pos
        /\ vp'.buttons = (vp.buttons \ diff) \cup (diff \cap m \cap Buttons)
        /\ vp' \in [pos : (Coordinates \X Coordinates) \cup {Nowhere},
                    buttons : SUBSET Buttons, scrolled : SUBSET Scrolls]
    BY <1>3, <1>4, <2>1, Zenon DEF diff
  <2>4. (vp.buttons \ diff) \cup (diff \cap m \cap Buttons) = (m \cap Buttons) \ (carried \cap m)
    BY <1>1 DEF diff
  <2> QED
    BY <1>3, <2>2, <2>3, <2>4
<1> QED
  BY <1>5, <1>6

\* on_pointer_event()
LEMMA OnPointerEventInv ==
    ASSUME PointerInv, NEW p \in Points, NEW m \in Masks, NEW transform \in Transforms,
           OnPointerEvent(p, m, transform)
    PROVE  PointerInv'
<1>1. CASE ~pointer.exists
  <2>1. UNCHANGED <<pointer, vp, at, reached, carried>>
    BY <1>1 DEF OnPointerEvent, PointerEvent, pointerVars
  <2>2. at = Nowhere
    BY <1>1 DEF PointerInv
  <2> QED
    BY <1>1, <2>1, <2>2 DEF PointerInv, PointerTypeOK, PointerFollows
<1>2. CASE pointer.exists
  <2>. DEFINE q == CanvasPoint(transform, <<Clamp(p[1]), Clamp(p[2])>>)
  <2>1. Set(q, m) /\ at' = q /\ reached' = m /\ carried' = carried \cap m /\ mask' = m
    BY <1>2 DEF OnPointerEvent, PointerEvent
  <2>2. q \in Coordinates \X Coordinates
    BY CanvasPointType
  <2>. HIDE DEF q
  <2>3. /\ pointer' \in [exists : BOOLEAN, current : {0, 1} \X {0, 1}, current_mask : Masks]
        /\ vp' \in [pos : (Coordinates \X Coordinates) \cup {Nowhere},
                    buttons : SUBSET Buttons, scrolled : SUBSET Scrolls]
        /\ pointer'.exists /\ pointer'.current_mask = m
        /\ q \notin Corners => vp'.pos = q
        /\ vp'.buttons = (m \cap Buttons) \ (carried \cap m)
    BY <1>2, <2>1, <2>2, SetEffect
  <2> QED
    BY <2>1, <2>2, <2>3 DEF PointerInv, PointerTypeOK, PointerFollows
<1> QED
  BY <1>1, <1>2

\* client_init_pointer() and pointer_destroy()
LEMMA PointerLifeInv ==
    ASSUME PointerInv, NEW source, PointerInit(source) \/ PointerDestroy, UNCHANGED mask
    PROVE  PointerInv'
<1>1. CASE UNCHANGED pointerVars
  BY <1>1 DEF pointerVars, PointerInv, PointerTypeOK, PointerFollows
<1>2. CASE ~UNCHANGED pointerVars
  <2>1. /\ pointer' \in [exists : BOOLEAN, current : {0, 1} \X {0, 1}, current_mask : Masks]
        /\ pointer'.current_mask = pointer.current_mask
        /\ vp' = NewVirtualPointer /\ at' = Nowhere
        /\ pointer'.exists => carried' = reached \cap Buttons
        /\ reached' = reached /\ carried' \in SUBSET Buttons
    BY <1>2, Zenon DEF PointerInit, PointerDestroy, PointerInv, PointerTypeOK
  <2>2. /\ vp' \in [pos : (Coordinates \X Coordinates) \cup {Nowhere},
                    buttons : SUBSET Buttons, scrolled : SUBSET Scrolls]
        /\ vp'.pos = Nowhere /\ vp'.buttons = {}
    BY <2>1 DEF NewVirtualPointer
  <2> QED
    BY <2>1, <2>2 DEF PointerInv, PointerTypeOK, PointerFollows
<1> QED
  BY <1>1, <1>2

\* The inductive invariant of the pointer.
THEOREM PointerInvHolds == Spec => []PointerInv
<1>1. Init => PointerInv
  BY DEF Init, PointerCreate, NewVirtualPointer, PointerInv, PointerTypeOK, PointerFollows,
         Masks, Nowhere
<1>2. PointerInv /\ [Next]_vars => PointerInv'
  <2>. SUFFICES ASSUME PointerInv, [Next]_vars PROVE PointerInv'
    OBVIOUS
  <2>1. ASSUME NEW source, Attach(source) PROVE PointerInv'
    BY <2>1, PointerLifeInv DEF Attach
  <2>2. CASE Detach
    BY <2>2, PointerLifeInv DEF Detach
  <2>3. ASSUME NEW source, SwitchSource(source) PROVE PointerInv'
    BY <2>3, PointerLifeInv DEF SwitchSource
  <2>4. ASSUME UNCHANGED <<pointerVars, mask>> PROVE PointerInv'
    BY <2>4 DEF pointerVars, PointerInv, PointerTypeOK, PointerFollows
  <2> QED
    BY <2>1, <2>2, <2>3, <2>4, OnPointerEventInv DEF Next, OnKeyEvent, OnKeyCodeEvent, Dead, vars
<1> QED
  BY <1>1, <1>2, PTL DEF Spec

\* Once the client has used a virtual pointer, the compositor has the buttons of
\* the client, whatever it pressed before the server attached, switched or
\* detached, but for the buttons that the last event before had reported to the
\* previous virtual pointer, until an event comes without them.
THEOREM ButtonsFollowHolds == Spec => []ButtonsFollow
<1>1. PointerInv => ButtonsFollow
  BY DEF PointerInv, ButtonsFollow
<1> QED
  BY <1>1, PointerInvHolds, PTL

\* The compositor's pointer is where the client points, for every transform of
\* the output and also outside of the picture, except perhaps in a corner.
THEOREM PointerFollowsHolds == Spec => []PointerFollows
<1>1. PointerInv => PointerFollows
  BY DEF PointerInv
<1> QED
  BY <1>1, PointerInvHolds, PTL
=============================================================================
