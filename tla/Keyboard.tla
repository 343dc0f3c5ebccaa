------------------------------ MODULE Keyboard ------------------------------
(***************************************************************************)
(* The keyboard of one VNC client: struct keyboard of src/keyboard.c with  *)
(* its xkb_state, and the compositor's side of the virtual keyboard.       *)
(*                                                                         *)
(* A VNC client sends symbols (or key codes), a virtual keyboard takes key *)
(* codes and modifiers.  The compositor gives a key the symbol that its    *)
(* keymap has for the group and the modifiers it was told last; it does    *)
(* not derive modifiers from key events.                                   *)
(*                                                                         *)
(* keymap[code] gives a key's symbols by group and level, and what the key *)
(* does: nothing, "Shift", "Lock" (Caps Lock) or "next" (next group).      *)
(* Keys with two levels are alphabetic.  Latches are left out.             *)
(***************************************************************************)
EXTENDS Integers, FiniteSets, Sequences, SequencesExt

CONSTANTS
    Keymap,         \* the compiled keymap, a function on key codes
    NGroups,        \* xkb_keymap_num_layouts()
    Unknown         \* a symbol that is nowhere in the keymap

Codes == DOMAIN Keymap
Groups == 0..(NGroups - 1)
Mods == {"Shift", "Lock"}
Actions == Mods \cup {"none", "next"}

ASSUME GroupsAssumption == NGroups \in Nat \ {0}
ASSUME KeymapAssumption ==
    \A c \in Codes :
        /\ Keymap[c].action \in Actions
        /\ DOMAIN Keymap[c].syms = Groups
        /\ \A g \in Groups : /\ Len(Keymap[c].syms[g]) \in {1, 2}
                             /\ Range(Keymap[c].syms[g]) \subseteq Nat

VARIABLES
    keyboard,       \* struct keyboard
    vk,             \* the virtual keyboard in the compositor
    led             \* the state of the Caps Lock led that the client was told

keyboardVars == <<keyboard, vk, led>>

-----------------------------------------------------------------------------
\* libxkbcommon

EntrySet ==
    UNION {UNION {{[symbol |-> Keymap[c].syms[g][l + 1], code |-> c, level |-> l, group |-> g]
                      : l \in 0..(Len(Keymap[c].syms[g]) - 1)} : g \in Groups} : c \in Codes}

Symbols == {e.symbol : e \in EntrySet}

\* xkb_state_key_get_level(): the level of an alphabetic key.
Level(code, group, mods) ==
    IF Len(Keymap[code].syms[group]) = 2 /\ ("Shift" \in mods) # ("Lock" \in mods) THEN 1 ELSE 0

\* xkb_keymap_key_get_mods_for_level()
ModsForLevel(level) == IF level = 1 THEN {"Shift"} ELSE {}

Effective(k) == k.depressed \cup k.locked

\* xkb_state_update_key(): the key state already includes this change.  A
\* modifier is depressed until its last key is released; Caps Lock unlocks
\* when it is released, if it was locked when it was pressed.
UpdateKey(k, code, pressed) ==
    LET action == Keymap[code].action
        others == {c \in k.key_state \ {code} : Keymap[c].action = action}
        depressed == IF pressed THEN k.depressed \cup {action}
                     ELSE IF others = {} THEN k.depressed \ {action} ELSE k.depressed
    IN  CASE action = "next" ->
                IF pressed THEN [k EXCEPT !.group = (k.group + 1) % NGroups] ELSE k
          [] action = "Shift" -> [k EXCEPT !.depressed = depressed]
          [] action = "Lock" /\ pressed ->
                [k EXCEPT !.depressed = depressed, !.locked = @ \cup {"Lock"},
                          !.unlock = "Lock" \in k.locked]
          [] action = "Lock" /\ ~pressed ->
                [k EXCEPT !.depressed = depressed,
                          !.locked = IF k.unlock THEN @ \ {"Lock"} ELSE @]
          [] OTHER -> k

-----------------------------------------------------------------------------
\* The lookup table

\* compare_symbols().  Entries that differ in nothing but the level compare as
\* equal, and may be in either order.
Before(x, y) ==
    \/ x.group < y.group
    \/ x.group = y.group /\ x.symbol < y.symbol
    \/ x.group = y.group /\ x.symbol = y.symbol /\ x.code < y.code
    \/ x.group = y.group /\ x.symbol = y.symbol /\ x.code = y.code /\ x.level < y.level

\* create_lookup_table(): the sorted entries.
LookupTable ==
    [i \in 1..Cardinality(EntrySet) |->
        CHOOSE e \in EntrySet : Cardinality({d \in EntrySet : Before(d, e)}) = i - 1]

\* The first of the equal symbols around entry i; the group is not compared.
FirstOfRun(i) ==
    CHOOSE j \in 1..i :
        /\ \A n \in j..i : LookupTable[n].symbol = LookupTable[i].symbol
        /\ j = 1 \/ LookupTable[j - 1].symbol # LookupTable[i].symbol

\* keyboard_find_symbol_in_group(): the index of an entry, or 0 for NULL.
FindSymbolInGroup ==
    [symbol \in Symbols \cup {Unknown}, group \in Groups |->
        LET found == {i \in 1..Len(LookupTable) :
                        LookupTable[i].symbol = symbol /\ LookupTable[i].group = group}
        IN  IF found = {} THEN 0 ELSE FirstOfRun(CHOOSE i \in found : TRUE)]

\* The groups in the order in which keyboard_find_symbol() tries them, starting
\* at the current one; the first that has the symbol becomes the current one.
FindSymbol(k, symbol) ==
    LET tried == [n \in 1..NGroups |-> (k.group + n - 1) % NGroups]
        hit == SelectInSeq(tried, LAMBDA g : FindSymbolInGroup[symbol, g] # 0)
    IN  IF hit = 0 THEN [entry |-> 0, group |-> k.group]
        ELSE [entry |-> FindSymbolInGroup[symbol, tried[hit]], group |-> tried[hit]]

\* The entries from i on that follow each other with the same symbol.
RunFrom ==
    [i \in 1..Len(LookupTable) |->
        {j \in i..Len(LookupTable) :
            \A n \in i..j : LookupTable[n].symbol = LookupTable[i].symbol}]

\* match_level(): the first entry of the run from i on whose level is the one
\* that the modifiers give its key; 0 if there is none.
MatchLevel(k, i) ==
    LET matching == {j \in RunFrom[i] :
            LookupTable[j].level = Level(LookupTable[j].code, LookupTable[j].group, Effective(k))}
    IN  IF matching = {} THEN 0 ELSE CHOOSE j \in matching : \A n \in matching : j <= n

\* keyboard_symbol_is_mod() lists Shift, Caps Lock and the like.
ModSymbols == {e.symbol : e \in {d \in EntrySet : Keymap[d.code].action \in Mods}}

-----------------------------------------------------------------------------
\* Requests: what the compositor's virtual keyboard v becomes.

\* keyboard_send_mods() of the modifiers and the group of k.
SendMods(v, k) ==
    [v EXCEPT !.depressed = k.depressed, !.locked = k.locked, !.group = k.group, !.told = TRUE]

\* The keyboard that has sent its modifiers.
SentMods(k) == [k EXCEPT !.last_sent_group = k.group]

\* A keyboard_apply_mods() that sends modifiers for the sake of modifiers only.
AppliesModsOnly(old, k) == k.depressed # old.depressed \/ k.locked # old.locked

\* Whether keyboard_apply_mods() sends the modifiers after a key turned old into k.
AppliesMods(old, k) ==
    \/ k.depressed # old.depressed \/ k.locked # old.locked
    \/ k.last_sent_group # k.group

Seen(v, code) ==
    Keymap[code].syms[v.group][Level(code, v.group, v.depressed \cup v.locked) + 1]

\* send_key().  want is the symbol that the client asked for, if it did.
SendKey(v, code, pressed, want) ==
    LET seen == Seen(v, code)
    IN  [v EXCEPT !.pressed = IF pressed THEN @ \cup {code} ELSE @ \ {code},
                  !.repeated = @ \/ ((code \in v.pressed) = pressed),
                  !.typed = IF pressed
                            THEN [want |-> IF want = Unknown THEN seen ELSE want,
                                  seen |-> seen, told |-> v.told]
                            ELSE @]

\* The modifiers that send_key_with_level() puts in the place of those of k.
Levelled(k, level) == [k EXCEPT !.depressed = ModsForLevel(level), !.locked = {}]

\* A send_key_with_level() that does not tell the compositor that the
\* modifiers are restored.
SendKeyWithLevelOnly(v, k, code, pressed, level, want) ==
    SendKey(SendMods(v, Levelled(k, level)), code, pressed, want)

\* send_key_with_level(): the modifiers of the level, the key, and by
\* restore_mods() the modifiers that save_mods() found in k.
SendKeyWithLevel(v, k, code, pressed, level, want) ==
    SendMods(SendKey(SendMods(v, Levelled(k, level)), code, pressed, want), k)

\* update_key_state() on an intset, and whether it returns true.
Changes(k, code, pressed) == (code \in k.key_state) # pressed

UpdateKeyState(k, code, pressed) ==
    [k EXCEPT !.key_state = IF pressed THEN @ \cup {code} ELSE @ \ {code}]

-----------------------------------------------------------------------------
\* keyboard_feed() and keyboard_feed_code()

\* update_key_state(), keyboard_apply_mods() and the key, which is sent as it
\* is if it matches, and with the modifiers of level if not.
PressKey(k, code, pressed, matches, level, want) ==
    LET next == UpdateKey(UpdateKeyState(k, code, pressed), code, pressed)
        applies == AppliesMods(k, next)
        told == IF applies THEN SendMods(vk, next) ELSE vk
    IN  /\ keyboard' = IF applies \/ ~matches THEN SentMods(next) ELSE next
        /\ vk' = IF matches THEN SendKey(told, code, pressed, want)
                 ELSE SendKeyWithLevel(told, next, code, pressed, level, want)

\* A keyboard_feed() that drops releases which need another level.
FeedMatching(symbol, pressed) ==
    LET find == FindSymbol(keyboard, symbol)
        k == [keyboard EXCEPT !.group = find.group]
        match == IF symbol \in ModSymbols THEN find.entry ELSE MatchLevel(k, find.entry)
        entry == LookupTable[IF match # 0 THEN match ELSE find.entry]
    IN  IF find.entry = 0 THEN UNCHANGED <<keyboard, vk>>
        ELSE IF Changes(k, entry.code, pressed) /\ (pressed \/ match # 0)
        THEN PressKey(k, entry.code, pressed, match # 0, entry.level,
                      IF symbol \in ModSymbols THEN Unknown ELSE symbol)
        ELSE keyboard' = k /\ UNCHANGED vk

\* The group changes even if the key turns out to be pressed or released
\* already; the compositor is not told then.
Feed(symbol, pressed) ==
    LET find == FindSymbol(keyboard, symbol)
        k == [keyboard EXCEPT !.group = find.group]
        match == IF symbol \in ModSymbols THEN find.entry ELSE MatchLevel(k, find.entry)
        entry == LookupTable[IF match # 0 THEN match ELSE find.entry]
    IN  IF find.entry = 0 THEN UNCHANGED <<keyboard, vk>>
        ELSE IF Changes(k, entry.code, pressed)
        THEN PressKey(k, entry.code, pressed, match # 0, entry.level,
                      IF symbol \in ModSymbols THEN Unknown ELSE symbol)
        ELSE keyboard' = k /\ UNCHANGED vk

FeedCode(code, pressed) ==
    IF Changes(keyboard, code, pressed)
    THEN PressKey(keyboard, code, pressed, TRUE, 0, Unknown)
    ELSE UNCHANGED <<keyboard, vk>>

\* keyboard_get_led_state()
LedState(k) == "Lock" \in k.locked

\* A keyboard without a keymap is used: the end of the process.
Crash ==
    /\ keyboard' = [keyboard EXCEPT !.state = "crashed"]
    /\ UNCHANGED <<vk, led>>

\* on_key_event(), with nvnc_client_set_led_state().  It asks only whether there
\* is a virtual keyboard, which there is also when keyboard_init() failed; the
\* keymap and the xkb_state are NULL or freed then.
KeyEvent(symbol, pressed) ==
    \/ keyboard.state = "none" /\ UNCHANGED keyboardVars
    \/ keyboard.state = "failed" /\ Crash
    \/ keyboard.state = "ready" /\ Feed(symbol, pressed) /\ led' = LedState(keyboard')

\* on_key_code_event(); keyboard_get_led_state() needs the xkb_state even if the
\* key is ignored.
KeyCodeEvent(code, pressed) ==
    \/ keyboard.state = "none" /\ UNCHANGED keyboardVars
    \/ keyboard.state = "failed" /\ Crash
    \/ keyboard.state = "ready" /\ FeedCode(code, pressed) /\ led' = LedState(keyboard')

-----------------------------------------------------------------------------
\* A virtual keyboard as the compositor creates it.  told: it was sent
\* modifiers; repeated: it was sent a press of a pressed key or a release of a
\* released one; typed: the last key press, with the symbol that the client
\* asked for and the one that the compositor saw.
NothingTyped == [want |-> Unknown, seen |-> Unknown, told |-> FALSE]

NewVirtualKeyboard ==
    [pressed |-> {}, depressed |-> {}, locked |-> {}, group |-> 0,
     told |-> FALSE, repeated |-> FALSE, typed |-> NothingTyped]

\* client_create(): calloc().
KeyboardCreate ==
    /\ keyboard = [state |-> "none", key_state |-> {}, depressed |-> {}, locked |-> {},
                   unlock |-> FALSE, group |-> 0, last_sent_group |-> 0]
    /\ vk = NewVirtualKeyboard
    /\ led = FALSE

\* client_init_keyboard() and keyboard_init(): an empty key_state and a new
\* xkb_state, or the failure of any of its steps, such as a keymap that does not
\* compile, after which the virtual keyboard stays without a keymap.
\* last_sent_group keeps its value.
KeyboardInit ==
    /\ \E state \in {"ready", "failed"} :
           keyboard' = [keyboard EXCEPT !.state = state, !.key_state = {}, !.depressed = {},
                                        !.locked = {}, !.unlock = FALSE, !.group = 0]
    /\ vk' = NewVirtualKeyboard
    /\ UNCHANGED led

\* keyboard_destroy() by client_detach_wayland(): the virtual keyboard goes,
\* and intset_destroy() clears the key state.  What a failed keyboard_init() has
\* released is released again, which the process may survive or not.
KeyboardDestroy ==
    /\ \E state \in {"none"} \cup {s \in {"crashed"} : keyboard.state = "failed"} :
           keyboard' = [keyboard EXCEPT !.state = state, !.key_state = {}, !.depressed = {},
                                        !.locked = {}, !.unlock = FALSE, !.group = 0]
    /\ vk' = NewVirtualKeyboard
    /\ UNCHANGED led

KeyboardTypeOK ==
    /\ keyboard \in [state : {"none", "ready", "failed", "crashed"}, key_state : SUBSET Codes,
                     depressed : SUBSET Mods, locked : SUBSET Mods, unlock : BOOLEAN,
                     group : Groups, last_sent_group : Groups]
    /\ vk \in [pressed : SUBSET Codes, depressed : SUBSET Mods, locked : SUBSET Mods,
               group : Groups, told : BOOLEAN, repeated : BOOLEAN,
               typed : [want : Symbols \cup {Unknown}, seen : Symbols \cup {Unknown},
                        told : BOOLEAN]]
    /\ led \in BOOLEAN
=============================================================================
