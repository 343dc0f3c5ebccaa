-------------------------------- MODULE Input --------------------------------
(***************************************************************************)
(* The input devices of one VNC client: its keyboard and its pointer, both *)
(* made when the server attaches to a compositor and destroyed when it     *)
(* detaches; the pointer is made anew when the server switches to another  *)
(* image source.  Each client has devices of its own.                      *)
(***************************************************************************)
EXTENDS Keyboard, Pointer

CONSTANTS
    Uses,           \* sets of devices that a client may use
    RawCodes,       \* codes for which the client sends codes and no symbols
    MaxHeld,        \* how many keys the client holds down at once
    MaxAttaches     \* how often the server attaches

ASSUME UsesAssumption == Uses \subseteq SUBSET {"keyboard", "pointer"}
ASSUME RawCodesAssumption == RawCodes \subseteq Codes
ASSUME InputBoundsAssumption == {MaxHeld, MaxAttaches} \subseteq Nat

VARIABLES
    uses,           \* the devices that this client uses
    held,           \* keys that the client holds down: symbols and codes
    moved,          \* the group or the modifiers changed while a key was down
    mask,           \* the client's buttons
    attaches

vars == <<keyboardVars, pointerVars, uses, held, moved, mask, attaches>>

Symbol(s) == <<"symbol", s>>
Code(c) == <<"code", c>>
Sources == {"output", "desktop", "toplevel"}

TypeOK ==
    /\ KeyboardTypeOK
    /\ PointerTypeOK
    /\ uses \in Uses
    /\ held \subseteq {Symbol(s) : s \in Symbols \cup {Unknown}} \cup {Code(c) : c \in RawCodes}
    /\ moved \in BOOLEAN
    /\ mask \in Masks
    /\ attaches \in 0..MaxAttaches

Init ==
    /\ KeyboardCreate
    /\ PointerCreate
    /\ uses \in Uses
    /\ held = {} /\ moved = FALSE /\ mask = {} /\ attaches = 0

\* The keys that are down, but for modifiers, and what gives them a symbol.
Down(k) == {c \in k.key_state : Keymap[c].action \notin Mods}
Selects(k) == <<k.group, Effective(k)>>

\* The client presses or releases a key, or repeats a press or a release.
Holds(key, pressed) ==
    /\ held' = IF pressed THEN held \cup {key} ELSE held \ {key}
    /\ Cardinality(held') <= MaxHeld
    /\ moved' = /\ Down(keyboard') # {}
                /\ \/ moved
                   \/ Down(keyboard) # {} /\ Selects(keyboard') # Selects(keyboard)

Running == keyboard.state # "crashed"

OnKeyEvent(s, pressed) ==
    /\ Running /\ "keyboard" \in uses
    /\ KeyEvent(s, pressed)
    /\ Holds(Symbol(s), pressed)
    /\ UNCHANGED <<pointerVars, uses, mask, attaches>>

OnKeyCodeEvent(c, pressed) ==
    /\ Running /\ "keyboard" \in uses
    /\ KeyCodeEvent(c, pressed)
    /\ Holds(Code(c), pressed)
    /\ UNCHANGED <<pointerVars, uses, mask, attaches>>

OnPointerEvent(p, m, transform) ==
    /\ Running /\ "pointer" \in uses
    /\ PointerEvent(p, m, transform)
    /\ mask' = m
    /\ UNCHANGED <<keyboardVars, uses, held, moved, attaches>>

\* client_init_wayland()
Attach(source) ==
    /\ keyboard.state = "none" /\ attaches < MaxAttaches
    /\ KeyboardInit
    /\ PointerInit(source)
    /\ attaches' = attaches + 1
    /\ moved' = FALSE
    /\ UNCHANGED <<uses, held, mask>>

\* client_detach_wayland()
Detach ==
    /\ Running /\ keyboard.state # "none"
    /\ KeyboardDestroy
    /\ PointerDestroy
    /\ moved' = FALSE
    /\ UNCHANGED <<uses, held, mask, attaches>>

\* reinitialise_pointers(), when the server switches to another image source.
SwitchSource(source) ==
    /\ Running /\ keyboard.state # "none"
    /\ PointerInit(source)
    /\ UNCHANGED <<keyboardVars, uses, held, moved, mask, attaches>>

\* A process that has crashed does nothing.
Dead == ~Running /\ UNCHANGED vars

Next ==
    \/ \E s \in Symbols \cup {Unknown}, pressed \in BOOLEAN : OnKeyEvent(s, pressed)
    \/ \E c \in RawCodes, pressed \in BOOLEAN : OnKeyCodeEvent(c, pressed)
    \/ \E p \in Points, m \in Masks, t \in Transforms : OnPointerEvent(p, m, t)
    \/ \E source \in Sources : Attach(source)
    \/ Detach
    \/ \E source \in Sources : SwitchSource(source)
    \/ Dead

Spec == Init /\ [][Next]_vars

-----------------------------------------------------------------------------
\* Between two events the compositor holds down exactly the keys in key_state
\* and has the modifiers of the xkb_state, although send_key_with_level()
\* replaces them for a while; and it was never sent a press of a pressed key or
\* a release of a released one, whatever a client repeats (update_key_state()).
KeyboardAgrees ==
    /\ vk.pressed = keyboard.key_state /\ ~vk.repeated
    /\ vk.depressed = keyboard.depressed /\ vk.locked = keyboard.locked

\* keyboard_feed(): the key that is sent for a symbol gives that symbol in the
\* compositor, whatever modifiers are down and whichever group is active.  The
\* exception is a virtual keyboard made by a second attach, until it is sent
\* modifiers: last_sent_group still tells what its predecessor was sent.
SymbolArrives ==
    vk.typed.want # vk.typed.seen => ~vk.typed.told /\ attaches > 1

\* The keys that have a symbol which another key has as well.
SharedKeys ==
    {c \in Codes : \E d, e \in EntrySet : d.code = c /\ e.code # c /\ d.symbol = e.symbol}

\* A client that has released everything leaves no key pressed, as long as the
\* group and the modifiers stayed the same while keys were down.  If they did
\* not, it leaves only keys pressed that share a symbol with another key:
\* keyboard_feed() finds the key to release by the symbol, and match_level() may
\* now find the other one.
KeysReleased == held = {} => vk.pressed \subseteq (IF moved THEN SharedKeys ELSE {})

\* pointer_set_button_mask(): once the client has used a virtual pointer, the
\* compositor has the client's buttons, except for those that were set in the
\* last event that the previous virtual pointer got, until an event comes
\* without them: current_mask outlives the virtual pointer.  Such a button may
\* have been held all the time or have been released while there was no pointer;
\* pressing it again is then lost.
ButtonsFollow == at # Nowhere => vp.buttons = (mask \cap Buttons) \ carried

\* pointer_set(): the compositor's pointer is where the client's is, except in
\* the corners: current_x and current_y are integers, so that a move into a
\* corner from nearby may look like no move.
PointerFollows == at \notin Corners => vp.pos = at

\* Why these hold: the virtual keyboard follows key_state and the xkb_state in
\* every callback, and the buttons of a virtual pointer follow current_mask, but
\* for those carried over, which are still in it; current_mask is the mask of the
\* last event that reached a virtual pointer, and that is the client's mask once
\* the client has used the present one.
KeyboardInv ==
    /\ DOMAIN keyboard = {"state", "key_state", "depressed", "locked", "unlock", "group",
                          "last_sent_group"}
    /\ DOMAIN vk = {"pressed", "depressed", "locked", "group", "told", "repeated", "typed"}
    /\ KeyboardAgrees

PointerInv ==
    /\ PointerTypeOK
    /\ PointerFollows
    /\ pointer.current_mask = reached
    /\ pointer.exists => /\ carried \subseteq pointer.current_mask
                         /\ vp.buttons = (pointer.current_mask \cap Buttons) \ carried
    /\ at # Nowhere => pointer.exists /\ pointer.current_mask = mask
=============================================================================
