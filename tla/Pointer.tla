------------------------------- MODULE Pointer -------------------------------
(***************************************************************************)
(* The pointer of one VNC client: struct pointer of src/pointer.c, and the *)
(* compositor's side of the virtual pointer.                               *)
(*                                                                         *)
(* Coordinates are fractions of the picture, in units of 1 / Unit.  A mask *)
(* is the set of buttons and scroll directions whose bits are set.         *)
(***************************************************************************)
EXTENDS Integers

CONSTANTS
    Unit,           \* what stands for the coordinate 1.0
    Points,         \* the points that clients point at, <<x, y>>
    Transforms      \* the transforms that outputs may have

AllTransforms == {"normal", "90", "180", "270",
                  "flipped", "flipped-90", "flipped-180", "flipped-270"}

ASSUME UnitAssumption == Unit \in Nat \ {0}
ASSUME PointsAssumption == Points \subseteq Int \X Int
ASSUME TransformsAssumption == Transforms \subseteq AllTransforms

Buttons == {"left", "right"}    \* middle, back and forward are alike
Scrolls == {"up"}               \* down, left and right are alike
Masks == SUBSET (Buttons \cup Scrolls)
Coordinates == 0..Unit
Corners == {0, Unit} \X {0, Unit}

VARIABLES
    pointer,        \* struct pointer
    vp,             \* the virtual pointer in the compositor
    at,             \* where the client's pointer is, on the output
    reached,        \* the mask of the last event that reached a virtual pointer
    carried         \* its buttons when the virtual pointer was made, which have
                    \* been in the masks of all events since

pointerVars == <<pointer, vp, at, reached, carried>>

\* wv_output_transform_canvas_point()
CanvasPoint(transform, p) ==
    LET x == p[1]
        y == p[2]
    IN  CASE transform = "normal" -> <<x, y>>
          [] transform = "90" -> <<y, Unit - x>>
          [] transform = "180" -> <<Unit - x, Unit - y>>
          [] transform = "270" -> <<Unit - y, x>>
          [] transform = "flipped" -> <<Unit - x, y>>
          [] transform = "flipped-90" -> <<y, x>>
          [] transform = "flipped-180" -> <<x, Unit - y>>
          [] transform = "flipped-270" -> <<Unit - y, Unit - x>>

Clamp(x) == IF x < 0 THEN 0 ELSE IF x > Unit THEN Unit ELSE x

\* A pointer_set_button_mask() that forgets to store the mask.
SetButtonMaskOnly(ptr, v, mask) ==
    LET diff == (ptr.current_mask \ mask) \cup (mask \ ptr.current_mask)
    IN  [ptr |-> ptr,
         v |-> [v EXCEPT !.buttons = (@ \ diff) \cup (diff \cap mask \cap Buttons),
                         !.scrolled = diff \cap Scrolls \cap (Scrolls \ mask)]]

\* pointer_set_button_mask(): a button event for each button that differs, and
\* a scroll step for each scroll bit that is cleared.
SetButtonMask(ptr, v, mask) ==
    LET diff == (ptr.current_mask \ mask) \cup (mask \ ptr.current_mask)
    IN  [ptr |-> [ptr EXCEPT !.current_mask = mask],
         v |-> [v EXCEPT !.buttons = (@ \ diff) \cup (diff \cap mask \cap Buttons),
                         !.scrolled = diff \cap Scrolls \cap (Scrolls \ mask)]]

\* current_x and current_y are integers: a coordinate below 1.0 is stored as 0.
Stored(p) == <<p[1] \div Unit, p[2] \div Unit>>

\* A comparison that takes a move along one axis for no move.
MovesDiagonally(ptr, p) ==
    p[1] # Unit * ptr.current[1] /\ p[2] # Unit * ptr.current[2]

Moves(ptr, p) ==
    p[1] # Unit * ptr.current[1] \/ p[2] # Unit * ptr.current[2]

\* pointer_set()
Set(p, mask) ==
    LET moved == IF Moves(pointer, p) THEN [vp EXCEPT !.pos = p, !.scrolled = {}]
                 ELSE [vp EXCEPT !.scrolled = {}]
        stored == [pointer EXCEPT !.current = Stored(p)]
        set == IF mask = pointer.current_mask THEN [ptr |-> stored, v |-> moved]
               ELSE SetButtonMask(stored, moved, mask)
    IN  /\ pointer' = set.ptr
        /\ vp' = set.v

\* on_pointer_event().  The transform is that of the image source, or of the
\* last frame.
PointerEvent(p, mask, transform) ==
    IF ~pointer.exists THEN UNCHANGED pointerVars
    ELSE LET q == CanvasPoint(transform, <<Clamp(p[1]), Clamp(p[2])>>)
         IN  /\ Set(q, mask)
             /\ at' = q
             /\ reached' = mask
             /\ carried' = carried \cap mask

-----------------------------------------------------------------------------
\* The compositor moves a pointer of its own before the client does.
Nowhere == <<-1, -1>>
NewVirtualPointer == [pos |-> Nowhere, buttons |-> {}, scrolled |-> {}]

\* client_create(): calloc().
PointerCreate ==
    /\ pointer = [exists |-> FALSE, current |-> <<0, 0>>, current_mask |-> {}]
    /\ vp = NewVirtualPointer
    /\ at = Nowhere
    /\ reached = {} /\ carried = {}

\* client_init_pointer(), at attach and by reinitialise_pointers(): toplevels
\* get no pointer, but one that exists stays.  The fields keep their values.
PointerInit(source) ==
    IF source = "toplevel" THEN UNCHANGED pointerVars
    ELSE /\ pointer' = [pointer EXCEPT !.exists = TRUE]
         /\ vp' = NewVirtualPointer
         /\ at' = Nowhere
         /\ carried' = reached \cap Buttons
         /\ UNCHANGED reached

\* pointer_destroy() by client_detach_wayland().
PointerDestroy ==
    /\ pointer' = [pointer EXCEPT !.exists = FALSE]
    /\ vp' = NewVirtualPointer
    /\ at' = Nowhere
    /\ carried' = {}
    /\ UNCHANGED reached

PointerTypeOK ==
    /\ pointer \in [exists : BOOLEAN, current : {0, 1} \X {0, 1}, current_mask : Masks]
    /\ vp \in [pos : (Coordinates \X Coordinates) \cup {Nowhere},
               buttons : SUBSET Buttons, scrolled : SUBSET Scrolls]
    /\ at \in (Coordinates \X Coordinates) \cup {Nowhere}
    /\ reached \in Masks
    /\ carried \in SUBSET Buttons
=============================================================================
