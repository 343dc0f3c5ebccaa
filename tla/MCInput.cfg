SPECIFICATION Spec
CONSTANTS
    Keymap <- MCKeymap
    NGroups = 2
    Unknown = 99
    Unit = 2
    Points <- MCPoints
    Transforms = {"normal", "90", "180", "270", "flipped", "flipped-90", "flipped-180", "flipped-270"}
    Uses = {{"keyboard"}, {"pointer"}}
    RawCodes = {1, 5}
    MaxHeld = 2
    MaxAttaches = 2
INVARIANTS KeyboardAgrees SymbolArrives KeysReleased ButtonsFollow PointerFollows
