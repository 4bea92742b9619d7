CONSTANTS
    Devices = {d1, d2}
    Contacts = {c1}
    MaxGen = 1
    Window = 1
    None = None
SPECIFICATION Spec
INVARIANTS
    RotationTakesEffect
PROPERTIES
    NoWorkingKeyCut
    KeysOnlyForward
    KeyWorksAgain
CHECK_DEADLOCK FALSE
