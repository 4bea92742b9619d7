CONSTANTS
    Contacts = {"bob", "carol"}
    Avatars = {"a1", "a2"}
    MaxEdits = 3
    MaxQueue = 2
SPECIFICATION Spec
INVARIANTS
    NameBelongsToEdit
    CaughtUpShowsProfile
    StaleAvatarWasMissed
PROPERTIES
    OnlyForward
CHECK_DEADLOCK FALSE
