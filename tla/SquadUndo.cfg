\* A person who substitutes with the keyboard and takes substitutions back.
CONSTANTS
    Slots <- MCSlots
    Profiles <- MCProfiles
    Keepers <- MCKeepers
    Starting <- MCStarting
    Nobody = Nobody
    SubLimit = 1
    MaxBonus = 1
    Paths = {"keyboard", "undo"}
SPECIFICATION Spec
INVARIANTS
    TypeOK
    NobodyIsLost
    SubstitutionsAreCounted
CHECK_DEADLOCK FALSE
