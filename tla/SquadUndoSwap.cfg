\* Players change places and a substitution is taken back.
CONSTANTS
    Slots <- MCSlots
    Profiles <- MCProfiles
    Keepers <- MCKeepers
    Starting <- MCStarting
    Nobody = Nobody
    SubLimit = 2
    MaxBonus = 1
    Paths = {"drag", "swap", "undo"}
SPECIFICATION Spec
INVARIANTS
    NobodyIsLost
CHECK_DEADLOCK FALSE
