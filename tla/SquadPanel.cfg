\* Players dragged in the substitution panel, of a person or of the AI.
CONSTANTS
    Slots <- MCSlots
    Profiles <- MCProfiles
    Keepers <- MCKeepers
    Starting <- MCStarting
    Nobody = Nobody
    SubLimit = 2
    MaxBonus = 1
    Paths = {"drag", "swap"}
SPECIFICATION Spec
INVARIANTS
    KeeperKeepsGoal
    InjuredLeaves
PROPERTIES
    RedCardIsForGood
CHECK_DEADLOCK FALSE
