\* A person who cancels a goal in the replay.
CONSTANTS
    Blue = Blue
    Red = Red
    NoTeam = NoTeam
    Humans = {Blue}
    ShootoutKicks = 1
    MaxKicks = 1
    MaxGoals = 2
    Interventions = {"replay"}
SPECIFICATION Spec
INVARIANT
    DisallowedGoalHasNoKickoff
CHECK_DEADLOCK FALSE
