\* The five regulation kicks of the code and three rounds of sudden death.
CONSTANTS
    Blue = Blue
    Red = Red
    NoTeam = NoTeam
    FirstTeam = Blue
    ShootoutKicks = 5
    MaxKicks = 8
    Humans = {}
SPECIFICATION Spec
INVARIANT
    SuddenDeathNeedsEqualKicks
CHECK_DEADLOCK FALSE
