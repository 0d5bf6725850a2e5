\* Two AI teams and tackles that injure: nobody touches the keyboard.
CONSTANTS
    Blue = Blue
    Red = Red
    NoTeam = NoTeam
    Humans = {}
    ShootoutKicks = 1
    MaxKicks = 1
    MaxGoals = 2
    Interventions = {"injury"}
SPECIFICATION Spec
INVARIANT
    ReviewIsNotDropped
CHECK_DEADLOCK FALSE
