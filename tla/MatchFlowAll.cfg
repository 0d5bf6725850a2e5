\* Everything at once: a person for Blue who uses the formation keys, the
\* substitution panel and the replay, and tackles that injure.
CONSTANTS
    Blue = Blue
    Red = Red
    NoTeam = NoTeam
    Humans = {Blue}
    ShootoutKicks = 1
    MaxKicks = 2
    MaxGoals = 2
    Interventions = {"injury", "formation", "panel", "replay"}
SPECIFICATION Spec
INVARIANTS
    TypeOK
    ReviewCanBeAnswered
    NoStaleReview
    ShootoutIsNotStuck
    BallIsInOnePlace
PROPERTIES
    PhasesInOrder
    ShootoutIsRegular
CHECK_DEADLOCK FALSE
