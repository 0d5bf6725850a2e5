\* A match between a person and the AI in which nobody changes the
\* formation, substitutes or opens the replay.
CONSTANTS
    Blue = Blue
    Red = Red
    NoTeam = NoTeam
    Humans = {Blue}
    ShootoutKicks = 2
    MaxKicks = 3
    MaxGoals = 2
    Interventions = {}
SPECIFICATION FairSpec
INVARIANTS
    ReviewIsNotDropped
    BallInNetIsResolved
    ScoreIsGoalsThatStand
    RestartFitsTheGoal
    PenaltyComesFirst
PROPERTIES
    ExtraTimeOnlyWhenLevel
    PausesEnd
    PenaltiesAreTaken
CHECK_DEADLOCK FALSE
