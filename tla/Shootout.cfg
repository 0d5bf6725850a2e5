\* The five regulation kicks of the code and three rounds of sudden death.
CONSTANTS
    Blue = Blue
    Red = Red
    NoTeam = NoTeam
    FirstTeam = Blue
    ShootoutKicks = 5
    MaxKicks = 8
    Humans = {}
SPECIFICATION FairSpec
INVARIANTS
    TypeOK
    KicksAlternate
    StopsExactlyWhenDecided
    NoKickAfterDecision
    SuddenDeathIsClose
PROPERTIES
    ResultIsFinal
    RegulationIsPlayed
CHECK_DEADLOCK FALSE
