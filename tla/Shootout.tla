------------------------------ MODULE Shootout ------------------------------
(***************************************************************************)
(* The penalty shoot-out that decides a knockout match which is level      *)
(* after extra time: class PenaltyShootout (penalty_logic.dart) and the    *)
(* part of MatchEngine that drives it one kick at a time                   *)
(* (match_engine.dart: _tickShootout, startPenalty, takeInteractivePenalty *)
(* and the shoot-out branch of _tickPenalty).                              *)
(*                                                                         *)
(* The list PenaltyShootout.results is only read through takenBy and       *)
(* goalsFor, so the two counts per team stand for it.                      *)
(***************************************************************************)
EXTENDS Integers

CONSTANTS
    Blue, Red,          \* the two TeamIds
    NoTeam,             \* null
    FirstTeam,          \* PenaltyShootout.firstTeam (the engine passes blue)
    ShootoutKicks,      \* regulation kicks per team (5 in the code)
    MaxKicks,           \* bound on the kicks of one team (none in the code)
    Humans              \* the teams that are played by a person

Teams == {Blue, Red}

ASSUME TeamsAssumption == Blue # Red /\ NoTeam \notin Teams
ASSUME FirstTeamAssumption == FirstTeam \in Teams
ASSUME KicksAssumption == ShootoutKicks \in Nat \ {0} /\ MaxKicks \in Nat
ASSUME HumansAssumption == Humans \subseteq Teams

VARIABLES
    taken,              \* takenBy(team)
    scored,             \* goalsFor(team)
    penaltyTeam,        \* activePenalty.shootingTeam; NoTeam: no active penalty
    penaltyResult,      \* activePenalty.result; "none": not struck yet
    finished, winner    \* of the MatchEngine

vars == <<taken, scored, penaltyTeam, penaltyResult, finished, winner>>

Opponent(t) == IF t = Blue THEN Red ELSE Blue
SecondTeam == Opponent(FirstTeam)

\* mutant: .clamp(0, 5) is missing
RemainingUnclamped(t) == ShootoutKicks - taken[t]

Remaining(t) == IF taken[t] < ShootoutKicks THEN ShootoutKicks - taken[t] ELSE 0

\* mutant: the second team goes first
NextTeamSwapped == IF taken[Blue] = taken[Red] THEN SecondTeam ELSE FirstTeam

\* PenaltyShootout.nextTeam
NextTeam == IF taken[Blue] = taken[Red] THEN FirstTeam ELSE SecondTeam

\* mutant: a lead that can still be equalised is taken as decisive
CompleteTooEarly ==
    \/ scored[Blue] >= scored[Red] + Remaining(Red)
    \/ scored[Red] >= scored[Blue] + Remaining(Blue)

\* PenaltyShootout.complete, its three conditions in the order of the code
Complete ==
    \/ scored[Blue] > scored[Red] + Remaining(Red)
    \/ scored[Red] > scored[Blue] + Remaining(Blue)
    \/ /\ taken[Blue] >= ShootoutKicks
       /\ taken[Red] >= ShootoutKicks
       /\ taken[Blue] = taken[Red]
       /\ scored[Blue] # scored[Red]

\* PenaltyShootout.winner
Winner == IF ~Complete THEN NoTeam
          ELSE IF scored[Blue] > scored[Red] THEN Blue ELSE Red

-----------------------------------------------------------------------------
Init ==
    /\ taken = [t \in Teams |-> 0]
    /\ scored = [t \in Teams |-> 0]
    /\ penaltyTeam = NoTeam
    /\ penaltyResult = "none"
    /\ finished = FALSE
    /\ winner = NoTeam

\* mutant: neither the end of the match nor the decision is looked at
StartKickUnchecked ==
    /\ penaltyTeam = NoTeam
    /\ taken[NextTeam] < MaxKicks
    /\ penaltyTeam' = NextTeam
    /\ UNCHANGED <<taken, scored, penaltyResult, finished, winner>>

\* _tickShootout without an active penalty: the next team steps up.
StartKick ==
    /\ ~finished
    /\ penaltyTeam = NoTeam
    /\ ~Complete
    /\ taken[NextTeam] < MaxKicks
    /\ penaltyTeam' = NextTeam
    /\ penaltyResult' = "none"
    /\ UNCHANGED <<taken, scored, finished, winner>>

\* mutant: a kick that was struck can be struck again
TakeKickAgain(t, isGoal) ==
    /\ penaltyTeam = t
    /\ penaltyResult' = IF isGoal THEN "scored" ELSE "missed"
    /\ taken' = [taken EXCEPT ![t] = @ + 1]
    /\ scored' = [scored EXCEPT ![t] = IF isGoal THEN @ + 1 ELSE @]
    /\ UNCHANGED <<penaltyTeam, finished, winner>>

\* takeInteractivePenalty: released by a person, or by _tickAiPenalty once the
\* preparation timer of an AI team has run out.
TakeKick(t, isGoal) ==
    /\ penaltyTeam = t
    /\ penaltyResult = "none"
    /\ penaltyResult' = IF isGoal THEN "scored" ELSE "missed"
    /\ taken' = [taken EXCEPT ![t] = @ + 1]
    /\ scored' = [scored EXCEPT ![t] = IF isGoal THEN @ + 1 ELSE @]
    /\ UNCHANGED <<penaltyTeam, finished, winner>>

\* mutant: the verdict waits until both teams have had their kick
EndKickPaired ==
    /\ ~finished /\ penaltyTeam # NoTeam /\ penaltyResult # "none"
    /\ penaltyTeam' = NoTeam
    /\ penaltyResult' = "none"
    /\ finished' = (Complete /\ taken[Blue] = taken[Red])
    /\ winner' = IF finished' THEN Winner ELSE NoTeam
    /\ UNCHANGED <<taken, scored>>

\* _tickPenalty when the 2.6 s countdown of a struck kick is over.
EndKick ==
    /\ ~finished
    /\ penaltyTeam # NoTeam
    /\ penaltyResult # "none"
    /\ penaltyTeam' = NoTeam
    /\ penaltyResult' = "none"
    /\ finished' = Complete
    /\ winner' = Winner
    /\ UNCHANGED <<taken, scored>>

Next ==
    \/ StartKick
    \/ \E t \in Teams, isGoal \in BOOLEAN : TakeKick(t, isGoal)
    \/ EndKick

Spec == Init /\ [][Next]_vars

\* The engine's ticker keeps running; a person may wait for ever before a kick.
Fairness ==
    /\ WF_vars(StartKick)
    /\ WF_vars(\E t \in Teams \ Humans, isGoal \in BOOLEAN : TakeKick(t, isGoal))
    /\ WF_vars(EndKick)

FairSpec == Spec /\ Fairness

-----------------------------------------------------------------------------
\* Every variable has its type, and no kick is counted beyond the one started.
TypeOK ==
    /\ taken \in [Teams -> 0..MaxKicks]
    /\ scored \in [Teams -> 0..MaxKicks]
    /\ penaltyTeam \in Teams \cup {NoTeam}
    /\ penaltyResult \in {"none", "scored", "missed"}
    /\ finished \in BOOLEAN
    /\ winner \in Teams \cup {NoTeam}

\* The teams alternate: the first team is never behind the second in kicks and
\* never more than one ahead, and whoever stands at the spot is the team whose
\* turn it is (PenaltyShootout.nextTeam, from counts alone).
KicksAlternate ==
    /\ taken[FirstTeam] - taken[SecondTeam] \in {0, 1}
    /\ penaltyTeam # NoTeam /\ penaltyResult = "none" => penaltyTeam = NextTeam

\* What "decided" means during the regulation kicks, independently of the
\* code's arithmetic: one team stays ahead however all remaining kicks go.
DecidedFor(t) ==
    \A x \in 0..Remaining(t), y \in 0..Remaining(Opponent(t)) :
        scored[t] + x > scored[Opponent(t)] + y

InRegulation == \A t \in Teams : taken[t] <= ShootoutKicks

\* During the regulation kicks PenaltyShootout.complete holds exactly when no
\* outcome of the remaining kicks can turn the result: the shoot-out stops
\* neither too early nor too late.
StopsExactlyWhenDecided ==
    InRegulation => (Complete <=> \E t \in Teams : DecidedFor(t))

\* A kick that can no longer change who wins is never started, and the match is
\* only over once the shoot-out is.
NoKickAfterDecision ==
    /\ penaltyTeam # NoTeam /\ penaltyResult = "none" => ~Complete /\ ~finished
    /\ finished => Complete /\ penaltyTeam = NoTeam

\* Beyond the regulation kicks the teams are never more than one goal apart, so
\* a sudden-death win is a win by exactly one goal, and the winner announced is
\* the team ahead.
SuddenDeathIsClose ==
    /\ ~InRegulation => \A t \in Teams : scored[t] <= scored[Opponent(t)] + 1
    /\ finished => /\ winner \in Teams
                   /\ scored[winner] > scored[Opponent(winner)]

\* Once a winner is announced nothing about the shoot-out changes any more.
ResultIsFinal == [][finished => UNCHANGED vars]_vars

\* In sudden death both teams must have had the same number of kicks before a
\* winner is announced: the purpose of the third condition of
\* PenaltyShootout.complete, which compares takenBy for equality.
SuddenDeathNeedsEqualKicks ==
    finished /\ ~InRegulation => taken[Blue] = taken[Red]

\* With AI teams on both sides the shoot-out gets through its regulation kicks
\* or finishes before, and a decided shoot-out is announced whoever plays.
RegulationIsPlayed ==
    /\ Humans = {} => <>(finished \/ \A t \in Teams : taken[t] >= ShootoutKicks)
    /\ Complete ~> finished
=============================================================================
