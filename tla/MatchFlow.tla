----------------------------- MODULE MatchFlow ------------------------------
(***************************************************************************)
(* The control flow of a match: MatchEngine.tick (match_engine.dart) with  *)
(* everything that can stop play or give it a new direction - the pause    *)
(* timer and its callback, VAR reviews and their decisions, restarts,      *)
(* penalties and the shoot-out, the end of a period, forced substitutions  *)
(* after an injury - and the things a person can do in between             *)
(* (game_screen.dart): decide a review, change the formation, use the      *)
(* substitution panel, open the replay and edit decisions there.           *)
(*                                                                         *)
(* Time is abstracted: a pause may end at any tick, a period may end at    *)
(* any tick of play.  Of the ball only what the flow depends on is kept:   *)
(* whether it lies in a goal, and whose restart it waits for.              *)
(***************************************************************************)
EXTENDS Integers, Sequences, FiniteSets

CONSTANTS
    Blue, Red, NoTeam,
    Humans,             \* teams played by a person; the others are AI
    ShootoutKicks,      \* 5 in the code
    MaxKicks,           \* bound on the shoot-out kicks of a team
    MaxGoals,           \* bound on the goals recorded in the match
    Interventions       \* which optional events may happen, see below

Teams == {Blue, Red}

\* "injury": a collision so hard that it injures even without a foul;
\* the others are things a person may do with the keyboard or the panels.
AllInterventions == {"injury", "formation", "panel", "replay"}

ASSUME TeamsAssumption == Blue # Red /\ NoTeam \notin Teams
ASSUME HumansAssumption == Humans \subseteq Teams
ASSUME BoundsAssumption ==
    ShootoutKicks \in Nat \ {0} /\ MaxKicks \in Nat /\ MaxGoals \in Nat
ASSUME InterventionsAssumption == Interventions \subseteq AllInterventions

VARIABLES
    mode,               \* "knockout" or "league", chosen before the match
    period, finished, winner,
    pausing,            \* _pauseTimer > 0
    after,              \* _afterPause: what the callback will do
    varReview,          \* varReviewActive
    review,             \* what _varDecisionResolver decides about
    restart,            \* restartKind and restartTeamId
    wall,               \* wallDefendingTeamId while wallSelectionPending
    net,                \* the team that scored, while the ball lies in the goal
    goals,              \* the GoalEvents of both teams in the order recorded
    score,              \* TeamGame.score
    penalty,            \* activePenalty
    taken, scored,      \* shootout.takenBy and goalsFor
    injured,            \* teams of the players in _forcedSubs
    replay,             \* replayMode
    panel               \* substitutionPaused, and whether _injurySubActive

flow == <<pausing, after, varReview>>
kicks == <<taken, scored>>
result == <<mode, period, finished, winner>>
tally == <<goals, score>>
vars == <<mode, period, finished, winner, pausing, after, varReview, review, restart,
          wall, net, goals, score, penalty, taken, scored, injured, replay, panel>>

\* mutant: the team itself instead of its opponent
OpponentIsSelf(t) == t

Opponent(t) == IF t = Blue THEN Red ELSE Blue

Nothing == [do |-> "nothing", team |-> NoTeam]
NoReview == [kind |-> "none", team |-> NoTeam, goal |-> 0]
NoRestart == [kind |-> "none", team |-> NoTeam]
NoPenalty == [team |-> NoTeam, shootout |-> FALSE, result |-> "none"]

Periods == {"firstHalf", "secondHalf", "extraFirst", "extraSecond",
            "penalties", "finished"}
Breaks == {"secondHalf", "extraFirst", "extraSecond", "penalties"}

Callbacks == [do : {"nothing", "decide"} \cup Breaks, team : {NoTeam}]
             \cup [do : {"kickoff", "goalKick"}, team : Teams]
Reviews == {NoReview}
           \cup [kind : {"foul", "boxFoul", "offside"}, team : Teams, goal : {0}]
           \cup [kind : {"goal"}, team : Teams, goal : 1..MaxGoals]
Restarts == {NoRestart}
            \cup [kind : {"kickoff", "goalKick", "corner", "freeKick", "throwIn"},
                  team : Teams]
Penalties == {NoPenalty} \cup [team : Teams, shootout : BOOLEAN,
                               result : {"none", "scored", "missed"}]

\* The shoot-out inside the match: Shootout's operators over taken and scored,
\* and the specification that the match implements once it gets there.
ShootoutDecided == finished /\ taken[Blue] > 0
Kicks == INSTANCE Shootout WITH
    FirstTeam <- Blue,
    penaltyTeam <- IF penalty.shootout THEN penalty.team ELSE NoTeam,
    penaltyResult <- IF penalty.shootout THEN penalty.result ELSE "none",
    finished <- ShootoutDecided,
    winner <- IF ShootoutDecided THEN winner ELSE NoTeam

-----------------------------------------------------------------------------
(* The helpers of the engine that several operations call. *)

\* mutant: the review flag survives a pause that is not a review
StartPauseKeepsFlag(callback, isVar) ==
    pausing' = TRUE /\ after' = callback /\ varReview' = (varReview \/ isVar)

\* _startPause: replaces whatever pause, callback or review was running.
StartPause(callback, isVar) ==
    /\ pausing' = TRUE
    /\ after' = callback
    /\ varReview' = isVar

NoPause ==
    /\ pausing' = FALSE
    /\ after' = Nothing
    /\ varReview' = FALSE

\* _startVarDecision: refused while a review or a pause is running.
StartReview(r) ==
    IF varReview \/ pausing \/ review # NoReview
      THEN UNCHANGED <<review, flow>>
      ELSE /\ review' = r
           /\ StartPause([do |-> "decide", team |-> NoTeam], TRUE)

\* mutant: the restart is set up but the ball stays where it is
PlaceBallElsewhere(kind, t) ==
    restart' = [kind |-> kind, team |-> t] /\ UNCHANGED net

\* resetKickoff and _startGoalKickFor: the ball is placed for a team.
PlaceBall(kind, t) ==
    /\ restart' = [kind |-> kind, team |-> t]
    /\ net' = NoTeam

\* _handleFreeKick: near the goal a human defence is asked for its wall.
FreeKick(t) ==
    /\ PlaceBall("freeKick", t)
    /\ \E nearGoal \in BOOLEAN :
         wall' = IF nearGoal /\ Opponent(t) \in Humans THEN Opponent(t) ELSE NoTeam

\* mutant: the guard at the top of startPenalty is missing
AwardPenaltyUnguarded(t) ==
    penalty' = [team |-> t, shootout |-> FALSE, result |-> "none"]

\* startPenalty during the match: refused while another penalty is active or
\* once the shoot-out has begun.
AwardPenalty(t) ==
    IF penalty # NoPenalty \/ period = "penalties"
      THEN UNCHANGED penalty
      ELSE penalty' = [team |-> t, shootout |-> FALSE, result |-> "none"]

\* _queueForcedInjurySub, when _checkInjury finds the victim injured.
MaybeInjured(t) ==
    \/ UNCHANGED injured
    \/ injured = <<>> /\ injured' = <<t>>

\* GoalEvent added to a team's goals, with its score.
CountGoal(t) ==
    /\ Len(goals) < MaxGoals
    /\ goals' = Append(goals, [team |-> t, canceled |-> FALSE])
    /\ score' = [score EXCEPT ![t] = @ + 1]

\* mutants: the score is not corrected at all; math.max(0, ...) is missing
Minus1Forgotten(n) == n
Minus1Unclamped(n) == n - 1

Minus1(n) == IF n = 0 THEN 0 ELSE n - 1

-----------------------------------------------------------------------------
(* The decision of a review: the resolve closures of _scoreGoal,           *)
(* _checkOffsideTouch and _handleBallContacts with _applyReviewedFoul and  *)
(* _applyReviewedHandball.  lull: whether a decision that stops nothing is *)
(* followed by the one second pause of resolveVarDecision.                 *)

Options(r) == CASE r.kind = "goal" -> {"confirm", "cancel"}
                [] r.kind = "offside" -> {"offside", "onside"}
                [] r.kind \in {"foul", "boxFoul"} -> {"foul", "playOn"}
                [] OTHER -> {}

Recommended(r) == CASE r.kind = "goal" -> "confirm"
                    [] r.kind = "offside" -> "offside"
                    [] OTHER -> "foul"

Lull(lull) == IF lull THEN StartPause(Nothing, FALSE) ELSE NoPause

Decide(r, decision, lull) ==
    \/ /\ decision = "confirm"
       /\ StartPause([do |-> "kickoff", team |-> Opponent(r.team)], FALSE)
       /\ UNCHANGED <<restart, wall, net, tally, penalty, injured>>
    \/ /\ decision = "cancel"
       /\ goals' = [goals EXCEPT ![r.goal].canceled = TRUE]
       /\ score' = [score EXCEPT ![r.team] = Minus1(@)]
       /\ StartPause([do |-> "goalKick", team |-> Opponent(r.team)], FALSE)
       /\ UNCHANGED <<restart, wall, net, penalty, injured>>
    \/ /\ decision = "offside"
       /\ FreeKick(Opponent(r.team))
       /\ StartPause(Nothing, FALSE)
       /\ UNCHANGED <<tally, penalty, injured>>
    \/ /\ decision = "foul" /\ r.kind = "foul"
       /\ MaybeInjured(r.team)
       /\ FreeKick(r.team)
       /\ StartPause(Nothing, FALSE)
       /\ UNCHANGED <<tally, penalty>>
    \/ /\ decision = "foul" /\ r.kind = "boxFoul"
       /\ MaybeInjured(r.team)
       /\ AwardPenalty(r.team)
       /\ net' = NoTeam
       /\ Lull(lull)
       /\ UNCHANGED <<restart, wall, tally>>
    \/ /\ decision \in {"onside", "playOn"}
       /\ Lull(lull)
       /\ UNCHANGED <<restart, wall, net, tally, penalty, injured>>

-----------------------------------------------------------------------------
Init ==
    /\ mode \in {"knockout", "league"}
    /\ period = "firstHalf" /\ finished = FALSE /\ winner = NoTeam
    /\ pausing = FALSE /\ after = Nothing /\ varReview = FALSE
    /\ review = NoReview
    /\ restart = [kind |-> "kickoff", team |-> Blue]
    /\ wall = NoTeam /\ net = NoTeam
    /\ goals = <<>> /\ score = [t \in Teams |-> 0]
    /\ penalty = NoPenalty
    /\ taken = [t \in Teams |-> 0] /\ scored = [t \in Teams |-> 0]
    /\ injured = <<>> /\ replay = FALSE /\ panel = "closed"

\* mutant: tick waits for the decision of a review
TickingWaits == ~replay /\ ~finished /\ panel = "closed" /\ injured = <<>> /\ ~varReview

\* tick gets past its first three guards.  _onTick handles an injury right
\* after the tick that caused it, before the next one.
Ticking == ~replay /\ ~finished /\ panel = "closed" /\ injured = <<>>

\* mutant: tick returns early while a penalty is active
RunningStops == Ticking /\ ~pausing /\ wall = NoTeam /\ penalty = NoPenalty

\* tick gets past the pause and the wall selection as well.
Running == Ticking /\ ~pausing /\ wall = NoTeam

\* mutant: tick does not return after handling an active penalty
PlayingOn == Running /\ period # "penalties"

\* tick reaches the play itself: nothing of isFrozen holds.
Playing == Running /\ period # "penalties" /\ penalty = NoPenalty

-----------------------------------------------------------------------------
(* A tick that ends a pause: everything about it is cleared, then the      *)
(* callback runs.                                                          *)

NewPeriod(p, t) ==
    /\ period' = p
    /\ PlaceBall("kickoff", t)
    /\ UNCHANGED <<mode, finished, winner>>

RunCallback ==
    \/ /\ after.do = "nothing"
       /\ NoPause
       /\ UNCHANGED <<result, restart, wall, net, tally, penalty, kicks, injured>>
    \/ /\ after.do = "decide"
       /\ Decide(review, Recommended(review), FALSE)
       /\ UNCHANGED <<result, kicks>>
    \/ /\ after.do \in {"kickoff", "goalKick"}
       /\ NoPause
       /\ PlaceBall(after.do, after.team)
       /\ UNCHANGED <<result, wall, tally, penalty, kicks, injured>>
    \/ /\ after.do \in {"secondHalf", "extraFirst", "extraSecond"}
       /\ NoPause
       /\ NewPeriod(after.do, IF after.do = "extraFirst" THEN Blue ELSE Red)
       /\ UNCHANGED <<wall, tally, penalty, kicks, injured>>
    \/ /\ after.do = "penalties"
       /\ NoPause
       /\ period' = "penalties"
       /\ taken' = [t \in Teams |-> 0]
       /\ scored' = [t \in Teams |-> 0]
       /\ UNCHANGED <<mode, finished, winner, restart, wall, net, tally, penalty, injured>>

\* mutant: the resolver is not cleared
PauseEndsKeepsReview ==
    Ticking /\ pausing /\ RunCallback /\ UNCHANGED <<review, replay, panel>>

PauseEnds ==
    /\ Ticking
    /\ pausing
    /\ review' = NoReview
    /\ RunCallback
    /\ UNCHANGED <<replay, panel>>

-----------------------------------------------------------------------------
(* A tick of play.  _checkPeriodEnd comes first and does not end the tick: *)
(* a final whistle lets the rest of the tick happen, a break that has just *)
(* begun refuses reviews and returns before goals are looked at.           *)

\* The owner of the ball can be reached by opponents: it does not lie in a goal,
\* and they are not kept away from a free kick or goal kick.  (The taker of any
\* restart is protected, but others get to the ball once he has been removed.)
OwnerInReach ==
    net = NoTeam /\ restart.kind \in {"none", "kickoff", "corner", "throwIn"}

\* _handleBallContacts and _checkInjury: a tackle so hard that the owner, of team
\* t, may be injured without any whistle.  It stops nothing: the tick goes on.
Tackle(t) ==
    \/ UNCHANGED injured
    \/ "injury" \in Interventions /\ OwnerInReach /\ MaybeInjured(t)

\* _handleBallContacts: a foul or handball against t.  The other restarts are taken
\* from outside the box.
FoulOn(t) ==
    /\ OwnerInReach
    /\ \E box \in BOOLEAN :
         /\ box => restart = NoRestart
         /\ StartReview([kind |-> IF box THEN "boxFoul" ELSE "foul",
                         team |-> t, goal |-> 0])
    /\ UNCHANGED <<restart, wall, net, tally>>

\* _handleCornerJostle: pushing while a corner waits, and in the seconds after it
\* was taken, which a throw-in or another free kick does not cut short.  When
\* these seconds end is left open, as all time is.
JostleOn(t) ==
    /\ restart.kind \in {"none", "corner", "throwIn", "freeKick"}
    /\ \E box \in BOOLEAN :
         StartReview([kind |-> IF box THEN "boxFoul" ELSE "foul", team |-> t, goal |-> 0])
    /\ UNCHANGED <<restart, wall, net, tally>>

\* _checkOffsideTouch
OffsideOf(t) ==
    /\ restart = NoRestart
    /\ net \in {NoTeam, t}
    /\ StartReview([kind |-> "offside", team |-> t, goal |-> 0])
    /\ UNCHANGED <<restart, wall, net, tally>>

\* _checkGoalAndOut and _scoreGoal.  A ball that still lies in the goal is over
\* the line again in every tick of play.
GoalOf(t) ==
    /\ restart = NoRestart
    /\ net \in {NoTeam, t}
    /\ CountGoal(t)
    /\ net' = t
    /\ StartReview([kind |-> "goal", team |-> t, goal |-> Len(goals) + 1])
    /\ UNCHANGED <<restart, wall>>

\* _checkGoalAndOut and _checkThrowIn: out of play, for t.
BallOutFor(t) ==
    /\ restart = NoRestart
    /\ net = NoTeam
    /\ \E kind \in {"corner", "goalKick", "throwIn"} : PlaceBall(kind, t)
    /\ StartPause(Nothing, FALSE)
    /\ UNCHANGED <<review, wall, tally>>

PlayGoesOn == UNCHANGED <<flow, review, restart, wall, net, tally>>

\* What a tick of play brings: a foul, which is on the tackled player, or
\* whatever else comes after the contacts, and perhaps an injury in either.
Incident(t) ==
    \/ FoulOn(t) /\ Tackle(t)
    \/ /\ JostleOn(t) \/ OffsideOf(t) \/ GoalOf(t) \/ BallOutFor(t) \/ PlayGoesOn
       /\ \E owner \in Teams : Tackle(owner)

PlayTick ==
    /\ Playing
    /\ \E t \in Teams : Incident(t)
    /\ UNCHANGED <<result, penalty, kicks, replay, panel>>

Level == score[Blue] = score[Red]

\* mutants: the second half of extra time is skipped; the match mode or the
\* score is not asked
NextPeriodSkips ==
    CASE period = "firstHalf" -> "secondHalf"
      [] period = "secondHalf" /\ mode = "knockout" /\ Level -> "extraFirst"
      [] period = "extraFirst" -> "penalties"
      [] OTHER -> "finished"
NextPeriodAnyMode ==
    CASE period = "firstHalf" -> "secondHalf"
      [] period = "secondHalf" /\ Level -> "extraFirst"
      [] period = "extraFirst" -> "extraSecond"
      [] period = "extraSecond" /\ Level -> "penalties"
      [] OTHER -> "finished"
NextPeriodAnyScore ==
    CASE period = "firstHalf" -> "secondHalf"
      [] period = "secondHalf" /\ mode = "knockout" -> "extraFirst"
      [] period = "extraFirst" -> "extraSecond"
      [] period = "extraSecond" /\ Level -> "penalties"
      [] OTHER -> "finished"

\* _checkPeriodEnd: the break that the current period ends with, if any.
NextPeriod ==
    CASE period = "firstHalf" -> "secondHalf"
      [] period = "secondHalf" /\ mode = "knockout" /\ Level -> "extraFirst"
      [] period = "extraFirst" -> "extraSecond"
      [] period = "extraSecond" /\ Level -> "penalties"
      [] OTHER -> "finished"

\* The whistle for a break; an AI restart of the same tick is still taken, and
\* a tackle may still injure.
BreakTick ==
    /\ Playing
    /\ NextPeriod # "finished"
    /\ StartPause([do |-> NextPeriod, team |-> NoTeam], FALSE)
    /\ restart' \in {restart} \cup (IF restart.team \in Humans THEN {} ELSE {NoRestart})
    /\ \E owner \in Teams : Tackle(owner)
    /\ UNCHANGED <<result, review, wall, net, tally, penalty, kicks, replay, panel>>

\* _finishNormal
FinalWhistleTick ==
    /\ Playing
    /\ NextPeriod = "finished"
    /\ period' = "finished"
    /\ finished' = TRUE
    /\ winner' = IF Level THEN NoTeam
                 ELSE IF score[Blue] > score[Red] THEN Blue ELSE Red
    /\ \E t \in Teams : Incident(t)
    /\ UNCHANGED <<mode, penalty, kicks, replay, panel>>

\* _finishRestartFor, from manualKick or an AI kick.
TakeRestart(t) ==
    /\ Playing
    /\ restart.team = t
    /\ restart' = NoRestart
    /\ UNCHANGED <<result, flow, review, wall, net, tally, penalty, kicks,
                   injured, replay, panel>>

\* chooseFreeKickWall or declineFreeKickWall in the panel of the defending team.
ChooseWall ==
    /\ wall # NoTeam
    /\ wall' = NoTeam
    /\ UNCHANGED <<result, flow, review, restart, net, tally, penalty, kicks,
                   injured, replay, panel>>

-----------------------------------------------------------------------------
(* Penalties, in the match and in the shoot-out. *)

\* _tickShootout
NextShootoutKick ==
    /\ Running
    /\ period = "penalties"
    /\ penalty = NoPenalty
    /\ ~Kicks!Complete
    /\ taken[Kicks!NextTeam] < MaxKicks
    /\ penalty' = [team |-> Kicks!NextTeam, shootout |-> TRUE, result |-> "none"]
    /\ net' = NoTeam
    /\ UNCHANGED <<result, flow, review, restart, wall, tally, kicks, injured,
                   replay, panel>>

\* takeInteractivePenalty: the AI shoots from tick, a person by releasing a key,
\* which nothing holds back.
TakePenalty(t) ==
    /\ penalty.team = t
    /\ penalty.result = "none"
    /\ t \in Humans \/ Running
    /\ \E isGoal \in BOOLEAN :
         /\ penalty' = [penalty EXCEPT !.result = IF isGoal THEN "scored" ELSE "missed"]
         /\ IF penalty.shootout
              THEN /\ taken' = [taken EXCEPT ![t] = @ + 1]
                   /\ scored' = [scored EXCEPT ![t] = IF isGoal THEN @ + 1 ELSE @]
                   /\ UNCHANGED tally
              ELSE /\ IF isGoal THEN CountGoal(t) ELSE UNCHANGED tally
                   /\ UNCHANGED kicks
    /\ UNCHANGED <<result, flow, review, restart, wall, net, injured, replay, panel>>

\* _tickPenalty at the end of its countdown
PenaltyEnds ==
    /\ Running
    /\ penalty.result # "none"
    /\ penalty' = NoPenalty
    /\ IF penalty.shootout
         THEN /\ IF Kicks!Complete
                   THEN /\ period' = "finished"
                        /\ finished' = TRUE
                        /\ winner' = Kicks!Winner
                        /\ UNCHANGED mode
                   ELSE UNCHANGED result
              /\ UNCHANGED <<restart, net>>
         ELSE /\ IF penalty.result = "scored"
                   THEN PlaceBall("kickoff", Opponent(penalty.team))
                   ELSE restart' = NoRestart /\ net' = NoTeam
              /\ UNCHANGED result
    /\ UNCHANGED <<flow, review, wall, tally, kicks, injured, replay, panel>>

-----------------------------------------------------------------------------
(* What a person, or _processForcedInjurySubstitution, does between ticks. *)

\* resolveVarDecision: a button of the review banner, or skipCurrentReview with
\* the recommended decision.
ResolveVar ==
    /\ varReview
    /\ panel = "closed"
    /\ review' = NoReview
    /\ \E decision \in Options(review) :
         Decide(review, decision, ~finished /\ ~replay)
    /\ UNCHANGED <<result, kicks, replay, panel>>

\* cycleFormation, keys V and K
CycleFormation ==
    /\ "formation" \in Interventions
    /\ Humans # {} /\ ~replay /\ panel = "closed"
    /\ StartPause(Nothing, FALSE)
    /\ UNCHANGED <<result, review, restart, wall, net, tally, penalty, kicks,
                   injured, replay, panel>>

\* _openSubstitution and _closeSubstitutionPanel
OpenPanel ==
    /\ "panel" \in Interventions
    /\ ~replay /\ panel = "closed" /\ injured = <<>>
    /\ panel' = "open"
    /\ UNCHANGED <<result, flow, review, restart, wall, net, tally, penalty,
                   kicks, injured, replay>>

ClosePanel ==
    /\ panel = "open"
    /\ panel' = "closed"
    /\ UNCHANGED <<result, flow, review, restart, wall, net, tally, penalty,
                   kicks, injured, replay>>

\* A change made in the panel: substitute with the keyboard, which closes it, or
\* by dragging, swapPlayerPositions or undoLastSubstitutionFor, which do not.
\* A panel forced by an injury allows the substitution of the victim only.
PanelChange ==
    /\ panel # "closed"
    /\ StartPause(Nothing, FALSE)
    /\ injured' = IF panel = "forced" THEN Tail(injured) ELSE injured
    /\ panel' \in {"open", "closed"}
    /\ UNCHANGED <<result, review, restart, wall, net, tally, penalty, kicks, replay>>

\* _processForcedInjurySubstitution: the player leaves without replacement, an
\* AI team substitutes him at once, a person gets the panel.
ForcedSubstitution ==
    /\ injured # <<>> /\ ~replay /\ panel = "closed"
    /\ \/ /\ injured' = Tail(injured)
          /\ UNCHANGED <<flow, panel>>
       \/ /\ Head(injured) \notin Humans
          /\ injured' = Tail(injured)
          /\ StartPause(Nothing, FALSE)
          /\ UNCHANGED panel
       \/ /\ Head(injured) \in Humans
          /\ panel' = "forced"
          /\ UNCHANGED <<flow, injured>>
    /\ UNCHANGED <<result, review, restart, wall, net, tally, penalty, kicks, replay>>

\* openReplay and closeReplay
OpenReplay ==
    /\ "replay" \in Interventions
    /\ ~replay /\ panel = "closed"
    /\ replay' = TRUE
    /\ UNCHANGED <<result, flow, review, restart, wall, net, tally, penalty,
                   kicks, injured, panel>>

CloseReplay ==
    /\ replay
    /\ replay' = FALSE
    /\ UNCHANGED <<result, flow, review, restart, wall, net, tally, penalty,
                   kicks, injured, panel>>

\* toggleGoalReview, directly or through toggleTimelineDecision
ToggleGoal(i) ==
    /\ replay
    /\ LET t == goals[i].team
           cancel == ~goals[i].canceled
       IN  /\ goals' = [goals EXCEPT ![i].canceled = cancel]
           /\ score' = [score EXCEPT ![t] = IF cancel THEN Minus1(@) ELSE @ + 1]
           /\ IF cancel THEN PlaceBall("goalKick", Opponent(t))
                        ELSE UNCHANGED <<restart, net>>
    /\ UNCHANGED <<result, flow, review, wall, penalty, kicks, injured, replay, panel>>

\* addVarDecisionAtCurrentReplay, kinds goal and penalty
AddGoal(t) ==
    /\ replay
    /\ CountGoal(t)
    /\ UNCHANGED <<result, flow, review, restart, wall, net, penalty, kicks,
                   injured, replay, panel>>

AddPenalty(t) ==
    /\ replay
    /\ ~finished
    /\ replay' = FALSE
    /\ AwardPenalty(t)
    /\ net' = IF penalty' # penalty THEN NoTeam ELSE net
    /\ UNCHANGED <<result, flow, review, restart, wall, tally, kicks, injured, panel>>

-----------------------------------------------------------------------------
Engine ==
    \/ PauseEnds
    \/ PlayTick
    \/ BreakTick
    \/ FinalWhistleTick
    \/ NextShootoutKick
    \/ PenaltyEnds
    \/ ForcedSubstitution

Players ==
    \/ \E t \in Teams : TakeRestart(t) \/ TakePenalty(t)
    \/ ChooseWall
    \/ ResolveVar
    \/ CycleFormation
    \/ OpenPanel \/ ClosePanel \/ PanelChange
    \/ OpenReplay \/ CloseReplay
    \/ \E i \in DOMAIN goals : ToggleGoal(i)
    \/ \E t \in Teams : AddGoal(t) \/ AddPenalty(t)

Next == Engine \/ Players

Spec == Init /\ [][Next]_vars

\* The ticker keeps running and an AI team shoots its penalties; nothing is
\* assumed about people, nor about what happens in play.
Fairness ==
    /\ WF_vars(PauseEnds)
    /\ WF_vars(NextShootoutKick)
    /\ WF_vars(PenaltyEnds)
    /\ WF_vars(ForcedSubstitution)
    /\ WF_vars(\E t \in Teams \ Humans : TakePenalty(t))

FairSpec == Spec /\ Fairness

-----------------------------------------------------------------------------
(* Properties that hold whatever people do. *)

\* Every variable has its type.
TypeOK ==
    /\ mode \in {"knockout", "league"}
    /\ period \in Periods /\ finished \in BOOLEAN
    /\ winner \in Teams \cup {NoTeam}
    /\ pausing \in BOOLEAN /\ after \in Callbacks /\ varReview \in BOOLEAN
    /\ review \in Reviews /\ restart \in Restarts
    /\ wall \in Humans \cup {NoTeam} /\ net \in Teams \cup {NoTeam}
    /\ goals \in Seq([team : Teams, canceled : BOOLEAN])
    /\ Len(goals) <= MaxGoals
    /\ score \in [Teams -> Nat]
    /\ penalty \in Penalties
    /\ taken \in [Teams -> 0..MaxKicks] /\ scored \in [Teams -> 0..MaxKicks]
    /\ injured \in Seq(Teams) /\ Len(injured) <= 1
    /\ replay \in BOOLEAN /\ panel \in {"closed", "open", "forced"}

\* The banner that asks for a decision is shown only while there is something
\* to decide, and the timer that answers in its place is running: the review
\* flag, the resolver and the callback of the pause belong together.
ReviewCanBeAnswered ==
    varReview => /\ pausing
                 /\ after.do = "decide"
                 /\ review # NoReview

\* A resolver never outlives the pause it was stored with; a leftover one would
\* make _startVarDecision refuse every later review of the match.
NoStaleReview ==
    review # NoReview => pausing

\* A shoot-out that is decided while no kick is being taken has ended the match:
\* _tickShootout returns for a complete shoot-out, so nothing would end it later.
ShootoutIsNotStuck ==
    /\ period = "penalties" /\ Kicks!Complete => penalty.shootout
    /\ penalty.shootout => period = "penalties"

\* The ball never lies in a goal while a restart or a penalty waits for it.
BallIsInOnePlace ==
    net # NoTeam => restart = NoRestart /\ penalty = NoPenalty

\* The match goes through its periods as MatchPhases promises.
Phases == INSTANCE MatchPhases WITH
    phase <- period, announced <- finished, outcome <- winner
PhasesInOrder == Phases!Spec

\* The shoot-out inside the match is the one of Shootout: whatever happens
\* around it, kicks alternate and are counted once and the result is final.
ShootoutIsRegular == Kicks!Spec

-----------------------------------------------------------------------------
(* Properties that hold as long as nothing replaces a running pause, or    *)
(* nobody edits the match in its replay; MatchPlay_proofs tells which.     *)

\* The decision of a review is never dropped: as long as its resolver is stored
\* the review is on the screen and its callback is the one of the pause.  The
\* comment in _startVarDecision says that a second review must not drop "the
\* first decision callback".
ReviewIsNotDropped ==
    review # NoReview => varReview /\ after.do = "decide"

\* A ball in the goal is always about to be taken away: the goal is under
\* review, or the pause ends with a kickoff or a goal kick of the other team.
\* Otherwise the next tick of play would count the same ball again.
BallInNetIsResolved ==
    net # NoTeam =>
        /\ pausing
        /\ \/ after.do \in {"kickoff", "goalKick"} /\ after.team = Opponent(net)
           \/ after.do = "decide" /\ review.kind = "goal" /\ review.team = net

Standing(t) == {i \in DOMAIN goals : goals[i].team = t /\ ~goals[i].canceled}

\* The score of a team is the number of its goals that were not cancelled; a
\* review in progress concerns a goal that still counts.
ScoreIsGoalsThatStand ==
    /\ \A t \in Teams : score[t] = Cardinality(Standing(t))
    /\ review.kind = "goal" => review.goal \in Standing(review.team)

\* After the review of a goal the restart fits its decision: a kickoff of the
\* conceding team if the last goal stands, its goal kick if it was cancelled.
RestartFitsTheGoal ==
    after.do \in {"kickoff", "goalKick"} =>
        /\ goals # <<>>
        /\ after.team # goals[Len(goals)].team
        /\ goals[Len(goals)].canceled <=> after.do = "goalKick"

\* An awarded penalty is taken before anything else goes on: no review waits for
\* a decision, no kickoff, goal kick or break is about to follow from the pause,
\* and the shoot-out has not begun.  (A corner or free kick may wait: pushing in
\* the box is punished before the kick is taken.)
PenaltyComesFirst ==
    penalty # NoPenalty /\ ~penalty.shootout =>
        review = NoReview /\ after = Nothing /\ period # "penalties"

\* Extra time and the shoot-out only begin while the teams are level, although
\* the whistle came a pause earlier.
ExtraTimeOnlyWhenLevel ==
    [][period' # period /\ period' \in {"extraFirst", "penalties"} => Level]_vars

Interrupted == finished \/ panel # "closed"

\* The match never stays paused: every pause, and with it every review, ends
\* without anybody pressing a key, unless the match is over or a person leaves
\* the substitution panel open.
PausesEnd == pausing ~> ~pausing \/ Interrupted

\* A penalty never blocks the match: one that an AI team takes, or that has been
\* taken, is cleared away, and in the shoot-out the next team steps up until the
\* kicks have decided it.
PenaltiesAreTaken ==
    /\ penalty # NoPenalty /\ (penalty.team \notin Humans \/ penalty.result # "none")
          ~> penalty = NoPenalty \/ Interrupted
    /\ period = "penalties" /\ penalty = NoPenalty
          ~> penalty # NoPenalty \/ Interrupted \/ \E t \in Teams : taken[t] = MaxKicks

-----------------------------------------------------------------------------
(* What the repository says and the code does not always do; see the README. *)

\* match_engine.dart, toggleGoalReview: "A disallowed goal restarts with a goal
\* kick for the conceding side."
DisallowedGoalHasNoKickoff ==
    after.do = "kickoff" => ~goals[Len(goals)].canceled
=============================================================================
