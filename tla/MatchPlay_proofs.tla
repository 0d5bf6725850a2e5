-------------------------- MODULE MatchPlay_proofs --------------------------
(***************************************************************************)
(* What holds in MatchFlow as long as people leave certain keys alone.     *)
(* Each theorem excludes the interventions that break its property and no  *)
(* other:                                                                  *)
(*   - the score, the restarts, penalties and extra time need a match that *)
(*     nobody edits in its replay (PlayInv);                               *)
(*   - a ball in the goal and a review need the pause that ends them,      *)
(*     which the formation keys, the substitution panel and, after a       *)
(*     tackle that injured, a forced substitution replace by another       *)
(*     (BallInv, DecisionInv).                                             *)
(***************************************************************************)
EXTENDS MatchFlow_proofs, FiniteSetTheorems

\* Nothing is pending: no review to decide, no restart or break to come.
Lulled == review = NoReview /\ after.do = "nothing"

\* What a review is about is still there when it is decided: its goal is the
\* last one and counts.
ReviewIsTimely ==
    review.kind = "goal" =>
         review.goal = Len(goals) /\ review.goal \in Standing(review.team)

Counted == \A t \in Teams : score[t] = Cardinality(Standing(t))

\* The score of the whistle is the score of the break.
BreakIsLevel == after.do \in {"extraFirst", "penalties"} => Level

PenaltyOfItsPeriod ==
    penalty # NoPenalty /\ ~penalty.shootout => period # "penalties"

\* A penalty is only awarded when nothing else is pending, so its goal comes
\* between no review and its decision, no whistle and its break.
PlayInv ==
    /\ ~replay
    /\ penalty # NoPenalty => Lulled
    /\ ReviewIsTimely
    /\ Counted
    /\ RestartFitsTheGoal
    /\ PenaltyOfItsPeriod
    /\ BreakIsLevel

\* Whoever waits to be replaced was injured by a foul whose decision has placed
\* the ball.
BallInv ==
    /\ BallInNetIsResolved
    /\ injured # <<>> \/ panel # "closed" => net = NoTeam

\* Whoever waits to be replaced was injured by a foul that has been decided.
DecisionInv ==
    /\ ReviewIsNotDropped
    /\ injured # <<>> \/ panel # "closed" => review = NoReview

-----------------------------------------------------------------------------
(* Counting. *)

LEMMA GoalSeq ==
    ASSUME Tally
    PROVE  /\ Len(goals) \in Nat /\ DOMAIN goals = 1..Len(goals)
           /\ \A i \in 1..Len(goals) : goals[i] \in [team : Teams, canceled : BOOLEAN]
<1>1. goals \in Seq([team : Teams, canceled : BOOLEAN])
  BY DEF Tally
<1>2. /\ Len(goals) \in Nat /\ DOMAIN goals = 1..Len(goals)
      /\ goals \in [1..Len(goals) -> [team : Teams, canceled : BOOLEAN]]
  BY <1>1, LenProperties
<1> QED BY <1>2

LEMMA StandingFinite ==
    ASSUME Tally, NEW t
    PROVE  IsFiniteSet(Standing(t)) /\ Cardinality(Standing(t)) \in Nat
<1>1. IsFiniteSet(1..Len(goals))
  BY GoalSeq, FS_Interval
<1>2. Standing(t) \in SUBSET (1..Len(goals))
  BY GoalSeq DEF Standing
<1>3. IsFiniteSet(Standing(t))
  BY <1>1, <1>2, FS_Subset
<1> QED BY <1>3, FS_CardinalityType

\* A goal that is recorded stands, and counts for its team only.
LEMMA CountGoalCounts ==
    ASSUME Tally, Counted, NEW t \in Teams, CountGoal(t)
    PROVE  /\ Counted'
           /\ Len(goals') = Len(goals) + 1 /\ Len(goals) + 1 \in Standing(t)'
<1> DEFINE n == Len(goals)
           g == [team |-> t, canceled |-> FALSE]
<1>1. n \in Nat /\ DOMAIN goals = 1..n
  BY GoalSeq
<1>2. goals' = Append(goals, g) /\ score' = [score EXCEPT ![t] = @ + 1]
  BY DEF CountGoal
<1>3. /\ Len(goals') = n + 1 /\ DOMAIN goals' = 1..(n + 1)
      /\ goals'[n + 1] = g /\ \A i \in 1..n : goals'[i] = goals[i]
  <2>1. goals \in Seq([team : Teams, canceled : BOOLEAN])
    BY DEF Tally
  <2>2. g \in [team : Teams, canceled : BOOLEAN]
    OBVIOUS
  <2> HIDE DEF g
  <2>3. /\ Append(goals, g) \in Seq([team : Teams, canceled : BOOLEAN])
        /\ Len(Append(goals, g)) = n + 1
        /\ Append(goals, g)[n + 1] = g
        /\ \A i \in 1..n : Append(goals, g)[i] = goals[i]
    BY <2>1, <2>2, AppendProperties
  <2>4. DOMAIN goals' = 1..(n + 1)
    BY <1>2, <2>3, LenProperties
  <2> QED BY <1>2, <2>3, <2>4
<1>4. Standing(t)' = Standing(t) \cup {n + 1} /\ n + 1 \notin Standing(t)
  BY <1>1, <1>3 DEF Standing
<1>5. ASSUME NEW u \in Teams, u # t PROVE Standing(u)' = Standing(u)
  BY <1>1, <1>3, <1>5 DEF Standing
<1> HIDE DEF n, g
<1>6. score'[t] = Cardinality(Standing(t)')
  <2>1. Cardinality(Standing(t) \cup {n + 1}) = Cardinality(Standing(t)) + 1
    BY <1>4, StandingFinite, FS_AddElement
  <2> QED BY <1>2, <1>4, <2>1 DEF Tally, Counted
<1>7. ASSUME NEW u \in Teams, u # t PROVE score'[u] = Cardinality(Standing(u)')
  BY <1>2, <1>5, <1>7 DEF Tally, Counted
<1>8. Counted'
  BY <1>6, <1>7 DEF Counted
<1> QED BY <1>3, <1>4, <1>8 DEF n

\* A goal that stood and is cancelled counts no more.
LEMMA CancelCounts ==
    ASSUME Tally, Counted, NEW t \in Teams, NEW i \in Standing(t),
           goals' = [goals EXCEPT ![i].canceled = TRUE],
           score' = [score EXCEPT ![t] = Minus1(@)]
    PROVE  /\ Counted'
           /\ Len(goals') = Len(goals)
           /\ i \in DOMAIN goals' /\ goals'[i].team = t /\ goals'[i].canceled
<1>1. /\ DOMAIN goals = 1..Len(goals) /\ Len(goals) \in Nat
      /\ i \in DOMAIN goals /\ goals[i].team = t /\ ~goals[i].canceled
      /\ goals[i] \in [team : Teams, canceled : BOOLEAN]
  BY GoalSeq DEF Standing
<1>2. /\ DOMAIN goals' = DOMAIN goals
      /\ goals'[i].team = t /\ goals'[i].canceled
      /\ \A j \in DOMAIN goals : j # i => goals'[j] = goals[j]
  BY <1>1
<1>3. Len(goals') = Len(goals)
  <2>1. goals \in Seq([team : Teams, canceled : BOOLEAN])
    BY DEF Tally
  <2>2. goals' \in [1..Len(goals) -> [team : Teams, canceled : BOOLEAN]]
    <3>1. goals \in [1..Len(goals) -> [team : Teams, canceled : BOOLEAN]]
      BY <2>1, LenProperties
    <3> QED BY <3>1
  <2> QED BY <1>1, <2>2, IsASeq, LenProperties
<1>4. Standing(t)' = Standing(t) \ {i}
  BY <1>1, <1>2 DEF Standing
<1>5. ASSUME NEW u \in Teams, u # t PROVE Standing(u)' = Standing(u)
  BY <1>1, <1>2, <1>5 DEF Standing
<1>6. score'[t] = Cardinality(Standing(t)')
  <2>1. /\ Cardinality(Standing(t) \ {i}) = Cardinality(Standing(t)) - 1
        /\ IsFiniteSet(Standing(t) \ {i}) /\ Cardinality(Standing(t)) \in Nat
    BY StandingFinite, FS_RemoveElement
  <2>2. Cardinality(Standing(t) \ {i}) \in Nat
    BY <2>1, FS_CardinalityType
  <2>3. score[t] = Cardinality(Standing(t)) /\ score[t] # 0
    BY <2>1, <2>2 DEF Counted
  <2>4. score'[t] = score[t] - 1
    BY <2>3 DEF Minus1, Tally
  <2> QED BY <1>4, <2>1, <2>3, <2>4
<1>7. ASSUME NEW u \in Teams, u # t PROVE score'[u] = Cardinality(Standing(u)')
  BY <1>5, <1>7 DEF Tally, Counted
<1>8. Counted'
  BY <1>6, <1>7 DEF Counted
<1> QED BY <1>1, <1>2, <1>3, <1>8

LEMMA SameCount == ASSUME Counted, UNCHANGED tally PROVE Counted'
BY DEF Counted, Standing, tally

-----------------------------------------------------------------------------
(* What is known in a tick of play, and what a step has to show. *)

LEMMA NothingIsNothing == Nothing.do = "nothing"
BY DEF Nothing

\* Without a pause nothing is pending.
LEMMA Waiting ==
    ASSUME IInv, ~pausing
    PROVE  Lulled /\ ~varReview
BY DEF IInv, Stoppage, NoStaleReview, ReviewCanBeAnswered, Lulled

\* In play a review that is asked for is accepted.
LEMMA ReviewAccepted ==
    ASSUME IInv, Playing, NEW r, StartReview(r)
    PROVE  review' = r /\ pausing' /\ varReview' /\ after'.do = "decide"
<1>1. ~pausing
  BY DEF Playing, Running
<1>2. review = NoReview /\ ~varReview
  BY <1>1, Waiting DEF Lulled
<1> QED BY <1>1, <1>2 DEF StartReview, StartPause

\* A button of the banner decides what the pause was waiting for.
LEMMA ResolveVarDecides ==
    ASSUME IInv, ResolveVar
    PROVE  /\ review # NoReview /\ after.do = "decide" /\ review' = NoReview
           /\ \E decision \in Options(review) :
                Decide(review, decision, ~finished /\ ~replay)
           /\ UNCHANGED <<result, kicks, replay, panel>>
BY DEF ResolveVar, IInv, Stoppage, ReviewCanBeAnswered

\* So does the end of the pause, with the recommended decision.
LEMMA PauseDecides ==
    ASSUME IInv, after.do = "decide", Decide(review, Recommended(review), FALSE)
    PROVE  review # NoReview /\ Recommended(review) \in Options(review)
<1>1. review.kind # "none"
  BY DEF Decide, Recommended
<1>2. review # NoReview
  BY <1>1 DEF NoReview
<1> QED BY <1>2 DEF IInv, Stoppage, Reviews, Recommended, Options

-----------------------------------------------------------------------------
(* The score, restarts, penalties and extra time. *)

\* A step after which nothing is pending has only the score and the penalty to
\* answer for.
LEMMA Calm ==
    ASSUME ~replay', Lulled', Counted', PenaltyOfItsPeriod'
    PROVE  PlayInv'
<1>1. review'.kind = "none" /\ after'.do = "nothing"
  BY DEF Lulled, NoReview
<1> QED BY <1>1 DEF PlayInv, ReviewIsTimely, RestartFitsTheGoal, BreakIsLevel

LEMMA SamePenalty ==
    ASSUME PenaltyOfItsPeriod, UNCHANGED <<penalty, period>>
    PROVE  PenaltyOfItsPeriod'
BY DEF PenaltyOfItsPeriod

LEMMA NoPenaltyIsFine == ASSUME penalty' = NoPenalty PROVE PenaltyOfItsPeriod'
BY DEF PenaltyOfItsPeriod, NoPenalty

\* A step that leaves the match alone, except that it may replace the pause by
\* one that leads to nothing: a review it replaces is dropped undecided.
LEMMA Interruption ==
    ASSUME PlayInv, UNCHANGED flow \/ StartPause(Nothing, FALSE),
           UNCHANGED <<review, restart, tally, penalty, replay>>, PenaltyOfItsPeriod'
    PROVE  PlayInv'
<1>1. UNCHANGED <<review, restart, goals, score, penalty, replay>>
  BY DEF tally
<1>2. after' = after \/ after'.do = "nothing"
  BY NothingIsNothing DEF flow, StartPause
<1>3. penalty' # NoPenalty => Lulled'
  BY <1>1, <1>2 DEF PlayInv, Lulled
<1>4. ReviewIsTimely' /\ Counted'
  BY <1>1, SameCount DEF PlayInv, ReviewIsTimely, Standing, tally
<1>5. RestartFitsTheGoal' /\ BreakIsLevel'
  BY <1>1, <1>2 DEF PlayInv, RestartFitsTheGoal, BreakIsLevel, Level
<1> QED BY <1>1, <1>3, <1>4, <1>5 DEF PlayInv

\* A step that leaves nothing pending because nothing was.
LEMMA StaysCalm ==
    ASSUME Lulled, ~replay', UNCHANGED <<flow, review>>, Counted', PenaltyOfItsPeriod'
    PROVE  PlayInv'
<1>1. Lulled'
  BY DEF Lulled, flow
<1> QED BY <1>1, Calm

\* Every branch of a decision.
LEMMA DecideKeepsPlay ==
    ASSUME IInv, PlayInv, NEW decision, NEW lull, Decide(review, decision, lull),
           after.do = "decide", review' = NoReview, review # NoReview,
           decision \in Options(review), UNCHANGED <<result, kicks, replay>>
    PROVE  PlayInv'
<1> DEFINE t == review.team
<1>1. t \in Teams /\ Opponent(t) \in Teams /\ Opponent(t) # t
  BY TeamFacts, RecordFacts DEF IInv, Stoppage
<1>2. penalty = NoPenalty /\ ~replay'
  BY DEF PlayInv, Lulled
<1>3. decision \in {"confirm", "cancel"} <=> review.kind = "goal"
  BY DEF Options
<1>4. ASSUME Lull(lull) \/ StartPause(Nothing, FALSE) PROVE Lulled'
  BY <1>4, NothingIsNothing DEF Lull, StartPause, NoPause, Lulled
<1>5. ASSUME decision \in {"confirm", "cancel"},
             goals' # <<>>, goals'[Len(goals')].team = t,
             goals'[Len(goals')].canceled <=> decision = "cancel",
             Counted',
             StartPause([do |-> IF decision = "cancel" THEN "goalKick" ELSE "kickoff",
                         team |-> Opponent(t)], FALSE),
             UNCHANGED penalty
      PROVE  PlayInv'
  <2>1. /\ after'.team = Opponent(t)
        /\ after'.do = IF decision = "cancel" THEN "goalKick" ELSE "kickoff"
    BY <1>5 DEF StartPause
  <2>2. penalty' = NoPenalty /\ PenaltyOfItsPeriod'
    BY <1>2, <1>5, NoPenaltyIsFine
  <2>3. ReviewIsTimely'
    BY DEF ReviewIsTimely, NoReview
  <2>4. RestartFitsTheGoal'
    BY <1>1, <1>5, <2>1 DEF RestartFitsTheGoal
  <2>5. BreakIsLevel'
    BY <2>1 DEF BreakIsLevel
  <2> QED BY <1>2, <1>5, <2>2, <2>3, <2>4, <2>5 DEF PlayInv
<1>6. review.kind = "goal" =>
        /\ review.goal = Len(goals) /\ review.goal \in Standing(t)
        /\ goals # <<>> /\ goals[Len(goals)].team = t /\ ~goals[Len(goals)].canceled
  BY DEF PlayInv, ReviewIsTimely, Standing
<1>7. Counted
  BY DEF PlayInv
<1> HIDE DEF t
<1>8. CASE /\ decision = "confirm"
           /\ StartPause([do |-> "kickoff", team |-> Opponent(t)], FALSE)
           /\ UNCHANGED <<tally, penalty>>
  <2>1. UNCHANGED goals /\ Counted'
    BY <1>7, <1>8, SameCount DEF tally
  <2> QED BY <1>3, <1>5, <1>6, <1>8, <2>1
<1>9. CASE /\ decision = "cancel"
           /\ goals' = [goals EXCEPT ![review.goal].canceled = TRUE]
           /\ score' = [score EXCEPT ![t] = Minus1(@)]
           /\ StartPause([do |-> "goalKick", team |-> Opponent(t)], FALSE)
           /\ UNCHANGED penalty
  <2>1. review.goal = Len(goals) /\ review.goal \in Standing(t)
    BY <1>3, <1>6, <1>9
  <2>2. /\ Counted' /\ Len(goals') = Len(goals)
        /\ Len(goals) \in DOMAIN goals'
        /\ goals'[Len(goals)].team = t /\ goals'[Len(goals)].canceled
    BY <1>1, <1>7, <1>9, <2>1, CancelCounts DEF IInv
  <2>3. goals' # <<>>
    BY <2>2
  <2> QED BY <1>5, <1>9, <2>2, <2>3
<1>10. CASE StartPause(Nothing, FALSE) /\ UNCHANGED <<tally, penalty>>
  BY <1>2, <1>4, <1>7, <1>10, SameCount, NoPenaltyIsFine, Calm
<1>11. CASE /\ review.kind = "boxFoul"
            /\ AwardPenalty(t)
            /\ Lull(lull)
            /\ UNCHANGED <<restart, wall, tally>>
  <2>1. UNCHANGED period
    BY DEF result
  <2>2. PenaltyOfItsPeriod'
    BY <1>2, <1>11, <2>1, NoPenaltyIsFine DEF AwardPenalty, PenaltyOfItsPeriod
  <2> QED BY <1>2, <1>4, <1>7, <1>11, <2>2, SameCount, Calm
<1>12. CASE Lull(lull) /\ UNCHANGED <<tally, penalty>>
  BY <1>2, <1>4, <1>7, <1>12, SameCount, NoPenaltyIsFine, Calm
<1> QED BY <1>8, <1>9, <1>10, <1>11, <1>12 DEF Decide, t

\* The end of a pause.  Only a review leaves something pending.
LEMMA PauseEndsKeepsPlay == ASSUME IInv, PlayInv, PauseEnds PROVE PlayInv'
<1>1. review' = NoReview /\ RunCallback /\ UNCHANGED replay /\ ~replay'
  BY DEF PauseEnds, PlayInv
<1>2. Counted /\ PenaltyOfItsPeriod
  BY DEF PlayInv
<1>3. after.do # "nothing" => penalty = NoPenalty
  BY DEF PlayInv, Lulled
<1>4. ASSUME NoPause PROVE Lulled'
  BY <1>1, <1>4, NothingIsNothing DEF NoPause, Lulled
<1>5. CASE /\ after.do = "nothing"
           /\ NoPause
           /\ UNCHANGED <<result, restart, tally, penalty>>
  <2>1. PenaltyOfItsPeriod' /\ Counted'
    BY <1>2, <1>5, SamePenalty, SameCount DEF result
  <2> QED BY <1>1, <1>4, <1>5, <2>1, Calm
<1>6. CASE /\ after.do = "decide"
           /\ Decide(review, Recommended(review), FALSE)
           /\ UNCHANGED <<result, kicks>>
  BY <1>1, <1>6, PauseDecides, DecideKeepsPlay
<1>7. CASE /\ after.do # "nothing"
           /\ NoPause
           /\ UNCHANGED <<tally, penalty>>
  <2>1. PenaltyOfItsPeriod' /\ Counted'
    BY <1>2, <1>3, <1>7, NoPenaltyIsFine, SameCount
  <2> QED BY <1>1, <1>4, <1>7, <2>1, Calm
<1> QED BY <1>1, <1>5, <1>6, <1>7 DEF RunCallback

\* The incidents of a tick of play, also of the one of the final whistle.
LEMMA IncidentKeepsPlay ==
    ASSUME IInv, PlayInv, Playing, NEW t \in Teams, Incident(t),
           UNCHANGED <<penalty, replay>>
    PROVE  PlayInv'
<1>1. Lulled /\ penalty' = NoPenalty /\ ~replay' /\ PenaltyOfItsPeriod'
  BY Waiting, NoPenaltyIsFine DEF Playing, Running, PlayInv
<1>2. Counted
  BY DEF PlayInv
<1>3. ASSUME after'.do = "decide", ReviewIsTimely', Counted' PROVE PlayInv'
  <2>1. RestartFitsTheGoal' /\ BreakIsLevel'
    BY <1>3 DEF RestartFitsTheGoal, BreakIsLevel
  <2> QED BY <1>1, <1>3, <2>1 DEF PlayInv
<1>4. CASE FoulOn(t) \/ JostleOn(t)
  <2>1. PICK box \in BOOLEAN :
           StartReview([kind |-> IF box THEN "boxFoul" ELSE "foul", team |-> t, goal |-> 0])
    BY <1>4 DEF FoulOn, JostleOn
  <2>2. /\ review' = [kind |-> IF box THEN "boxFoul" ELSE "foul", team |-> t, goal |-> 0]
        /\ after'.do = "decide"
    BY <2>1, ReviewAccepted
  <2>3. UNCHANGED tally
    BY <1>4 DEF FoulOn, JostleOn
  <2>4. review'.kind # "goal"
    BY <2>2
  <2>5. ReviewIsTimely' /\ Counted'
    BY <1>2, <2>3, <2>4, SameCount DEF ReviewIsTimely
  <2> QED BY <1>3, <2>2, <2>5
<1>5. CASE PlayGoesOn
  BY <1>1, <1>5, Interruption DEF PlayGoesOn
<1>6. CASE OffsideOf(t)
  <2>1. review' = [kind |-> "offside", team |-> t, goal |-> 0] /\ after'.do = "decide"
    BY <1>6, ReviewAccepted DEF OffsideOf
  <2>2. UNCHANGED tally /\ review'.kind = "offside"
    BY <1>6, <2>1 DEF OffsideOf
  <2>3. ReviewIsTimely' /\ Counted'
    BY <1>2, <2>2, SameCount DEF ReviewIsTimely
  <2> QED BY <1>3, <2>1, <2>3
<1>7. CASE GoalOf(t)
  <2>1. /\ review' = [kind |-> "goal", team |-> t, goal |-> Len(goals) + 1]
        /\ after'.do = "decide"
    BY <1>7, ReviewAccepted DEF GoalOf
  <2>2. /\ Counted'
        /\ Len(goals') = Len(goals) + 1 /\ Len(goals) + 1 \in Standing(t)'
    BY <1>2, <1>7, CountGoalCounts DEF GoalOf, IInv
  <2>3. review'.kind = "goal" /\ review'.team = t /\ review'.goal = Len(goals) + 1
    BY <2>1
  <2>4. (review.goal \in Standing(review.team))'
    BY <2>2, <2>3 DEF Standing
  <2>5. ReviewIsTimely'
    BY <2>2, <2>3, <2>4 DEF ReviewIsTimely
  <2> QED BY <1>3, <2>1, <2>2, <2>5
<1>8. CASE BallOutFor(t)
  <2>1. Lulled' /\ UNCHANGED tally
    BY <1>1, <1>8, NothingIsNothing DEF BallOutFor, StartPause, Lulled
  <2> QED BY <1>1, <1>2, <2>1, SameCount, Calm
<1> QED BY <1>4, <1>5, <1>6, <1>7, <1>8 DEF Incident

\* The whistle for a break: it is the score of this tick that sends the teams
\* into extra time or to the penalty spot.
LEMMA BreakTickKeepsPlay == ASSUME IInv, PlayInv, BreakTick PROVE PlayInv'
<1>1. Lulled /\ penalty = NoPenalty
  BY Waiting DEF BreakTick, Playing, Running
<1>2. /\ NextPeriod # "finished"
      /\ StartPause([do |-> NextPeriod, team |-> NoTeam], FALSE)
      /\ UNCHANGED <<review, tally, penalty, replay>>
  BY DEF BreakTick
<1>3. after'.do = NextPeriod /\ NextPeriod \in Breaks
  BY <1>2 DEF StartPause, NextPeriod, Breaks
<1>4. NextPeriod \in {"extraFirst", "penalties"} => Level
  BY DEF NextPeriod
<1>5. Counted' /\ PenaltyOfItsPeriod' /\ penalty' = NoPenalty
  BY <1>1, <1>2, SameCount, NoPenaltyIsFine DEF PlayInv
<1>6. ReviewIsTimely'
  BY <1>1, <1>2 DEF Lulled, NoReview, ReviewIsTimely
<1>7. RestartFitsTheGoal'
  BY <1>3 DEF RestartFitsTheGoal, Breaks
<1>8. BreakIsLevel'
  <2>1. Level' = Level
    BY <1>2 DEF Level, tally
  <2> QED BY <1>3, <1>4, <2>1 DEF BreakIsLevel
<1> QED BY <1>2, <1>5, <1>6, <1>7, <1>8 DEF PlayInv

LEMMA FinalWhistleKeepsPlay == ASSUME IInv, PlayInv, FinalWhistleTick PROVE PlayInv'
<1>1. Playing /\ UNCHANGED <<penalty, replay>>
  BY DEF FinalWhistleTick
<1> QED BY <1>1, IncidentKeepsPlay DEF FinalWhistleTick

\* Penalties change the score only while nothing is pending.
LEMMA PenaltyStepsKeepPlay ==
    ASSUME IInv, PlayInv,
           NextShootoutKick \/ PenaltyEnds \/ \E t \in Teams : TakePenalty(t)
    PROVE  PlayInv'
<1>1. Counted /\ PenaltyOfItsPeriod /\ ~replay
  BY DEF PlayInv
<1>2. CASE NextShootoutKick
  <2>1. Lulled
    BY <1>2, Waiting DEF NextShootoutKick, Running
  <2>2. PenaltyOfItsPeriod'
    BY <1>2 DEF NextShootoutKick, PenaltyOfItsPeriod
  <2>3. UNCHANGED <<flow, review, tally, replay>>
    BY <1>2 DEF NextShootoutKick
  <2> QED BY <1>1, <2>1, <2>2, <2>3, SameCount, StaysCalm
<1>3. CASE PenaltyEnds
  <2>1. Lulled
    BY <1>3, Waiting DEF PenaltyEnds, Running
  <2>2. PenaltyOfItsPeriod'
    BY <1>3, NoPenaltyIsFine DEF PenaltyEnds
  <2>3. UNCHANGED <<flow, review, tally, replay>>
    BY <1>3 DEF PenaltyEnds
  <2> QED BY <1>1, <2>1, <2>2, <2>3, SameCount, StaysCalm
<1>4. ASSUME NEW t \in Teams, TakePenalty(t) PROVE PlayInv'
  <2>1. /\ penalty.team = t /\ penalty.result = "none"
        /\ UNCHANGED <<result, flow, review, restart, net, replay>>
    BY <1>4 DEF TakePenalty
  <2>2. penalty # NoPenalty
    BY <2>1, TeamFacts DEF NoPenalty
  <2>3. Lulled
    BY <2>2 DEF PlayInv
  <2>4. Counted'
    BY <1>1, <1>4, CountGoalCounts, SameCount DEF TakePenalty, IInv
  <2>5. penalty'.shootout = penalty.shootout
    <3>1. penalty \in [team : Teams, shootout : BOOLEAN, result : {"none", "scored", "missed"}]
      BY <2>2 DEF IInv, Field, Penalties
    <3> QED BY <1>4, <3>1 DEF TakePenalty
  <2>6. PenaltyOfItsPeriod'
    BY <1>1, <2>1, <2>2, <2>5 DEF PenaltyOfItsPeriod, result
  <2> QED BY <1>1, <2>1, <2>3, <2>4, <2>6, StaysCalm
<1> QED BY <1>2, <1>3, <1>4

LEMMA InitPlayInv == Init => PlayInv
<1> SUFFICES ASSUME Init PROVE PlayInv
  OBVIOUS
<1>1. review.kind = "none" /\ after.do = "nothing" /\ penalty = NoPenalty
  BY NothingIsNothing DEF Init, NoReview
<1>2. Counted
  <2>1. \A t \in Teams : Standing(t) = {}
    BY DEF Init, Standing
  <2> QED BY <2>1, FS_EmptySet DEF Init, Counted
<1>3. ReviewIsTimely /\ RestartFitsTheGoal /\ BreakIsLevel
  BY <1>1 DEF ReviewIsTimely, RestartFitsTheGoal, BreakIsLevel
<1>4. PenaltyOfItsPeriod
  BY DEF Init, PenaltyOfItsPeriod
<1> QED BY <1>1, <1>2, <1>3, <1>4 DEF Init, PlayInv

\* What else people or the substitution queue do either interrupts or takes a
\* restart; only the replay edits the score.
LEMMA NextPlayInv ==
    ASSUME "replay" \notin Interventions, IInv, PlayInv, [Next]_vars
    PROVE  PlayInv'
<1>1. Counted /\ PenaltyOfItsPeriod /\ ~replay
  BY DEF PlayInv
<1>2. ASSUME PlayTick PROVE PlayInv'
  BY <1>2, IncidentKeepsPlay DEF PlayTick
<1>3. ASSUME UNCHANGED flow \/ StartPause(Nothing, FALSE),
             UNCHANGED <<result, review, restart, tally, penalty, replay>>
      PROVE  PlayInv'
  BY <1>1, <1>3, SamePenalty, Interruption DEF result
<1>4. ASSUME \/ ForcedSubstitution \/ OpenPanel \/ ClosePanel \/ PanelChange
             \/ CycleFormation \/ ChooseWall \/ UNCHANGED vars
      PROVE  PlayInv'
  BY <1>3, <1>4 DEF ForcedSubstitution, OpenPanel, ClosePanel, PanelChange,
                    CycleFormation, ChooseWall, vars, result, flow, tally
<1>5. ASSUME NEW t \in Teams, TakeRestart(t) PROVE PlayInv'
  <2>1. Lulled /\ penalty = NoPenalty
    BY <1>5, Waiting DEF TakeRestart, Playing, Running
  <2>2. UNCHANGED <<flow, review, tally, penalty, replay>>
    BY <1>5 DEF TakeRestart
  <2> QED BY <1>1, <2>1, <2>2, SameCount, NoPenaltyIsFine, StaysCalm
<1>6. ASSUME ResolveVar PROVE PlayInv'
  BY <1>6, ResolveVarDecides, DecideKeepsPlay
<1>7. /\ ~OpenReplay /\ ~CloseReplay /\ \A i \in DOMAIN goals : ~ToggleGoal(i)
      /\ \A t \in Teams : ~AddGoal(t) /\ ~AddPenalty(t)
  BY <1>1 DEF OpenReplay, CloseReplay, ToggleGoal, AddGoal, AddPenalty
<1>8. ASSUME Engine PROVE PlayInv'
  BY <1>2, <1>4, <1>8, PauseEndsKeepsPlay, BreakTickKeepsPlay, FinalWhistleKeepsPlay,
     PenaltyStepsKeepPlay DEF Engine
<1>9. ASSUME Players PROVE PlayInv'
  BY <1>4, <1>5, <1>6, <1>7, <1>9, PenaltyStepsKeepPlay DEF Players
<1> QED BY <1>4, <1>8, <1>9 DEF Next

LEMMA PlayInvariance ==
    ASSUME "replay" \notin Interventions PROVE Spec => [](IInv /\ PlayInv)
<1>1. IInv /\ PlayInv /\ [Next]_vars => IInv' /\ PlayInv'
  BY NextIInv, NextPlayInv
<1> QED BY <1>1, InitIInv, InitPlayInv, PTL DEF Spec

\* The score is the number of goals that stand, through every review and
\* whatever replaces its pause.
THEOREM ScoreIsRight ==
    ASSUME "replay" \notin Interventions PROVE Spec => []ScoreIsGoalsThatStand
<1>1. PlayInv => ScoreIsGoalsThatStand
  BY DEF PlayInv, Counted, ReviewIsTimely, ScoreIsGoalsThatStand
<1> QED BY <1>1, PlayInvariance, PTL

\* A goal that stands is followed by a kickoff, one that does not by a goal kick,
\* for the other team.
THEOREM RightRestart ==
    ASSUME "replay" \notin Interventions PROVE Spec => []RestartFitsTheGoal
<1>1. PlayInv => RestartFitsTheGoal
  BY DEF PlayInv
<1> QED BY <1>1, PlayInvariance, PTL

\* A penalty of the match is taken before anything else that was under way goes
\* on, and before the shoot-out.
THEOREM PenaltyIsFirst ==
    ASSUME "replay" \notin Interventions PROVE Spec => []PenaltyComesFirst
<1>1. IInv /\ PlayInv => PenaltyComesFirst
  <2> SUFFICES ASSUME IInv, PlayInv, penalty # NoPenalty, ~penalty.shootout
               PROVE  review = NoReview /\ after = Nothing /\ period # "penalties"
    BY DEF PenaltyComesFirst
  <2>1. Lulled /\ period # "penalties"
    BY DEF PlayInv, PenaltyOfItsPeriod
  <2>2. after = Nothing
    BY <2>1 DEF Lulled, IInv, Stoppage, Callbacks, Nothing
  <2> QED BY <2>1, <2>2 DEF Lulled
<1> QED BY <1>1, PlayInvariance, PTL

\* The score cannot change between the whistle and the extra time or shoot-out
\* it leads to.
THEOREM ExtraTimeIsDeserved ==
    ASSUME "replay" \notin Interventions PROVE Spec => ExtraTimeOnlyWhenLevel
<1>1. IInv /\ PlayInv /\ [Next]_vars =>
        [period' # period /\ period' \in {"extraFirst", "penalties"} => Level]_vars
  <2> SUFFICES ASSUME IInv, PlayInv, Next,
                      period' # period, period' \in {"extraFirst", "penalties"}
               PROVE  Level
    OBVIOUS
  <2>1. CASE PauseEnds
    <3>1. after.do = period'
      <4>1. CASE UNCHANGED period
        BY <4>1
      <4>2. CASE \E u \in Teams : NewPeriod(after.do, u)
        BY <4>2 DEF NewPeriod
      <4>3. CASE after.do = "penalties" /\ period' = "penalties"
        BY <4>3
      <4> QED BY <2>1, <4>1, <4>2, <4>3, TeamFacts DEF PauseEnds, RunCallback, result
    <3> QED BY <3>1 DEF PlayInv, BreakIsLevel
  <2>2. CASE FinalWhistleTick \/ PenaltyEnds
    BY <2>2 DEF FinalWhistleTick, PenaltyEnds, result
  <2>3. CASE PlayTick \/ BreakTick \/ NextShootoutKick \/ ForcedSubstitution
    BY <2>3 DEF PlayTick, BreakTick, NextShootoutKick, ForcedSubstitution, result
  <2>4. CASE Players
    BY <2>4 DEF Players, TakeRestart, TakePenalty, ChooseWall, ResolveVar, CycleFormation,
                OpenPanel, ClosePanel, PanelChange, OpenReplay, CloseReplay, ToggleGoal,
                AddGoal, AddPenalty, result
  <2> QED BY <2>1, <2>2, <2>3, <2>4 DEF Next, Engine
<1> QED BY <1>1, PlayInvariance, PTL DEF Spec, ExtraTimeOnlyWhenLevel

-----------------------------------------------------------------------------
(* The ball in the goal. *)

LEMMA NoBallInNet == ASSUME net' = NoTeam PROVE BallInv'
BY DEF BallInv, BallInNetIsResolved

LEMMA SameBall ==
    ASSUME BallInv, net' \in {net, NoTeam}, UNCHANGED <<flow, review, injured, panel>>
    PROVE  BallInv'
<1>1. CASE net' = NoTeam
  BY <1>1, NoBallInNet
<1>2. CASE net' = net
  BY <1>2 DEF BallInv, BallInNetIsResolved, flow
<1> QED BY <1>1, <1>2

\* A ball over the goal line is dealt with by a kickoff or a goal kick of the
\* other team, whatever the decision.
LEMMA DecideKeepsBall ==
    ASSUME IInv, BallInv, NEW decision, NEW lull, Decide(review, decision, lull),
           after.do = "decide", decision \in Options(review), UNCHANGED panel
    PROVE  BallInv'
<1>1. net' \in {net, NoTeam}
  BY DEF Decide, FreeKick, PlaceBall
<1>2. CASE net = NoTeam
  BY <1>1, <1>2, NoBallInNet
<1>3. CASE net # NoTeam
  <2>1. review.kind = "goal" /\ review.team = net /\ injured = <<>> /\ panel = "closed"
    BY <1>3 DEF BallInv, BallInNetIsResolved
  <2>2. decision \in {"confirm", "cancel"}
    BY <2>1 DEF Options
  <2>3. PICK do \in {"kickoff", "goalKick"} :
          /\ StartPause([do |-> do, team |-> Opponent(review.team)], FALSE)
          /\ UNCHANGED <<net, injured>>
    BY <2>2 DEF Decide
  <2>4. pausing' /\ after'.do \in {"kickoff", "goalKick"} /\ after'.team = Opponent(net)
    BY <2>1, <2>3 DEF StartPause
  <2> QED BY <2>1, <2>3, <2>4 DEF BallInv, BallInNetIsResolved
<1> QED BY <1>2, <1>3

LEMMA PauseEndsKeepsBall == ASSUME IInv, BallInv, PauseEnds PROVE BallInv'
<1>1. RunCallback /\ UNCHANGED panel
  BY DEF PauseEnds
<1>2. after.do \notin {"kickoff", "goalKick", "decide"} => net = NoTeam
  BY DEF BallInv, BallInNetIsResolved
<1>3. CASE after.do = "decide" /\ Decide(review, Recommended(review), FALSE)
  BY <1>1, <1>3, PauseDecides, DecideKeepsBall
<1>4. CASE after.do \in {"kickoff", "goalKick"} /\ PlaceBall(after.do, after.team)
  BY <1>4, NoBallInNet DEF PlaceBall
<1>5. CASE after.do \notin {"kickoff", "goalKick", "decide"} /\ net' \in {net, NoTeam}
  BY <1>2, <1>5, NoBallInNet
<1> QED BY <1>1, <1>3, <1>4, <1>5 DEF RunCallback, NewPeriod, PlaceBall

\* Play goes on only when no ball lies in a goal; a goal puts it there.
LEMMA IncidentKeepsBall ==
    ASSUME "injury" \notin Interventions, IInv, BallInv, Playing,
           NEW t \in Teams, Incident(t), UNCHANGED panel
    PROVE  BallInv'
<1>1. net = NoTeam /\ injured = <<>> /\ UNCHANGED injured /\ panel = "closed"
  BY DEF Incident, Tackle, Playing, Running, Ticking, BallInv, BallInNetIsResolved
<1>2. CASE GoalOf(t)
  <2>1. /\ review' = [kind |-> "goal", team |-> t, goal |-> Len(goals) + 1]
        /\ pausing' /\ after'.do = "decide"
    BY <1>2, ReviewAccepted DEF GoalOf
  <2>2. review'.kind = "goal" /\ review'.team = t
    BY <2>1
  <2>3. net' = t
    BY <1>2 DEF GoalOf
  <2> QED BY <1>1, <2>1, <2>2, <2>3 DEF BallInv, BallInNetIsResolved
<1>3. CASE FoulOn(t) \/ JostleOn(t) \/ OffsideOf(t) \/ BallOutFor(t) \/ PlayGoesOn
  BY <1>1, <1>3, NoBallInNet
  DEF FoulOn, JostleOn, OffsideOf, BallOutFor, PlayGoesOn, PlaceBall
<1> QED BY <1>2, <1>3 DEF Incident

LEMMA NextBallInv ==
    ASSUME Interventions \subseteq {"replay"}, IInv, BallInv, [Next]_vars
    PROVE  BallInv'
<1>1. ASSUME PlayTick \/ FinalWhistleTick PROVE BallInv'
  <2>1. Playing /\ UNCHANGED panel
    BY <1>1 DEF PlayTick, FinalWhistleTick
  <2> QED BY <1>1, <2>1, IncidentKeepsBall DEF PlayTick, FinalWhistleTick
<1>2. ASSUME BreakTick PROVE BallInv'
  <2>1. net = NoTeam
    BY <1>2 DEF BreakTick, Playing, Running, BallInv, BallInNetIsResolved
  <2> QED BY <1>2, <2>1, NoBallInNet DEF BreakTick
<1>3. ASSUME ForcedSubstitution \/ ClosePanel \/ PanelChange PROVE BallInv'
  <2>1. net = NoTeam
    BY <1>3 DEF ForcedSubstitution, ClosePanel, PanelChange, BallInv
  <2> QED BY <1>3, <2>1, NoBallInNet DEF ForcedSubstitution, ClosePanel, PanelChange
<1>4. ASSUME ResolveVar PROVE BallInv'
  BY <1>4, ResolveVarDecides, DecideKeepsBall
<1>5. ASSUME NextShootoutKick \/ PenaltyEnds \/ \E t \in Teams : TakePenalty(t)
      PROVE  BallInv'
  BY <1>5, SameBall DEF NextShootoutKick, PenaltyEnds, TakePenalty, PlaceBall
<1>6. ASSUME \/ \E t \in Teams : TakeRestart(t) \/ AddGoal(t) \/ AddPenalty(t)
             \/ \E i \in DOMAIN goals : ToggleGoal(i)
             \/ ChooseWall \/ OpenReplay \/ CloseReplay
      PROVE  BallInv'
  BY <1>6, SameBall
  DEF TakeRestart, AddGoal, AddPenalty, ToggleGoal, ChooseWall, OpenReplay, CloseReplay,
      PlaceBall
<1>7. ~CycleFormation /\ ~OpenPanel
  BY DEF CycleFormation, OpenPanel
<1>8. ASSUME UNCHANGED vars PROVE BallInv'
  BY <1>8, SameBall DEF vars, flow
<1> QED BY <1>1, <1>2, <1>3, <1>4, <1>5, <1>6, <1>7, <1>8, PauseEndsKeepsBall
        DEF Next, Engine, Players

\* A goal is not counted twice: play does not go on while the ball is in the
\* net, unless another pause replaces the one that ends with its removal: by the
\* formation keys, the substitution panel or the forced substitution of a player
\* whom a tackle injured in the tick of the goal.  What is edited in the replay
\* makes no difference.
THEOREM NetIsEmptied ==
    ASSUME Interventions \subseteq {"replay"} PROVE Spec => []BallInNetIsResolved
<1>1. Init => BallInv
  BY DEF Init, BallInv, BallInNetIsResolved
<1>2. IInv /\ BallInv /\ [Next]_vars => BallInv'
  BY NextBallInv
<1>3. BallInv => BallInNetIsResolved
  BY DEF BallInv
<1> QED BY <1>1, <1>2, <1>3, Invariance, PTL DEF Spec

-----------------------------------------------------------------------------
(* The decision of a review. *)

LEMMA NoReviewLeft == ASSUME review' = NoReview PROVE DecisionInv'
BY DEF DecisionInv, ReviewIsNotDropped

LEMMA SameReview ==
    ASSUME DecisionInv, UNCHANGED <<flow, review, injured, panel>>
    PROVE  DecisionInv'
BY DEF DecisionInv, ReviewIsNotDropped, flow

\* Whatever starts another pause in play finds no review to replace.
LEMMA IncidentKeepsDecision ==
    ASSUME "injury" \notin Interventions, IInv, Playing, NEW t \in Teams, Incident(t),
           UNCHANGED panel
    PROVE  DecisionInv'
<1>1. review = NoReview /\ injured = <<>> /\ UNCHANGED injured /\ panel = "closed"
  BY Waiting DEF Incident, Tackle, Playing, Running, Ticking, Lulled
<1>2. ASSUME NEW r, StartReview(r) PROVE DecisionInv'
  BY <1>1, <1>2, ReviewAccepted DEF DecisionInv, ReviewIsNotDropped
<1>3. CASE FoulOn(t) \/ JostleOn(t)
  BY <1>2, <1>3 DEF FoulOn, JostleOn
<1>4. CASE OffsideOf(t) \/ GoalOf(t)
  BY <1>2, <1>4 DEF OffsideOf, GoalOf
<1>5. CASE BallOutFor(t) \/ PlayGoesOn
  BY <1>1, <1>5, NoReviewLeft DEF BallOutFor, PlayGoesOn
<1> QED BY <1>3, <1>4, <1>5 DEF Incident

LEMMA NextDecisionInv ==
    ASSUME Interventions \subseteq {"replay"}, IInv, DecisionInv, [Next]_vars
    PROVE  DecisionInv'
<1>1. ASSUME PlayTick \/ FinalWhistleTick PROVE DecisionInv'
  <2>1. Playing /\ UNCHANGED panel
    BY <1>1 DEF PlayTick, FinalWhistleTick
  <2> QED BY <1>1, <2>1, IncidentKeepsDecision DEF PlayTick, FinalWhistleTick
<1>2. ASSUME BreakTick PROVE DecisionInv'
  <2>1. review = NoReview
    BY <1>2, Waiting DEF BreakTick, Playing, Running, Lulled
  <2> QED BY <1>2, <2>1, NoReviewLeft DEF BreakTick
<1>3. ASSUME ForcedSubstitution \/ ClosePanel \/ PanelChange PROVE DecisionInv'
  <2>1. review = NoReview
    BY <1>3 DEF ForcedSubstitution, ClosePanel, PanelChange, DecisionInv
  <2> QED BY <1>3, <2>1, NoReviewLeft DEF ForcedSubstitution, ClosePanel, PanelChange
<1>4. ASSUME PauseEnds \/ ResolveVar PROVE DecisionInv'
  BY <1>4, NoReviewLeft DEF PauseEnds, ResolveVar
<1>5. ASSUME \/ NextShootoutKick \/ PenaltyEnds \/ ChooseWall \/ OpenReplay \/ CloseReplay
             \/ \E t \in Teams : TakePenalty(t) \/ TakeRestart(t) \/ AddGoal(t) \/ AddPenalty(t)
             \/ \E i \in DOMAIN goals : ToggleGoal(i)
      PROVE  DecisionInv'
  BY <1>5, SameReview
  DEF NextShootoutKick, PenaltyEnds, ChooseWall, OpenReplay, CloseReplay, TakePenalty,
      TakeRestart, AddGoal, AddPenalty, ToggleGoal
<1>6. ~CycleFormation /\ ~OpenPanel
  BY DEF CycleFormation, OpenPanel
<1>7. ASSUME UNCHANGED vars PROVE DecisionInv'
  BY <1>7, SameReview DEF vars, flow
<1> QED BY <1>1, <1>2, <1>3, <1>4, <1>5, <1>6, <1>7 DEF Next, Engine, Players

\* The decision of a review is never dropped, however fast reviews, goals and
\* whistles follow each other, and whatever a person edits in the replay.
THEOREM ReviewsAreDecided ==
    ASSUME Interventions \subseteq {"replay"} PROVE Spec => []ReviewIsNotDropped
<1>1. Init => DecisionInv
  BY DEF Init, DecisionInv, ReviewIsNotDropped
<1>2. IInv /\ DecisionInv /\ [Next]_vars => DecisionInv'
  BY NextDecisionInv
<1>3. DecisionInv => ReviewIsNotDropped
  BY DEF DecisionInv
<1> QED BY <1>1, <1>2, <1>3, Invariance, PTL DEF Spec
=============================================================================
