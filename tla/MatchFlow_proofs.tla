-------------------------- MODULE MatchFlow_proofs --------------------------
(***************************************************************************)
(* What holds in MatchFlow whatever people do, for every bound, either or  *)
(* both teams played by a person, and every choice of Interventions.       *)
(***************************************************************************)
EXTENDS MatchFlow, SequenceTheorems, TLAPS

\* The break that a whistle announced is the one its period ends with.
BreakFollows ==
    after.do \in Breaks =>
        \/ period = "firstHalf" /\ after.do = "secondHalf"
        \/ period = "secondHalf" /\ mode = "knockout" /\ after.do = "extraFirst"
        \/ period = "extraFirst" /\ after.do = "extraSecond"
        \/ period = "extraSecond" /\ after.do = "penalties"

\* Periods, their order and the result.
Course ==
    /\ mode \in {"knockout", "league"}
    /\ period \in Periods /\ finished \in BOOLEAN
    /\ winner \in Teams \cup {NoTeam}
    /\ finished <=> period = "finished"
    /\ mode = "league" => period \in {"firstHalf", "secondHalf", "finished"}

\* The pause with its callback, and the review.
Stoppage ==
    /\ pausing \in BOOLEAN /\ after \in Callbacks /\ varReview \in BOOLEAN
    /\ review \in Reviews
    /\ after.do # "nothing" => pausing
    /\ BreakFollows
    /\ ReviewCanBeAnswered
    /\ NoStaleReview

\* The ball, the restart and the penalty that wait for it.
Field ==
    /\ restart \in Restarts
    /\ wall \in Humans \cup {NoTeam} /\ net \in Teams \cup {NoTeam}
    /\ penalty \in Penalties
    /\ BallIsInOnePlace

Tally ==
    /\ goals \in Seq([team : Teams, canceled : BOOLEAN])
    /\ Len(goals) <= MaxGoals
    /\ score \in [Teams -> Nat]

\* The kicks of the shoot-out: one that is prepared fits under the bound, and
\* goals never outnumber kicks.
KickCount ==
    /\ taken \in [Teams -> 0..MaxKicks] /\ scored \in [Teams -> 0..MaxKicks]
    /\ \A t \in Teams : scored[t] <= taken[t]
    /\ penalty.shootout /\ penalty.result = "none" => taken[penalty.team] < MaxKicks
    /\ ShootoutIsNotStuck

Queue(q) == q \in Seq(Teams) /\ Len(q) <= 1

\* A panel is forced for the player who waits to be replaced.
Panels ==
    /\ Queue(injured)
    /\ replay \in BOOLEAN /\ panel \in {"closed", "open", "forced"}
    /\ panel = "forced" => injured # <<>>

IInv == Course /\ Stoppage /\ Field /\ Tally /\ KickCount /\ Panels

-----------------------------------------------------------------------------
LEMMA TeamFacts ==
    /\ Opponent(Blue) = Red /\ Opponent(Red) = Blue
    /\ Blue \in Teams /\ Red \in Teams /\ NoTeam \notin Teams
    /\ \A t \in Teams : Opponent(t) \in Teams /\ Opponent(t) # t /\ t # NoTeam
BY TeamsAssumption DEF Teams, Opponent

\* What the records of the model are made of.
LEMMA RecordFacts ==
    /\ Nothing \in Callbacks /\ Nothing.do = "nothing"
    /\ [do |-> "decide", team |-> NoTeam] \in Callbacks
    /\ \A b \in Breaks : [do |-> b, team |-> NoTeam] \in Callbacks
    /\ \A t \in Teams, d \in {"kickoff", "goalKick"} : [do |-> d, team |-> t] \in Callbacks
    /\ NoReview \in Reviews /\ NoRestart \in Restarts
    /\ NoPenalty \in Penalties /\ NoPenalty.shootout = FALSE
    /\ \A r \in Reviews : r # NoReview => r.team \in Teams
    /\ \A p \in Penalties : p # NoPenalty => p.team \in Teams
    /\ \A r \in Restarts : r # NoRestart => r.team \in Teams
BY DEF Nothing, Callbacks, Breaks, NoReview, Reviews, NoRestart, Restarts, NoPenalty, Penalties

\* A pause leaves nothing of the one it replaces.  Only the callback of a break
\* depends on the period, and only a review on its resolver.
LEMMA StartPauseKeeps ==
    ASSUME NEW c \in Callbacks, c.do \notin Breaks, StartPause(c, FALSE), review' \in Reviews
    PROVE  Stoppage'
BY DEF StartPause, Stoppage, BreakFollows, ReviewCanBeAnswered, NoStaleReview

LEMMA NoPauseKeeps ==
    ASSUME NoPause, review' = NoReview
    PROVE  Stoppage'
BY RecordFacts
DEF NoPause, Nothing, Breaks, Stoppage, BreakFollows, ReviewCanBeAnswered, NoStaleReview

LEMMA StartReviewKeeps ==
    ASSUME Stoppage, NEW r \in Reviews, r # NoReview, StartReview(r),
           UNCHANGED <<period, mode>>
    PROVE  Stoppage'
<1>1. CASE UNCHANGED <<review, flow>>
  BY <1>1 DEF flow, Stoppage, BreakFollows, ReviewCanBeAnswered, NoStaleReview
<1>2. CASE review' = r /\ StartPause([do |-> "decide", team |-> NoTeam], TRUE)
  BY <1>2, RecordFacts
  DEF StartPause, Breaks, Stoppage, BreakFollows, ReviewCanBeAnswered, NoStaleReview
<1> QED BY <1>1, <1>2 DEF StartReview

LEMMA SameStoppage ==
    ASSUME Stoppage, UNCHANGED <<flow, review, period, mode>>
    PROVE  Stoppage'
BY DEF flow, Stoppage, BreakFollows, ReviewCanBeAnswered, NoStaleReview

LEMMA PlaceBallKeeps ==
    ASSUME Field, NEW t \in Teams,
           NEW kind \in {"kickoff", "goalKick", "corner", "freeKick", "throwIn"},
           PlaceBall(kind, t), wall' \in Humans \cup {NoTeam}, penalty' \in Penalties
    PROVE  Field'
BY DEF PlaceBall, Field, Restarts, BallIsInOnePlace

LEMMA SameField ==
    ASSUME Field, UNCHANGED <<restart, wall, net, penalty>>
    PROVE  Field'
BY DEF Field, BallIsInOnePlace

\* The counting of goals is well typed for every goal that is recorded.
LEMMA CountGoalKeeps ==
    ASSUME Tally, NEW t \in Teams, CountGoal(t)
    PROVE  Tally'
<1>1. [team |-> t, canceled |-> FALSE] \in [team : Teams, canceled : BOOLEAN]
  OBVIOUS
<1>2. /\ goals' \in Seq([team : Teams, canceled : BOOLEAN])
      /\ Len(goals') = Len(goals) + 1
  BY <1>1, AppendProperties DEF Tally, CountGoal
<1>3. score' \in [Teams -> Nat]
  BY DEF Tally, CountGoal
<1>4. Len(goals) \in Nat /\ MaxGoals \in Nat
  BY BoundsAssumption DEF Tally
<1> QED BY <1>2, <1>3, <1>4 DEF Tally, CountGoal

\* So is the cancelling of a goal, whatever the score.
LEMMA GoalChanges ==
    ASSUME Tally, NEW i, NEW c \in BOOLEAN, NEW t \in Teams, NEW n \in Nat,
           goals' = [goals EXCEPT ![i].canceled = c],
           score' = [score EXCEPT ![t] = n]
    PROVE  Tally'
<1> DEFINE G == [team : Teams, canceled : BOOLEAN]
<1>1. goals \in Seq(G) /\ Len(goals) \in Nat /\ goals \in [1..Len(goals) -> G]
  BY LenProperties DEF Tally
<1>2. goals' \in [1..Len(goals) -> G]
  BY <1>1
<1>3. goals' \in Seq(G) /\ Len(goals') = Len(goals)
  <2> HIDE DEF G
  <2> QED BY <1>1, <1>2, IsASeq, LenProperties
<1> QED BY <1>3 DEF Tally

LEMMA Minus1Type ==
    ASSUME NEW n \in Nat
    PROVE  Minus1(n) \in Nat
BY DEF Minus1

LEMMA QueueFacts ==
    /\ Queue(<<>>)
    /\ \A t \in Teams : Queue(<<t>>) /\ <<t>> # <<>>
    /\ \A q : Queue(q) /\ q # <<>> => Tail(q) = <<>> /\ Head(q) \in Teams
<1>1. ASSUME NEW q, Queue(q), q # <<>> PROVE Tail(q) = <<>> /\ Head(q) \in Teams
  <2>1. q \in Seq(Teams) /\ Len(q) = 1
    <3>1. q \in Seq(Teams) /\ Len(q) <= 1
      BY <1>1 DEF Queue
    <3>2. \A s \in Seq(Teams) : s # <<>> => Len(s) \in Nat \ {0}
      BY EmptySeq
    <3>3. Len(q) \in Nat \ {0}
      BY <1>1, <3>1, <3>2
    <3>4. \A k \in Nat \ {0} : k <= 1 => k = 1
      OBVIOUS
    <3> QED BY <3>1, <3>3, <3>4
  <2>2. Tail(q) \in Seq(Teams) /\ Len(Tail(q)) = 0
    BY <2>1, HeadTailProperties
  <2>3. Head(q) \in Teams
    BY <1>1, <2>1, HeadTailProperties
  <2> QED BY <2>2, <2>3, EmptySeq
<1>2. \A t \in Teams : Queue(<<t>>) /\ <<t>> # <<>>
  BY DEF Queue
<1> QED BY <1>1, <1>2 DEF Queue

LEMMA MaybeInjuredKeeps ==
    ASSUME NEW t \in Teams, Queue(injured), MaybeInjured(t)
    PROVE  Queue(injured') /\ (injured # <<>> => injured' # <<>>)
<1>1. Queue(<<t>>) /\ <<t>> # <<>>
  BY QueueFacts
<1>2. CASE UNCHANGED injured
  BY <1>2
<1>3. CASE injured' = <<t>>
  BY <1>1, <1>3
<1> QED BY <1>2, <1>3 DEF MaybeInjured

\* Nothing but the shoot-out itself touches what KickCount is about: a penalty
\* of the match does not belong to it and is refused once it has begun.
LEMMA SameKicks ==
    ASSUME KickCount, UNCHANGED <<taken, scored>>,
           \/ UNCHANGED <<penalty, period>>
           \/ ~penalty.shootout /\ ~penalty'.shootout /\ period' # "penalties"
    PROVE  KickCount'
<1>1. Kicks!Complete' = Kicks!Complete
  BY DEF Kicks!Complete, Kicks!Remaining
<1> QED BY <1>1 DEF KickCount, ShootoutIsNotStuck

LEMMA AwardPenaltyKeeps ==
    ASSUME KickCount, penalty \in Penalties, NEW t \in Teams, AwardPenalty(t),
           UNCHANGED <<taken, scored, period>>
    PROVE  KickCount' /\ penalty' \in Penalties
<1>1. [team |-> t, shootout |-> FALSE, result |-> "none"] \in Penalties
  BY DEF Penalties
<1>2. CASE UNCHANGED penalty
  BY <1>2, SameKicks
<1>3. CASE /\ penalty = NoPenalty /\ period # "penalties"
           /\ penalty' = [team |-> t, shootout |-> FALSE, result |-> "none"]
  <2>1. KickCount'
    BY <1>3, SameKicks, RecordFacts
  <2> QED BY <1>1, <1>3, <2>1
<1> QED BY <1>2, <1>3 DEF AwardPenalty

-----------------------------------------------------------------------------
\* The six branches of a decision keep the invariant, in a match that goes on or
\* is over, by a person or by the timer.
LEMMA DecideKeeps ==
    ASSUME IInv, NEW decision, NEW lull, Decide(review, decision, lull),
           review' = NoReview, review # NoReview, decision \in Options(review),
           UNCHANGED <<result, kicks, replay, panel>>
    PROVE  IInv'
<1> DEFINE t == review.team
<1>1. t \in Teams /\ Opponent(t) \in Teams
  BY TeamFacts, RecordFacts DEF IInv, Stoppage
<1>2. Course'
  BY DEF IInv, Course, result
<1>3. ASSUME Lull(lull) PROVE Stoppage'
  BY <1>3, NoPauseKeeps, StartPauseKeeps, RecordFacts DEF Lull, Breaks
<1>4. ASSUME UNCHANGED injured PROVE Panels'
  BY <1>4 DEF IInv, Panels
<1>5. ASSUME MaybeInjured(t) PROVE Panels'
  BY <1>1, <1>5, MaybeInjuredKeeps DEF IInv, Panels
<1>6. ASSUME UNCHANGED tally PROVE Tally'
  BY <1>6 DEF IInv, Tally, tally
<1>7. ASSUME UNCHANGED penalty PROVE KickCount'
  BY <1>7, SameKicks DEF IInv, result, kicks
<1>8. ASSUME UNCHANGED <<restart, wall, net, penalty>> PROVE Field'
  BY <1>8, SameField DEF IInv
<1>9. ASSUME NEW u \in Teams, FreeKick(u), UNCHANGED penalty PROVE Field'
  <2>1. wall' \in Humans \cup {NoTeam} /\ PlaceBall("freeKick", u)
    BY <1>9 DEF FreeKick
  <2> QED BY <1>9, <2>1, PlaceBallKeeps DEF IInv, Field
<1> HIDE DEF t
<1>10. CASE /\ StartPause([do |-> "kickoff", team |-> Opponent(t)], FALSE)
            /\ UNCHANGED <<restart, wall, net, tally, penalty, injured>>
  <2>1. Stoppage'
    BY <1>1, <1>10, StartPauseKeeps, RecordFacts DEF Breaks
  <2> QED BY <1>2, <1>4, <1>6, <1>7, <1>8, <1>10, <2>1 DEF IInv
<1>11. CASE /\ goals' = [goals EXCEPT ![review.goal].canceled = TRUE]
            /\ score' = [score EXCEPT ![t] = Minus1(@)]
            /\ StartPause([do |-> "goalKick", team |-> Opponent(t)], FALSE)
            /\ UNCHANGED <<restart, wall, net, penalty, injured>>
  <2>1. Stoppage'
    BY <1>1, <1>11, StartPauseKeeps, RecordFacts DEF Breaks
  <2>2. score[t] \in Nat
    BY <1>1 DEF IInv, Tally
  <2>3. Tally'
    BY <1>1, <1>11, <2>2, GoalChanges, Minus1Type DEF IInv
  <2> QED BY <1>2, <1>4, <1>7, <1>8, <1>11, <2>1, <2>3 DEF IInv
<1>12. CASE /\ \E u \in Teams : FreeKick(u)
            /\ StartPause(Nothing, FALSE)
            /\ UNCHANGED <<tally, penalty>>
            /\ UNCHANGED injured \/ MaybeInjured(t)
  <2>1. Stoppage'
    BY <1>12, StartPauseKeeps, RecordFacts DEF Breaks
  <2> QED BY <1>2, <1>4, <1>5, <1>6, <1>7, <1>9, <1>12, <2>1 DEF IInv
<1>13. CASE /\ MaybeInjured(t)
            /\ AwardPenalty(t)
            /\ net' = NoTeam
            /\ Lull(lull)
            /\ UNCHANGED <<restart, wall, tally>>
  <2>1. KickCount' /\ penalty' \in Penalties
    BY <1>1, <1>13, AwardPenaltyKeeps DEF IInv, Field, result, kicks
  <2>2. Field'
    BY <1>13, <2>1 DEF IInv, Field, BallIsInOnePlace
  <2> QED BY <1>2, <1>3, <1>5, <1>6, <1>13, <2>1, <2>2 DEF IInv
<1>14. CASE Lull(lull) /\ UNCHANGED <<restart, wall, net, tally, penalty, injured>>
  BY <1>2, <1>3, <1>4, <1>6, <1>7, <1>8, <1>14 DEF IInv
<1> QED BY <1>1, <1>10, <1>11, <1>12, <1>13, <1>14 DEF Decide, t

\* A tick that ends a pause: the callback of a break finds the period that its
\* whistle ended.
LEMMA PauseEndsKeeps == ASSUME IInv, PauseEnds PROVE IInv'
<1>1. Ticking /\ pausing /\ review' = NoReview /\ RunCallback /\ UNCHANGED <<replay, panel>>
  BY DEF PauseEnds
<1>2. ASSUME UNCHANGED injured PROVE Panels'
  BY <1>1, <1>2 DEF IInv, Panels
<1>3. ASSUME NoPause PROVE Stoppage'
  BY <1>1, <1>3, NoPauseKeeps
<1>4. CASE /\ after.do = "nothing"
           /\ NoPause
           /\ UNCHANGED <<result, restart, wall, net, tally, penalty, kicks, injured>>
  <2>1. Course' /\ Tally'
    BY <1>4 DEF IInv, Course, Tally, result, tally
  <2>2. Field' /\ KickCount'
    BY <1>4, SameField, SameKicks DEF IInv, result, kicks
  <2> QED BY <1>2, <1>3, <1>4, <2>1, <2>2 DEF IInv
<1>5. CASE /\ Decide(review, Recommended(review), FALSE)
           /\ UNCHANGED <<result, kicks>>
  <2>1. review.kind # "none"
    BY <1>5 DEF Decide, Recommended
  <2>2. review # NoReview
    BY <2>1 DEF NoReview
  <2>3. Recommended(review) \in Options(review)
    BY <2>2 DEF IInv, Stoppage, Reviews, Recommended, Options
  <2> QED BY <1>1, <1>5, <2>2, <2>3, DecideKeeps
<1>6. CASE /\ after.do \in {"kickoff", "goalKick"}
           /\ NoPause
           /\ PlaceBall(after.do, after.team)
           /\ UNCHANGED <<result, wall, tally, penalty, kicks, injured>>
  <2>1. after.team \in Teams
    BY <1>6 DEF IInv, Stoppage, Callbacks, Breaks
  <2>2. Field'
    BY <1>6, <2>1, PlaceBallKeeps DEF IInv, Field
  <2>3. KickCount'
    BY <1>6, SameKicks DEF IInv, result, kicks
  <2>4. Course' /\ Tally'
    BY <1>6 DEF IInv, Course, Tally, result, tally
  <2> QED BY <1>2, <1>3, <1>6, <2>2, <2>3, <2>4 DEF IInv
<1>7. CASE /\ after.do \in {"secondHalf", "extraFirst", "extraSecond"}
           /\ NoPause
           /\ NewPeriod(after.do, IF after.do = "extraFirst" THEN Blue ELSE Red)
           /\ UNCHANGED <<wall, tally, penalty, kicks, injured>>
  <2>1. BreakFollows /\ after.do \in Breaks
    BY <1>7 DEF IInv, Stoppage, Breaks
  <2>2. Course'
    BY <1>7, <2>1 DEF IInv, Course, NewPeriod, BreakFollows, Periods
  <2>3. \E u \in Teams : PlaceBall("kickoff", u)
    BY <1>7, TeamFacts DEF NewPeriod
  <2>4. Field'
    BY <1>7, <2>3, PlaceBallKeeps DEF IInv, Field
  <2>5. period # "penalties" /\ period' # "penalties"
    BY <1>7, <2>1 DEF BreakFollows, NewPeriod
  <2>6. ~penalty.shootout
    BY <2>5 DEF IInv, KickCount, ShootoutIsNotStuck
  <2>7. KickCount'
    BY <1>7, <2>5, <2>6, SameKicks DEF IInv, kicks
  <2>8. Tally'
    BY <1>7 DEF IInv, Tally, tally
  <2> QED BY <1>2, <1>3, <1>7, <2>2, <2>4, <2>7, <2>8 DEF IInv
<1>8. CASE /\ after.do = "penalties"
           /\ NoPause
           /\ period' = "penalties"
           /\ taken' = [t \in Teams |-> 0]
           /\ scored' = [t \in Teams |-> 0]
           /\ UNCHANGED <<mode, finished, winner, restart, wall, net, tally, penalty, injured>>
  <2>1. period = "extraSecond"
    BY <1>8 DEF IInv, Stoppage, BreakFollows, Breaks
  <2>2. Course'
    BY <1>8, <2>1 DEF IInv, Course, Periods
  <2>3. ~penalty.shootout
    BY <2>1 DEF IInv, KickCount, ShootoutIsNotStuck
  <2>4. ~Kicks!Complete'
    <3>1. /\ taken'[Blue] = 0 /\ taken'[Red] = 0 /\ scored'[Blue] = 0 /\ scored'[Red] = 0
      BY <1>8, TeamFacts
    <3>2. Kicks!Remaining(Blue)' = ShootoutKicks /\ Kicks!Remaining(Red)' = ShootoutKicks
      BY <3>1, BoundsAssumption DEF Kicks!Remaining
    <3> QED BY <3>1, <3>2, BoundsAssumption DEF Kicks!Complete
  <2>5. KickCount'
    <3>1. 0 \in 0..MaxKicks
      BY BoundsAssumption
    <3>2. taken' \in [Teams -> 0..MaxKicks] /\ scored' \in [Teams -> 0..MaxKicks]
      BY <1>8, <3>1
    <3>3. \A t \in Teams : scored'[t] <= taken'[t]
      BY <1>8
    <3> QED BY <1>8, <2>3, <2>4, <3>2, <3>3 DEF KickCount, ShootoutIsNotStuck
  <2>6. Field' /\ Tally'
    BY <1>8, SameField DEF IInv, Tally, tally
  <2> QED BY <1>2, <1>3, <1>8, <2>2, <2>5, <2>6 DEF IInv
<1> QED BY <1>1, <1>4, <1>5, <1>6, <1>7, <1>8 DEF RunCallback

\* Whatever happens in play, a tackle may add to the queue of the injured.
LEMMA TackleKeeps ==
    ASSUME IInv, NEW t \in Teams, Tackle(t), UNCHANGED <<replay, panel>>
    PROVE  Panels'
<1>1. CASE UNCHANGED injured
  BY <1>1 DEF IInv, Panels
<1>2. CASE MaybeInjured(t)
  <2>1. Queue(injured') /\ (injured # <<>> => injured' # <<>>)
    BY <1>2, MaybeInjuredKeeps DEF IInv, Panels
  <2> QED BY <2>1 DEF IInv, Panels
<1> QED BY <1>1, <1>2 DEF Tackle

\* What can happen in play: five incidents, four of which ask for a review, or
\* none.
LEMMA IncidentKeeps ==
    ASSUME IInv, penalty = NoPenalty, NEW t \in Teams, Incident(t),
           UNCHANGED <<mode, penalty, kicks, replay, panel>>,
           \/ UNCHANGED period
           \/ period' = "finished" /\ after.do \notin Breaks
    PROVE  Stoppage' /\ Field' /\ Tally' /\ KickCount' /\ Panels'
<1>1. KickCount'
  <2>1. ~penalty.shootout
    BY RecordFacts
  <2> QED BY <2>1, SameKicks DEF IInv, kicks
<1>2. ASSUME UNCHANGED <<restart, wall, net>> PROVE Field'
  BY <1>2, SameField DEF IInv
<1>3. ASSUME UNCHANGED tally PROVE Tally'
  BY <1>3 DEF IInv, Tally, tally
<1>4. Panels'
  BY TackleKeeps DEF Incident
<1>5. ASSUME NEW r \in Reviews, r # NoReview, StartReview(r) PROVE Stoppage'
  <2>1. CASE UNCHANGED <<review, flow>>
    BY <2>1 DEF flow, IInv, Stoppage, BreakFollows, ReviewCanBeAnswered, NoStaleReview
  <2>2. CASE review' = r /\ StartPause([do |-> "decide", team |-> NoTeam], TRUE)
    BY <1>5, <2>2, RecordFacts
    DEF StartPause, Breaks, Stoppage, BreakFollows, ReviewCanBeAnswered, NoStaleReview
  <2> QED BY <1>5, <2>1, <2>2 DEF StartReview
<1>6. CASE FoulOn(t) \/ JostleOn(t)
  <2>1. PICK box \in BOOLEAN :
           StartReview([kind |-> IF box THEN "boxFoul" ELSE "foul", team |-> t, goal |-> 0])
    BY <1>6 DEF FoulOn, JostleOn
  <2>2. Stoppage'
    BY <1>5, <2>1 DEF Reviews, NoReview
  <2>3. UNCHANGED <<restart, wall, net, tally>>
    BY <1>6 DEF FoulOn, JostleOn
  <2> QED BY <1>1, <1>2, <1>3, <1>4, <2>2, <2>3
<1>7. CASE PlayGoesOn
  <2>1. Stoppage'
    BY <1>7 DEF PlayGoesOn, flow, IInv, Stoppage, BreakFollows, ReviewCanBeAnswered,
                NoStaleReview
  <2> QED BY <1>1, <1>2, <1>3, <1>4, <1>7, <2>1 DEF PlayGoesOn
<1>8. CASE OffsideOf(t)
  <2>1. Stoppage'
    BY <1>5, <1>8 DEF OffsideOf, Reviews, NoReview
  <2> QED BY <1>1, <1>2, <1>3, <1>4, <1>8, <2>1 DEF OffsideOf
<1>9. CASE GoalOf(t)
  <2>1. Len(goals) + 1 \in 1..MaxGoals
    BY <1>9, BoundsAssumption DEF GoalOf, CountGoal, IInv, Tally
  <2>2. Stoppage'
    BY <1>5, <1>9, <2>1 DEF GoalOf, Reviews, NoReview
  <2>3. Field'
    BY <1>9 DEF GoalOf, IInv, Field, BallIsInOnePlace
  <2>4. Tally'
    BY <1>9, CountGoalKeeps DEF GoalOf, IInv
  <2> QED BY <1>1, <1>4, <1>9, <2>2, <2>3, <2>4 DEF GoalOf
<1>10. CASE BallOutFor(t)
  <2>1. Stoppage'
    BY <1>10, StartPauseKeeps, RecordFacts DEF BallOutFor, IInv, Stoppage, Breaks
  <2>2. PICK kind \in {"corner", "goalKick", "throwIn"} : PlaceBall(kind, t)
    BY <1>10 DEF BallOutFor
  <2>3. Field'
    BY <1>10, <2>2, PlaceBallKeeps DEF BallOutFor, IInv, Field
  <2> QED BY <1>1, <1>3, <1>4, <1>10, <2>1, <2>3 DEF BallOutFor
<1> QED BY <1>6, <1>7, <1>8, <1>9, <1>10 DEF Incident

\* Play is never interrupted by a break: its pause was over before.
LEMMA PlayTickKeeps == ASSUME IInv, PlayTick PROVE IInv'
<1>1. PICK t \in Teams : Incident(t)
  BY DEF PlayTick
<1>2. penalty = NoPenalty /\ UNCHANGED <<result, penalty, kicks, replay, panel>>
  BY DEF PlayTick, Playing
<1>3. UNCHANGED <<mode, period>> /\ Course'
  BY <1>2 DEF result, IInv, Course
<1> QED BY <1>1, <1>2, <1>3, IncidentKeeps DEF IInv

\* The whistle for a break.
LEMMA BreakTickKeeps == ASSUME IInv, BreakTick PROVE IInv'
<1>1. /\ NextPeriod # "finished"
      /\ StartPause([do |-> NextPeriod, team |-> NoTeam], FALSE)
      /\ penalty = NoPenalty
      /\ UNCHANGED <<result, review, wall, net, tally, penalty, kicks, replay, panel>>
  BY DEF BreakTick, Playing
<1>2. NextPeriod \in Breaks
  BY <1>1 DEF NextPeriod, Breaks
<1>3. Course' /\ Tally' /\ KickCount'
  BY <1>1, SameKicks DEF IInv, Course, Tally, result, tally, kicks
<1>4. restart' \in {restart, NoRestart}
  BY DEF BreakTick
<1>5. Field'
  BY <1>1, <1>4, RecordFacts DEF IInv, Field, BallIsInOnePlace
<1>6. PICK t \in Teams : Tackle(t)
  BY DEF BreakTick
<1>7. Panels'
  BY <1>1, <1>6, TackleKeeps
<1>8. Stoppage'
  <2>1. after' = [do |-> NextPeriod, team |-> NoTeam] /\ pausing' = TRUE /\ varReview' = FALSE
    BY <1>1 DEF StartPause
  <2>2. UNCHANGED <<period, mode, review>>
    BY <1>1 DEF result
  <2>3. BreakFollows'
    BY <1>1, <2>1, <2>2 DEF BreakFollows, NextPeriod
  <2> QED BY <1>2, <2>1, <2>2, <2>3, RecordFacts
          DEF IInv, Stoppage, ReviewCanBeAnswered, NoStaleReview
<1> QED BY <1>3, <1>5, <1>7, <1>8 DEF IInv

\* The final whistle, after which the rest of the tick still happens.
LEMMA FinalWhistleKeeps == ASSUME IInv, FinalWhistleTick PROVE IInv'
<1>1. /\ Playing /\ NextPeriod = "finished"
      /\ period' = "finished" /\ finished' = TRUE
      /\ UNCHANGED <<mode, penalty, kicks, replay, panel>>
      /\ penalty = NoPenalty
  BY DEF FinalWhistleTick, Playing
<1>2. winner' \in Teams \cup {NoTeam}
  BY TeamFacts DEF FinalWhistleTick
<1>3. Course'
  BY <1>1, <1>2 DEF IInv, Course, Periods
<1>4. after.do \notin Breaks
  BY <1>1 DEF IInv, Stoppage, BreakFollows, NextPeriod, Playing, Running, Ticking
<1>5. PICK t \in Teams : Incident(t)
  BY DEF FinalWhistleTick
<1> QED BY <1>1, <1>3, <1>4, <1>5, IncidentKeeps DEF IInv

-----------------------------------------------------------------------------
\* The kicks of the shoot-out and the penalties of the match.
LEMMA NextShootoutKickKeeps == ASSUME IInv, NextShootoutKick PROVE IInv'
<1> DEFINE t == Kicks!NextTeam
<1>1. t \in Teams
  BY TeamFacts DEF Kicks!NextTeam, Kicks!SecondTeam, Kicks!Opponent, Teams
<1>2. /\ period = "penalties" /\ ~Kicks!Complete /\ taken[t] < MaxKicks
      /\ penalty' = [team |-> t, shootout |-> TRUE, result |-> "none"]
      /\ net' = NoTeam
      /\ UNCHANGED <<result, flow, review, restart, wall, tally, kicks, injured,
                     replay, panel>>
  BY DEF NextShootoutKick
<1> HIDE DEF t
<1>3. Course' /\ Tally' /\ Panels'
  BY <1>2 DEF IInv, Course, Tally, Panels, result, tally
<1>4. Stoppage'
  BY <1>2, SameStoppage DEF IInv, result
<1>5. Field'
  BY <1>1, <1>2 DEF IInv, Field, Penalties, BallIsInOnePlace
<1>6. KickCount'
  BY <1>1, <1>2 DEF IInv, KickCount, ShootoutIsNotStuck, result, kicks
<1> QED BY <1>3, <1>4, <1>5, <1>6 DEF IInv

LEMMA TakePenaltyKeeps == ASSUME IInv, NEW t \in Teams, TakePenalty(t) PROVE IInv'
<1>1. /\ penalty.team = t /\ penalty.result = "none"
      /\ UNCHANGED <<result, flow, review, restart, wall, net, injured, replay, panel>>
  BY DEF TakePenalty
<1>2. penalty # NoPenalty
  BY <1>1, TeamFacts DEF NoPenalty
<1>3. penalty \in [team : Teams, shootout : BOOLEAN, result : {"none", "scored", "missed"}]
  BY <1>2 DEF IInv, Field, Penalties
<1>4. PICK isGoal \in BOOLEAN :
        /\ penalty' = [penalty EXCEPT !.result = IF isGoal THEN "scored" ELSE "missed"]
        /\ IF penalty.shootout
             THEN /\ taken' = [taken EXCEPT ![t] = @ + 1]
                  /\ scored' = [scored EXCEPT ![t] = IF isGoal THEN @ + 1 ELSE @]
                  /\ UNCHANGED tally
             ELSE /\ IF isGoal THEN CountGoal(t) ELSE UNCHANGED tally
                  /\ UNCHANGED kicks
  BY DEF TakePenalty
<1>5. /\ penalty' \in Penalties /\ penalty' # NoPenalty
      /\ penalty'.shootout = penalty.shootout /\ penalty'.result # "none"
  BY <1>1, <1>3, <1>4, TeamFacts DEF Penalties, NoPenalty
<1>6. Course' /\ Stoppage' /\ Panels'
  BY <1>1, SameStoppage DEF IInv, Course, Panels, result
<1>7. Field'
  BY <1>1, <1>2, <1>5 DEF IInv, Field, BallIsInOnePlace
<1>8. Tally'
  BY <1>4, CountGoalKeeps DEF IInv, Tally, tally
<1>9. KickCount'
  <2>1. CASE ~penalty.shootout
    <3>1. UNCHANGED <<taken, scored, period>>
      BY <1>1, <1>4, <2>1 DEF kicks, result
    <3>2. Kicks!Complete' = Kicks!Complete
      BY <3>1 DEF Kicks!Complete, Kicks!Remaining
    <3> QED BY <1>5, <2>1, <3>1, <3>2 DEF IInv, KickCount, ShootoutIsNotStuck
  <2>2. CASE penalty.shootout
    <3>1. /\ taken \in [Teams -> 0..MaxKicks] /\ scored \in [Teams -> 0..MaxKicks]
          /\ \A u \in Teams : scored[u] <= taken[u]
          /\ taken[t] < MaxKicks /\ MaxKicks \in Nat
      BY <1>1, <2>2, BoundsAssumption DEF IInv, KickCount
    <3>2. /\ taken' = [taken EXCEPT ![t] = @ + 1]
          /\ scored' = [scored EXCEPT ![t] = IF isGoal THEN @ + 1 ELSE @]
      BY <1>4, <2>2
    <3>3. taken'[t] = taken[t] + 1 /\ scored'[t] \in {scored[t], scored[t] + 1}
      BY <3>1, <3>2
    <3>4. \A u \in Teams \ {t} : taken'[u] = taken[u] /\ scored'[u] = scored[u]
      BY <3>1, <3>2
    <3>5. taken' \in [Teams -> 0..MaxKicks]
      BY <3>1, <3>2
    <3>6. scored[t] \in 0..MaxKicks /\ scored[t] <= taken[t] /\ taken[t] \in 0..MaxKicks
      BY <3>1
    <3>7. scored' \in [Teams -> 0..MaxKicks]
      BY <3>1, <3>2, <3>6
    <3>8. \A u \in Teams : scored'[u] <= taken'[u]
      BY <3>1, <3>3, <3>4, <3>6
    <3>9. period' = "penalties"
      BY <1>1, <2>2 DEF IInv, KickCount, ShootoutIsNotStuck, result
    <3> QED BY <1>5, <2>2, <3>5, <3>7, <3>8, <3>9 DEF KickCount, ShootoutIsNotStuck
  <2> QED BY <1>3, <2>1, <2>2
<1> QED BY <1>6, <1>7, <1>8, <1>9 DEF IInv

\* The end of a penalty; with the deciding kick the match is over.
LEMMA PenaltyEndsKeeps == ASSUME IInv, PenaltyEnds PROVE IInv'
<1>1. /\ Running /\ ~finished /\ ~pausing
      /\ penalty.result # "none" /\ penalty' = NoPenalty
      /\ UNCHANGED <<flow, review, wall, tally, kicks, injured, replay, panel>>
  BY DEF PenaltyEnds, Running, Ticking
<1>2. penalty # NoPenalty /\ penalty.team \in Teams /\ penalty.shootout \in BOOLEAN
  BY <1>1 DEF NoPenalty, IInv, Field, Penalties
<1>3. Tally' /\ Panels'
  BY <1>1 DEF IInv, Tally, Panels, tally
<1>4. Kicks!Complete' = Kicks!Complete /\ UNCHANGED <<taken, scored>>
  BY <1>1 DEF Kicks!Complete, Kicks!Remaining, kicks
<1>5. CASE penalty.shootout
  <2>1. UNCHANGED <<restart, net>> /\ period = "penalties"
    BY <1>5 DEF PenaltyEnds, IInv, KickCount, ShootoutIsNotStuck
  <2>2. Field'
    BY <1>1, <2>1, RecordFacts DEF IInv, Field, BallIsInOnePlace
  <2>3. after.do \notin Breaks
    BY <2>1 DEF IInv, Stoppage, BreakFollows
  <2>4. Stoppage'
    BY <1>1, <2>3
    DEF flow, IInv, Stoppage, BreakFollows, ReviewCanBeAnswered, NoStaleReview
  <2>5. CASE Kicks!Complete
    <3>1. period' = "finished" /\ finished' = TRUE /\ winner' = Kicks!Winner /\ UNCHANGED mode
      BY <1>5, <2>5 DEF PenaltyEnds
    <3>2. Kicks!Winner \in Teams \cup {NoTeam}
      BY TeamFacts DEF Kicks!Winner
    <3>3. Course'
      BY <3>1, <3>2 DEF IInv, Course, Periods
    <3>4. KickCount'
      BY <1>1, <1>4, <3>1, RecordFacts DEF IInv, KickCount, ShootoutIsNotStuck
    <3> QED BY <1>3, <2>2, <2>4, <3>3, <3>4 DEF IInv
  <2>6. CASE ~Kicks!Complete
    <3>1. UNCHANGED result
      BY <1>5, <2>6 DEF PenaltyEnds
    <3>2. Course' /\ KickCount'
      BY <1>1, <1>4, <2>6, <3>1, RecordFacts
      DEF IInv, Course, KickCount, ShootoutIsNotStuck, result
    <3> QED BY <1>3, <2>2, <2>4, <3>2 DEF IInv
  <2> QED BY <2>5, <2>6
<1>6. CASE ~penalty.shootout
  <2>1. UNCHANGED result
    BY <1>6 DEF PenaltyEnds
  <2>2. Course' /\ Stoppage'
    BY <1>1, <2>1, SameStoppage DEF IInv, Course, result
  <2>3. /\ Opponent(penalty.team) \in Teams
        /\ wall' \in Humans \cup {NoTeam} /\ penalty' \in Penalties
    BY <1>1, <1>2, TeamFacts, RecordFacts DEF IInv, Field
  <2>4. ASSUME PlaceBall("kickoff", Opponent(penalty.team)) PROVE Field'
    BY <2>3, <2>4, PlaceBallKeeps DEF IInv
  <2>5. ASSUME restart' = NoRestart, net' = NoTeam PROVE Field'
    BY <2>3, <2>5, RecordFacts DEF IInv, Field, BallIsInOnePlace
  <2>6. Field'
    BY <1>6, <2>4, <2>5 DEF PenaltyEnds
  <2>7. KickCount'
    <3>1. Kicks!Complete /\ period = "penalties" => FALSE
      BY <1>6 DEF IInv, KickCount, ShootoutIsNotStuck
    <3> QED BY <1>1, <1>4, <2>1, <3>1, RecordFacts
            DEF IInv, KickCount, ShootoutIsNotStuck, result
  <2> QED BY <1>3, <2>2, <2>6, <2>7 DEF IInv
<1> QED BY <1>2, <1>5, <1>6

-----------------------------------------------------------------------------
\* A step that only moves a restart, a wall, a panel or the replay.
LEMMA QuietStep ==
    ASSUME IInv, UNCHANGED <<result, flow, review, tally, penalty, kicks>>,
           restart' \in {restart, NoRestart}, wall' \in {wall, NoTeam}, UNCHANGED net,
           injured' \in {injured, <<>>}, replay' \in BOOLEAN,
           panel' \in {"closed", "open", "forced"}, panel' = "forced" => injured' # <<>>
    PROVE  IInv'
<1>1. Course' /\ Stoppage' /\ Tally'
  BY SameStoppage DEF IInv, Course, Tally, result, tally
<1>2. KickCount'
  BY SameKicks DEF IInv, kicks, result
<1>3. Field'
  BY RecordFacts DEF IInv, Field, BallIsInOnePlace
<1>4. Panels'
  <2>1. Queue(injured')
    BY QueueFacts DEF IInv, Panels
  <2> QED BY <2>1 DEF IInv, Panels
<1> QED BY <1>1, <1>2, <1>3, <1>4 DEF IInv

\* A step that pauses the match for a second drops a review's timer but leaves
\* its resolver to be decided by that pause; the flag goes with the timer.
LEMMA InterruptingStep ==
    ASSUME IInv, StartPause(Nothing, FALSE),
           UNCHANGED <<result, review, restart, wall, net, tally, penalty, kicks, replay>>,
           injured' \in {injured, <<>>}, panel' \in {"closed", "open", "forced"},
           panel' = "forced" => injured' # <<>>
    PROVE  IInv'
<1>1. Course' /\ Tally' /\ Field' /\ KickCount'
  BY SameField, SameKicks DEF IInv, Course, Tally, result, tally, kicks
<1>2. Stoppage'
  BY StartPauseKeeps, RecordFacts DEF IInv, Stoppage, Breaks
<1>3. Panels'
  <2>1. Queue(injured')
    BY QueueFacts DEF IInv, Panels
  <2> QED BY <2>1 DEF IInv, Panels
<1> QED BY <1>1, <1>2, <1>3 DEF IInv

\* Edits in the replay: a goal is toggled or added.
LEMMA EditKeeps ==
    ASSUME IInv, Tally', Field',
           UNCHANGED <<result, flow, review, penalty, kicks, injured, replay, panel>>
    PROVE  IInv'
<1>1. Course' /\ Stoppage' /\ KickCount' /\ Panels'
  BY SameStoppage, SameKicks DEF IInv, Course, Panels, result, kicks
<1> QED BY <1>1 DEF IInv

LEMMA ToggleGoalKeeps ==
    ASSUME IInv, NEW i \in DOMAIN goals, ToggleGoal(i)
    PROVE  IInv'
<1> DEFINE t == goals[i].team
           cancel == ~goals[i].canceled
<1>1. /\ goals' = [goals EXCEPT ![i].canceled = cancel]
      /\ score' = [score EXCEPT ![t] = IF cancel THEN Minus1(@) ELSE @ + 1]
      /\ IF cancel THEN PlaceBall("goalKick", Opponent(t)) ELSE UNCHANGED <<restart, net>>
      /\ UNCHANGED <<result, flow, review, wall, penalty, kicks, injured, replay, panel>>
  BY DEF ToggleGoal
<1>2. goals[i] \in [team : Teams, canceled : BOOLEAN]
  <2>1. goals \in Seq([team : Teams, canceled : BOOLEAN])
    BY DEF IInv, Tally
  <2>2. goals \in [DOMAIN goals -> [team : Teams, canceled : BOOLEAN]]
    BY <2>1, LenProperties
  <2> QED BY <2>2
<1>3. t \in Teams /\ cancel \in BOOLEAN /\ Opponent(t) \in Teams
  BY <1>2, TeamFacts
<1> HIDE DEF t, cancel
<1>4. score[t] \in Nat /\ (IF cancel THEN Minus1(score[t]) ELSE score[t] + 1) \in Nat
  <2>1. score[t] \in Nat
    BY <1>3 DEF IInv, Tally
  <2>2. Minus1(score[t]) \in Nat /\ score[t] + 1 \in Nat
    BY <2>1, Minus1Type
  <2> QED BY <2>1, <2>2
<1>5. Tally'
  BY <1>1, <1>3, <1>4, GoalChanges DEF IInv
<1>6. Field'
  <2>1. wall' \in Humans \cup {NoTeam} /\ penalty' \in Penalties
    BY <1>1 DEF IInv, Field
  <2>2. ASSUME cancel PROVE Field'
    BY <1>1, <1>3, <2>1, <2>2, PlaceBallKeeps DEF IInv
  <2>3. ASSUME ~cancel PROVE Field'
    BY <1>1, <2>3, SameField DEF IInv
  <2> QED BY <2>2, <2>3
<1> QED BY <1>1, <1>5, <1>6, EditKeeps

LEMMA AddPenaltyKeeps == ASSUME IInv, NEW t \in Teams, AddPenalty(t) PROVE IInv'
<1>1. /\ AwardPenalty(t) /\ replay' = FALSE
      /\ net' = IF penalty' # penalty THEN NoTeam ELSE net
      /\ UNCHANGED <<result, flow, review, restart, wall, tally, kicks, injured, panel>>
  BY DEF AddPenalty
<1>2. KickCount' /\ penalty' \in Penalties
  BY <1>1, AwardPenaltyKeeps DEF IInv, Field, result, kicks
<1>3. Field'
  BY <1>1, <1>2 DEF IInv, Field, BallIsInOnePlace
<1>4. Course' /\ Stoppage' /\ Tally' /\ Panels'
  BY <1>1, SameStoppage DEF IInv, Course, Tally, Panels, result, tally
<1> QED BY <1>2, <1>3, <1>4 DEF IInv

-----------------------------------------------------------------------------
LEMMA InitIInv == Init => IInv
<1> SUFFICES ASSUME Init PROVE IInv
  OBVIOUS
<1>1. Course
  BY DEF Init, Course, Periods
<1>2. Stoppage
  BY RecordFacts
  DEF Init, Stoppage, Breaks, BreakFollows, ReviewCanBeAnswered, NoStaleReview
<1>3. Field
  BY TeamFacts, RecordFacts DEF Init, Field, Restarts, BallIsInOnePlace
<1>4. Tally
  BY BoundsAssumption DEF Init, Tally
<1>5. KickCount
  <2>1. 0 \in 0..MaxKicks
    BY BoundsAssumption
  <2>2. taken \in [Teams -> 0..MaxKicks] /\ scored \in [Teams -> 0..MaxKicks]
    BY <2>1 DEF Init
  <2>3. \A t \in Teams : scored[t] <= taken[t]
    BY DEF Init
  <2>4. ~penalty.shootout /\ period # "penalties"
    BY RecordFacts DEF Init
  <2> QED BY <2>2, <2>3, <2>4 DEF KickCount, ShootoutIsNotStuck
<1>6. Panels
  BY QueueFacts DEF Init, Panels
<1> QED BY <1>1, <1>2, <1>3, <1>4, <1>5, <1>6 DEF IInv

LEMMA NextIInv == IInv /\ [Next]_vars => IInv'
<1> SUFFICES ASSUME IInv, [Next]_vars PROVE IInv'
  OBVIOUS
<1>0. /\ replay \in BOOLEAN /\ panel \in {"closed", "open", "forced"}
      /\ panel = "forced" => injured # <<>>
      /\ injured \in {injured, <<>>} /\ restart \in {restart, NoRestart}
      /\ wall \in {wall, NoTeam}
  BY DEF IInv, Panels
<1>1. ASSUME Engine PROVE IInv'
  <2>1. ASSUME ForcedSubstitution PROVE IInv'
    <3>1. injured # <<>> /\ Tail(injured) = <<>>
      BY <2>1, QueueFacts DEF ForcedSubstitution, IInv, Panels
    <3>2. CASE injured' = Tail(injured) /\ UNCHANGED <<flow, panel>>
      BY <1>0, <2>1, <3>1, <3>2, QuietStep DEF ForcedSubstitution
    <3>3. CASE injured' = Tail(injured) /\ StartPause(Nothing, FALSE) /\ UNCHANGED panel
      BY <1>0, <2>1, <3>1, <3>3, InterruptingStep DEF ForcedSubstitution
    <3>4. CASE panel' = "forced" /\ UNCHANGED <<flow, injured>>
      BY <1>0, <2>1, <3>4, QuietStep DEF ForcedSubstitution
    <3> QED BY <2>1, <3>2, <3>3, <3>4 DEF ForcedSubstitution
  <2> QED BY <1>1, <2>1, PauseEndsKeeps, PlayTickKeeps, BreakTickKeeps,
             FinalWhistleKeeps, NextShootoutKickKeeps, PenaltyEndsKeeps DEF Engine
<1>2. ASSUME Players PROVE IInv'
  <2>1. ASSUME NEW t \in Teams, TakeRestart(t) PROVE IInv'
    BY <1>0, <2>1, QuietStep DEF TakeRestart
  <2>2. ASSUME NEW t \in Teams, TakePenalty(t) PROVE IInv'
    BY <2>2, TakePenaltyKeeps
  <2>3. ASSUME ChooseWall PROVE IInv'
    BY <1>0, <2>3, QuietStep DEF ChooseWall
  <2>4. ASSUME ResolveVar PROVE IInv'
    <3>1. PICK decision \in Options(review) : Decide(review, decision, ~finished /\ ~replay)
      BY <2>4 DEF ResolveVar
    <3>2. review # NoReview
      BY <2>4 DEF ResolveVar, IInv, Stoppage, ReviewCanBeAnswered
    <3> QED BY <2>4, <3>1, <3>2, DecideKeeps DEF ResolveVar
  <2>5. ASSUME CycleFormation PROVE IInv'
    BY <1>0, <2>5, InterruptingStep DEF CycleFormation
  <2>6. ASSUME OpenPanel \/ ClosePanel PROVE IInv'
    BY <1>0, <2>6, QuietStep DEF OpenPanel, ClosePanel
  <2>7. ASSUME PanelChange PROVE IInv'
    <3>1. injured' \in {injured, <<>>}
      BY <2>7, QueueFacts DEF PanelChange, IInv, Panels
    <3> QED BY <2>7, <3>1, InterruptingStep DEF PanelChange
  <2>8. ASSUME OpenReplay \/ CloseReplay PROVE IInv'
    BY <1>0, <2>8, QuietStep DEF OpenReplay, CloseReplay
  <2>9. ASSUME NEW i \in DOMAIN goals, ToggleGoal(i) PROVE IInv'
    BY <2>9, ToggleGoalKeeps
  <2>10. ASSUME NEW t \in Teams, AddGoal(t) PROVE IInv'
    <3>1. Tally' /\ Field'
      BY <2>10, CountGoalKeeps, SameField DEF AddGoal, IInv
    <3> QED BY <2>10, <3>1, EditKeeps DEF AddGoal
  <2>11. ASSUME NEW t \in Teams, AddPenalty(t) PROVE IInv'
    BY <2>11, AddPenaltyKeeps
  <2> QED BY <1>2, <2>1, <2>2, <2>3, <2>4, <2>5, <2>6, <2>7, <2>8, <2>9, <2>10, <2>11
          DEF Players
<1>3. CASE UNCHANGED vars
  BY <1>0, <1>3, QuietStep DEF vars, result, flow, tally, kicks
<1> QED BY <1>1, <1>2, <1>3 DEF Next

LEMMA Invariance == Spec => []IInv
BY InitIInv, NextIInv, PTL DEF Spec

-----------------------------------------------------------------------------
\* Every reachable state of the match is well typed.
THEOREM TypeCorrect == Spec => []TypeOK
<1>1. IInv => TypeOK
  BY DEF IInv, Course, Stoppage, Field, Tally, KickCount, Panels, Queue, TypeOK
<1> QED BY <1>1, Invariance, PTL

\* The banner of a review always has a decision and a timer behind it.
THEOREM AnswerableReview == Spec => []ReviewCanBeAnswered
<1>1. IInv => ReviewCanBeAnswered
  BY DEF IInv, Stoppage
<1> QED BY <1>1, Invariance, PTL

\* No resolver is left behind that would silence VAR for the rest of the match.
THEOREM NoReviewLeftBehind == Spec => []NoStaleReview
<1>1. IInv => NoStaleReview
  BY DEF IInv, Stoppage
<1> QED BY <1>1, Invariance, PTL

\* The shoot-out inside the match cannot get stuck on a decided score.
THEOREM ShootoutProceeds == Spec => []ShootoutIsNotStuck
<1>1. IInv => ShootoutIsNotStuck
  BY DEF IInv, KickCount
<1> QED BY <1>1, Invariance, PTL

\* A ball that lies in a goal is not at the same time placed for a restart or on
\* the penalty spot.
THEOREM OneBall == Spec => []BallIsInOnePlace
<1>1. IInv => BallIsInOnePlace
  BY DEF IInv, Field
<1> QED BY <1>1, Invariance, PTL

-----------------------------------------------------------------------------
(* MatchFlow implements MatchPhases. *)

\* Only four kinds of step touch the period or the result.
LEMMA PhaseStep ==
    ASSUME IInv, Next
    PROVE  Phases!Next \/ UNCHANGED Phases!vars
<1>1. ASSUME UNCHANGED result PROVE UNCHANGED Phases!vars
  BY <1>1 DEF result, Phases!vars
<1>2. CASE PauseEnds
  <2>1. ASSUME NEW p \in {"secondHalf", "extraFirst", "extraSecond", "penalties"},
               after.do = p, period' = p, UNCHANGED <<mode, finished, winner>>
        PROVE  Phases!Next
    <3>1. BreakFollows /\ after.do \in Breaks
      BY <2>1 DEF IInv, Stoppage, Breaks
    <3> QED BY <2>1, <3>1
            DEF BreakFollows, Phases!Next, Phases!Advance, Phases!HalfTime,
                Phases!ExtraTime, Phases!ChangeEnds, Phases!PenaltyShootout
  <2>2. CASE UNCHANGED result
    BY <1>1, <2>2
  <2>3. CASE \E t \in Teams :
               /\ after.do \in {"secondHalf", "extraFirst", "extraSecond"}
               /\ NewPeriod(after.do, t)
    BY <2>1, <2>3 DEF NewPeriod
  <2>4. CASE /\ after.do = "penalties"
             /\ period' = "penalties"
             /\ UNCHANGED <<mode, finished, winner>>
    BY <2>1, <2>4
  <2> QED BY <1>2, <2>2, <2>3, <2>4, TeamFacts DEF PauseEnds, RunCallback
<1>3. CASE FinalWhistleTick
  <2>1. /\ NextPeriod = "finished" /\ ~finished
        /\ period' = "finished" /\ finished' = TRUE /\ UNCHANGED mode
        /\ winner' = IF Level THEN NoTeam
                     ELSE IF score[Blue] > score[Red] THEN Blue ELSE Red
    BY <1>3 DEF FinalWhistleTick, Playing, Running, Ticking
  <2>2. period \in {"secondHalf", "extraSecond", "penalties"}
    BY <2>1 DEF NextPeriod, IInv, Course, Periods
  <2>3. mode = "league" => period = "secondHalf"
    BY <2>2 DEF IInv, Course
  <2>4. mode = "knockout" => winner' # NoTeam
    <3>1. period # "penalties"
      BY <1>3 DEF FinalWhistleTick, Playing
    <3>2. mode = "knockout" => ~Level
      BY <2>1, <2>2, <3>1 DEF NextPeriod
    <3> QED BY <2>1, <3>2, TeamFacts
  <2>5. winner' \in {Blue, Red, NoTeam}
    BY <2>1
  <2>6. Phases!FinalWhistle(winner')
    BY <2>1, <2>2, <2>3, <2>4 DEF Phases!FinalWhistle
  <2> QED BY <2>5, <2>6 DEF Phases!Next
<1>4. CASE PenaltyEnds
  <2>1. CASE UNCHANGED result
    BY <1>1, <2>1
  <2>2. CASE /\ penalty.shootout /\ Kicks!Complete
             /\ period' = "finished" /\ finished' = TRUE
             /\ winner' = Kicks!Winner /\ UNCHANGED mode
    <3>1. period = "penalties"
      BY <2>2 DEF IInv, KickCount, ShootoutIsNotStuck
    <3>2. mode # "league" /\ winner' \in {Blue, Red} /\ winner' # NoTeam
      BY <2>2, <3>1, TeamFacts DEF IInv, Course, Kicks!Winner
    <3>3. Phases!FinalWhistle(winner')
      BY <2>2, <3>1, <3>2 DEF Phases!FinalWhistle
    <3> QED BY <3>2, <3>3 DEF Phases!Next
  <2> QED BY <1>4, <2>1, <2>2 DEF PenaltyEnds
<1>5. ASSUME PlayTick \/ BreakTick \/ NextShootoutKick \/ ForcedSubstitution
      PROVE  UNCHANGED result
  BY <1>5 DEF PlayTick, BreakTick, NextShootoutKick, ForcedSubstitution
<1>6. ASSUME Players PROVE UNCHANGED result
  BY <1>6 DEF Players, TakeRestart, TakePenalty, ChooseWall, ResolveVar, CycleFormation,
              OpenPanel, ClosePanel, PanelChange, OpenReplay, CloseReplay, ToggleGoal,
              AddGoal, AddPenalty
<1> QED BY <1>1, <1>2, <1>3, <1>4, <1>5, <1>6 DEF Next, Engine

\* The match goes through its periods without gaps, a knockout match has a
\* winner, and the result is announced once, whatever people do in between.
THEOREM PeriodsFollow == Spec => PhasesInOrder
<1>1. Init => Phases!Init
  BY DEF Init, Phases!Init
<1>2. IInv /\ [Next]_vars => [Phases!Next]_(Phases!vars)
  <2> SUFFICES ASSUME IInv, [Next]_vars PROVE [Phases!Next]_(Phases!vars)
    OBVIOUS
  <2>1. CASE Next
    BY <2>1, PhaseStep
  <2>2. CASE UNCHANGED vars
    BY <2>2 DEF vars, Phases!vars
  <2> QED BY <2>1, <2>2
<1> QED BY <1>1, <1>2, Invariance, PTL DEF Spec, PhasesInOrder, Phases!Spec

-----------------------------------------------------------------------------
(* The shoot-out inside the match is the one of Shootout, whatever people  *)
(* do around it: MatchFlow implements Shootout.                            *)

NoKicks == [t \in Teams |-> 0]

\* There are kicks only in the shoot-out and after it.
KicksOnlyThere ==
    period \notin {"penalties", "finished"} => taken = NoKicks /\ scored = NoKicks

\* The second team never leads in kicks, also not with the one it prepares.
BlueFirst ==
    /\ taken[Red] <= taken[Blue]
    /\ penalty.shootout /\ penalty.result = "none" /\ penalty.team = Red
         => taken[Red] < taken[Blue]

ShootInv == KicksOnlyThere /\ BlueFirst

-----------------------------------------------------------------------------
LEMMA NoPenaltyFacts ==
    NoPenalty.team = NoTeam /\ ~NoPenalty.shootout /\ NoPenalty.result = "none"
BY DEF NoPenalty

\* What the match does outside the shoot-out: it touches neither the kicks nor
\* the result, and no penalty of the shoot-out.
Outside ==
    /\ UNCHANGED <<taken, scored, finished, winner>>
    /\ UNCHANGED penalty \/ (~penalty.shootout /\ ~penalty'.shootout)

\* What Shootout sees of a match that has not been decided by kicks.
LEMMA Undecided ==
    ASSUME ~ShootoutDecided, ~ShootoutDecided'
    PROVE  UNCHANGED <<ShootoutDecided, IF ShootoutDecided THEN winner ELSE NoTeam>>
<1>1. ShootoutDecided = FALSE /\ ShootoutDecided' = FALSE
  BY DEF ShootoutDecided
<1>2. (IF ShootoutDecided THEN winner ELSE NoTeam) = NoTeam
  BY <1>1
<1>3. (IF ShootoutDecided THEN winner ELSE NoTeam)' = NoTeam
  BY <1>1
<1> QED BY <1>1, <1>2, <1>3

\* And of the penalty that is active.
PenaltyTeam == IF penalty.shootout THEN penalty.team ELSE NoTeam
PenaltyResult == IF penalty.shootout THEN penalty.result ELSE "none"

LEMMA OutsideStutters ==
    ASSUME Outside PROVE UNCHANGED Kicks!vars
<1>1. ShootoutDecided' = ShootoutDecided
  BY DEF Outside, ShootoutDecided
<1>2. UNCHANGED <<taken, scored, winner>>
  BY DEF Outside
<1>3. /\ (IF penalty.shootout THEN penalty.team ELSE NoTeam)'
           = IF penalty.shootout THEN penalty.team ELSE NoTeam
      /\ (IF penalty.shootout THEN penalty.result ELSE "none")'
           = IF penalty.shootout THEN penalty.result ELSE "none"
  BY DEF Outside
<1> QED BY <1>1, <1>2, <1>3 DEF Kicks!vars, ShootoutDecided

LEMMA OutsideKeeps ==
    ASSUME ShootInv, Outside,
           period' \in {"penalties", "finished"}
             \/ period \notin {"penalties", "finished"}
    PROVE  ShootInv'
<1>1. UNCHANGED <<taken, scored>>
  BY DEF Outside
<1>2. KicksOnlyThere'
  BY <1>1 DEF ShootInv, KicksOnlyThere
<1>3. BlueFirst'
  BY <1>1 DEF ShootInv, BlueFirst, Outside
<1> QED BY <1>2, <1>3 DEF ShootInv

LEMMA AwardOutside ==
    ASSUME NEW t \in Teams, AwardPenalty(t), UNCHANGED <<taken, scored, finished, winner>>
    PROVE  Outside
BY NoPenaltyFacts DEF AwardPenalty, Outside

LEMMA DecideOutside ==
    ASSUME IInv, NEW r \in Reviews, NEW decision, NEW lull, Decide(r, decision, lull),
           r # NoReview, UNCHANGED <<result, kicks>>
    PROVE  Outside
<1>1. UNCHANGED <<taken, scored, finished, winner>>
  BY DEF result, kicks
<1>2. r.team \in Teams
  BY RecordFacts
<1>3. UNCHANGED penalty \/ AwardPenalty(r.team)
  BY DEF Decide
<1> QED BY <1>1, <1>2, <1>3, AwardOutside DEF Outside

\* Every step but the three of a kick is outside, or the shoot-out begins or the
\* match ends without one.
LEMMA PauseEndsIsOutside ==
    ASSUME IInv, ShootInv, PauseEnds
    PROVE  /\ Outside
           /\ period' = "penalties" \/ period \notin {"penalties", "finished"}
              \/ UNCHANGED period
<1>1. RunCallback
  BY DEF PauseEnds
<1>2. CASE UNCHANGED <<result, penalty, kicks>>
  BY <1>2 DEF result, kicks, Outside
<1>3. CASE Decide(review, Recommended(review), FALSE) /\ UNCHANGED <<result, kicks>>
  <2>1. review.kind # "none"
    BY <1>3 DEF Decide, Recommended
  <2>2. review # NoReview /\ review \in Reviews
    BY <2>1 DEF NoReview, IInv, Stoppage
  <2> QED BY <1>3, <2>2, DecideOutside DEF result
<1>4. CASE /\ after.do \in {"secondHalf", "extraFirst", "extraSecond"}
           /\ \E u \in Teams : NewPeriod(after.do, u)
           /\ UNCHANGED <<penalty, kicks>>
  <2>1. BreakFollows /\ after.do \in Breaks
    BY <1>4 DEF IInv, Stoppage, Breaks
  <2>2. period \notin {"penalties", "finished"}
    BY <1>4, <2>1 DEF BreakFollows
  <2> QED BY <1>4, <2>2 DEF NewPeriod, kicks, Outside
<1>5. CASE /\ after.do = "penalties"
           /\ period' = "penalties"
           /\ taken' = [t \in Teams |-> 0]
           /\ scored' = [t \in Teams |-> 0]
           /\ UNCHANGED <<finished, winner, penalty>>
  <2>1. period = "extraSecond"
    BY <1>5 DEF IInv, Stoppage, BreakFollows, Breaks
  <2>2. taken = NoKicks /\ scored = NoKicks
    BY <2>1 DEF ShootInv, KicksOnlyThere
  <2> QED BY <1>5, <2>2 DEF NoKicks, Outside
<1> QED BY <1>1, <1>2, <1>3, <1>4, <1>5, TeamFacts DEF RunCallback

\* The first kick is Blue's, so a decided shoot-out has one of Blue.
LEMMA DecidedHasKicks ==
    ASSUME IInv, ShootInv, Kicks!Complete
    PROVE  taken[Blue] > 0
<1>1. /\ taken[Blue] \in Nat /\ taken[Red] \in Nat
      /\ scored[Blue] \in Nat /\ scored[Red] \in Nat
      /\ scored[Blue] <= taken[Blue] /\ scored[Red] <= taken[Red]
      /\ taken[Red] <= taken[Blue]
  BY TeamFacts, BoundsAssumption DEF IInv, KickCount, ShootInv, BlueFirst
<1>2. ShootoutKicks \in Nat /\ ShootoutKicks > 0
  BY BoundsAssumption
<1>3. SUFFICES ASSUME taken[Blue] = 0 PROVE FALSE
  BY <1>1
<1>4. taken[Red] = 0 /\ scored[Blue] = 0 /\ scored[Red] = 0
  BY <1>1, <1>3
<1>5. Kicks!Remaining(Red) = ShootoutKicks /\ Kicks!Remaining(Blue) = ShootoutKicks
  BY <1>2, <1>3, <1>4 DEF Kicks!Remaining
<1> QED BY <1>2, <1>3, <1>4, <1>5 DEF Kicks!Complete

-----------------------------------------------------------------------------
(* The three steps of a kick. *)

LEMMA StartIsStart ==
    ASSUME IInv, ShootInv, NextShootoutKick
    PROVE  Kicks!StartKick /\ ShootInv'
<1> DEFINE t == Kicks!NextTeam
<1>1. /\ ~finished /\ period = "penalties" /\ penalty = NoPenalty
      /\ ~Kicks!Complete /\ taken[t] < MaxKicks
      /\ penalty' = [team |-> t, shootout |-> TRUE, result |-> "none"]
      /\ UNCHANGED <<result, kicks>>
  BY DEF NextShootoutKick, Running, Ticking
<1>2. UNCHANGED <<taken, scored, finished, winner, period>>
  BY <1>1 DEF result, kicks
<1>3. ~ShootoutDecided /\ ~ShootoutDecided'
  BY <1>1, <1>2 DEF ShootoutDecided
<1>4. penalty'.team = t /\ penalty'.shootout /\ penalty'.result = "none"
  BY <1>1
<1>5. t = IF taken[Blue] = taken[Red] THEN Blue ELSE Red
  BY DEF Kicks!NextTeam, Kicks!SecondTeam, Kicks!Opponent
<1> HIDE DEF t
<1>6. Kicks!StartKick
  <2>1. PenaltyTeam = NoTeam /\ PenaltyTeam' = t /\ PenaltyResult' = "none"
    BY <1>1, <1>4, NoPenaltyFacts DEF PenaltyTeam, PenaltyResult
  <2>2. UNCHANGED <<ShootoutDecided, IF ShootoutDecided THEN winner ELSE NoTeam>>
    BY <1>3, Undecided
  <2> QED BY <1>1, <1>2, <1>3, <2>1, <2>2, Zenon
          DEF Kicks!StartKick, PenaltyTeam, PenaltyResult, t
<1>7. taken[Red] \in Nat /\ taken[Blue] \in Nat
  BY TeamFacts, BoundsAssumption DEF IInv, KickCount
<1>8. ShootInv'
  BY <1>1, <1>2, <1>4, <1>5, <1>7, TeamFacts DEF ShootInv, KicksOnlyThere, BlueFirst
<1> QED BY <1>6, <1>8

LEMMA TakeIsTake ==
    ASSUME IInv, ShootInv, NEW t \in Teams, TakePenalty(t)
    PROVE  (Outside \/ Kicks!Next) /\ ShootInv'
<1>1. penalty.team = t /\ penalty.result = "none" /\ UNCHANGED result
  BY DEF TakePenalty
<1>2. penalty # NoPenalty
  BY <1>1, TeamFacts DEF NoPenalty
<1>3. penalty \in [team : Teams, shootout : BOOLEAN, result : {"none", "scored", "missed"}]
  BY <1>2 DEF IInv, Field, Penalties
<1>4. PICK isGoal \in BOOLEAN :
        /\ penalty' = [penalty EXCEPT !.result = IF isGoal THEN "scored" ELSE "missed"]
        /\ IF penalty.shootout
             THEN /\ taken' = [taken EXCEPT ![t] = @ + 1]
                  /\ scored' = [scored EXCEPT ![t] = IF isGoal THEN @ + 1 ELSE @]
             ELSE UNCHANGED kicks
  BY DEF TakePenalty
<1>5. /\ penalty'.team = t /\ penalty'.shootout = penalty.shootout
      /\ penalty'.result = IF isGoal THEN "scored" ELSE "missed"
  BY <1>1, <1>3, <1>4
<1>6. UNCHANGED <<period, finished, winner>>
  BY <1>1 DEF result
<1>7. CASE ~penalty.shootout
  <2>1. Outside
    BY <1>4, <1>5, <1>6, <1>7 DEF kicks, Outside
  <2>2. ShootInv'
    BY <1>6, <2>1, OutsideKeeps DEF ShootInv, KicksOnlyThere
  <2> QED BY <2>1, <2>2
<1>8. CASE penalty.shootout
  <2>1. period = "penalties" /\ ~finished
    BY <1>8 DEF IInv, KickCount, ShootoutIsNotStuck, Course
  <2>2. ~ShootoutDecided /\ ~ShootoutDecided'
    BY <1>6, <2>1 DEF ShootoutDecided
  <2>3. Kicks!TakeKick(t, isGoal)
    <3>1. /\ PenaltyTeam = t /\ PenaltyTeam' = t /\ PenaltyResult = "none"
          /\ PenaltyResult' = IF isGoal THEN "scored" ELSE "missed"
      BY <1>1, <1>5, <1>8 DEF PenaltyTeam, PenaltyResult
    <3>2. UNCHANGED <<ShootoutDecided, IF ShootoutDecided THEN winner ELSE NoTeam>>
      BY <2>2, Undecided
    <3>3. /\ taken' = [taken EXCEPT ![t] = @ + 1]
          /\ scored' = [scored EXCEPT ![t] = IF isGoal THEN @ + 1 ELSE @]
      BY <1>4, <1>8
    <3> QED BY <3>1, <3>2, <3>3, Zenon DEF Kicks!TakeKick, PenaltyTeam, PenaltyResult
  <2>4. Kicks!Next
    BY <2>3 DEF Kicks!Next, Kicks!Teams, Teams
  <2>5. /\ taken \in [Teams -> 0..MaxKicks] /\ MaxKicks \in Nat
        /\ taken' = [taken EXCEPT ![t] = @ + 1]
    BY <1>4, <1>8, BoundsAssumption DEF IInv, KickCount
  <2>6. /\ taken[Red] \in Nat /\ taken[Blue] \in Nat
        /\ t = Red => taken'[Red] = taken[Red] + 1 /\ taken'[Blue] = taken[Blue]
        /\ t = Blue => taken'[Blue] = taken[Blue] + 1 /\ taken'[Red] = taken[Red]
    BY <2>5, TeamFacts
  <2>7. /\ taken[Red] <= taken[Blue]
        /\ t = Red => taken[Red] < taken[Blue]
    BY <1>1, <1>8 DEF ShootInv, BlueFirst
  <2>8. taken'[Red] <= taken'[Blue]
    BY <2>6, <2>7 DEF Teams
  <2>9. BlueFirst'
    BY <1>5, <2>8 DEF BlueFirst
  <2>10. KicksOnlyThere'
    BY <1>6, <2>1 DEF KicksOnlyThere
  <2> QED BY <2>4, <2>9, <2>10 DEF ShootInv
<1> QED BY <1>3, <1>7, <1>8

LEMMA EndIsEnd ==
    ASSUME IInv, ShootInv, PenaltyEnds
    PROVE  (Outside \/ Kicks!EndKick) /\ ShootInv'
<1>1. /\ ~finished /\ penalty.result # "none" /\ penalty' = NoPenalty
      /\ UNCHANGED kicks
  BY DEF PenaltyEnds, Running, Ticking
<1>2. UNCHANGED <<taken, scored>>
  BY <1>1 DEF kicks
<1>3. penalty.team \in Teams /\ penalty.shootout \in BOOLEAN
  BY <1>1 DEF NoPenalty, IInv, Field, Penalties
<1>4. BlueFirst'
  BY <1>1, <1>2, NoPenaltyFacts DEF ShootInv, BlueFirst
<1>5. CASE ~penalty.shootout
  <2>1. UNCHANGED result
    BY <1>5 DEF PenaltyEnds
  <2>2. Outside
    BY <1>1, <1>2, <1>5, <2>1, NoPenaltyFacts DEF result, Outside
  <2>3. KicksOnlyThere'
    BY <1>2, <2>1 DEF ShootInv, KicksOnlyThere, result
  <2> QED BY <1>4, <2>2, <2>3 DEF ShootInv
<1>6. CASE penalty.shootout
  <2>1. period = "penalties"
    BY <1>6 DEF IInv, KickCount, ShootoutIsNotStuck
  <2>2. ~ShootoutDecided
    BY <1>1 DEF ShootoutDecided
  <2>3. penalty.team # NoTeam
    BY <1>3, TeamFacts
  <2>4. CASE Kicks!Complete
    <3>1. finished' = TRUE /\ winner' = Kicks!Winner /\ period' = "finished"
      BY <1>6, <2>4 DEF PenaltyEnds
    <3>2. taken'[Blue] > 0
      BY <1>2, <2>4, DecidedHasKicks
    <3>3. ShootoutDecided' = TRUE
      BY <3>1, <3>2 DEF ShootoutDecided
    <3>4. Kicks!EndKick
      BY <1>1, <1>2, <1>6, <2>2, <2>3, <2>4, <3>1, <3>3, NoPenaltyFacts DEF Kicks!EndKick
    <3>5. KicksOnlyThere'
      BY <3>1 DEF KicksOnlyThere
    <3> QED BY <1>4, <3>4, <3>5 DEF ShootInv
  <2>5. CASE ~Kicks!Complete
    <3>1. UNCHANGED <<period, finished, winner>>
      BY <1>6, <2>5 DEF PenaltyEnds, result
    <3>2. ShootoutDecided' = FALSE
      BY <1>1, <3>1 DEF ShootoutDecided
    <3>3. Kicks!Winner = NoTeam
      BY <2>5 DEF Kicks!Winner
    <3>4. Kicks!EndKick
      <4>1. /\ PenaltyTeam # NoTeam /\ PenaltyResult # "none"
            /\ PenaltyTeam' = NoTeam /\ PenaltyResult' = "none"
        BY <1>1, <1>6, <2>3, NoPenaltyFacts DEF PenaltyTeam, PenaltyResult
      <4>2. ShootoutDecided' = Kicks!Complete
        BY <2>5, <3>2 DEF Kicks!Complete
      <4>3. (IF ShootoutDecided THEN winner ELSE NoTeam)' = Kicks!Winner
        BY <3>2, <3>3
      <4> QED BY <1>2, <2>2, <4>1, <4>2, <4>3, Zenon
              DEF Kicks!EndKick, PenaltyTeam, PenaltyResult
    <3>5. KicksOnlyThere'
      BY <2>1, <3>1 DEF KicksOnlyThere
    <3> QED BY <1>4, <3>4, <3>5 DEF ShootInv
  <2> QED BY <2>4, <2>5
<1> QED BY <1>3, <1>5, <1>6

-----------------------------------------------------------------------------
LEMMA ShootStep ==
    ASSUME IInv, ShootInv, [Next]_vars
    PROVE  [Kicks!Next]_(Kicks!vars) /\ ShootInv'
<1>1. ASSUME Outside,
             UNCHANGED period \/ period' \in {"penalties", "finished"}
               \/ period \notin {"penalties", "finished"}
      PROVE  [Kicks!Next]_(Kicks!vars) /\ ShootInv'
  <2>1. UNCHANGED Kicks!vars
    BY <1>1, OutsideStutters
  <2>2. period' \in {"penalties", "finished"} \/ period \notin {"penalties", "finished"}
    BY <1>1
  <2> QED BY <1>1, <2>1, <2>2, OutsideKeeps
<1>2. CASE PauseEnds
  BY <1>1, <1>2, PauseEndsIsOutside
<1>3. CASE FinalWhistleTick
  <2>1. /\ period # "penalties" /\ ~finished /\ period' = "finished"
        /\ UNCHANGED <<taken, scored, penalty>>
    BY <1>3 DEF FinalWhistleTick, Playing, Running, Ticking, kicks
  <2>2. taken = NoKicks /\ penalty = NoPenalty
    BY <1>3, <2>1 DEF ShootInv, KicksOnlyThere, IInv, Course, FinalWhistleTick, Playing
  <2>3. taken[Blue] = 0
    BY <2>2, TeamFacts DEF NoKicks
  <2>4. ~ShootoutDecided /\ ~ShootoutDecided'
    BY <2>1, <2>3 DEF ShootoutDecided
  <2>5. UNCHANGED Kicks!vars
    BY <2>1, <2>4, Undecided DEF Kicks!vars
  <2>6. ShootInv'
    BY <2>1 DEF ShootInv, KicksOnlyThere, BlueFirst
  <2> QED BY <2>5, <2>6
<1>4. CASE NextShootoutKick
  BY <1>4, StartIsStart DEF Kicks!Next
<1>5. CASE PenaltyEnds
  BY <1>5, EndIsEnd, OutsideStutters DEF Kicks!Next
<1>6. ASSUME NEW t \in Teams, TakePenalty(t) PROVE [Kicks!Next]_(Kicks!vars) /\ ShootInv'
  BY <1>6, TakeIsTake, OutsideStutters
<1>7. ASSUME NEW t \in Teams, AddPenalty(t) PROVE [Kicks!Next]_(Kicks!vars) /\ ShootInv'
  <2>1. AwardPenalty(t) /\ UNCHANGED <<taken, scored, finished, winner, period>>
    BY <1>7 DEF AddPenalty, result, kicks
  <2> QED BY <1>1, <2>1, AwardOutside
<1>8. CASE ResolveVar
  <2>1. PICK decision \in Options(review) : Decide(review, decision, ~finished /\ ~replay)
    BY <1>8 DEF ResolveVar
  <2>2. review # NoReview /\ review \in Reviews
    BY <1>8 DEF ResolveVar, IInv, Stoppage, ReviewCanBeAnswered
  <2>3. UNCHANGED <<result, kicks>>
    BY <1>8 DEF ResolveVar
  <2>4. Outside
    BY <2>1, <2>2, <2>3, DecideOutside
  <2> QED BY <1>1, <2>3, <2>4 DEF result
<1>9. CASE UNCHANGED <<result, kicks, penalty>>
  BY <1>1, <1>9 DEF result, kicks, Outside
<1>10. CASE UNCHANGED vars
  BY <1>9, <1>10 DEF vars, result, kicks
<1>11. CASE Engine
  BY <1>2, <1>3, <1>4, <1>5, <1>9, <1>11
  DEF Engine, PlayTick, BreakTick, ForcedSubstitution
<1>12. CASE Players
  BY <1>6, <1>7, <1>8, <1>9, <1>12
  DEF Players, TakeRestart, ChooseWall, CycleFormation, OpenPanel, ClosePanel, PanelChange,
      OpenReplay, CloseReplay, ToggleGoal, AddGoal
<1> QED BY <1>10, <1>11, <1>12 DEF Next

\* The shoot-out that a match ends with is regular: the teams take turns, every
\* kick is counted once, it stops as soon as it is decided, and its verdict is
\* the result of the match, whatever people do between the kicks.
THEOREM RegularShootout == Spec => ShootoutIsRegular
<1>1. Init => ShootInv /\ Kicks!Init
  <2> SUFFICES ASSUME Init PROVE ShootInv /\ Kicks!Init
    OBVIOUS
  <2>1. ShootInv
    BY TeamFacts, NoPenaltyFacts DEF Init, ShootInv, KicksOnlyThere, BlueFirst, NoKicks
  <2>2. ~ShootoutDecided
    BY DEF Init, ShootoutDecided
  <2>3. Kicks!Init
    BY <2>2, NoPenaltyFacts DEF Init, Kicks!Init, Kicks!Teams, Teams
  <2> QED BY <2>1, <2>3
<1>2. IInv /\ ShootInv /\ [Next]_vars => IInv' /\ ShootInv' /\ [Kicks!Next]_(Kicks!vars)
  BY NextIInv, ShootStep
<1> QED BY <1>1, <1>2, InitIInv, PTL DEF Spec, ShootoutIsRegular, Kicks!Spec
=============================================================================
