--------------------------- MODULE Shootout_proofs --------------------------
(***************************************************************************)
(* The safety properties of Shootout for every number of regulation kicks, *)
(* either first team and every bound on the kicks.                         *)
(***************************************************************************)
EXTENDS Shootout, TLAPS

\* The properties strengthened to an inductive invariant: a kick that is being
\* prepared still fits under the bound, and goals never outnumber kicks.
IInv ==
    /\ TypeOK
    /\ \A t \in Teams : scored[t] <= taken[t]
    /\ penaltyTeam # NoTeam /\ penaltyResult = "none"
          => taken[penaltyTeam] < MaxKicks
    /\ KicksAlternate
    /\ NoKickAfterDecision
    /\ SuddenDeathIsClose

-----------------------------------------------------------------------------
\* Opponent is an involution without fixed point on the two teams.
LEMMA OpponentFacts ==
    /\ Opponent(Blue) = Red /\ Opponent(Red) = Blue
    /\ \A t \in Teams : Opponent(t) \in Teams /\ Opponent(t) # t
    /\ SecondTeam \in Teams /\ SecondTeam # FirstTeam
    /\ Teams = {FirstTeam, SecondTeam}
BY TeamsAssumption, FirstTeamAssumption DEF Teams, Opponent, SecondTeam

\* PenaltyShootout.complete decides for the team ahead.
LEMMA WinnerIsAhead ==
    ASSUME TypeOK, Complete
    PROVE  Winner \in Teams /\ scored[Winner] > scored[Opponent(Winner)]
<1>1. /\ scored[Blue] \in Nat /\ scored[Red] \in Nat
      /\ taken[Blue] \in Nat /\ taken[Red] \in Nat
  BY KicksAssumption DEF TypeOK, Teams
<1>2. Remaining(Blue) \in Nat /\ Remaining(Red) \in Nat
  BY <1>1, KicksAssumption DEF Remaining
<1>3. scored[Blue] # scored[Red]
  BY <1>1, <1>2 DEF Complete
<1>4. CASE scored[Blue] > scored[Red]
  <2>1. Winner = Blue
    BY <1>4 DEF Winner
  <2> QED BY <2>1, <1>4, OpponentFacts DEF Teams
<1>5. CASE ~(scored[Blue] > scored[Red])
  <2>1. Winner = Red
    BY <1>5 DEF Winner
  <2>2. scored[Red] > scored[Blue]
    BY <1>1, <1>3, <1>5
  <2> QED BY <2>1, <2>2, OpponentFacts DEF Teams
<1> QED BY <1>4, <1>5

-----------------------------------------------------------------------------
LEMMA InitIInv == Init => IInv
<1> SUFFICES ASSUME Init PROVE IInv
  OBVIOUS
<1>1. TypeOK
  <2>1. 0 \in 0..MaxKicks
    BY KicksAssumption
  <2>2. taken \in [Teams -> 0..MaxKicks] /\ scored \in [Teams -> 0..MaxKicks]
    BY <2>1 DEF Init
  <2> QED BY <2>2 DEF Init, TypeOK
<1>2. taken[FirstTeam] = 0 /\ taken[SecondTeam] = 0
  BY OpponentFacts, FirstTeamAssumption DEF Init
<1>3. InRegulation /\ \A t \in Teams : scored[t] <= taken[t]
  BY KicksAssumption DEF Init, InRegulation
<1> QED BY <1>1, <1>2, <1>3
        DEF Init, IInv, KicksAlternate, NoKickAfterDecision, SuddenDeathIsClose

\* Each step keeps the inductive invariant; the interesting one is a kick
\* beyond regulation, which is only taken while the teams are level.
LEMMA NextIInv == IInv /\ [Next]_vars => IInv'
<1> SUFFICES ASSUME IInv, [Next]_vars PROVE IInv'
  OBVIOUS
<1> USE KicksAssumption, FirstTeamAssumption, TeamsAssumption, OpponentFacts
<1>0. /\ \A t \in Teams : taken[t] \in 0..MaxKicks /\ scored[t] \in 0..MaxKicks
      /\ FirstTeam \in Teams /\ SecondTeam \in Teams
  BY DEF IInv, TypeOK
<1>1. CASE StartKick
  <2>1. NextTeam \in Teams
    BY DEF NextTeam
  <2>2. UNCHANGED <<taken, scored, finished, winner>> /\ ~finished /\ ~Complete
    BY <1>1 DEF StartKick
  <2>3. penaltyTeam' = NextTeam /\ penaltyResult' = "none"
    BY <1>1 DEF StartKick
  <2>4. TypeOK'
    BY <2>1, <2>2, <2>3 DEF IInv, TypeOK
  <2>5. NextTeam' = NextTeam /\ Complete' = Complete /\ InRegulation' = InRegulation
    BY <2>2 DEF NextTeam, Complete, InRegulation, Remaining
  <2>6. KicksAlternate' /\ NoKickAfterDecision' /\ SuddenDeathIsClose'
    BY <2>2, <2>3, <2>5
    DEF IInv, KicksAlternate, NoKickAfterDecision, SuddenDeathIsClose
  <2>7. taken[NextTeam] < MaxKicks
    BY <1>1 DEF StartKick
  <2> QED BY <2>2, <2>3, <2>4, <2>6, <2>7 DEF IInv
<1>2. ASSUME NEW t \in Teams, NEW isGoal \in BOOLEAN, TakeKick(t, isGoal)
      PROVE  IInv'
  <2> DEFINE o == Opponent(t)
  <2>1. /\ penaltyTeam = t /\ penaltyTeam' = t
        /\ penaltyResult = "none" /\ penaltyResult' \in {"scored", "missed"}
        /\ UNCHANGED <<finished, winner>> /\ t # NoTeam
    BY <1>2 DEF TakeKick
  <2>2. taken[t] < MaxKicks /\ t = NextTeam /\ ~Complete /\ ~finished
    BY <2>1 DEF IInv, KicksAlternate, NoKickAfterDecision
  <2>3. o \in Teams /\ o # t /\ Teams = {t, o} /\ Opponent(o) = t
    BY DEF Teams
  <2>4. /\ taken' \in [Teams -> 0..MaxKicks]
        /\ taken'[t] = taken[t] + 1 /\ taken'[o] = taken[o]
    BY <1>2, <2>2, <2>3, <1>0 DEF TakeKick, IInv, TypeOK
  <2>5. scored[t] <= taken[t] /\ scored[o] <= taken[o]
    BY <2>3 DEF IInv
  <2>6. /\ scored' \in [Teams -> 0..MaxKicks] /\ scored'[o] = scored[o]
        /\ scored'[t] = scored[t] \/ scored'[t] = scored[t] + 1
    BY <1>2, <2>2, <2>3, <2>5, <1>0 DEF TakeKick, IInv, TypeOK
  <2>7. TypeOK'
    BY <2>1, <2>4, <2>6 DEF IInv, TypeOK
  <2>8. \A u \in Teams : scored'[u] <= taken'[u]
    BY <2>3, <2>4, <2>5, <2>6, <1>0
  <2>9. KicksAlternate'
    <3>1. CASE taken[FirstTeam] = taken[SecondTeam]
      <4>1. t = FirstTeam
        BY <2>2, <3>1 DEF NextTeam, Teams
      <4> QED BY <4>1, <3>1, <2>1, <2>3, <2>4, <1>0 DEF KicksAlternate, SecondTeam
    <3>2. CASE taken[FirstTeam] - taken[SecondTeam] = 1
      <4>1. taken[Blue] # taken[Red]
        BY <3>2, <1>0 DEF Teams
      <4>2. t = SecondTeam
        BY <2>2, <4>1 DEF NextTeam
      <4>3. o = FirstTeam
        BY <4>2, <2>3
      <4> QED BY <4>2, <4>3, <3>2, <2>1, <2>4, <1>0 DEF KicksAlternate
    <3> QED BY <3>1, <3>2, <1>0 DEF IInv, KicksAlternate
  <2>10. NoKickAfterDecision'
    BY <2>1, <2>2 DEF NoKickAfterDecision
  <2>11. SuddenDeathIsClose'
    <3> SUFFICES ASSUME ~InRegulation'
                 PROVE  /\ scored'[t] <= scored'[o] + 1
                        /\ scored'[o] <= scored'[t] + 1
      BY <2>1, <2>2, <2>3 DEF SuddenDeathIsClose
    <3>1. taken[t] >= ShootoutKicks /\ taken[o] >= ShootoutKicks
      <4>1. taken'[FirstTeam] - taken'[SecondTeam] \in {0, 1}
        BY <2>9 DEF KicksAlternate
      <4>2. taken'[FirstTeam] > ShootoutKicks
        BY <4>1, <2>7 DEF InRegulation, TypeOK
      <4>3. CASE t = FirstTeam
        BY <4>1, <4>2, <4>3, <2>3, <2>4, <1>0 DEF SecondTeam
      <4>4. CASE t = SecondTeam
        <5>1. o = FirstTeam
          BY <4>4, <2>3
        <5>2. taken[FirstTeam] # taken[SecondTeam]
          BY <4>4, <2>2 DEF NextTeam, Teams
        <5>3. taken[FirstTeam] - taken[SecondTeam] = 1
          BY <5>2, <1>0 DEF IInv, KicksAlternate
        <5> HIDE DEF o
        <5> QED BY <5>1, <5>3, <4>2, <4>4, <2>4, <1>0
      <4> QED BY <4>3, <4>4
    <3>2. Remaining(t) = 0 /\ Remaining(o) = 0
      BY <3>1, <2>3, <1>0 DEF Remaining
    <3>3. Remaining(Blue) = 0 /\ Remaining(Red) = 0
      BY <3>2, <2>3 DEF Teams
    <3>4. scored[Blue] = scored[Red]
      BY <3>3, <2>2, <1>0 DEF Complete, Teams
    <3>5. scored[t] = scored[o]
      BY <3>4, <2>3 DEF Teams
    <3> QED BY <3>5, <2>3, <2>6, <1>0
  <2> QED BY <2>1, <2>7, <2>8, <2>9, <2>10, <2>11 DEF IInv
<1>3. CASE EndKick
  <2>1. /\ UNCHANGED <<taken, scored>> /\ penaltyTeam' = NoTeam
        /\ penaltyResult' = "none" /\ finished' = Complete /\ winner' = Winner
    BY <1>3 DEF EndKick
  <2>2. Complete' = Complete /\ InRegulation' = InRegulation
    BY <2>1 DEF Complete, InRegulation, Remaining
  <2>3. Winner \in Teams \cup {NoTeam} /\ Complete \in BOOLEAN
    BY DEF Winner, Teams, Complete
  <2>4. TypeOK'
    BY <2>1, <2>3 DEF IInv, TypeOK
  <2>5. KicksAlternate'
    BY <2>1 DEF IInv, KicksAlternate
  <2>6. NoKickAfterDecision'
    BY <2>1, <2>2 DEF NoKickAfterDecision
  <2>7. SuddenDeathIsClose'
    BY <2>1, <2>2, WinnerIsAhead DEF IInv, SuddenDeathIsClose
  <2> QED BY <2>1, <2>4, <2>5, <2>6, <2>7 DEF IInv
<1>4. CASE UNCHANGED vars
  BY <1>4 DEF vars, IInv, TypeOK, KicksAlternate, NoKickAfterDecision,
     SuddenDeathIsClose, InRegulation, NextTeam, Complete, Remaining
<1> QED BY <1>1, <1>2, <1>3, <1>4 DEF Next

LEMMA Invariance == Spec => []IInv
BY InitIInv, NextIInv, PTL DEF Spec

-----------------------------------------------------------------------------
\* Every reachable state is well typed: no kick is counted twice, so the counts
\* stay under any bound on the kicks that are started.
THEOREM TypeCorrect == Spec => []TypeOK
<1>1. IInv => TypeOK
  BY DEF IInv
<1> QED BY <1>1, Invariance, PTL

\* The teams strike in turn and the team at the spot is the one whose turn it is.
THEOREM Alternation == Spec => []KicksAlternate
<1>1. IInv => KicksAlternate
  BY DEF IInv
<1> QED BY <1>1, Invariance, PTL

\* No kick is started once the shoot-out is decided.
THEOREM NoLateKick == Spec => []NoKickAfterDecision
<1>1. IInv => NoKickAfterDecision
  BY DEF IInv
<1> QED BY <1>1, Invariance, PTL

\* Sudden death is level before every round, and the team announced is ahead.
THEOREM CloseSuddenDeath == Spec => []SuddenDeathIsClose
<1>1. IInv => SuddenDeathIsClose
  BY DEF IInv
<1> QED BY <1>1, Invariance, PTL

\* The arithmetic of PenaltyShootout.complete agrees with its meaning: it holds
\* in regulation exactly when no outcome of the remaining kicks turns the result.
THEOREM CompleteIsDecided == Spec => []StopsExactlyWhenDecided
<1>1. IInv => StopsExactlyWhenDecided
  <2> SUFFICES ASSUME IInv, InRegulation
               PROVE  Complete <=> \E t \in Teams : DecidedFor(t)
    BY DEF StopsExactlyWhenDecided
  <2> USE OpponentFacts, KicksAssumption
  <2>1. \A t \in Teams : /\ taken[t] \in Nat /\ scored[t] \in Nat
                         /\ Remaining(t) \in Nat
    BY DEF IInv, TypeOK, Remaining
  <2>2. ASSUME NEW t \in Teams
        PROVE  DecidedFor(t)
               <=> scored[t] > scored[Opponent(t)] + Remaining(Opponent(t))
    <3> DEFINE o == Opponent(t)
    <3>1. /\ scored[t] \in Nat /\ scored[o] \in Nat
          /\ Remaining(t) \in Nat /\ Remaining(o) \in Nat
      BY <2>1
    <3>2. ASSUME DecidedFor(t) PROVE scored[t] > scored[o] + Remaining(o)
      <4>1. 0 \in 0..Remaining(t) /\ Remaining(o) \in 0..Remaining(o)
        BY <3>1
      <4>2. scored[t] + 0 > scored[o] + Remaining(o)
        BY <3>2, <4>1 DEF DecidedFor
      <4> QED BY <4>2, <3>1
    <3>3. ASSUME scored[t] > scored[o] + Remaining(o) PROVE DecidedFor(t)
      <4> HIDE DEF o
      <4>1. \A x \in 0..Remaining(t), y \in 0..Remaining(o) :
               scored[t] + x > scored[o] + y
        BY <3>1, <3>3
      <4> QED BY <4>1 DEF DecidedFor, o
    <3> QED BY <3>2, <3>3
  <2>3. Blue \in Teams /\ Red \in Teams
    BY DEF Teams
  <2>4. (\E t \in Teams : DecidedFor(t))
        <=> \/ scored[Blue] > scored[Red] + Remaining(Red)
            \/ scored[Red] > scored[Blue] + Remaining(Blue)
    BY <2>2, <2>3 DEF Teams
  <2>5. taken[Blue] >= ShootoutKicks => Remaining(Blue) = 0
    BY <2>1, <2>3 DEF Remaining
  <2>6. taken[Red] >= ShootoutKicks => Remaining(Red) = 0
    BY <2>1, <2>3 DEF Remaining
  <2> QED BY <2>1, <2>3, <2>4, <2>5, <2>6 DEF Complete
<1> QED BY <1>1, Invariance, PTL

\* A finished shoot-out is never touched again.
THEOREM FinalResult == Spec => ResultIsFinal
<1>1. IInv /\ [Next]_vars => [finished => UNCHANGED vars]_vars
  <2> SUFFICES ASSUME IInv, Next, finished PROVE FALSE
    BY DEF vars
  <2>1. penaltyTeam = NoTeam
    BY DEF IInv, NoKickAfterDecision
  <2>2. \A t \in Teams : t # NoTeam
    BY TeamsAssumption
  <2> QED BY <2>1, <2>2 DEF Next, StartKick, TakeKick, EndKick
<1> QED BY <1>1, Invariance, PTL DEF Spec, ResultIsFinal
=============================================================================
