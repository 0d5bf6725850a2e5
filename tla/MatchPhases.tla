---------------------------- MODULE MatchPhases -----------------------------
(***************************************************************************)
(* What the referee promises about the course of a match, whatever happens *)
(* inside it: the periods of enum MatchPeriod follow one another without   *)
(* gaps, a league match ends after its second half, a knockout match has a *)
(* winner, and a result is announced once.                                 *)
(* MatchFlow implements this specification.                                *)
(***************************************************************************)
CONSTANTS
    Blue, Red,
    NoTeam              \* as an outcome: a draw

VARIABLES
    mode,               \* MatchEngine.mode: "knockout" ("Eleme") or "league"
    phase,              \* MatchEngine.period
    announced,          \* MatchEngine.finished
    outcome             \* MatchEngine.winner

vars == <<mode, phase, announced, outcome>>

Init ==
    /\ mode \in {"knockout", "league"}
    /\ phase = "firstHalf"
    /\ announced = FALSE
    /\ outcome = NoTeam

Advance(from, to) ==
    /\ phase = from
    /\ phase' = to
    /\ UNCHANGED <<mode, announced, outcome>>

HalfTime == Advance("firstHalf", "secondHalf")
ExtraTime == mode = "knockout" /\ Advance("secondHalf", "extraFirst")
ChangeEnds == Advance("extraFirst", "extraSecond")
PenaltyShootout == Advance("extraSecond", "penalties")

\* A draw is only possible in a league match.
FinalWhistle(w) ==
    /\ phase \in {"secondHalf", "extraSecond", "penalties"}
    /\ mode = "league" => phase = "secondHalf"
    /\ mode = "knockout" => w # NoTeam
    /\ phase' = "finished"
    /\ announced' = TRUE
    /\ outcome' = w
    /\ UNCHANGED mode

Next ==
    \/ HalfTime
    \/ ExtraTime
    \/ ChangeEnds
    \/ PenaltyShootout
    \/ \E w \in {Blue, Red, NoTeam} : FinalWhistle(w)

Spec == Init /\ [][Next]_vars
=============================================================================
