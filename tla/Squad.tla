------------------------------- MODULE Squad --------------------------------
(***************************************************************************)
(* The squad of one team during a match: TeamGame (team_game.dart) with    *)
(* its slots, bench, substitution log and limit, the cards and injuries    *)
(* that take players off (match_engine.dart), and the ways in which the    *)
(* match screen changes the squad (game_screen.dart): dragging in the      *)
(* substitution panel, its keyboard, undo, and the substitution forced by  *)
(* an injury.                                                              *)
(*                                                                         *)
(* A player stands for his profile.  The flags isSentOff and               *)
(* isInjuredInMatch live in his PlayerGame, which substitute creates anew  *)
(* for the player who comes on.  The order of the bench is left out.       *)
(***************************************************************************)
EXTENDS Integers, Sequences

CONSTANTS
    Slots,              \* indices of TeamGame.players
    Profiles,           \* the profiles of the match squad
    Keepers,            \* those with isGoalkeeper
    Starting,           \* TeamGame.players after fromSetup
    Nobody,
    SubLimit,           \* 5 in the code
    MaxBonus,           \* bound on bonusSubstitutions
    Paths               \* what is used in its panel, which anybody may open

KeeperSlots == {s \in Slots : Starting[s] \in Keepers}

ASSUME SquadAssumption == Keepers \subseteq Profiles /\ Nobody \notin Profiles
ASSUME StartingAssumption ==
    /\ Starting \in [Slots -> Profiles]
    /\ \A s, t \in Slots : Starting[s] = Starting[t] => s = t
ASSUME LimitAssumption == SubLimit \in Nat /\ MaxBonus \in Nat
ASSUME PathsAssumption == Paths \subseteq {"drag", "keyboard", "swap", "undo"}

VARIABLES
    human,              \* whether a person plays this team
    players,            \* who fills each slot
    bench,
    substitutedOut,
    substitutionLog,    \* SubstitutionRecords, the latest last
    substitutionsUsed,
    bonusSubstitutions,
    sentOff,            \* isSentOff
    injured,            \* isInjuredInMatch
    unavailable,        \* profile.isUnavailable: suspended or injured
    victim              \* the injured player who waits in _forcedSubs, if any

lineup == <<players, bench, substitutedOut, substitutionLog, substitutionsUsed>>
vars == <<human, players, bench, substitutedOut, substitutionLog, substitutionsUsed,
          bonusSubstitutions, sentOff, injured, unavailable, victim>>

substitutionLimit == SubLimit + bonusSubstitutions

OnPitch == {players[s] : s \in Slots}
SlotOf(p) == {s \in Slots : players[s] = p}

Init ==
    /\ human \in BOOLEAN
    /\ players = Starting
    /\ bench = Profiles \ {Starting[s] : s \in Slots}
    /\ substitutedOut = {}
    /\ substitutionLog = <<>>
    /\ substitutionsUsed = 0
    /\ bonusSubstitutions = 0
    /\ sentOff = {} /\ injured = {} /\ unavailable = {}
    /\ victim = Nobody

-----------------------------------------------------------------------------
\* mutants: isGoalkeeper is not compared; the limit is passed by one
SubstituteAnyRole(s, p) ==
    /\ substitutionsUsed < substitutionLimit
    /\ p \in bench
    /\ players' = [players EXCEPT ![s] = p]
    /\ substitutedOut' = substitutedOut \cup {players[s]}
    /\ substitutionLog' = Append(substitutionLog,
                                 [slot |-> s, outgoing |-> players[s], incoming |-> p])
    /\ bench' = bench \ {p}
    /\ substitutionsUsed' = substitutionsUsed + 1
SubstituteOverLimit(s, p) ==
    /\ substitutionsUsed <= substitutionLimit
    /\ p \in bench
    /\ players[s] \in Keepers <=> p \in Keepers
    /\ players' = [players EXCEPT ![s] = p]
    /\ substitutedOut' = substitutedOut \cup {players[s]}
    /\ substitutionLog' = Append(substitutionLog,
                                 [slot |-> s, outgoing |-> players[s], incoming |-> p])
    /\ bench' = bench \ {p}
    /\ substitutionsUsed' = substitutionsUsed + 1

\* TeamGame.substitute
Substitute(s, p) ==
    /\ substitutionsUsed < substitutionLimit
    /\ p \in bench
    /\ players[s] \in Keepers <=> p \in Keepers
    /\ players' = [players EXCEPT ![s] = p]
    /\ substitutedOut' = substitutedOut \cup {players[s]}
    /\ substitutionLog' = Append(substitutionLog,
                                 [slot |-> s, outgoing |-> players[s], incoming |-> p])
    /\ bench' = bench \ {p}
    /\ substitutionsUsed' = substitutionsUsed + 1

\* The player who comes on is a new PlayerGame, with its flags unset.
FreshFlags(p) ==
    /\ sentOff' = sentOff \ {p}
    /\ injured' = injured \ {p}

\* mutant: the drop on a player who was sent off is accepted
DropAllowedOnAnybody(s, p) == p \notin unavailable /\ victim \in {Nobody, players[s]}

\* _canDropMatchPlayer, for a player dragged from the bench
DropAllowed(s, p) ==
    /\ players[s] \notin sentOff
    /\ p \notin unavailable
    /\ victim \in {Nobody, players[s]}

\* The injured player of an AI team is replaced before a key is looked at; the
\* panel of a person's team opens for him.
PanelUsable == victim = Nobody \/ human

\* _acceptMatchPlayerDrop
DropFromBench(s, p) ==
    /\ "drag" \in Paths
    /\ PanelUsable
    /\ DropAllowed(s, p)
    /\ Substitute(s, p)
    /\ FreshFlags(p)
    /\ victim' = Nobody
    /\ UNCHANGED <<human, bonusSubstitutions, unavailable>>

\* Enter in _handleSubstitutionKey: any slot and anybody on the bench, but a
\* panel forced by an injury keeps the slot of the victim.
KeySubstitution(s, p) ==
    /\ "keyboard" \in Paths
    /\ PanelUsable
    /\ victim # Nobody => players[s] = victim
    /\ Substitute(s, p)
    /\ FreshFlags(p)
    /\ victim' = Nobody
    /\ UNCHANGED <<human, bonusSubstitutions, unavailable>>

\* mutant: only the first slot is written
SwapHalf(s, t) ==
    /\ "swap" \in Paths /\ victim = Nobody
    /\ players[s] \notin sentOff /\ players[t] \notin sentOff
    /\ players[s] \in Keepers <=> players[t] \in Keepers
    /\ players' = [players EXCEPT ![s] = players[t]]
    /\ UNCHANGED <<human, bench, substitutedOut, substitutionLog, substitutionsUsed,
                   bonusSubstitutions, sentOff, injured, unavailable, victim>>

\* TeamGame.swapPlayerPositions, by dragging one player of the pitch on another
Swap(s, t) ==
    /\ "swap" \in Paths /\ victim = Nobody
    /\ players[s] \notin sentOff /\ players[t] \notin sentOff
    /\ players[s] \in Keepers <=> players[t] \in Keepers
    /\ players' = [players EXCEPT ![s] = players[t], ![t] = players[s]]
    /\ UNCHANGED <<human, bench, substitutedOut, substitutionLog, substitutionsUsed,
                   bonusSubstitutions, sentOff, injured, unavailable, victim>>

LastRecord == substitutionLog[Len(substitutionLog)]

\* mutants: the substitute does not go back to the bench; the slot is not refunded
UndoForgetsBench ==
    /\ "undo" \in Paths /\ victim = Nobody
    /\ substitutionLog # <<>>
    /\ players' = [players EXCEPT ![LastRecord.slot] = LastRecord.outgoing]
    /\ substitutedOut' = substitutedOut \ {LastRecord.outgoing}
    /\ substitutionLog' = SubSeq(substitutionLog, 1, Len(substitutionLog) - 1)
    /\ substitutionsUsed' = substitutionsUsed - 1
    /\ UNCHANGED <<human, bench, bonusSubstitutions, sentOff, injured, unavailable, victim>>
UndoWithoutRefund ==
    /\ "undo" \in Paths /\ victim = Nobody
    /\ substitutionLog # <<>>
    /\ players' = [players EXCEPT ![LastRecord.slot] = LastRecord.outgoing]
    /\ bench' = bench \cup {LastRecord.incoming}
    /\ substitutedOut' = substitutedOut \ {LastRecord.outgoing}
    /\ substitutionLog' = SubSeq(substitutionLog, 1, Len(substitutionLog) - 1)
    /\ UNCHANGED <<human, substitutionsUsed, bonusSubstitutions, sentOff, injured,
                   unavailable, victim>>

\* TeamGame.undoLastSubstitution, button "Geri al"
Undo ==
    /\ "undo" \in Paths /\ victim = Nobody
    /\ substitutionLog # <<>>
    /\ players' = [players EXCEPT ![LastRecord.slot] = LastRecord.outgoing]
    /\ bench' = bench \cup {LastRecord.incoming}
    /\ substitutedOut' = substitutedOut \ {LastRecord.outgoing}
    /\ substitutionLog' = SubSeq(substitutionLog, 1, Len(substitutionLog) - 1)
    /\ substitutionsUsed' = IF substitutionsUsed = 0 THEN 0 ELSE substitutionsUsed - 1
    /\ UNCHANGED <<human, bonusSubstitutions, sentOff, injured, unavailable, victim>>

\* _issueCard: a red card, or a second yellow one
SendOff(s) ==
    /\ victim = Nobody
    /\ players[s] \notin sentOff
    /\ sentOff' = sentOff \cup {players[s]}
    /\ unavailable' = unavailable \cup {players[s]}
    /\ UNCHANGED <<human, lineup, bonusSubstitutions, injured, victim>>

\* _checkInjury and _queueForcedInjurySub; the screen deals with one victim
\* before play goes on.
Injure(s) ==
    /\ victim = Nobody
    /\ players[s] \notin sentOff \cup injured
    /\ injured' = injured \cup {players[s]}
    /\ unavailable' = unavailable \cup {players[s]}
    /\ victim' = players[s]
    /\ UNCHANGED <<human, lineup, bonusSubstitutions, sentOff>>

\* The same for a player of the other team, which gives this one a substitution.
OpponentInjured ==
    /\ bonusSubstitutions < MaxBonus
    /\ bonusSubstitutions' = bonusSubstitutions + 1
    /\ UNCHANGED <<human, lineup, sentOff, injured, unavailable, victim>>

\* The candidates of _processForcedInjurySubstitution
Replacements ==
    {p \in bench : (p \in Keepers <=> victim \in Keepers) /\ p \notin unavailable}

CannotReplace ==
    substitutionsUsed >= substitutionLimit \/ Replacements = {} \/ SlotOf(victim) = {}

\* mutant: the player is not taken off
RemoveInjuredStays ==
    /\ victim # Nobody
    /\ CannotReplace
    /\ victim' = Nobody
    /\ UNCHANGED <<human, lineup, bonusSubstitutions, sentOff, injured, unavailable>>

\* removeInjuredWithoutReplacement, popped from the queue
RemoveInjured ==
    /\ victim # Nobody
    /\ CannotReplace
    /\ sentOff' = sentOff \cup {victim}
    /\ victim' = Nobody
    /\ UNCHANGED <<human, lineup, bonusSubstitutions, injured, unavailable>>

\* mutant: the victim leaves the queue but nobody comes on
ForcedSubstitutionLost ==
    /\ ~human
    /\ victim # Nobody
    /\ victim' = Nobody
    /\ UNCHANGED <<human, lineup, bonusSubstitutions, sentOff, injured, unavailable>>

\* The AI substitutes its victim at once; a person gets the panel.
ForcedSubstitution ==
    /\ ~human
    /\ victim # Nobody
    /\ \E s \in SlotOf(victim), p \in Replacements :
         /\ Substitute(s, p)
         /\ FreshFlags(p)
    /\ victim' = Nobody
    /\ UNCHANGED <<human, bonusSubstitutions, unavailable>>

Next ==
    \/ \E s \in Slots, p \in Profiles : DropFromBench(s, p) \/ KeySubstitution(s, p)
    \/ \E s, t \in Slots : s # t /\ Swap(s, t)
    \/ Undo
    \/ \E s \in Slots : SendOff(s) \/ Injure(s)
    \/ OpponentInjured
    \/ RemoveInjured
    \/ ForcedSubstitution

Spec == Init /\ [][Next]_vars

-----------------------------------------------------------------------------
Records == [slot : Slots, outgoing : Profiles, incoming : Profiles]

\* Every variable has its type.
TypeOK ==
    /\ human \in BOOLEAN
    /\ players \in [Slots -> Profiles]
    /\ bench \subseteq Profiles
    /\ substitutedOut \subseteq Profiles
    /\ substitutionLog \in Seq(Records)
    /\ substitutionsUsed \in 0..(SubLimit + MaxBonus)
    /\ bonusSubstitutions \in 0..MaxBonus
    /\ sentOff \subseteq Profiles /\ injured \subseteq Profiles /\ unavailable \subseteq Profiles
    /\ victim \in Profiles \cup {Nobody}

\* Everybody of the squad is in exactly one place: one slot, the bench, or
\* among those substituted.  Nobody plays twice and nobody disappears.
NobodyIsLost ==
    /\ \A s, t \in Slots : players[s] = players[t] => s = t
    /\ bench \cap OnPitch = {}
    /\ substitutedOut \cap (bench \cup OnPitch) = {}
    /\ Profiles = OnPitch \cup bench \cup substitutedOut

\* The substitutions counted are those in the log, refunds and forced ones
\* included, and never more than the team is entitled to.
SubstitutionsAreCounted ==
    /\ substitutionsUsed = Len(substitutionLog)
    /\ substitutionsUsed <= substitutionLimit

\* Whoever comes, goes or changes places, the goalkeepers keep the goal.
KeeperKeepsGoal ==
    \A s \in Slots : players[s] \in Keepers <=> s \in KeeperSlots

Playing == {s \in Slots : players[s] \notin sentOff}

\* A team that lost a man plays on without him: no step of a match in which
\* squads are changed by dragging or by the AI lets a slot play that did not
\* play before.
RedCardIsForGood == [][Playing' \subseteq Playing]_vars

\* Nobody goes on playing with an injury, except until the screen has dealt
\* with it: a forced substitution takes him off at once, and once off he cannot
\* be chosen (BUYUK_GUNCELLEME.md).
InjuredLeaves ==
    \A s \in Playing : players[s] \in injured => players[s] = victim
=============================================================================
