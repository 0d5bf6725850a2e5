---------------------------- MODULE Squad_proofs ----------------------------
(***************************************************************************)
(* The safety properties of Squad for every squad, starting lineup and     *)
(* limit.  What is true only while some ways of the panel are unused has   *)
(* that restriction on Paths as its premise.                               *)
(***************************************************************************)
EXTENDS Squad, SequenceTheorems, TLAPS

Entries == 1..Len(substitutionLog)

\* What undo relies on: a record restores a goalkeeper to a goalkeeper's slot.
LogKeepsRoles ==
    \A i \in Entries :
        substitutionLog[i].outgoing \in Keepers <=> substitutionLog[i].slot \in KeeperSlots

\* The invariant of TeamGame, whatever is used in the panel.
IInv == TypeOK /\ SubstitutionsAreCounted /\ KeeperKeepsGoal /\ LogKeepsRoles

\* Records i and j are about the same slot and no record between them is.
Adjacent(i, j) ==
    /\ i < j
    /\ substitutionLog[i].slot = substitutionLog[j].slot
    /\ \A k \in Entries : i < k /\ k < j => substitutionLog[k].slot # substitutionLog[j].slot

\* No record after i is about its slot.
Latest(i) ==
    \A j \in Entries : i < j => substitutionLog[j].slot # substitutionLog[i].slot

\* The log can be taken back step by step: those it names as outgoing are
\* different players among the substituted ones, the latest record of a slot
\* names who fills it, an earlier one who left it next.
LogIsStack ==
    /\ \A i \in Entries : substitutionLog[i].outgoing \in substitutedOut
    /\ \A i, j \in Entries :
         substitutionLog[i].outgoing = substitutionLog[j].outgoing => i = j
    /\ \A i \in Entries :
         Latest(i) => players[substitutionLog[i].slot] = substitutionLog[i].incoming
    /\ \A i, j \in Entries :
         Adjacent(i, j) => substitutionLog[j].outgoing = substitutionLog[i].incoming

\* A swap is not logged, so the log is a stack only without it.
PlacesInv == NobodyIsLost /\ ("undo" \in Paths => LogIsStack)

-----------------------------------------------------------------------------
\* TeamGame.substitute keeps the part of the invariant that is about the lineup.
LEMMA SubstituteIInv ==
    ASSUME IInv, NEW s \in Slots, NEW p \in Profiles, Substitute(s, p),
           UNCHANGED bonusSubstitutions,
           sentOff' \subseteq sentOff, injured' \subseteq injured,
           UNCHANGED <<human, unavailable>>, victim' = Nobody
    PROVE  IInv'
<1> USE DEF IInv
<1> DEFINE r == [slot |-> s, outgoing |-> players[s], incoming |-> p]
<1>1. r \in Records /\ players[s] \in Profiles
  BY DEF TypeOK, Records
<1>2. /\ substitutionLog' = Append(substitutionLog, r)
      /\ substitutionLog \in Seq(Records)
  BY DEF Substitute, TypeOK
<1>3. /\ substitutionLog' \in Seq(Records)
      /\ Len(substitutionLog') = Len(substitutionLog) + 1
      /\ \A i \in 1..Len(substitutionLog) : substitutionLog'[i] = substitutionLog[i]
      /\ substitutionLog'[Len(substitutionLog) + 1] = r
  BY <1>1, <1>2, AppendProperties
<1>4. /\ Len(substitutionLog) \in Nat
      /\ Entries' = Entries \cup {Len(substitutionLog) + 1}
  BY <1>2, <1>3 DEF Entries
<1>5. TypeOK'
  <2>1. substitutionsUsed' \in 0..(SubLimit + MaxBonus)
    BY LimitAssumption DEF Substitute, TypeOK, substitutionLimit
  <2>2. players' \in [Slots -> Profiles]
    BY DEF Substitute, TypeOK
  <2> QED BY <1>1, <1>3, <2>1, <2>2 DEF Substitute, TypeOK
<1>6. SubstitutionsAreCounted'
  BY <1>3, LimitAssumption
  DEF Substitute, TypeOK, SubstitutionsAreCounted, substitutionLimit
<1>7. players[s] \in Keepers <=> s \in KeeperSlots
  BY DEF KeeperKeepsGoal
<1>8. KeeperKeepsGoal'
  BY <1>7 DEF Substitute, TypeOK, KeeperKeepsGoal, KeeperSlots
<1>9. LogKeepsRoles'
  <2> SUFFICES ASSUME NEW i \in Entries'
                 PROVE  substitutionLog'[i].outgoing \in Keepers
                            <=> substitutionLog'[i].slot \in KeeperSlots
    BY DEF LogKeepsRoles, KeeperSlots
  <2>2. CASE i \in Entries
    BY <1>3, <2>2 DEF LogKeepsRoles, Entries
  <2>3. CASE i = Len(substitutionLog) + 1
    BY <1>3, <1>7, <2>3
  <2> QED BY <1>4, <2>2, <2>3
<1> QED BY <1>5, <1>6, <1>8, <1>9

LEMMA InitIInv == Init => IInv
<1> SUFFICES ASSUME Init PROVE IInv
  OBVIOUS
<1>1. TypeOK
  BY StartingAssumption, LimitAssumption DEF Init, TypeOK
<1>2. Len(substitutionLog) = 0 /\ Entries = {}
  BY DEF Init, Entries
<1>3. SubstitutionsAreCounted
  BY <1>2, LimitAssumption DEF Init, SubstitutionsAreCounted, substitutionLimit
<1>4. KeeperKeepsGoal
  BY DEF Init, KeeperKeepsGoal, KeeperSlots
<1>5. LogKeepsRoles
  BY <1>2 DEF LogKeepsRoles
<1> QED BY <1>1, <1>3, <1>4, <1>5 DEF IInv

\* What taking back the last record leaves of the log.
LEMMA LogAfterUndo ==
    ASSUME TypeOK, Undo
    PROVE  /\ Len(substitutionLog) \in Nat \ {0}
           /\ Len(substitutionLog) \in Entries
           /\ LastRecord \in Records
           /\ substitutionLog' \in Seq(Records)
           /\ Len(substitutionLog') = Len(substitutionLog) - 1
           /\ Entries' = Entries \ {Len(substitutionLog)}
           /\ \A i \in Entries' : substitutionLog'[i] = substitutionLog[i]
<1> DEFINE n == Len(substitutionLog)
<1>1. substitutionLog \in Seq(Records) /\ substitutionLog # <<>>
  BY DEF TypeOK, Undo
<1>2. n \in Nat \ {0} /\ n \in Entries
  BY <1>1, EmptySeq DEF Entries
<1>3. LastRecord \in Records
  BY <1>1, <1>2, ElementOfSeq DEF LastRecord
<1>4. substitutionLog' = SubSeq(substitutionLog, 1, n - 1)
  BY DEF Undo
<1>5. /\ substitutionLog' \in Seq(Records)
      /\ Len(substitutionLog') = n - 1
      /\ \A i \in 1..(n - 1) : substitutionLog'[i] = substitutionLog[i]
  <2> HIDE DEF n
  <2>1. \A k \in 1..(n - 1) : substitutionLog[k] \in Records
    BY <1>1, <1>2, ElementOfSeq DEF n
  <2>2. 1 \in Int /\ n - 1 \in Int
    BY <1>2
  <2> QED BY <1>1, <1>2, <1>4, <2>1, <2>2, SubSeqProperties
<1>6. Entries' = 1..(n - 1) /\ Entries' = Entries \ {n}
  BY <1>2, <1>5 DEF Entries
<1> QED BY <1>2, <1>3, <1>5, <1>6

LEMMA NextIInv == IInv /\ [Next]_vars => IInv'
<1> SUFFICES ASSUME IInv, [Next]_vars PROVE IInv'
  OBVIOUS
<1> USE DEF IInv
<1>1. ASSUME NEW s \in Slots, NEW p \in Profiles,
             DropFromBench(s, p) \/ KeySubstitution(s, p)
      PROVE  IInv'
  BY <1>1, SubstituteIInv DEF DropFromBench, KeySubstitution, FreshFlags
<1>2. ASSUME NEW s \in Slots, NEW t \in Slots, s # t, Swap(s, t)
      PROVE  IInv'
  <2>1. players' \in [Slots -> Profiles]
    BY <1>2 DEF Swap, TypeOK
  <2>2. TypeOK'
    BY <1>2, <2>1 DEF Swap, TypeOK
  <2>3. /\ players'[s] = players[t] /\ players'[t] = players[s]
        /\ \A u \in Slots \ {s, t} : players'[u] = players[u]
    BY <1>2 DEF Swap, TypeOK
  <2>4. players[s] \in Keepers <=> players[t] \in Keepers
    BY <1>2 DEF Swap
  <2>5. KeeperKeepsGoal'
    BY <2>3, <2>4 DEF KeeperKeepsGoal, KeeperSlots
  <2>6. SubstitutionsAreCounted' /\ LogKeepsRoles'
    BY <1>2 DEF Swap, SubstitutionsAreCounted, substitutionLimit, LogKeepsRoles,
                Entries, KeeperSlots
  <2> QED BY <2>2, <2>5, <2>6
<1>3. CASE Undo
  <2>1. /\ LastRecord.slot \in Slots
        /\ LastRecord.outgoing \in Profiles /\ LastRecord.incoming \in Profiles
    BY <1>3, LogAfterUndo DEF Records
  <2>2. LastRecord.outgoing \in Keepers <=> LastRecord.slot \in KeeperSlots
    BY <1>3, LogAfterUndo DEF LogKeepsRoles, LastRecord
  <2>3. substitutionsUsed' = Len(substitutionLog')
        /\ substitutionsUsed' \in Nat /\ substitutionsUsed' <= substitutionsUsed
    BY <1>3, LogAfterUndo DEF Undo, TypeOK, SubstitutionsAreCounted
  <2>4. TypeOK'
    <3>1. substitutionsUsed' \in 0..(SubLimit + MaxBonus)
      BY <2>3, LimitAssumption DEF TypeOK
    <3>2. players' \in [Slots -> Profiles]
      BY <1>3, <2>1 DEF Undo, TypeOK
    <3> QED BY <1>3, <2>1, <3>1, <3>2, LogAfterUndo DEF Undo, TypeOK
  <2>5. SubstitutionsAreCounted'
    BY <1>3, <2>3, LimitAssumption
    DEF Undo, TypeOK, SubstitutionsAreCounted, substitutionLimit
  <2>6. KeeperKeepsGoal'
    BY <1>3, <2>1, <2>2 DEF Undo, TypeOK, KeeperKeepsGoal, KeeperSlots
  <2>7. LogKeepsRoles'
    BY <1>3, LogAfterUndo DEF LogKeepsRoles, KeeperSlots
  <2> QED BY <2>4, <2>5, <2>6, <2>7
<1>4. ASSUME NEW s \in Slots, SendOff(s) \/ Injure(s)
      PROVE  IInv'
  <2>1. players[s] \in Profiles
    BY DEF TypeOK
  <2>2. TypeOK'
    BY <1>4, <2>1 DEF SendOff, Injure, lineup, TypeOK
  <2> QED BY <1>4, <2>2
          DEF SendOff, Injure, lineup, SubstitutionsAreCounted, substitutionLimit,
              KeeperKeepsGoal, LogKeepsRoles, Entries, KeeperSlots
<1>5. CASE OpponentInjured
  BY <1>5, LimitAssumption
  DEF OpponentInjured, lineup, TypeOK, SubstitutionsAreCounted, substitutionLimit,
      KeeperKeepsGoal, LogKeepsRoles, Entries, KeeperSlots
<1>6. CASE RemoveInjured
  BY <1>6
  DEF RemoveInjured, lineup, TypeOK, SubstitutionsAreCounted, substitutionLimit,
      KeeperKeepsGoal, LogKeepsRoles, Entries, KeeperSlots
<1>7. CASE ForcedSubstitution
  <2>1. PICK s \in SlotOf(victim), p \in Replacements : Substitute(s, p) /\ FreshFlags(p)
    BY <1>7 DEF ForcedSubstitution
  <2>2. s \in Slots /\ p \in Profiles
    BY DEF SlotOf, Replacements, TypeOK
  <2> QED BY <1>7, <2>1, <2>2, SubstituteIInv DEF ForcedSubstitution, FreshFlags
<1>8. CASE UNCHANGED vars
  BY <1>8
  DEF vars, TypeOK, SubstitutionsAreCounted, substitutionLimit,
      KeeperKeepsGoal, LogKeepsRoles, Entries, KeeperSlots
<1> QED BY <1>1, <1>2, <1>3, <1>4, <1>5, <1>6, <1>7, <1>8 DEF Next

LEMMA Invariance == Spec => []IInv
BY InitIInv, NextIInv, PTL DEF Spec

-----------------------------------------------------------------------------
\* Every reachable squad is well typed.
THEOREM TypeCorrect == Spec => []TypeOK
<1>1. IInv => TypeOK
  BY DEF IInv
<1> QED BY <1>1, Invariance, PTL

\* No sequence of substitutions, refunds, injuries and cards makes the count
\* differ from the log or exceed the limit.
THEOREM CountedSubstitutions == Spec => []SubstitutionsAreCounted
<1>1. IInv => SubstitutionsAreCounted
  BY DEF IInv
<1> QED BY <1>1, Invariance, PTL

\* Goalkeepers are the ones in goal, however the panel is used.
THEOREM KeepersInGoal == Spec => []KeeperKeepsGoal
<1>1. IInv => KeeperKeepsGoal
  BY DEF IInv
<1> QED BY <1>1, Invariance, PTL

-----------------------------------------------------------------------------
LEMMA EntriesAreRecords ==
    ASSUME TypeOK
    PROVE  \A i \in Entries : substitutionLog[i] \in Records /\ substitutionLog[i].slot \in Slots
<1> SUFFICES ASSUME NEW i \in Entries
             PROVE  substitutionLog[i] \in Records /\ substitutionLog[i].slot \in Slots
  OBVIOUS
<1>1. substitutionLog[i] \in Records
  BY ElementOfSeq DEF TypeOK, Entries
<1> QED BY <1>1 DEF Records

\* One substitution: the player leaves his slot for those substituted, the
\* other one comes from the bench, and the log stays a stack.
LEMMA SubstitutePlaces ==
    ASSUME IInv, PlacesInv, NEW s \in Slots, NEW p \in Profiles, Substitute(s, p)
    PROVE  PlacesInv'
<1> DEFINE n == Len(substitutionLog)
           r == [slot |-> s, outgoing |-> players[s], incoming |-> p]
<1>1. /\ players \in [Slots -> Profiles] /\ substitutionLog \in Seq(Records)
      /\ n \in Nat /\ r \in Records
  BY DEF IInv, TypeOK, Records
<1>2. /\ substitutionLog' = Append(substitutionLog, r)
      /\ substitutedOut' = substitutedOut \cup {players[s]}
      /\ bench' = bench \ {p} /\ p \in bench
      /\ players' = [players EXCEPT ![s] = p]
  BY DEF Substitute
<1>3. /\ Len(substitutionLog') = n + 1
      /\ \A i \in 1..n : substitutionLog'[i] = substitutionLog[i]
      /\ substitutionLog'[n + 1] = r
  BY <1>1, <1>2, AppendProperties
<1>4. Entries = 1..n /\ Entries' = 1..(n + 1)
  BY <1>1, <1>3 DEF Entries
<1>5. players'[s] = p /\ \A t \in Slots \ {s} : players'[t] = players[t]
  BY <1>1, <1>2
<1>6. /\ \A t \in Slots : players[t] \in OnPitch
      /\ \A t, u \in Slots : players[t] = players[u] => t = u
      /\ bench \cap OnPitch = {}
      /\ substitutedOut \cap (bench \cup OnPitch) = {}
      /\ Profiles = OnPitch \cup bench \cup substitutedOut
  BY DEF PlacesInv, NobodyIsLost, OnPitch
<1>7. OnPitch' = (OnPitch \ {players[s]}) \cup {p}
  BY <1>5, <1>6 DEF OnPitch
<1>8. NobodyIsLost'
  <2>1. \A t, u \in Slots : players'[t] = players'[u] => t = u
    BY <1>2, <1>5, <1>6
  <2>2. bench' \cap OnPitch' = {}
    BY <1>2, <1>6, <1>7
  <2>3. substitutedOut' \cap (bench' \cup OnPitch') = {}
    BY <1>2, <1>6, <1>7
  <2>4. Profiles = OnPitch' \cup bench' \cup substitutedOut'
    BY <1>2, <1>6, <1>7
  <2> QED BY <2>1, <2>2, <2>3, <2>4 DEF NobodyIsLost
<1>9. ASSUME "undo" \in Paths PROVE LogIsStack'
  <2> HIDE DEF n, r
  <2>1. /\ \A i \in 1..n : substitutionLog[i].outgoing \in substitutedOut
        /\ \A i, j \in 1..n :
             substitutionLog[i].outgoing = substitutionLog[j].outgoing => i = j
        /\ \A i \in 1..n :
             Latest(i) => players[substitutionLog[i].slot] = substitutionLog[i].incoming
        /\ \A i, j \in 1..n :
             Adjacent(i, j) => substitutionLog[j].outgoing = substitutionLog[i].incoming
    BY <1>4, <1>9 DEF PlacesInv, LogIsStack
  <2>2. r.slot = s /\ r.outgoing = players[s] /\ r.incoming = p
    BY DEF r
  <2>3. \A i \in 1..n : substitutionLog[i].slot \in Slots
    BY <1>4, EntriesAreRecords DEF IInv
  <2>4. \A i \in 1..(n + 1) : i \in 1..n \/ i = n + 1
    BY <1>1
  <2>5. \A i \in Entries' : substitutionLog'[i].outgoing \in substitutedOut'
    BY <1>2, <1>3, <1>4, <2>1, <2>2, <2>4
  <2>6. \A i \in 1..n : substitutionLog[i].outgoing # players[s]
    BY <1>6, <2>1
  <2>7. \A i, j \in Entries' :
           substitutionLog'[i].outgoing = substitutionLog'[j].outgoing => i = j
    BY <1>3, <1>4, <2>1, <2>2, <2>4, <2>6
  <2>8. \A i \in 1..n : Latest(i)' =>
           Latest(i) /\ substitutionLog[i].slot # s
    <3> SUFFICES ASSUME NEW i \in 1..n, Latest(i)'
                 PROVE  Latest(i) /\ substitutionLog[i].slot # s
      OBVIOUS
    <3>1. \A j \in 1..(n + 1) : i < j => substitutionLog'[j].slot # substitutionLog'[i].slot
      BY <1>4 DEF Latest
    <3>2. n + 1 \in 1..(n + 1) /\ i < n + 1 /\ \A j \in 1..n : j \in 1..(n + 1)
      BY <1>1
    <3> QED BY <1>3, <1>4, <2>2, <3>1, <3>2 DEF Latest
  <2>9. \A i \in Entries' :
           Latest(i)' => players'[substitutionLog'[i].slot] = substitutionLog'[i].incoming
    BY <1>3, <1>4, <1>5, <2>1, <2>2, <2>3, <2>4, <2>8
  <2>10. ASSUME NEW i \in Entries', NEW j \in Entries', Adjacent(i, j)'
         PROVE  substitutionLog'[j].outgoing = substitutionLog'[i].incoming
    <3>1. /\ i < j
          /\ substitutionLog'[i].slot = substitutionLog'[j].slot
          /\ \A k \in 1..(n + 1) :
               i < k /\ k < j => substitutionLog'[k].slot # substitutionLog'[j].slot
      BY <1>4, <2>10 DEF Adjacent
    <3>2. i \in 1..n
      BY <1>1, <1>4, <3>1
    <3>3. \A k \in 1..n : k \in 1..(n + 1) /\ k < n + 1
      BY <1>1
    <3>4. CASE j \in 1..n
      <4>1. Adjacent(i, j)
        BY <1>3, <1>4, <3>1, <3>2, <3>3, <3>4 DEF Adjacent
      <4> QED BY <1>3, <2>1, <3>2, <3>4, <4>1
    <3>5. CASE j = n + 1
      <4>1. Latest(i)
        BY <1>3, <1>4, <3>1, <3>2, <3>3, <3>5 DEF Latest
      <4>2. substitutionLog[i].slot = s
        BY <1>3, <2>2, <3>1, <3>2, <3>5
      <4> QED BY <1>3, <2>1, <2>2, <3>2, <3>5, <4>1, <4>2
    <3> QED BY <1>4, <2>4, <3>4, <3>5
  <2> QED BY <2>5, <2>7, <2>9, <2>10 DEF LogIsStack
<1> QED BY <1>8, <1>9 DEF PlacesInv

\* Taking back the latest substitution undoes exactly what it did.
LEMMA UndoPlaces ==
    ASSUME IInv, PlacesInv, Undo
    PROVE  PlacesInv'
<1> DEFINE n == Len(substitutionLog)
           r == LastRecord
<1>1. players \in [Slots -> Profiles] /\ substitutionLog \in Seq(Records)
  BY DEF IInv, TypeOK
<1>2. /\ n \in Nat \ {0} /\ n \in Entries
      /\ r \in Records /\ r = substitutionLog[n]
      /\ Entries' = Entries \ {n} /\ Entries = 1..n
      /\ \A i \in Entries' : substitutionLog'[i] = substitutionLog[i]
  BY LogAfterUndo DEF IInv, LastRecord, Entries
<1>3. /\ players' = [players EXCEPT ![r.slot] = r.outgoing]
      /\ bench' = bench \cup {r.incoming}
      /\ substitutedOut' = substitutedOut \ {r.outgoing}
      /\ "undo" \in Paths
  BY DEF Undo
<1> HIDE DEF n, r
<1>4. r.slot \in Slots /\ r.outgoing \in Profiles /\ r.incoming \in Profiles
  BY <1>2 DEF Records
<1>5. /\ players'[r.slot] = r.outgoing
      /\ \A t \in Slots \ {r.slot} : players'[t] = players[t]
  BY <1>1, <1>3, <1>4
<1>6. LogIsStack
  BY <1>3 DEF PlacesInv
<1>7. players[r.slot] = r.incoming /\ r.outgoing \in substitutedOut
  <2>1. Latest(n)
    BY <1>2 DEF Latest
  <2> QED BY <1>2, <1>6, <2>1 DEF LogIsStack
<1>8. /\ \A t \in Slots : players[t] \in OnPitch
      /\ \A t, u \in Slots : players[t] = players[u] => t = u
      /\ bench \cap OnPitch = {}
      /\ substitutedOut \cap (bench \cup OnPitch) = {}
      /\ Profiles = OnPitch \cup bench \cup substitutedOut
  BY DEF PlacesInv, NobodyIsLost, OnPitch
<1>9. OnPitch' = (OnPitch \ {r.incoming}) \cup {r.outgoing}
  BY <1>4, <1>5, <1>7, <1>8 DEF OnPitch
<1>10. NobodyIsLost'
  <2>1. \A t, u \in Slots : players'[t] = players'[u] => t = u
    BY <1>5, <1>7, <1>8
  <2>2. bench' \cap OnPitch' = {}
    BY <1>3, <1>4, <1>7, <1>8, <1>9
  <2>3. substitutedOut' \cap (bench' \cup OnPitch') = {}
    BY <1>3, <1>4, <1>7, <1>8, <1>9
  <2>4. Profiles = OnPitch' \cup bench' \cup substitutedOut'
    BY <1>3, <1>4, <1>7, <1>8, <1>9
  <2> QED BY <2>1, <2>2, <2>3, <2>4 DEF NobodyIsLost
<1>11. LogIsStack'
  <2>1. \A i \in Entries' : i \in Entries /\ i # n /\ i < n
    BY <1>2
  <2>2. \A i \in Entries' : substitutionLog[i].slot \in Slots
    BY <2>1, EntriesAreRecords DEF IInv
  <2>3. \A i \in Entries' : substitutionLog'[i].outgoing \in substitutedOut'
    BY <1>2, <1>3, <1>6, <2>1 DEF LogIsStack
  <2>4. \A i, j \in Entries' :
           substitutionLog'[i].outgoing = substitutionLog'[j].outgoing => i = j
    BY <1>2, <1>6, <2>1 DEF LogIsStack
  <2>5. ASSUME NEW i \in Entries', Latest(i)'
        PROVE  players'[substitutionLog'[i].slot] = substitutionLog'[i].incoming
    <3>1. \A j \in Entries' : i < j => substitutionLog[j].slot # substitutionLog[i].slot
      BY <1>2, <2>5 DEF Latest
    <3>2. CASE substitutionLog[i].slot = r.slot
      <4>1. Adjacent(i, n)
        BY <1>2, <2>1, <3>1, <3>2 DEF Adjacent
      <4>2. r.outgoing = substitutionLog[i].incoming
        BY <1>2, <1>6, <2>1, <4>1 DEF LogIsStack
      <4> QED BY <1>2, <1>5, <3>2, <4>2
    <3>3. CASE substitutionLog[i].slot # r.slot
      <4>1. Latest(i)
        BY <1>2, <3>1, <3>3 DEF Latest
      <4> QED BY <1>2, <1>5, <1>6, <2>1, <2>2, <3>3, <4>1 DEF LogIsStack
    <3> QED BY <3>2, <3>3
  <2>6. ASSUME NEW i \in Entries', NEW j \in Entries', Adjacent(i, j)'
        PROVE  substitutionLog'[j].outgoing = substitutionLog'[i].incoming
    <3>1. Adjacent(i, j)
      BY <1>2, <2>1, <2>6 DEF Adjacent
    <3> QED BY <1>2, <1>6, <2>1, <3>1 DEF LogIsStack
  <2> QED BY <2>3, <2>4, <2>5, <2>6 DEF LogIsStack
<1> QED BY <1>10, <1>11 DEF PlacesInv

LEMMA InitPlaces == Init => PlacesInv
<1> SUFFICES ASSUME Init PROVE PlacesInv
  OBVIOUS
<1>1. Entries = {}
  BY DEF Init, Entries
<1>2. LogIsStack
  BY <1>1 DEF LogIsStack
<1>3. NobodyIsLost
  BY StartingAssumption DEF Init, NobodyIsLost, OnPitch
<1> QED BY <1>2, <1>3 DEF PlacesInv

LEMMA NextPlaces ==
    ASSUME ~({"swap", "undo"} \subseteq Paths)
    PROVE  IInv /\ PlacesInv /\ [Next]_vars => PlacesInv'
<1> SUFFICES ASSUME IInv, PlacesInv, [Next]_vars PROVE PlacesInv'
  OBVIOUS
<1>1. ASSUME NEW s \in Slots, NEW p \in Profiles,
             DropFromBench(s, p) \/ KeySubstitution(s, p)
      PROVE  PlacesInv'
  BY <1>1, SubstitutePlaces DEF DropFromBench, KeySubstitution
<1>2. ASSUME NEW s \in Slots, NEW t \in Slots, s # t, Swap(s, t)
      PROVE  PlacesInv'
  <2>1. "undo" \notin Paths
    BY <1>2 DEF Swap
  <2>2. players \in [Slots -> Profiles]
    BY DEF IInv, TypeOK
  <2>3. /\ players'[s] = players[t] /\ players'[t] = players[s]
        /\ \A u \in Slots \ {s, t} : players'[u] = players[u]
        /\ UNCHANGED <<bench, substitutedOut>>
    BY <1>2, <2>2 DEF Swap
  <2>4. \A u \in Slots : \E v \in Slots : players[u] = players'[v]
    BY <2>3
  <2>5. \A u \in Slots : \E v \in Slots : players'[u] = players[v]
    BY <2>3
  <2>6. OnPitch' = OnPitch
    BY <2>4, <2>5 DEF OnPitch
  <2>7. \A u, v \in Slots : players'[u] = players'[v] => u = v
    BY <2>3 DEF PlacesInv, NobodyIsLost
  <2> QED BY <2>1, <2>3, <2>6, <2>7 DEF PlacesInv, NobodyIsLost
<1>3. CASE Undo
  BY <1>3, UndoPlaces
<1>4. CASE ForcedSubstitution
  <2>1. PICK s \in SlotOf(victim), p \in Replacements : Substitute(s, p)
    BY <1>4 DEF ForcedSubstitution
  <2>2. s \in Slots /\ p \in Profiles
    BY DEF SlotOf, Replacements, IInv, TypeOK
  <2> QED BY <2>1, <2>2, SubstitutePlaces
<1>5. ASSUME UNCHANGED lineup PROVE PlacesInv'
  BY <1>5 DEF lineup, PlacesInv, NobodyIsLost, OnPitch, LogIsStack, Entries,
              Latest, Adjacent
<1>6. CASE UNCHANGED vars
  BY <1>5, <1>6 DEF vars, lineup
<1>7. ASSUME NEW s \in Slots, SendOff(s) \/ Injure(s) PROVE PlacesInv'
  BY <1>5, <1>7 DEF SendOff, Injure
<1>8. CASE OpponentInjured
  BY <1>5, <1>8 DEF OpponentInjured
<1>9. CASE RemoveInjured
  BY <1>5, <1>9 DEF RemoveInjured
<1> QED BY <1>1, <1>2, <1>3, <1>4, <1>6, <1>7, <1>8, <1>9 DEF Next

\* Nobody is lost or plays twice as long as swapping and taking back are not
\* used together; run SquadUndoSwap shows what happens when they are.
THEOREM EverybodyHasAPlace ==
    ASSUME ~({"swap", "undo"} \subseteq Paths)
    PROVE  Spec => []NobodyIsLost
<1>1. IInv /\ PlacesInv /\ [Next]_vars => PlacesInv'
  BY NextPlaces
<1>2. PlacesInv => NobodyIsLost
  BY DEF PlacesInv
<1> QED BY <1>1, <1>2, InitPlaces, Invariance, PTL DEF Spec

-----------------------------------------------------------------------------
\* What InjuredLeaves and RedCardIsForGood rest on: the injured player who waits
\* for his substitution has not been sent off, and a person who takes nothing
\* back brings no injured player on again.
FlagsInv == InjuredLeaves /\ victim \notin sentOff

\* A substitute starts with his flags unset and was not on the pitch before, so
\* that he replaces the injured player for whom the panel was opened.
LEMMA SubstituteFlags ==
    ASSUME IInv, NobodyIsLost, FlagsInv, NEW s \in Slots, NEW p \in Profiles,
           Substitute(s, p), FreshFlags(p), victim' = Nobody,
           victim # Nobody => players[s] = victim
    PROVE  FlagsInv'
<1>1. players \in [Slots -> Profiles] /\ sentOff \subseteq Profiles
  BY DEF IInv, TypeOK
<1>2. /\ players'[s] = p /\ \A t \in Slots \ {s} : players'[t] = players[t]
      /\ sentOff' = sentOff \ {p} /\ injured' = injured \ {p}
  BY <1>1 DEF Substitute, FreshFlags
<1>3. \A t \in Slots \ {s} : players[t] # p /\ players[t] # players[s]
  BY DEF NobodyIsLost, OnPitch, Substitute
<1>4. ASSUME NEW t \in Slots, players'[t] \notin sentOff', players'[t] \in injured'
      PROVE  FALSE
  <2>1. t # s /\ players'[t] = players[t]
    BY <1>2, <1>4
  <2>2. players[t] = victim
    BY <1>2, <1>3, <1>4, <2>1 DEF FlagsInv, InjuredLeaves, Playing
  <2>3. players[t] \in Profiles
    BY <1>1
  <2> QED BY <1>3, <2>1, <2>2, <2>3, SquadAssumption
<1>5. victim' \notin sentOff'
  BY <1>1, <1>2, SquadAssumption
<1> QED BY <1>4, <1>5 DEF FlagsInv, InjuredLeaves, Playing

LEMMA NextFlags ==
    ASSUME "undo" \notin Paths
    PROVE  IInv /\ NobodyIsLost /\ FlagsInv /\ [Next]_vars => FlagsInv'
<1> SUFFICES ASSUME IInv, NobodyIsLost, FlagsInv, [Next]_vars PROVE FlagsInv'
  OBVIOUS
<1>0. players \in [Slots -> Profiles] /\ Nobody \notin Profiles /\ sentOff \subseteq Profiles
  BY SquadAssumption DEF IInv, TypeOK
<1>1. ASSUME NEW s \in Slots, NEW p \in Profiles,
             DropFromBench(s, p) \/ KeySubstitution(s, p)
      PROVE  FlagsInv'
  BY <1>1, SubstituteFlags DEF DropFromBench, DropAllowed, KeySubstitution
<1>2. ASSUME NEW s \in Slots, NEW t \in Slots, s # t, Swap(s, t)
      PROVE  FlagsInv'
  <2>1. /\ players'[s] = players[t] /\ players'[t] = players[s]
        /\ \A u \in Slots \ {s, t} : players'[u] = players[u]
        /\ UNCHANGED <<sentOff, injured, victim>>
    BY <1>0, <1>2 DEF Swap
  <2>2. \A u \in Slots : \E v \in Slots : players'[u] = players[v]
    BY <2>1
  <2> QED BY <2>1, <2>2 DEF FlagsInv, InjuredLeaves, Playing
<1>3. ~Undo
  BY DEF Undo
<1>4. ASSUME NEW s \in Slots, SendOff(s)
      PROVE  FlagsInv'
  BY <1>0, <1>4 DEF SendOff, lineup, FlagsInv, InjuredLeaves, Playing
<1>5. ASSUME NEW s \in Slots, Injure(s)
      PROVE  FlagsInv'
  <2>1. \A t \in Slots \ {s} : players[t] # players[s]
    BY DEF NobodyIsLost
  <2> QED BY <1>0, <1>5, <2>1 DEF Injure, lineup, FlagsInv, InjuredLeaves, Playing
<1>6. CASE OpponentInjured
  BY <1>6 DEF OpponentInjured, lineup, FlagsInv, InjuredLeaves, Playing
<1>7. CASE RemoveInjured
  BY <1>0, <1>7 DEF RemoveInjured, lineup, FlagsInv, InjuredLeaves, Playing
<1>8. CASE ForcedSubstitution
  <2>1. PICK s \in SlotOf(victim), p \in Replacements : Substitute(s, p) /\ FreshFlags(p)
    BY <1>8 DEF ForcedSubstitution
  <2>2. s \in Slots /\ players[s] = victim /\ p \in Profiles /\ victim' = Nobody
    BY <1>8 DEF SlotOf, Replacements, ForcedSubstitution, IInv, TypeOK
  <2> QED BY <2>1, <2>2, SubstituteFlags
<1>9. CASE UNCHANGED vars
  BY <1>9 DEF vars, FlagsInv, InjuredLeaves, Playing
<1> QED BY <1>1, <1>2, <1>3, <1>4, <1>5, <1>6, <1>7, <1>8, <1>9 DEF Next

\* An injured player does not go on playing as long as nothing is taken back.
THEOREM InjuredPlayersLeave ==
    ASSUME "undo" \notin Paths
    PROVE  Spec => []InjuredLeaves
<1>1. Init => FlagsInv
  BY SquadAssumption DEF Init, FlagsInv, InjuredLeaves, Playing
<1>2. IInv /\ NobodyIsLost /\ FlagsInv /\ [Next]_vars => FlagsInv'
  BY NextFlags
<1>3. Spec => []NobodyIsLost
  BY EverybodyHasAPlace
<1>4. FlagsInv => InjuredLeaves
  BY DEF FlagsInv
<1> QED BY <1>1, <1>2, <1>3, <1>4, Invariance, PTL DEF Spec

\* No step gives a team back the man it lost, as long as its squad is changed by
\* dragging only: the keyboard may replace a player who was sent off.
THEOREM RedCardsLast ==
    ASSUME Paths \subseteq {"drag", "swap"}
    PROVE  Spec => RedCardIsForGood
<1>1. IInv /\ NobodyIsLost /\ FlagsInv /\ [Next]_vars => [Playing' \subseteq Playing]_vars
  <2> SUFFICES ASSUME IInv, NobodyIsLost, FlagsInv, Next PROVE Playing' \subseteq Playing
    OBVIOUS
  <2>0. players \in [Slots -> Profiles]
    BY DEF IInv, TypeOK
  <2>1. ASSUME NEW s \in Slots, NEW p \in Profiles, Substitute(s, p), FreshFlags(p),
               players[s] \notin sentOff
        PROVE  Playing' \subseteq Playing
    <3>1. /\ \A t \in Slots \ {s} : players'[t] = players[t] /\ players[t] # p
          /\ sentOff' = sentOff \ {p}
      BY <2>0, <2>1 DEF Substitute, FreshFlags, NobodyIsLost, OnPitch
    <3> QED BY <2>1, <3>1 DEF Playing
  <2>2. ASSUME NEW s \in Slots, NEW p \in Profiles, DropFromBench(s, p)
        PROVE  Playing' \subseteq Playing
    BY <2>1, <2>2 DEF DropFromBench, DropAllowed
  <2>3. ASSUME NEW s \in Slots, NEW p \in Profiles PROVE ~KeySubstitution(s, p)
    BY DEF KeySubstitution
  <2>4. ASSUME NEW s \in Slots, NEW t \in Slots, s # t, Swap(s, t)
        PROVE  Playing' \subseteq Playing
    BY <2>0, <2>4 DEF Swap, Playing
  <2>5. ~Undo
    BY DEF Undo
  <2>6. ASSUME NEW s \in Slots, SendOff(s) \/ Injure(s)
        PROVE  Playing' \subseteq Playing
    BY <2>6 DEF SendOff, Injure, lineup, Playing
  <2>7. CASE OpponentInjured
    BY <2>7 DEF OpponentInjured, lineup, Playing
  <2>8. CASE RemoveInjured
    BY <2>8 DEF RemoveInjured, lineup, Playing
  <2>9. CASE ForcedSubstitution
    <3>1. PICK s \in SlotOf(victim), p \in Replacements : Substitute(s, p) /\ FreshFlags(p)
      BY <2>9 DEF ForcedSubstitution
    <3>2. s \in Slots /\ p \in Profiles /\ players[s] \notin sentOff
      BY DEF SlotOf, Replacements, FlagsInv, IInv, TypeOK
    <3> QED BY <2>1, <3>1, <3>2
  <2> QED BY <2>2, <2>3, <2>4, <2>5, <2>6, <2>7, <2>8, <2>9 DEF Next
<1>2. "undo" \notin Paths
  OBVIOUS
<1>3. Spec => []NobodyIsLost
  BY <1>2, EverybodyHasAPlace
<1>4. Init => FlagsInv
  BY SquadAssumption DEF Init, FlagsInv, InjuredLeaves, Playing
<1>5. IInv /\ NobodyIsLost /\ FlagsInv /\ [Next]_vars => FlagsInv'
  BY <1>2, NextFlags
<1> QED BY <1>1, <1>3, <1>4, <1>5, Invariance, PTL DEF Spec, RedCardIsForGood
=============================================================================
