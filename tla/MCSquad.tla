------------------------------ MODULE MCSquad -------------------------------
(***************************************************************************)
(* Small squads for TLC: a goalkeeper and two players start; the bench has *)
(* another goalkeeper and two more players.                                *)
(***************************************************************************)
EXTENDS Squad

MCSlots == 1..3
MCProfiles == {"keeper", "back", "wing", "keeper2", "sub1", "sub2"}
MCKeepers == {"keeper", "keeper2"}
MCStarting == <<"keeper", "back", "wing">>
=============================================================================
