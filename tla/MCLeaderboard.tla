--------------------------- MODULE MCLeaderboard ---------------------------
(***************************************************************************)
(* An instance of Leaderboard for TLC: a query of three rows for a board   *)
(* of two, and four users.                                                 *)
(***************************************************************************)
EXTENDS Leaderboard

CONSTANTS ann, bob, cy, di

MCUser == {ann, bob, cy, di}
MCIdRank == [u \in MCUser |-> CASE u = ann -> 1 [] u = bob -> 2 [] u = cy -> 3 [] u = di -> 4]

\* Two users level, with a third ahead; four users, one of whom has opted out.
MCRosters ==
    {[u \in MCUser |-> IF u = di THEN NoRow ELSE Row(IF u = cy THEN 1 ELSE 0, 1)],
     [u \in MCUser |-> Row(IF u \in {ann, di} THEN 1 ELSE 0, IF u = di THEN 0 ELSE 1)]}
=============================================================================
