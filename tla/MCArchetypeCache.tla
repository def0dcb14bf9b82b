-------------------------- MODULE MCArchetypeCache --------------------------
(* Two teammates and racing requests, around the threshold of MinGames, with *)
(* one wipe of the database.                                                 *)
EXTENDS ArchetypeCache, TLC

CONSTANTS p1, p2, r1, r2

MCPlayers == {p1, p2}
MCRequests == {r1, r2}
MCSymmetry == Permutations(MCPlayers) \cup Permutations(MCRequests)
=============================================================================
