--------------------------- MODULE MCPlayerGames ---------------------------
(* Four lines, two of them of one day, so that a list of several pages can   *)
(* lose its order in the middle and gain a line before or after the page     *)
(* just read, and so that a search meets games with equal points.            *)
EXTENDS ChatTools

CONSTANTS p1, p2, s1, s2, g1, g2, g3, g4

MCPlayers == {p1, p2}
MCSeasons == {s1, s2}
MCGames == {g1, g2, g3, g4}
MCDate == (g1 :> 1) @@ (g2 :> 2) @@ (g3 :> 2) @@ (g4 :> 3)
MCPoints == (g1 :> 2) @@ (g2 :> 1) @@ (g3 :> 2) @@ (g4 :> 0)
MCVenue == (g1 :> "H") @@ (g2 :> "H") @@ (g3 :> "A") @@ (g4 :> "H")
MCSearch(venue, from, sort, order, limit) ==
  [venue |-> venue, from |-> from, sort |-> sort, order |-> order, limit |-> limit]
MCSearches ==
  {MCSearch("any", 0, "date", "desc", 1), MCSearch("any", 0, "points", "desc", 2),
   MCSearch("any", 2, "points", "asc", 1), MCSearch("H", 0, "date", "asc", 1),
   MCSearch("H", 2, "points", "desc", 2)}
MCSymmetry == Permutations(MCPlayers) \cup Permutations(MCSeasons)
=============================================================================
