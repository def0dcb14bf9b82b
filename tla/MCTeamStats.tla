---------------------------- MODULE MCTeamStats ----------------------------
(* Three teammates: a first, a middle and a last place, with ties. The box  *)
(* scores differ in every stat that counts, and one leads in none.          *)
EXTENDS TeamStats

CONSTANTS p1, p2, p3

MCPlayers == {p1, p2, p3}
MCSymmetry == Permutations(MCPlayers)

Box(fg2, three, ft, reb, ast, stl, blk, tov, pf) ==
  [points |-> 2 * fg2[1] + 3 * three[1] + ft[1], rebounds |-> reb, assists |-> ast,
   steals |-> stl, blocks |-> blk, turnovers |-> tov, fouls |-> pf,
   fg2_made |-> fg2[1], fg2_attempted |-> fg2[2],
   three_made |-> three[1], three_attempted |-> three[2],
   ft_made |-> ft[1], ft_attempted |-> ft[2]]

MCBoxScores ==
  {Box(<<3, 4>>, <<0, 1>>, <<1, 2>>, 2, 4, 1, 0, 3, 2),   \* a guard who passes
   Box(<<1, 3>>, <<2, 4>>, <<0, 0>>, 1, 1, 2, 0, 1, 1),   \* a shooter
   Box(<<4, 5>>, <<0, 0>>, <<1, 3>>, 6, 0, 0, 2, 2, 4),   \* a big
   Box(<<4, 4>>, <<1, 2>>, <<2, 2>>, 2, 5, 2, 1, 0, 0),   \* the guard's good day
   Box(<<0, 1>>, <<0, 0>>, <<0, 0>>, 0, 0, 0, 0, 0, 0)}   \* a few minutes
=============================================================================
