---------------------------- MODULE MCMigrations ----------------------------
(* Two games with the lines of two players, who may disagree about a game;  *)
(* of one game a player may be given a line twice.                          *)
EXTENDS Migrations

CONSTANTS g1, g2, p1, p2
MCGames == {g1, g2}
MCLines == ({g1, g2} \X {p1, p2} \X {1}) \cup {<<g1, p1, 2>>}
=============================================================================
