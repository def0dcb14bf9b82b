----------------------------- MODULE MCAccounts -----------------------------
(* Two devices, two users. One site has a draw at home without a row of      *)
(* totals and a win away with one, spells a player in two ways, and the team  *)
(* wrongly in a third match; the other has a player twice in one table, and a *)
(* match without a result.                                                    *)
EXTENDS Accounts

MCName(name, loose) == [name |-> name, loose |-> loose, nfd |-> FALSE]
MCSeedUsers == [nikos |-> MCName("Terzis", FALSE), pavlos |-> MCName("Plytas", FALSE)]
MCRow(name, loose, stat) == [player |-> MCName(name, loose), stat |-> stat, linked |-> TRUE]
MCTotals == [player |-> MCName("Total", FALSE), stat |-> 9, linked |-> FALSE]
MCMatch(date, side, name, score, rows) ==
  LET home == IF side = 1 THEN name ELSE "Others"
      away == IF side = 1 THEN "Others" ELSE name
  IN  [date |-> date, home |-> home, away |-> away, side |-> side, score |-> score,
       page |-> <<[caption |-> "Others", side |-> 3 - side, rows |-> <<MCRow("Else", FALSE, 3)>>],
                  [caption |-> name, side |-> side, rows |-> rows]>>]
MCSites ==
  {<<MCMatch(1, 1, "Laspi", <<2, 2>>,
             <<MCRow("Terzis", TRUE, 1), MCRow("Plytas", FALSE, 2), MCRow("Guest", FALSE, 0)>>),
     MCMatch(2, 2, "Laspi", <<1, 3>>, <<MCRow("Terzis", FALSE, 0), MCTotals>>),
     MCMatch(3, 1, "Lapsi", <<4, 5>>, <<MCRow("Plytas", FALSE, 1)>>)>>,
   <<MCMatch(1, 2, "Laspi", <<1, 3>>,
             <<MCRow("Plytas", FALSE, 1), MCRow("Terzis", TRUE, 4), MCRow("Terzis", FALSE, 4)>>),
     MCMatch(2, 1, "Laspi", Missing,
             <<MCRow("Plytas", FALSE, 1), MCRow("Terzis", TRUE, 4)>>)>>}
MCProfiles == {[jersey |-> 0, position |-> "Center"], [jersey |-> 7, position |-> "Guard"]}
MCSymmetry == Permutations(Clients)
=============================================================================
