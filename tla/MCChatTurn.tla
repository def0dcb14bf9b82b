----------------------------- MODULE MCChatTurn -----------------------------
(* One chat turn with two tool rounds, two parallel tools and two chunks a   *)
(* call: every order of text, tools, failures and disconnection occurs.      *)
EXTENDS ChatTurn
=============================================================================
