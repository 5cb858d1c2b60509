---------------------------- MODULE MCGameClients ----------------------------
(* Two launches of the same game in one prefix, at most three processes. *)
EXTENDS GameClients

CONSTANTS c1, c2
MCClients == {c1, c2}
=============================================================================
