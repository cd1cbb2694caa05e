----------------------------- MODULE MCPlayers -----------------------------
(* Players for TLC: clients of a kind are interchangeable, and players.     *)
EXTENDS Players, TLC

Symmetry == Permutations(Client \ Dummy) \cup Permutations(Dummy) \cup Permutations(Player)
=============================================================================
