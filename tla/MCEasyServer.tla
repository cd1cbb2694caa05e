---------------------------- MODULE MCEasyServer ----------------------------
(* EasyServer for TLC: the symmetries of the sets of model values.         *)
EXTENDS EasyServer, TLC

\* Sessions, handles and players are interchangeable.
Symmetry == Permutations(Session) \cup Permutations(Socket)
=============================================================================
