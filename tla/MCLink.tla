------------------------------- MODULE MCLink -------------------------------
(* One session of Link, and two with a reload between them, for TLC. *)
EXTENDS Link, TLC

Symmetry == Permutations(Client) \cup Permutations(Command)
=============================================================================
