------------------------------ MODULE MCSession -----------------------------
(* Session for TLC: tabs and users are interchangeable. *)
EXTENDS Session, TLC

Symmetry == Permutations(Tabs) \cup Permutations(Users)
=============================================================================
