---------------------------- MODULE MC_Bootstrap ----------------------------
(* Instances of Bootstrap for TLC. *)
EXTENDS Bootstrap

\* Behaviours in which nothing goes wrong before all nodes serve.
LateMishaps == Init /\ [][Next /\ (mishaps' = mishaps \/ Live = Nodes)]_vars /\ Fairness
=============================================================================
