------------------------------ MODULE MCEtiTcp ------------------------------
(* EtiTcp with interchangeable clients: for the runs without liveness.      *)
EXTENDS EtiTcp, TLC

Symmetry == Permutations(Clients)
=============================================================================
