---------------------------- MODULE MCMediaRoom ----------------------------
(* Instances of MediaRoom for TLC. *)
EXTENDS MediaRoom, TLC

\* The clients are interchangeable.
ClientSymmetry == Permutations(Clients)
=============================================================================
