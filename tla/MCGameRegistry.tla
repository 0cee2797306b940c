--------------------------- MODULE MCGameRegistry ---------------------------
(* Instances of GameRegistry for TLC. *)
EXTENDS GameRegistry
=============================================================================
