--------------------------- MODULE MCMediaStreams ---------------------------
(* Instances of MediaStreams for TLC. *)
EXTENDS MediaStreams, TLC

\* The clients are interchangeable.
AnyClient == Permutations(Clients)
=============================================================================
