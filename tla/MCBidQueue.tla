----------------------------- MODULE MCBidQueue -----------------------------
(* Instances of BidQueue for TLC. *)
EXTENDS BidQueue
=============================================================================
