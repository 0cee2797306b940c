----------------------------- MODULE MCCatalogue ----------------------------
(* Instances of Catalogue for TLC. *)
EXTENDS Catalogue

CONSTANTS seller, buyer

\* All auctions, two on a page, and what the buyer has bought, one on a page.
TwoLists ==
    {[list |-> "auctions", user |-> Nobody, take |-> 2],
     [list |-> "purchases", user |-> buyer, take |-> 1]}
=============================================================================
