------------------------- MODULE MCPrivateAuctions --------------------------
(* Instances of PrivateAuctions, and of Accounts below it, for TLC. *)
EXTENDS PrivateAuctions, TLC

CONSTANTS seller, guest, a1, a2

\* The seller has a row, and both auctions.
SellerOnly == <<seller>>
SellersOwn == [x \in Auctions |-> 1]

\* Both auctions are the seller's, and nothing else tells them apart.
AnyAuction == Permutations({a1, a2})
=============================================================================
