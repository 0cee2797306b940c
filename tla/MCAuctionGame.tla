--------------------------- MODULE MCAuctionGame ---------------------------
(* Instances of AuctionGame for TLC. *)
EXTENDS AuctionGame, TLC

\* Two items, the second one dearer.
MCStartPrice == <<1000, 2500>>

\* An auction that is repeated: the first item was sold the last time, the second
\* was passed in.
CONSTANT u1
MCRowIsSold == <<TRUE, FALSE>>
MCRowBuyerId == <<u1, None>>

\* A room whose owner does not use the console.
WithoutConsole == Init /\ [][Lifecycle \/ Bidding \/ Finished]_vars
=============================================================================
