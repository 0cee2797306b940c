--------------------------- MODULE EnglishAuction ---------------------------
(***************************************************************************)
(* What one auction room promises its bidders, whatever the clock, the     *)
(* phases, the console and the order of the event loop's turns do: lots    *)
(* are offered one after the other; while a lot is on offer a bidder may   *)
(* take the lead by a higher price the purse can pay; when it is closed    *)
(* the leader pays the last price, once, and has bought it.  A lot without *)
(* a bid stays with whoever bought it before.                              *)
(***************************************************************************)
EXTENDS Integers

CONSTANTS
    Users, Items, StartPrice, Budget, Prices, None,
    FormerBuyer  \* item |-> who bought it in an earlier auction, or None

VARIABLES
    count,     \* how many lots the auction has
    lot,       \* the last lot offered, 0 before the first
    onOffer,   \* that lot takes bids or is about to
    bidders,   \* the users that have joined
    purse,     \* user |-> what is left to spend
    price,     \* item |-> the price bid last
    leader,    \* item |-> the user that bid it
    buyer      \* item |-> the user that bought it last

vars == <<count, lot, onOffer, bidders, purse, price, leader, buyer>>

Init ==
    /\ count \in Items \cup {0}
    /\ lot = 0
    /\ onOffer = FALSE
    /\ bidders = {}
    /\ purse = [u \in Users |-> 0]
    /\ price = StartPrice
    /\ leader = [i \in Items |-> None]
    /\ buyer = FormerBuyer

\* A user joins with the whole budget, once.
Join(u) ==
    /\ u \notin bidders
    /\ bidders' = bidders \cup {u}
    /\ purse' = [purse EXCEPT ![u] = Budget]
    /\ UNCHANGED <<count, lot, onOffer, price, leader, buyer>>

\* The next lot is put on offer.
Offer ==
    /\ ~onOffer
    /\ lot < count
    /\ lot' = lot + 1
    /\ onOffer' = TRUE
    /\ UNCHANGED <<count, bidders, purse, price, leader, buyer>>

\* A bidder takes the lead.
Raise(u, p) ==
    /\ onOffer
    /\ u \in bidders
    /\ price[lot] < p /\ p <= purse[u]
    /\ price' = [price EXCEPT ![lot] = p]
    /\ leader' = [leader EXCEPT ![lot] = u]
    /\ UNCHANGED <<count, lot, onOffer, bidders, purse, buyer>>

\* The hammer falls: the leader, if any, pays and has bought the lot.
Close ==
    /\ onOffer
    /\ onOffer' = FALSE
    /\ IF leader[lot] = None
         THEN UNCHANGED <<purse, buyer>>
         ELSE /\ price[lot] <= purse[leader[lot]]
              /\ purse' = [purse EXCEPT ![leader[lot]] = @ - price[lot]]
              /\ buyer' = [buyer EXCEPT ![lot] = leader[lot]]
    /\ UNCHANGED <<count, lot, bidders, price, leader>>

Next ==
    \/ \E u \in Users : Join(u)
    \/ Offer
    \/ \E u \in Users, p \in Prices : Raise(u, p)
    \/ Close

Spec == Init /\ [][Next]_vars
=============================================================================
