------------------------------ MODULE BidQueue ------------------------------
(***************************************************************************)
(* The queue between the gateway and the rooms: guards/*.ts,                *)
(* GameGateway.handleNewBid, GameService.updateBidPrice and joinAuction,    *)
(* BidUpdateProcessor, and Bull as they use it.                             *)
(*                                                                         *)
(* One queue serves all rooms.  A bid is guarded when it arrives, waits in *)
(* Redis, and is run by the only worker on whatever room, run and item its *)
(* auction has by then.  The jobs outlive the process and the rooms do not.*)
(* A job whose worker died, or whose lock expired while its worker lived,  *)
(* is stalled: it goes back to the head of the queue once, a second time it*)
(* fails.  The clock and the listeners of a room are AuctionGame's, its    *)
(* loading GameRegistry's.                                                 *)
(***************************************************************************)
EXTENDS Integers, Sequences, SequencesExt, FiniteSets

CONSTANTS
    Auctions,
    Users,
    Anonymous,     \* the users whose socialType is TEST
    AnonItems,     \* the items whose canBidAnonymous is true
    Prices,
    Budget,
    MaxItems,      \* the items of an auction
    MaxBids,       \* BOUND on the bids made
    MaxRuns        \* BOUND on the rooms opened, of all auctions

Bids == 1..MaxBids
Items == 1..MaxItems
Runs == 1..MaxRuns
NoBid == 0
NoRun == 0
StartPrice == 0

ASSUME QueueInputs ==
    /\ Anonymous \subseteq Users
    /\ AnonItems \subseteq Items
    /\ Prices \subseteq Nat \ {StartPrice}
    /\ Budget \in Nat

ASSUME QueueBounds ==
    /\ MaxItems \in Nat \ {0}
    /\ MaxBids \in Nat
    /\ MaxRuns \in Nat

VARIABLES
    open,       \* auction |-> the run that auctionsMap has for it
    runs,       \* how many rooms were opened: the number of the last run
    stage,      \* auction |-> where its item is; bids are taken in "bidding" only
    item,       \* auction |-> the item on offer
    leader,     \* auction |-> the bid that leads the item
    spent,      \* auction |-> user |-> what its purchases in this run cost
    members,    \* auction |-> the keys of joinedUsers

    bid,        \* bid |-> what the job says
    place,      \* bid |-> where the job is
    wait,       \* the waiting list in Redis
    stalled,    \* the bids that were put back once

    made,       \* HISTORY: bid |-> the run and item it was made for, if it was open
    raised      \* HISTORY: bid |-> the runs and items it raised the price of, in order

roomVars == <<open, runs, stage, item, leader, spent>>
jobVars == <<bid, wait, stalled, made>>
queueVars == <<roomVars, members, jobVars, place, raised>>

-----------------------------------------------------------------------------
(* Data *)

Stages == {"announced", "bidding", "settled"}
Places == {"unmade", "waiting", "active", "stalled", "gone"}

Job == [auction : Auctions, user : Users, price : Prices]
NoJob == [auction |-> "none"]

QueueTypeOK ==
    /\ open \in [Auctions -> Runs \cup {NoRun}]
    /\ runs \in Runs \cup {NoRun}
    /\ stage \in [Auctions -> Stages]
    /\ item \in [Auctions -> Items]
    /\ leader \in [Auctions -> Bids \cup {NoBid}]
    /\ spent \in [Auctions -> [Users -> 0..Budget]]
    /\ members \in [Auctions -> SUBSET Users]
    /\ bid \in [Bids -> Job \cup {NoJob}]
    /\ place \in [Bids -> Places]
    /\ wait \in Seq(Bids)
    /\ stalled \subseteq Bids

\* isRunning
InMap(a) == open[a] # NoRun

\* currentBidItem.bidPrice
Price(a) == IF leader[a] = NoBid THEN StartPrice ELSE bid[leader[a]].price

QueueInit ==
    /\ open = [a \in Auctions |-> NoRun]
    /\ runs = 0
    /\ stage = [a \in Auctions |-> "announced"]
    /\ item = [a \in Auctions |-> 1]
    /\ leader = [a \in Auctions |-> NoBid]
    /\ spent = [a \in Auctions |-> [u \in Users |-> 0]]
    /\ members = [a \in Auctions |-> {}]
    /\ bid = [b \in Bids |-> NoJob]
    /\ place = [b \in Bids |-> "unmade"]
    /\ wait = <<>>
    /\ stalled = {}
    /\ made = [b \in Bids |-> <<NoRun, 0>>]
    /\ raised = [b \in Bids |-> <<>>]

-----------------------------------------------------------------------------
(* The rooms, as far as a bid sees them *)

\* setRunning: the map gets the room, whose context is as it was created.
OpenRoom(a) ==
    /\ ~InMap(a) /\ runs < MaxRuns
    /\ runs' = runs + 1
    /\ open' = [open EXCEPT ![a] = runs + 1]
    /\ UNCHANGED <<stage, item, leader, spent, members, jobVars, place, raised>>

\* activateBid, 5 s after the item was announced.
ActivateBid(a) ==
    /\ InMap(a) /\ stage[a] = "announced"
    /\ stage' = [stage EXCEPT ![a] = "bidding"]
    /\ UNCHANGED <<open, runs, item, leader, spent, members, jobVars, place, raised>>

\* What the leader of a has spent once the item is settled.
Charged(a) ==
    IF leader[a] = NoBid THEN spent
    ELSE [spent EXCEPT ![a][bid[leader[a]].user] = @ + bid[leader[a]].price]

\* deactivateBid and onBidEnded: the leader buys the item.
SettleItem(a) ==
    /\ InMap(a) /\ stage[a] = "bidding"
    /\ stage' = [stage EXCEPT ![a] = "settled"]
    /\ spent' = Charged(a)
    /\ UNCHANGED <<open, runs, item, leader, members, jobVars, place, raised>>

HasNextItem(a) == item[a] < MaxItems

\* setNextBidItem, when the 10 s after an item are over.
NextItem(a) ==
    /\ InMap(a) /\ stage[a] = "settled" /\ HasNextItem(a)
    /\ stage' = [stage EXCEPT ![a] = "announced"]
    /\ item' = [item EXCEPT ![a] = @ + 1]
    /\ leader' = [leader EXCEPT ![a] = NoBid]
    /\ UNCHANGED <<open, runs, spent, members, jobVars, place, raised>>

\* The map has none of the rooms of S any longer: their contexts are out of reach,
\* and stand here for the ones of the next rooms.
Drop(S) ==
    /\ open' = [a \in Auctions |-> IF a \in S THEN NoRun ELSE open[a]]
    /\ stage' = [a \in Auctions |-> IF a \in S THEN "announced" ELSE stage[a]]
    /\ item' = [a \in Auctions |-> IF a \in S THEN 1 ELSE item[a]]
    /\ leader' = [a \in Auctions |-> IF a \in S THEN NoBid ELSE leader[a]]
    /\ spent' = [a \in Auctions |-> IF a \in S THEN [u \in Users |-> 0] ELSE spent[a]]
    /\ members' = [a \in Auctions |-> IF a \in S THEN {} ELSE members[a]]

\* deleteRunning, after the last item.
CloseRoom(a) ==
    /\ InMap(a) /\ stage[a] = "settled" /\ ~HasNextItem(a)
    /\ Drop({a})
    /\ UNCHANGED <<runs, jobVars, place, raised>>

-----------------------------------------------------------------------------
(* Joining *)

\* handleJoinAuction, joinAuction: the room is looked up, and joined when the row of
\* the user has come.  A room that has left the map meanwhile is joined in vain.
Join(u, a) ==
    /\ InMap(a)
    /\ members' = [members EXCEPT ![a] = @ \cup {u}]
    /\ UNCHANGED <<roomVars, jobVars, place, raised>>

-----------------------------------------------------------------------------
(* Bids *)

\* AnonymousGuard and GameGuard: the bidder is a member of the running room, and
\* has an account unless the item on offer at this moment asks for none.
Guarded(a, u) ==
    /\ InMap(a)
    /\ u \in members[a]
    /\ item[a] \in AnonItems \/ u \notin Anonymous

\* Mutant: the newest bid is run first.
AddedLast(b) == <<b>> \o wait

\* updateBidQueue.add: behind the others.
Added(b) == Append(wait, b)

\* handleNewBid: a job with an auction and a price, and neither run nor item.
NewBid(a, u, p) ==
    /\ Guarded(a, u)
    /\ \E b \in Bids :
        /\ place[b] = "unmade"
        /\ \A c \in Bids : c < b => place[c] # "unmade"
        /\ bid' = [bid EXCEPT ![b] = [auction |-> a, user |-> u, price |-> p]]
        /\ place' = [place EXCEPT ![b] = "waiting"]
        /\ wait' = Added(b)
        /\ made' = [made EXCEPT ![b] =
                        IF stage[a] = "bidding" THEN <<open[a], item[a]>> ELSE <<NoRun, 0>>]
    /\ UNCHANGED <<roomVars, members, stalled, raised>>

\* The worker has one job at a time.
Idle == \A b \in Bids : place[b] # "active"

\* The worker takes b, the next job.
Takes(b) ==
    /\ Idle /\ wait # <<>> /\ b = Head(wait)
    /\ wait' = Tail(wait)

\* Mutant: a price like the one before will do.
AcceptableAtPrice(b) ==
    LET a == bid[b].auction IN
    /\ InMap(a) /\ bid[b].user \in members[a] /\ stage[a] = "bidding"
    /\ bid[b].price >= Price(a)
    /\ spent[a][bid[b].user] + bid[b].price <= Budget

\* Mutant: whoever is not a member has spent nothing.
AcceptableFromAnyone(b) ==
    LET a == bid[b].auction IN
    /\ InMap(a) /\ stage[a] = "bidding"
    /\ bid[b].price > Price(a)
    /\ spent[a][bid[b].user] + bid[b].price <= Budget

\* updateBid and updateEvent: there is a context, the bidder is known to it (a
\* bidder who is not makes `user.budget' throw), bids are taken, the price is
\* higher and within the budget.
Acceptable(b) ==
    LET a == bid[b].auction IN
    /\ InMap(a) /\ bid[b].user \in members[a] /\ stage[a] = "bidding"
    /\ bid[b].price > Price(a)
    /\ spent[a][bid[b].user] + bid[b].price <= Budget

\* Mutant: a job whose auction has no context never settles.
SettledIfRoom(b) == place[b] = "active" /\ InMap(bid[b].auction)

\* The handler has returned or thrown.
Settled(b) == place[b] = "active"

\* The handler raises the price of the item its auction has on offer by now.
RaisePrice(b) ==
    LET a == bid[b].auction IN
    /\ Takes(b) /\ Acceptable(b)
    /\ leader' = [leader EXCEPT ![a] = b]
    /\ raised' = [raised EXCEPT ![b] = Append(@, <<open[a], item[a]>>)]
    /\ place' = [place EXCEPT ![b] = "active"]
    /\ UNCHANGED <<open, runs, stage, item, spent, members, bid, stalled, made>>

\* The handler refuses the bid or throws; nothing retries it.
RefuseBid(b) ==
    /\ Takes(b) /\ ~Acceptable(b)
    /\ place' = [place EXCEPT ![b] = "active"]
    /\ UNCHANGED <<roomVars, members, bid, stalled, made, raised>>

\* The worker tells Redis: removeOnComplete, removeOnFail.
FinishJob(b) ==
    /\ Settled(b)
    /\ place' = [place EXCEPT ![b] = "gone"]
    /\ UNCHANGED <<roomVars, members, jobVars, raised>>

\* The lock of the job expires before its handler has ended, as the event loop or
\* Redis did not answer for 30 s: what the handler did stays done, and Redis does not
\* take the worker's word that it has.  The worker is free when the handler ends.
LockExpires(b) ==
    /\ place[b] = "active"
    /\ place' = [place EXCEPT ![b] = "stalled"]
    /\ UNCHANGED <<roomVars, members, jobVars, raised>>

-----------------------------------------------------------------------------
(* The process and Bull *)

\* The process dies: the rooms are gone, the jobs are in Redis.  The
\* job it had, or was about to be given, has no worker.
Crash ==
    /\ Drop(Auctions)
    /\ \/ /\ place' = [b \in Bids |-> IF place[b] = "active" THEN "stalled" ELSE place[b]]
          /\ UNCHANGED wait
       \/ \E b \in Bids : Takes(b) /\ place' = [place EXCEPT ![b] = "stalled"]
    /\ UNCHANGED <<runs, bid, stalled, made, raised>>

\* Bull looks for stalled jobs: back to the head the first time, failed the second
\* (maxStalledCount is 1 unless it is set).
StalledCheck(b) ==
    /\ place[b] = "stalled"
    /\ IF b \in stalled
       THEN /\ place' = [place EXCEPT ![b] = "gone"]
            /\ UNCHANGED <<wait, stalled>>
       ELSE /\ place' = [place EXCEPT ![b] = "waiting"]
            /\ wait' = <<b>> \o wait
            /\ stalled' = stalled \cup {b}
    /\ UNCHANGED <<roomVars, members, bid, made, raised>>

Worker == \E b \in Bids : RaisePrice(b) \/ RefuseBid(b) \/ FinishJob(b)

Rooms == \E a \in Auctions :
    OpenRoom(a) \/ ActivateBid(a) \/ SettleItem(a) \/ NextItem(a) \/ CloseRoom(a)

Clients ==
    \/ \E u \in Users, a \in Auctions : Join(u, a)
    \/ \E a \in Auctions, u \in Users, p \in Prices : NewBid(a, u, p)

QueueNext ==
    \/ Rooms \/ Clients \/ Worker \/ Crash
    \/ \E b \in Bids : LockExpires(b) \/ StalledCheck(b)

\* Bull's worker goes on as long as there is a job, and looks for stalled jobs.
QueueFairness ==
    /\ WF_queueVars(Worker)
    /\ \A b \in Bids : WF_queueVars(StalledCheck(b))

QueueSpec == QueueInit /\ [][QueueNext]_queueVars
FairQueueSpec == QueueSpec /\ QueueFairness

-----------------------------------------------------------------------------
(* Properties *)

\* Bids are run in the order in which they were made, over all rooms; only a bid
\* that was stalled is overtaken (README.md:143, "one after the other").
ServedInOrder ==
    \A b, c \in Bids :
        b < c /\ place[b] = "waiting" /\ place[c] \in {"active", "gone"}
            => b \in stalled

\* No bid raises the price of one item twice.  A stalled job is run again although it
\* may have raised a price: its room is gone with its worker, or the price is still
\* its own or higher, or another item is on offer, which it may raise as well
\* (queue.processor.ts:10-26, game.lifecycle.ts:187-221).
RaisedOncePerItem == \A b \in Bids : IsInjective(raised[b])

\* Whoever leads the item on offer is a member of this very run and can pay, also
\* when the bid was made, and its bidder joined, in a run before
\* (game.lifecycle.ts:187-221).
LeaderIsMember ==
    \A a \in Auctions : InMap(a) /\ stage[a] = "bidding" /\ leader[a] # NoBid =>
        LET b == bid[leader[a]] IN
        /\ b.auction = a
        /\ b.user \in members[a]
        /\ spent[a][b.user] + b.price <= Budget

\* Of two bids with one price for one item the first made leads: nobody is
\* overtaken in the queue by another room's bids, a join or a crash
\* (README.md:142-143).
FirstComeFirstServed ==
    \A a \in Auctions : InMap(a) /\ stage[a] = "bidding" /\ leader[a] # NoBid =>
        \A b \in 1..(leader[a] - 1) :
            ~ /\ bid[b].auction = a
              /\ made[b] = <<open[a], item[a]>>
              /\ bid[b].price = Price(a)
              /\ spent[a][bid[b].user] + bid[b].price <= Budget

\* Every bid that was queued is run or given up, however many others come and
\* however often the process dies (README.md:146).
EveryBidIsServed == \A b \in Bids : place[b] = "waiting" ~> place[b] = "gone"

-----------------------------------------------------------------------------
(* What a text of the repository says and the code does not do *)

\* "Anonymous user is not allowed" (anonymous.guard.ts:27-33): an anonymous user
\* never leads an item that asks for an account.  The guard looks at the item on
\* offer when the bid arrives, the bid is run on the one on offer when its turn comes.
AnonymousOnlyWhereAllowed ==
    \A a \in Auctions : InMap(a) /\ leader[a] # NoBid /\ item[a] \notin AnonItems =>
        bid[leader[a]].user \notin Anonymous
=============================================================================
