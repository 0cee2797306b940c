---------------------------- MODULE AuctionGame ----------------------------
(***************************************************************************)
(* One run of one auction: the AuctionGame life cycle (game/lifecycle) and *)
(* the AuctionGameContext it drives (game/context).                        *)
(*                                                                         *)
(* The program is one Node process.  A lock of BidMutex is always given    *)
(* back within the turn of the event loop that took it, so the unit of     *)
(* interleaving is the turn: a timer that fires, a bid job, an HTTP call,  *)
(* an answer of Redis.  Each of them is one action.  What is spread over   *)
(* several turns is modelled so:                                           *)
(*   - who finds the lock taken in its own turn polls with setTimeout 10;  *)
(*     Node wakes timers of one duration in the order they were set, and   *)
(*     the lock is free by then: `lockQueue' is a FIFO queue;              *)
(*   - a tick decrements, then polls, since timerInterrupt has the lock,   *)
(*     and tests the end of the phase when it wakes;                       *)
(*   - the time listener of an accepted bid polls, since updateEvent has   *)
(*     the lock; in phase 1 a listener then waits for Redis, `redisCalls'. *)
(***************************************************************************)
EXTENDS Integers, Sequences, FiniteSets

CONSTANTS
    Users,        \* the users that may join the auction
    MaxItems,     \* BOUND on the length of context.bidItems
    StartPrice,   \* item |-> AuctionItem.startPrice
    RowIsSold,    \* item |-> AuctionItem.isSold, as the row has it before the run
    RowBuyerId,   \* item |-> AuctionItem.buyerId, likewise: a former buyer
    LimitTime,    \* itemSellingLimitTime of every item: minutes * 60
    Budget,       \* auction.budget, what every user starts with
    Prices,       \* the prices of the bids that arrive
    Percents,     \* the percents of the bids that arrive, 0 for none
    Cuts,         \* the reductions calculateActualTimeReduction returns, below zero
                  \* too for a bid that follows one on a clock below zero
    Reductions,   \* the times an owner passes to reduceTime
    MaxCalls,     \* BOUND on the phase 1 listeners in flight at once
    ClockFloor,   \* BOUND: reduceTime is not called below -ClockFloor
    None          \* null

Items == 1..MaxItems

ASSUME UsersAssumption == None \notin Users
ASSUME ItemsAssumption ==
    /\ MaxItems \in Nat
    /\ StartPrice \in [Items -> Nat]
    /\ RowIsSold \in [Items -> BOOLEAN]
    /\ RowBuyerId \in [Items -> Users \cup {None}]
    /\ LimitTime \in Nat
    /\ Budget \in Nat
ASSUME InputsAssumption ==
    /\ Prices \subseteq Nat
    /\ Percents \subseteq Nat
    /\ Cuts \subseteq Int
    /\ Reductions \subseteq Nat
ASSUME TimesAssumption == None \notin Int
ASSUME BoundsAssumption == MaxCalls \in Nat /\ ClockFloor \in Nat

VARIABLES
    stage,          \* where run() is: the value of next and its position in it
    auctionStatus,  \* context.auctionStatus
    count,          \* context.bidItems.length, fixed when the room is loaded
    sequence,       \* context.sequence: currentBidItem is bidItems[sequence-1]
    joinedUsers,    \* the keys of context.joinedUsers
    budget,         \* user |-> joinedUsers.get(user).budget
    userBidPrice,   \* user |-> joinedUsers.get(user).bidPrice
    bidPrice,       \* item |-> BidItem.bidPrice
    bidderId,       \* item |-> BidItem.bidderId
    isSold,         \* item |-> BidItem.isSold
    buyerId,        \* item |-> BidItem.buyerId
    canBid,         \* currentBidItem.canBid
    clock,          \* currentBidItem.itemSellingLimitTime
    prevBidPrice,   \* context.prevBidPrice
    listener,       \* context.timeEvent: the phase and the item that set it
    resetTo,        \* item |-> `max', the closure variable of its phase 2
    lockQueue,      \* who polls for the lock: a tick, or a listener
    redisCalls      \* call |-> the time a phase 1 listener read before Redis

roomVars == <<stage, auctionStatus, count, sequence>>
userVars == <<joinedUsers, budget, userBidPrice>>
itemVars == <<bidPrice, bidderId, isSold, buyerId, prevBidPrice>>
timeVars == <<clock, listener, resetTo, lockQueue, redisCalls>>
vars == <<roomVars, userVars, itemVars, canBid, timeVars>>

-----------------------------------------------------------------------------
(* Data *)

NoListener == [phase |-> 0, item |-> 0]
Listener(p) == [phase |-> p, item |-> sequence]
Listeners == [phase: {1, 2}, item: Items]

\* The poll of a tick in lockQueue; the other entries are listeners.
TickPoll == NoListener
Checking == \E i \in DOMAIN lockQueue : lockQueue[i] = TickPoll

\* Where the phase 1 listeners, which will ask Redis, wait in lockQueue.
Phase1Polls == {i \in DOMAIN lockQueue : lockQueue[i].phase = 1}

Calls == 1..MaxCalls
FreeCalls == {c \in Calls : redisCalls[c] = None}

Stages == {"bidCreate", "ready", "phase1", "phase2", "final", "bidEnd",
           "roomDestroy", "destroyed", "terminated"}
Running == {"phase1", "phase2", "final"}
Settled == {"bidEnd", "bidCreate", "roomDestroy", "destroyed"}

RoomType ==
    /\ stage \in Stages
    /\ auctionStatus \in {"ONGOING", "ENDED", "TERMINATED"}
    /\ count \in 0..MaxItems
    /\ sequence \in 0..count
UserType ==
    /\ joinedUsers \subseteq Users
    /\ budget \in [Users -> Int]
    /\ userBidPrice \in [Users -> Nat]
ItemType ==
    /\ bidPrice \in [Items -> Nat]
    /\ bidderId \in [Items -> Users \cup {None}]
    /\ isSold \in [Items -> BOOLEAN]
    /\ buyerId \in [Items -> Users \cup {None}]
    /\ prevBidPrice \in Nat
TimeType ==
    /\ clock \in Int
    /\ listener \in Listeners \cup {NoListener}
    /\ resetTo \in [Items -> Nat]
    /\ lockQueue \in Seq(Listeners \cup {TickPoll})
    /\ redisCalls \in [Calls -> Int \cup {None}]

\* Types, with what they say of the run: no item beyond the last is ever current,
\* and every price and clock is a number.
TypeOK == RoomType /\ UserType /\ ItemType /\ canBid \in BOOLEAN /\ TimeType

\* The context is in the running map and has a current item.
HasItem == stage # "destroyed" /\ sequence >= 1

-----------------------------------------------------------------------------
(* The room *)

\* onRoomCreate: load() builds the items from the database, with no bidder.  In a
\* repeated run an item may be sold already: isSold and buyerId are the row's.
Init ==
    /\ stage = "bidCreate"
    /\ auctionStatus = "ONGOING"
    /\ count \in 0..MaxItems
    /\ sequence = 0
    /\ joinedUsers = {}
    /\ budget = [u \in Users |-> 0]
    /\ userBidPrice = [u \in Users |-> 0]
    /\ bidPrice = StartPrice
    /\ bidderId = [i \in Items |-> None]
    /\ isSold = RowIsSold
    /\ buyerId = RowBuyerId
    /\ canBid = FALSE
    /\ clock = LimitTime
    /\ prevBidPrice = 0
    /\ listener = NoListener
    /\ resetTo = [i \in Items |-> 15]
    /\ lockQueue = <<>>
    /\ redisCalls = [c \in Calls |-> None]

\* joinAuction: every user brings the whole budget; a second join is ignored.
Join(u) ==
    /\ stage # "destroyed"
    /\ u \notin joinedUsers
    /\ joinedUsers' = joinedUsers \cup {u}
    /\ budget' = [budget EXCEPT ![u] = Budget]
    /\ userBidPrice' = [userBidPrice EXCEPT ![u] = 0]
    /\ UNCHANGED <<roomVars, itemVars, canBid, timeVars>>

-----------------------------------------------------------------------------
(* The steps of one item *)

\* Mutant: the test for the end of the items is off by one.
HasNextItemOffByOne == sequence <= count

\* setNextBidItem: bidItems[sequence] exists.
HasNextItem == sequence < count

\* onBidCreate up to its delay of 5 s: the next item, with its own clock.
OnBidCreate ==
    /\ stage = "bidCreate"
    /\ HasNextItem
    /\ stage' = "ready"
    /\ sequence' = sequence + 1
    /\ clock' = LimitTime
    /\ canBid' = FALSE
    /\ UNCHANGED <<auctionStatus, count, userVars, itemVars, listener, resetTo,
                   lockQueue, redisCalls>>

\* onBidCreate of an auction without items: ternimate().
OnBidCreateNoItem ==
    /\ stage = "bidCreate"
    /\ ~HasNextItem
    /\ stage' = "terminated"
    /\ auctionStatus' = "TERMINATED"
    /\ UNCHANGED <<count, sequence, userVars, itemVars, canBid, timeVars>>

\* onBidPhase2 up to its first startTimer.
EnterPhase2 ==
    /\ stage' = "phase2"
    /\ listener' = Listener(2)
    /\ resetTo' = [resetTo EXCEPT ![sequence] = 15]

\* The end of the 5 s delay: activateBid, then onBidPhase1, which only runs its
\* timer when more than 15 s are left.
OpenBidding ==
    /\ stage = "ready"
    /\ canBid' = TRUE
    /\ IF clock > 15
         THEN /\ stage' = "phase1"
              /\ listener' = Listener(1)
              /\ UNCHANGED resetTo
         ELSE EnterPhase2
    /\ UNCHANGED <<auctionStatus, count, sequence, userVars, itemVars, clock,
                   lockQueue, redisCalls>>

\* Mutant: a countdown that guards against negative times stops a second early.
CountDownToOne(t) == IF t > 1 THEN t - 1 ELSE t

\* --itemSellingLimitTime, which goes below zero when it must.
CountDown(t) == t - 1

\* The interval of startTimer: timerInterrupt.
Tick ==
    /\ stage \in Running
    /\ ~Checking
    /\ clock' = CountDown(clock)
    /\ lockQueue' = Append(lockQueue, TickPoll)
    /\ UNCHANGED <<roomVars, userVars, itemVars, canBid, listener, resetTo,
                   redisCalls>>

\* The first in the queue wakes and finds the lock free.
Wake(w) ==
    /\ lockQueue # <<>>
    /\ Head(lockQueue) = w
    /\ lockQueue' = Tail(lockQueue)

\* Mutant: a timer's callback forgets isTerminated.
PhaseOverIgnoresTerminate(bound) == clock <= bound

\* The callback of startTimer: a phase is over at its bound, or once terminated.
PhaseOver(bound) == clock <= bound \/ auctionStatus = "TERMINATED"

CheckPhase1 ==
    /\ stage = "phase1"
    /\ Wake(TickPoll)
    /\ IF PhaseOver(15) THEN EnterPhase2 ELSE UNCHANGED <<stage, listener, resetTo>>
    /\ UNCHANGED <<auctionStatus, count, sequence, userVars, itemVars, canBid,
                   clock, redisCalls>>

CheckPhase2 ==
    /\ stage = "phase2"
    /\ Wake(TickPoll)
    /\ stage' = IF PhaseOver(6) THEN "final" ELSE stage
    /\ UNCHANGED <<auctionStatus, count, sequence, userVars, itemVars, canBid,
                   clock, listener, resetTo, redisCalls>>

KeepBidding ==
    /\ stage = "final"
    /\ Wake(TickPoll)
    /\ ~PhaseOver(0)
    /\ UNCHANGED <<roomVars, userVars, itemVars, canBid, clock, listener, resetTo,
                   redisCalls>>

\* Mutant: the winner is charged the start price.
ChargeStartPrice(b, w, price) == [b EXCEPT ![w] = @ - StartPrice[sequence]]

\* user.budget -= bidItem.bidPrice
Charge(b, w, price) == [b EXCEPT ![w] = @ - price]

\* Mutant: the reset is forgotten.
KeepUsersBidPrice(bids) == bids

\* resetUsersBidPrice
ResetUsersBidPrice(bids) == [u \in Users |-> IF u \in joinedUsers THEN 0 ELSE bids[u]]

\* The end of the last timer and onBidEnded up to its delay of 10 s.
OnBidEnded ==
    /\ stage = "final"
    /\ Wake(TickPoll)
    /\ PhaseOver(0)
    /\ stage' = "bidEnd"
    /\ canBid' = FALSE
    /\ IF bidderId[sequence] \in joinedUsers
         THEN /\ budget' = Charge(budget, bidderId[sequence], bidPrice[sequence])
              /\ buyerId' = [buyerId EXCEPT ![sequence] = bidderId[sequence]]
              /\ isSold' = [isSold EXCEPT ![sequence] = TRUE]
         ELSE UNCHANGED <<budget, buyerId, isSold>>
    /\ userBidPrice' = ResetUsersBidPrice(userBidPrice)
    /\ UNCHANGED <<auctionStatus, count, sequence, joinedUsers, bidPrice, bidderId,
                   prevBidPrice, clock, listener, resetTo, redisCalls>>

\* The end of the 10 s delay, when every poll of 10 ms is long over:
\* isAuctionEnded chooses what comes next.
AfterBidEnd ==
    /\ stage = "bidEnd"
    /\ lockQueue = <<>>
    /\ stage' = IF sequence = count THEN "roomDestroy" ELSE "bidCreate"
    /\ UNCHANGED <<auctionStatus, count, sequence, userVars, itemVars, canBid,
                   timeVars>>

\* onRoomDestroy: the context leaves the running map.
OnRoomDestroy ==
    /\ stage = "roomDestroy"
    /\ stage' = "destroyed"
    /\ auctionStatus' = "ENDED"
    /\ UNCHANGED <<count, sequence, userVars, itemVars, canBid, timeVars>>

-----------------------------------------------------------------------------
(* Bids *)

\* Mutant: the test of canBid is forgotten.
AcceptableWhenClosed(u, p) == p > bidPrice[sequence] /\ p <= budget[u]

\* Mutant: the test of the budget is forgotten.
AcceptableOnCredit(u, p) == canBid /\ p > bidPrice[sequence]

\* Mutant: a bid that equals the price takes the lead.
AcceptableAtPrice(u, p) == canBid /\ p >= bidPrice[sequence] /\ p <= budget[u]

\* updateEvent's three tests.
Acceptable(u, p) == canBid /\ p > bidPrice[sequence] /\ p <= budget[u]

\* The phase 1 listener goes on only for a bid by percent whose rise is large
\* enough for the percent it names.
MovesTime(percent, rise) ==
    /\ percent # 0
    /\ percent = 5 => rise >= 1500
    /\ percent = 10 => rise >= 3000
    /\ percent = 20 => rise >= 6000

\* What the phase 2 listener sets the clock to, m being its last value.
ResetTime(t, m) == CASE t <= 5 -> 5
                     [] t \in 6..10 -> 10
                     [] t \in 11..15 -> 15
                     [] OTHER -> m

\* BOUND: a listener that will call Redis starts only with a call to spare.
CallToSpare == Cardinality(FreeCalls) > Cardinality(Phase1Polls)

\* A phase 1 listener asks Redis for the history, knowing only `time'.
AskRedis(time) ==
    \E c \in FreeCalls :
        /\ \A d \in FreeCalls : c <= d
        /\ redisCalls' = [redisCalls EXCEPT ![c] = time]

\* this.timeEvent(dto) after a bid that was accepted: updateEvent has the lock,
\* so the listener's getTime polls.
TimeEventAfterAccept(percent, rise) ==
    IF listener.phase = 2 \/ MovesTime(percent, rise)
      THEN /\ listener.phase = 1 => CallToSpare
           /\ lockQueue' = Append(lockQueue, listener)
      ELSE UNCHANGED lockQueue

\* The phase 2 listener f at work, with the lock.
ResetClock(f) ==
    /\ clock' = ResetTime(clock, resetTo[f.item])
    /\ resetTo' = [resetTo EXCEPT ![f.item] = clock']

\* this.timeEvent(dto) after a bid that was refused: the lock is free.
TimeEventAfterRefuse(percent, rise) ==
    CASE listener.phase = 1 /\ MovesTime(percent, rise) ->
            CallToSpare /\ AskRedis(clock) /\ UNCHANGED <<clock, resetTo>>
      [] listener.phase = 2 ->
            ResetClock(listener) /\ UNCHANGED redisCalls
      [] OTHER -> UNCHANGED <<clock, resetTo, redisCalls>>

AcceptBid(u, p, percent) ==
    /\ HasItem /\ u \in joinedUsers
    /\ Acceptable(u, p)
    /\ userBidPrice' = [userBidPrice EXCEPT ![u] = p]
    /\ prevBidPrice' = bidPrice[sequence]
    /\ bidPrice' = [bidPrice EXCEPT ![sequence] = p]
    /\ bidderId' = [bidderId EXCEPT ![sequence] = u]
    /\ TimeEventAfterAccept(percent, p - bidPrice[sequence])
    /\ UNCHANGED <<roomVars, joinedUsers, budget, isSold, buyerId, canBid,
                   clock, listener, resetTo, redisCalls>>

\* A bid that fails a test, or whose bidder has not joined: updateEvent rejects at
\* user.budget then.  The time listener runs all the same.
RefuseBid(u, p, percent) ==
    /\ HasItem
    /\ u \in joinedUsers => ~Acceptable(u, p)
    /\ TimeEventAfterRefuse(percent, bidPrice[sequence] - prevBidPrice)
    /\ UNCHANGED <<roomVars, userVars, itemVars, canBid, listener, lockQueue>>

-----------------------------------------------------------------------------
(* The time listeners' later turns *)

\* A phase 1 listener gets the lock, reads the clock and asks Redis.
ReadClock(f) ==
    /\ f.phase = 1
    /\ Wake(f)
    /\ AskRedis(clock)
    /\ UNCHANGED <<roomVars, userVars, itemVars, canBid, clock, listener, resetTo>>

\* A phase 2 listener gets the lock and sets the clock of the current item.
SetResetTime(f) ==
    /\ f.phase = 2
    /\ Wake(f)
    /\ ResetClock(f)
    /\ UNCHANGED <<roomVars, userVars, itemVars, canBid, listener, redisCalls>>

\* calculateNewRemainingTime and the floor of 15 s, for the time read before.
ReducedTime(time, cut) == IF time - cut < 15 THEN 15 ELSE time - cut

\* Redis has answered: the phase 1 listener sets the clock of whatever item is
\* current now.
SetReducedTime(c) ==
    /\ redisCalls[c] # None
    /\ \E cut \in Cuts : clock' = ReducedTime(redisCalls[c], cut)
    /\ redisCalls' = [redisCalls EXCEPT ![c] = None]
    /\ UNCHANGED <<roomVars, userVars, itemVars, canBid, listener, resetTo, lockQueue>>

-----------------------------------------------------------------------------
(* The owner's console *)

SkipBidItem ==
    /\ HasItem
    /\ canBid' = FALSE
    /\ clock' = 8
    /\ UNCHANGED <<roomVars, userVars, itemVars, listener, resetTo, lockQueue,
                   redisCalls>>

ReduceTime(t) ==
    /\ HasItem
    /\ clock - t >= -ClockFloor
    /\ clock' = clock - t
    /\ UNCHANGED <<roomVars, userVars, itemVars, canBid, listener, resetTo,
                   lockQueue, redisCalls>>

Terminate ==
    /\ stage # "destroyed"
    /\ auctionStatus' = "TERMINATED"
    /\ UNCHANGED <<stage, count, sequence, userVars, itemVars, canBid, timeVars>>

-----------------------------------------------------------------------------
\* run() has returned and no listener is left: nothing remains to be done.
Finished ==
    /\ stage \in {"destroyed", "terminated"}
    /\ lockQueue = <<>> /\ FreeCalls = Calls
    /\ UNCHANGED vars

Bid == \E u \in Users, p \in Prices, percent \in Percents :
            AcceptBid(u, p, percent) \/ RefuseBid(u, p, percent)

Lifecycle ==
    \/ OnBidCreate \/ OnBidCreateNoItem \/ OpenBidding
    \/ Tick \/ CheckPhase1 \/ CheckPhase2 \/ KeepBidding
    \/ OnBidEnded \/ AfterBidEnd \/ OnRoomDestroy

ListenerWakes == \E f \in Listeners : ReadClock(f) \/ SetResetTime(f)

Bidding ==
    \/ \E u \in Users : Join(u)
    \/ Bid
    \/ ListenerWakes
    \/ \E c \in Calls : SetReducedTime(c)

Console ==
    \/ SkipBidItem
    \/ \E t \in Reductions : ReduceTime(t)
    \/ Terminate

Next == Lifecycle \/ Bidding \/ Console \/ Finished

\* Node runs an expired timer: delays, intervals and polls go on.  Nothing makes
\* users bid, owners act or Redis answer.
Fairness == WF_vars(Lifecycle) /\ WF_vars(ListenerWakes)

Spec == Init /\ [][Next]_vars /\ Fairness

-----------------------------------------------------------------------------
(* Properties *)

Unsettled == stage \in {"ready"} \cup Running

\* Whoever leads the item on offer has joined and can pay: the budget test of
\* updateEvent (game.lifecycle.ts:211) still holds when onBidEnded charges the
\* leader, however many other bids, skips and joins came in between.
LeaderCanPay ==
    Unsettled /\ bidderId[sequence] # None =>
        /\ bidderId[sequence] \in joinedUsers
        /\ bidPrice[sequence] <= budget[bidderId[sequence]]

\* The budget a bid's answer reports, user.budget - user.bidPrice, is never
\* negative, across outbidding, the charge and resetUsersBidPrice.
ReportedBudgetNotNegative ==
    \A u \in Users : budget[u] - userBidPrice[u] >= 0

\* Item i has been settled by onBidEnded, and somebody led it then.
SettledItem(i) == i < sequence \/ (i = sequence /\ stage \in Settled)
Won(i) == SettledItem(i) /\ bidderId[i] # None

\* What this run sells goes to whoever led, and nothing else changes hands: an item
\* that was settled with a leader is sold, to that leader, whoever its row named
\* before; an item nobody led, or that is not settled yet, stays as load() found it,
\* sold to a former buyer or not at all (game.service.ts:311-312,
\* game.lifecycle.ts:150-156).
SoldToLeader ==
    \A i \in Items :
        /\ isSold[i] = (Won(i) \/ RowIsSold[i])
        /\ buyerId[i] = IF Won(i) THEN bidderId[i] ELSE RowBuyerId[i]

\* What the items that user u has bought in this run cost together.
Cost(u, i) == IF Won(i) /\ buyerId[i] = u THEN bidPrice[i] ELSE 0
Paid(u) ==
    LET paid[i \in 0..MaxItems] == IF i = 0 THEN 0 ELSE paid[i - 1] + Cost(u, i)
    IN  paid[MaxItems]

\* Money is conserved: what a user has left and what the user has paid for the
\* items won make the budget the user joined with.  onBidEnded charges a sale exactly
\* once (game.lifecycle.ts:152-156), and nobody for what a former run sold.
BudgetConserved == \A u \in joinedUsers : budget[u] + Paid(u) = Budget

\* An item that has been settled keeps its price, its leader and its buyer for
\* good: no late bid job and no late listener touches a finished sale.
SettledIsFinal ==
    [][\A i \in Items :
          SettledItem(i) =>
              /\ bidPrice'[i] = bidPrice[i] /\ bidderId'[i] = bidderId[i]
              /\ isSold'[i] = isSold[i] /\ buyerId'[i] = buyerId[i]]_vars

\* The inductive invariant of the proofs.  The properties above need to know that
\* the stages of an item have an item, that only a running item takes bids, that
\* another item follows when one is about to be created, and that the items not
\* yet offered have no leader.
Positioned ==
    /\ stage \in {"ready", "bidEnd", "roomDestroy"} \cup Running => sequence >= 1
    /\ stage = "bidCreate" => sequence = 0 \/ sequence < count
    /\ canBid => stage \in Running
Fresh == \A i \in Items : i > sequence => bidderId[i] = None
SaleInv == Fresh /\ LeaderCanPay /\ ReportedBudgetNotNegative /\ SoldToLeader
IInv == TypeOK /\ Positioned /\ SaleInv

\* A terminated auction comes to its end whatever bids keep arriving: every
\* timer's callback tests isTerminated.
TerminateEnds ==
    auctionStatus = "TERMINATED" ~> stage \in {"destroyed", "terminated"}

\* Once users stop bidding and the owner stops skipping, the auction ends: no
\* phase's timer waits for a clock value it has passed or that is lost.
QuietEnds ==
    <>[][~Bid /\ ~SkipBidItem]_vars => <>(stage \in {"destroyed", "terminated"})

\* What the room promises, without clock, phases, listeners or console: an
\* English auction of the items in turn (EnglishAuction).
Auction == INSTANCE EnglishAuction WITH
    Items <- Items, lot <- sequence, onOffer <- Unsettled, bidders <- joinedUsers,
    purse <- budget, price <- bidPrice, leader <- bidderId, buyer <- buyerId,
    FormerBuyer <- RowBuyerId

\* Every step of the room is a step of the English auction or changes nothing
\* of it: bids raise only the item on offer, each sale is settled once, in order.
ImplementsEnglishAuction == Auction!Spec

-----------------------------------------------------------------------------
(* What a text of the repository says and the code does not do *)

\* An item is on sale for its sellingLimitTime (auction.entity.ts:25-26): bidding
\* opens with the whole of it on the clock.  The phase 2 listener of the item
\* before is still installed during BID_READY and sets the new item's clock.  (The
\* run leaves the console out: an owner may shorten an item on purpose.)
OpensWithFullClock ==
    [][stage = "ready" /\ stage' \in Running => clock = LimitTime]_vars
=============================================================================
