# rush-room: verification development

rush-room is a NestJS server for live auctions. This directory holds TLA+ models
of it, the TLC configurations that check them, and TLAPS proofs of their main
invariants. All paths below are relative to `src/src/domain/` unless they start
with `src/`; line numbers are those of the commit beside this directory.

## 1. Inventory

| Part | State it keeps | Operations | How it interacts |
|---|---|---|---|
| Auction room (`game/lifecycle`, `game/context`) | the item on offer, its price, leader and clock, the users' budgets, the lock, the installed time listener | `run` and its steps, `updateBidPrice`, `skipBidItem`, `reduceTime`, `terminate`, `join` | driven by timers, bid jobs and HTTP calls; asks the time service; saves items through the registry's callbacks |
| Time reduction (`game/services/game.time.service.ts`) | a history per auction in Redis | `calculateNewRemainingTime` | three Redis round trips per call, called by the phase 1 listener |
| Bid queue (`game/queue`, Bull) | the jobs waiting, for all rooms | `updateBid` | filled by the gateway, looks the room up when a job runs |
| Registry (`game/services/game.service.ts`, `game.status.service.ts`) | the ready and running maps, the status column of an auction | `startAuction`, `load`, the life cycle's callbacks | starts rooms, removes them, writes to the database without waiting |
| Automatic start (`game.service.ts:180-259`) | one interval for starts, one for repeats, one timeout per waiting auction | activate, deactivate, repeat, stop | calls `startAuction` |
| Gateway and guards (`game/game.gateway.ts`, `game/guards`) | the sockets of a room | JOIN, new_bid, CONTEXT, messages, voice | before the queue and the registry |
| Media rooms (`media/`) | rooms, peers, transports, producers, consumers, the seller's socket | join, leave, produce, consume, stop, agree | mediasoup workers; runs beside the auction room, keyed by the same id |
| Catalogue (`auction/`, `src/src/common/pagination/`) | auctions and items in the database | create, read, page through, update, delete, policy checks | read by `load`, written by `saveEach` |
| Users, authentication (`users/`, `auth/`) | user rows, endorsed auctions, tokens, the pool of test users | logins, enter a private auction, PATCH | read by `joinAuction` and `getAuctionDetail` |
| Files, AWS, configuration | none of their own | upload, transcode | pure I/O |

What is hard here:

* **Interleaving.** Everything runs on one event loop, but a bid, its time listener,
  the one-second interval and the HTTP console each take several turns, and every
  one of them touches the same clock. `BidMutex` is a busy-wait on `setTimeout(10)`.
* **Stale state.** A listener reads the clock, waits for Redis, and writes it back.
  A listener belongs to an item, but acts on whatever item is current.
* **Late calls.** Bid jobs carry no item, so one may run while an item is being
  settled or the next one announced.
* **Liveness.** A phase ends only when a tick sees its condition.
* **Unawaited writes.** The status of an auction and the sale of an item are written
  without waiting, and a crash leaves them as they were.
* **Read, change, write.** The history of reductions, the list of endorsed auctions and
  the rows of users are read in one query and written in another, with no transaction.
* **Two lives.** The jobs of the queue and the rows outlive the process; the rooms, the
  timers and the pool of test users do not.

What makes each part correct: a leader can always pay; a run sells an item once, to its
leader, and leaves what nobody led as it was; a settled sale is never touched; a
terminated auction ends; an auction left alone ends; the room as a whole is an English
auction; an auction runs at most once at a time and its database status agrees; bids
are applied in the order in which they came; a media room is not taken from those in it,
whoever joined can produce and knows whom to watch; an item's row says what its last run
settled; the details of a private auction (`getAuctionDetail`) are shown to nobody who was
not let in, and to everybody who was; a list shows each of its rows once.

## 2. Modules

| Module | Role |
|---|---|
| `AuctionGame` | one run of one auction: the life cycle and the context it drives |
| `EnglishAuction` | the abstract specification of what a room promises |
| `MCAuctionGame` | instances of `AuctionGame` for TLC |
| `AuctionGameProofs` | TLAPS proofs about `AuctionGame` |
| `GameRegistry` | which auctions run: `startAuction`, `load`, the two maps, the status column, crashes |
| `MCGameRegistry`, `GameRegistryProofs` | its instances for TLC and its proofs |
| `AutoStart` | extends `GameRegistry` with everything that calls `startAuction`: timers, timeouts, repeats, the owner |
| `MCAutoStart`, `AutoStartProofs` | its instances for TLC and its proofs; `GameRegistry` is the abstract specification |
| `MediaRoom` | the media room of one auction: rooms, peers, transports, the seller |
| `MediaStreams` | extends `MediaRoom` with producers, consumers, the seller's agreement and who was told of them |
| `MCMediaRoom`, `MCMediaStreams`, `MediaRoomProofs` | their instances for TLC and the proofs about both |
| `BidQueue` | the queue of all rooms' bids, the guards before it and the worker behind it |
| `TimeReduction` | the history of reductions in Redis and the calls that overlap on it |
| `Accounts` | the users table, logins and the pool of test users |
| `PrivateAuctions` | extends `Accounts` with endorsements, private auctions and who is shown them |
| `Catalogue` | auctions and items, their owners' requests, the runs that sell them, the lists |
| `MCBidQueue`, `MCTimeReduction`, `MCPrivateAuctions`, `MCCatalogue` | their instances for TLC |
| `BidQueueProofs`, `TimeReductionProofs`, `PrivateAuctionsProofs`, `CatalogueProofs` | their proofs; those about `Accounts` are in `PrivateAuctionsProofs` |

### AuctionGame and the code

The unit of interleaving is a *turn* of the event loop. In this code the lock is
always given back in the turn that took it (every critical section is synchronous),
so nothing but another turn can be seen between two actions, and a poller that wakes
always finds the lock free. What does span turns is explicit:

* `lockQueue` holds those that found the lock taken and poll every 10 ms. Node keeps
  timers of one duration in one list, in the order they were set, so it is FIFO.
* a tick decrements the clock (`Tick`), then polls, because `timerInterrupt` still
  holds the lock when the interval's own `getTime` is called, and tests the end of
  its phase when it wakes (`CheckPhase1`, `CheckPhase2`, `KeepBidding`, `OnBidEnded`).
* the listener of an accepted bid polls, because `updateEvent` holds the lock at that
  point (`TimeEventAfterAccept`); the listener of a refused bid does not
  (`TimeEventAfterRefuse`). A phase 1 listener then waits for Redis (`redisCalls`).

| Action | Code |
|---|---|
| `OnBidCreate`, `OpenBidding` | `onBidCreated` before and after its 5 s, then the start of `onBidPhase1` or `onBidPhase2` |
| `Tick`, `CheckPhase1`, `CheckPhase2`, `KeepBidding`, `OnBidEnded` | the interval of `startTimer` and the callback that ends each phase |
| `AfterBidEnd`, `OnRoomDestroy` | the 10 s after an item, `isAuctionEnded`, the end of the room |
| `AcceptBid`, `RefuseBid` | a bid job: `updateEvent`, then `timeEvent` |
| `ReadClock`, `SetReducedTime`, `SetResetTime` | the later turns of the two time listeners |
| `SkipBidItem`, `ReduceTime`, `Terminate`, `Join` | the console and the gateway |

`RowIsSold` and `RowBuyerId` are what `load` finds in the rows of the items, which in a
repeated auction name the buyers of the last run: `startAuction` asks for no status and
`load` copies `isSold` and `buyerId`. Nothing resets them, so an item that nobody leads
this time stays sold to its former buyer. What this run itself has sold is `Won`, and the
properties about sales and money speak of that.

Abstracted: the messages sent to clients, the previous bidder and socket (nothing in
the room reads them), the names and pictures of items, the size of a reduction (any
member of `Cuts`, which may be negative: see TimeReduction). Bids by percent keep the
thresholds of `onBidPhase1`. A bid of a user who has not joined is refused like one that
fails a test: `updateEvent` rejects, and `timeEvent` runs all the same.
One over-approximation: a tick may fire while older pollers wait, which in Node
needs a turn that lasts more than a second.

### GameRegistry, AutoStart and the code

Here the unit is again a turn of the event loop, and what spans turns is a query or a
write of the database. `startAuction` tests the maps and sets the ready map in one
turn, so `StartAuctions` is one action; `startAuctionTimers` calls it for every
auction of its list in one turn (its `await`s only yield to microtasks), hence a set.
A room is a number per auction, so that two rooms of one auction could exist: that
they do not is what is checked. Its `run()` waits for the auction's row
(`AuctionRow`), for the items' (`OpenRoom`), and then for the room to end
(`CloseRoom`); a room without items returns at once through `ternimate()` and is
`"stopped"`. What happens inside an open room is `AuctionGame`.

`writes` counts the status writes under way. Nobody awaits them and each takes a
connection of the pool, so they land in any order (`WriteLands`). A rejected promise
that nobody awaits, as `run()` is, ends the process (`AuctionNotFound`, `Crash`): the
maps and timers are gone, the rows stay, a write under way may be lost.

`AutoStart` adds the two handles (`timer`, `repeatTimer`), the intervals that are
really alive (`job`), the calls of `startAuctionTimers` that wait for their list
(`check`) and the timeouts armed (`armed`). A date is `far`, `soon` (within ten
minutes) or `due`; a list carries the dates as the database had them, since `PATCH`
may change them before the answer arrives.

| Action | Code |
|---|---|
| `StartAuctions`, `Launched`, `NewRooms` | `startAuction`, `launch` |
| `AuctionRow`, `AuctionNotFound`, `OpenRoom` | `load`, `jobBeforeRoomCreate`, `jobAfterRoomCreate`, `onBidCreated` without items |
| `CloseRoom` | `onRoomDestroy` with its two jobs |
| `PatchAuction`, `PatchRow`, `Remove` | `AuctionService.update`, `remove` |
| `ActivateTimer`, `DeactivateTimer`, `CheckInterval` | the console's timer calls and the interval |
| `ListWaiting`, `WaitingListed`, `TimeoutFires` | `getWaitAuctions`, the loop of `startAuctionTimers`, its timeouts |
| `RepeatAuction`, `RepeatInterval`, `StopRepeat`, `OwnerStarts` | the repeat calls, `GET game/start/:id` |

Abstracted: `saveEach` and everything read-only; timeouts fire at any time after they
are armed.

### MediaRoom and the code

The unit is again a turn; what spans turns is an await of the mediasoup worker. A join
has three: the router of a room that is not there, the send and the receive
transport. The handler keeps the room it found in a local variable (`held`), each
transport is made for the room the map had when it was asked for (`on`), and the peer
is added to the room the map has when it arrives (`room`): the three may differ, when
the last peer left or a second first joiner's room replaced the first one. So rooms
are objects, numbered in the order they are made, and the map has at most one.

| Action | Code |
|---|---|
| `JoinRoom`, `RouterReady` | `handleJoinChannel` up to its first await, `createRoom` after it |
| `SendReady`, `RecvReady` | `createWebRtcTransport` after its await, twice, and the answer of the join |
| `TransportLost`, `MediasoupRefuses` | the joins that end in the handler's `catch` |
| `LeaveRoom` | `handleLeaveRoom` with `closePeerResource` and `removeRoom` |
| `Produce`, `ProducerReady`, `ProducerRefused` | `createProducer` before and after its await |
| `StopPrevProducer` | `stopSellerPeer` |

`gone` remembers who left while its join went on, and `overlapped` the rooms that were
made while another first join waited for its router; no code reads them, the properties
do. A client that leaves during its join is put back into the room by its next transport
and stays there, with whatever a failed join has left: nothing cleans them up, and no
property says so. A disconnection, for which the handler does nothing, is a client never heard of again.

`MediaStreams` takes each of these steps with what it does to the streams, so that it
implements `MediaRoom` by construction. Only open producers are kept: `stopSellerPeer`
leaves the closed ones in the map of their peer and in later answers, where
`canConsume` refuses them. `passed` and `excused` are history: the producers of a
seller whose place another one took, and what a client was using, or waiting for, when
it was closed. `seller-disagreed-camera` tells all who are there that the seller has not
agreed, and leaves the room's own flag as it was: whoever joins later is told yes again.
So what members were told and what the room holds may differ in this one way, which
`declined` records (the rooms whose camera was refused since the seller agreed).
`connect-transport` and `resume-consumer` call mediasoup, and change nothing here.

| Action | Code |
|---|---|
| `StreamJoin` | the last turn of `handleJoinChannel`: the socket.io room, the producers, the answer |
| `StreamLeave`, `StreamStop` | `closePeerResource`, `stopSellerPeer` with `closePrevConsumers` |
| `StreamProduce`, `StreamReady` | `createProducer` before and after its await, `new-producer` |
| `Consume`, `ConsumerReady`, `ConsumerRefused` | `createConsumer` before and after its await |
| `SellerAgreed`, `SellerDisagreedCamera` | `handleSellerAgreed`, `handleSellerDisagreedCamera` |

### BidQueue and the code

A bid is guarded in one turn (`NewBid`), and the handler of its job runs in one turn as
well: it changes the room at once, then only polls, as `AuctionGame` shows. A room is
reduced to what a bid sees of it: its number (`open`), its item, whether bids are taken,
who leads, what the members spent. A job is `"waiting"` in the list, `"active"` until
the worker has told Redis, `"stalled"` when that worker died or did not renew its lock in
time, then `"gone"`. A crash may hit between the change and the report, or when a job was
moved and not yet run; a lock may expire while the room lives on, so that a job is run
again in the same run of its auction, on the same item or a later one.

| Action | Code |
|---|---|
| `OpenRoom`, `ActivateBid`, `SettleItem`, `NextItem`, `CloseRoom` | the life cycle as far as a bid sees it |
| `Join`, `NewBid` | `handleJoinAuction`; the two guards, `handleNewBid`, `updateBidQueue.add` |
| `RaisePrice`, `RefuseBid`, `FinishJob` | `BidUpdateProcessor.updateBid`, `updateEvent`, the report of Bull |
| `Crash`, `LockExpires`, `StalledCheck` | the process dies; the lock of a job expires; Bull's check for stalled jobs, with its `maxStalledCount` of 1 |

### TimeReduction and the code

One connection carries the commands of all calls, so Redis serves them in the order
they were sent (`pipe`); a call sends its next command when the one before is answered.
Time is in seconds and passes between any two commands. The exponential curve is a
table of rates (`RateAssumption`: nothing below the threshold, at most half). A call may
be made on a clock below zero, since `reduceTime` subtracts unchecked. A bid that raises
more than the one within the five seconds before it is counted against the time of that
one: the answer may then be less than half of what is left, or, if that clock was below
zero, more than what is left. `Cuts` of `AuctionGame` is therefore any set of integers.

| Action | Code |
|---|---|
| `Ask`, `GetLast` | `calculateNewRemainingTime` before and after its first GET |
| `GetAll`, `Save` | the rest of `calculateNewRemainingTime`: after its second GET and its SET |
| `Expire`, `PassTime`, `ProcessEnds` | the 24 hours of the key, the clock, a rejected command |

### Accounts, PrivateAuctions and the code

Each query is a step of its own. A login looks its social account up (`KakaoCallback`,
`TestLogin`, then `UserFound` or `UserMissing`) and inserts it if there is none
(`UserInserted`); a query may fail, an insert after it was done (`QueryFails`). `owner`
gives each row its social id; nothing forbids two rows. A token names a row.

An entry compares its code with the auction's (`CheckCode`), reads the list of its user
(`ReadList`) and writes it back (`SaveList`). A read of an auction reads its row
(`ReadAuction`), then the list (`ReadUser`). `PatchAuction` and `PatchUser` are the two
PATCHes. History: what a login had seen of the table (`looked`, `by`), the entries
about to save when one was done (`beside`), the entries done when a read began
(`before`), the codes an auction has had (`had`), whether a read was allowed at one of
its queries (`allowed`).

### Catalogue and the code

A request of an owner is a check and a change (`CheckRequest`, then `CreateItem`,
`UpdateItem`, `RemoveItem` or `RemoveAuction`). A run loads the items with what the row
says of an earlier sale (`StartRun`), and sells them or not, one after the other
(`Sell`, `PassIn`); each save is sent, not awaited, and lands in any order (`SaveEach`).
A client pages through a list with two queries a page (`ReadRows`, `CountRows`).
`UpdateItem` sets `isSold`, `buyerId` and `lastPrice` each or not, fitting or not, as its
body may. `won`, `last` and `blurred` are history: who won an item or was named its buyer
by such a body, what its last run settled, and whether the item was patched since, or its
save was lost or raced another one.

## 3. Runs

Every run uses the constants of its cfg and no definition override.

| Run | Question | Instance |
|---|---|---|
| `sales` | Can a leader always pay, is every sale made once and final, is money conserved? Does the room implement `EnglishAuction`? | 2 users, 2 items of a repeated auction, the first sold to one of the two before, all console calls |
| `liveness` | Does a terminated auction end, and one that is left alone? | 1 user, 2 items, all console calls |
| `opening_clock` | Does an item open with its whole time? | it does not |
| `registry` | Has an auction at most one room, do the maps say which, does a waiting row mean none, is the ready map left? | 2 auctions, PATCH of every status but WAIT |
| `auto_start` | Does the server with all its timers implement the registry? Are its handles good? Is an auction that is due started? | 1 auction, 2 intervals, 2 looks at once, PATCH of WAIT and of dates |
| `media_room` | Can an answered join produce, does it know what there is to watch, is an empty room removed and no other, does a stop leave no dead consumer? | 2 interchangeable clients, 2 rooms, 3 rooms and producers together |
| `seller_left` | Does a join with both transports succeed? | not after the seller has left |
| `bid_queue` | Are bids served in order and all of them, does none raise an item twice, and is the leader the first member with that price? | 1 auction of 2 items, 2 users, one anonymous, 2 prices; 2 bids, 2 rooms, any number of crashes and expired locks |
| `stale_guard` | Does an anonymous user lead only where that is allowed? | not when the bid waits while the next item opens |
| `reductions` | Is the history in order, is an entry lost only to an overlap, does a bid alone take at most half, is every call answered? | 3 calls on clocks of -10, 20 and 60 s, a history of 2, a window of 2 s in 3 s |
| `private_auctions` | What can overlapping logins and entries spoil, and does the detail route show a private auction only to those allowed? | 2 people, 2 test users, 2 auctions; 2 logins, 2 entries, 1 read, 1 PATCH, 5 requests in all |
| `catalogue` | Does the row keep the sale, were purchases won, do pages show each row once? | 3 auctions, 2 items, 2 users; 3 requests and runs, one client that pages |

**Bounds.** `MaxItems = 2` is the least number with a step from one item to the next
and a listener left over from the one before; `count` ranges over 0, 1 and 2.
`Prices = {2000, 4000}` with a budget of 5000 and start prices 1000 and 2500 gives a
first bid, an outbidding, a bid at or below the price, and a second purchase the
budget no longer covers. `LimitTime` is 60, one minute, the least the code can have
above zero. `Percents` are 0 (by amount) and 5 (the listener runs) in `liveness`; the
other runs have 5 alone. The first item comes sold to one of the two users, the second
was passed in, so the users of `sales` are not interchangeable. In `sales` a bid cuts 30 s and
the owner takes 50 s, so that the clock can jump over the bounds of the phases as well
as count down to them. `MaxCalls` bounds
the phase 1 listeners in flight and `ClockFloor` the calls to `reduceTime` below
zero; both are marked BOUND in the module. The `opening_clock` run uses one user and
leaves the console out, so its counterexample needs no owner.

In the registry `MaxRooms = 2` is one more than there should ever be, `MaxWrites`
saturates (equal writes are the same to the row), two auctions show that the maps do
not mix them up. `AutoStart` needs one auction (the timers of two do not meet except
in `StartAuctions`, which is checked for two), two intervals and two looks, so that
each can be leaked or overtaken once; `MaxArmed` saturates like the writes.

In the media room two clients are enough to race for a new room and to leave one
another behind. `MaxRooms = 2` and `MaxObjects = 3` allow two rooms and a producer (the
room is replaced, or removed and made again), or one room and two producers (of one
seller, or of two that follow one another). The theorems hold for any number.

In the queue two bids are enough for an overtaking, a tie and a second try; two items make
the one on offer change while a bid waits; two prices make a bid be outbid before it is
run again; the budget covers two bids at the lower price or one at the higher. With a
second auction the instance is too large for two prices; that the rooms of several auctions
share the queue is what the theorems of `BidQueueProofs` cover, for any number. Three calls of the time service are one that reads while
another one saves, and one that comes after the cut (`Cap = 2`) or after the window.
Two logins make a twin, two entries lose an endorsement, and `MaxRequests = 5` allows
two logins, two entries and a read together. In the catalogue three auctions make two
pages of two; two items let a save race another run's, and one purchase follow another.

**Fairness.** `WF(Lifecycle)` and `WF(ListenerWakes)`: Node fires every expired timer,
so delays, intervals and polls go on. No fairness is assumed of bids, of joins, of the
console or of Redis: the auction must end even when Redis never answers.
`RegistryFairness`: the database answers or refuses the queries of a load.
`QueueFairness`: Bull's worker goes on while there is a job, and looks for stalled ones;
nothing is assumed of the rooms or the clients, and the process may die again and again.
`ReductionFairness`: Redis answers (a command that does not times out, which is
`ProcessEnds`).
`AutoFairness`: the interval fires, the list is made and arrives, a write of PROGRESS
lands. Nobody is assumed to start, stop or repeat anything; `DueIsStarted` is claimed
while the timer stays on and the process lives, which its premise says.

**What the violations show.** They are disagreements between the code and what the
repository says of it; PROJECT.json gives the lines. In short: the phase 2 listener of
one item survives into the announcement of the next, and a refused bid there sets the
new item's clock to 15 s or less; after a seller has left its media room, every join
fails until somebody produces; and an anonymous bid that was guarded on one item may be
run on the next one, which is closed to it.

Seen in the models and not given a run: a phase 1 listener writes a time computed before
it waited for Redis, which may be more than what is left by then; an auction without
items stays in the running map; a late write of PROGRESS outlives END; a second activate
or a second repeat leaves an interval that nothing stops; a timeout starts an auction
that has ended meanwhile; the last tick may close an item before the reset of a bid it
accepted; an item nobody bids for in a repeated auction stays sold to its former buyer;
who joins after the camera was refused is told that the seller has agreed; a client that
leaves during its join stays in the room; a PATCH to END ends the row and not the room, although
`auction.controller.ts:264` offers it for that; two first logins make two accounts, and
two entries at once lose one endorsement, which the properties of `private_auctions`
state as the only ways it can go wrong.

## 4. Proofs

`AuctionGameProofs` proves, for every value of the constants that satisfies the
named assumptions (`UsersAssumption`, `ItemsAssumption`, `InputsAssumption`,
`BoundsAssumption`, which allow any rows to begin with, and `TimesAssumption`, by which the model value `None` of a clock
that is not set is no number):

| Theorem | Statement |
|---|---|
| `Invariance` | `Spec => []IInv` |
| `TypeCorrect` | `Spec => []TypeOK` |
| `LeaderPays` | `Spec => []LeaderCanPay` |
| `ReportsBudget` | `Spec => []ReportedBudgetNotNegative` |
| `SellsToLeader` | `Spec => []SoldToLeader` |
| `SalesAreFinal` | `Spec => SettledIsFinal` |
| `MoneyIsConserved` | `Spec => []BudgetConserved` |
| `ChecksEndWithTheirPhase` | `Spec => []OneCheck` |
| `RunIsNeverStuck` | `Spec => []NeverStuck` |
| `QuietRunsDown` | `Spec => QuietStepsRunDown`, whose measures are naturals |
| `TerminationRunsDown` | `Spec => TerminatedRunsDown` |
| `Refinement` | `Spec => ImplementsEnglishAuction` |

None of the properties is inductive alone. That the leader can pay is only kept if
bids are taken while an item is running (`canBid => stage \in Running`), if the
running item is a real one, and if the next item starts without a leader (`Fresh`):
otherwise `OnBidCreate` could put an item on offer whose leader has spent the money
on the item before. `SoldToLeader` needs `Fresh` as well: an item not settled yet is as
its row had it. `IInv` is `TypeOK`, `Positioned` (which stages have an item, when
another follows, when bids are taken) and `SaleInv` (`Fresh` and the three sale
properties). `TypeStep`, `PositionedStep` and `SaleStep` prove that each part is kept,
with one lemma for each kind of step that disturbs the sales (`JoinStep`,
`CreateStep`, `AcceptStep`, `EndStep`, `NoItemStep`) and one for all that leave them
alone (`QuietStep`). The refinement uses the invariant: `LeaderCanPay` is exactly what
makes `OnBidEnded` a `Close`, and `Positioned` what makes `AcceptBid` a `Raise`.

`BudgetConserved` speaks of a sum over the items, which is a recursive function and
cannot be evaluated by induction here. `MoneyInv` therefore carries the running sum
along: for each user who has joined there *is* a function that adds the costs up item by
item and ends at what is missing from the budget (`Ledger`). A sale changes one cost, and
its lemma gives the new function; `PaidAddsUp` shows at the end that only one function
adds them up, by the least item at which another one would differ.

The last four theorems are what can be proved of the end of a run. `ProgressInv` says that
the check of the clock is under way once at most and only in a phase (`OneCheck`), that
a phase has its listener, and that the listeners under way find free calls
(`ListenersInv`), so that the bound on the calls never blocks a run. `OneCheck` rests on a guard of
`Tick`, which models that the 10 ms polls of a check are over before the interval of one
second fires again; that no check outlives its phase is then a consequence. From these,
`RunIsNeverStuck`: a run that is not over has a delay, a tick or the head of the queue to
go on with, and waits for nobody. `QuietRunsDown`: three naturals, the stages left, the
listeners under way and the ticks left, fall lexicographically with every step of the
run, and only a bid or a skip can raise them. `TerminationRunsDown`: once terminated a run
stays so until it is destroyed, whoever bids queues behind the check that will end the
phase, and each poll that wakes brings that check nearer. They are the safety half of `QuietEnds` and
`TerminateEnds`; that the steps are taken at all is their fairness, and stays with TLC.

`GameRegistryProofs` proves, from `RegistryBounds` and `PatchedStatuses`:

| Theorem | Statement |
|---|---|
| `AtMostOneRoom` | `RegistrySpec => []OneRoom` |
| `MapIsRight` | `RegistrySpec => []MapHasTheRooms` |
| `ReadyIsRight` | `RegistrySpec => []ReadyIsLoading` |
| `WaitingIsIdle` | where `"WAIT" \notin Patched`: `RegistrySpec => []WaitingHasNoRoom` |
| `LoadsEnd` | `RegistrySpec => LoadsRunDown /\ []LoadIsDue /\ []LaunchedAreNew` |

`OneRoom` is not inductive: a start is refused by the maps, so what the maps say of
the rooms is needed, and that in turn needs `OneRoom` when a room moves on
(`MoveKeepsOneRoom`). `RegistryInv` is their conjunction (`RegistryInvariance`), with
one lemma per action. `LoadsEnd` is the safety half of `ReadyIsLeft`: an auction is ready
exactly as long as its load has a query to wait for, and each answer leaves it fewer,
because nobody can start it again meanwhile. What is launched has no room of any kind, so
the bound `MaxRooms` never keeps an auction from starting.

`AutoStartProofs` proves, with `AutoStartBounds` and `AuctionIds` besides:
`AutoImplementsRegistry` (`AutoSpec => RegistrySpec`, each action of a timer being a
`Start` or a stutter of the registry), its consequence `AutoOneRoom`
(`AutoSpec => []OneRoom`), `AutoTypes` (`AutoSpec => []AutoTypeOK`), and
`HandlesStayLive` (`AutoSpec => []HandlesAreLive`) by the inductive invariant `HandleInv`:
a new interval takes a place no handle names, and the two handles can never name one
interval because their jobs differ. `NoDueIsForgotten` (`AutoSpec => DueIsKept`) is the
safety half of `DueIsStarted`: a look whose list is yet to be made will have an auction that
is due, one that has it keeps it until the start is sent, and a start that was sent is
under way until the row says so.

`MediaRoomProofs` proves, from `MediaBounds`: `NoRoomIsLeftBehind`
(`MediaSpec => []EmptyRoomIsBeingJoined`), `AnsweredJoinsWork`
(`MediaSpec => []JoinedCanProduce`) and `RoomsAreLostToOverlap`
(`MediaSpec => []RoomsLostOnlyToOverlap`). `MediaInv` adds what they need to be inductive:
`MadeHavePeers` (a new room is empty), `HeldRooms` (joins hold rooms that were made, and
the first transport is asked for in the room that is held), `OverlapIsNoted` (a room in the
map while a join waits for a router is an overlapped one, so that the room put over it is
one of two first joins) and `HalfJoined` (between its two transports a join already has
the first one in the room it holds, if that is the room of the map). There is one lemma
per action; that of `LeaveRoom` rests on the fact that the room stays as long as another
peer is in it.

It goes on with `MediaStreams`, from `StreamBounds` besides:

| Theorem | Statement |
|---|---|
| `StreamImplementsMedia` | `StreamSpec => MediaSpec`, so the three theorems above hold of it as well |
| `NobodyMissesAProducer` | `StreamSpec => []MembersAreUpToDate` |
| `ConsumersAreClosed` | `StreamSpec => []KeptConsumersLive` |

`StreamInv` adds to `MediaInv` the types and three parts. `OwnersInv`: a producer has one
owner, so that closing those of one peer takes nothing from another; and whoever is not
the seller has only producers that another seller took the place of, so that a client
that becomes the seller again brings none that the members were not told of.
`JoinsInv`: whoever was answered, and has not left, is in the socket.io room, and so is
told what changes. `ConsumersInv`: consumers
belong to peers, so a new room has none, and what a client waits to consume is open or
excused, which is what it puts into its map in the end.

`BidQueueProofs` proves, from `QueueInputs` and `QueueBounds`:

| Theorem | Statement |
|---|---|
| `QueueServesInOrder` | `QueueSpec => []ServedInOrder` |
| `PricesRaisedOncePerItem` | `QueueSpec => []RaisedOncePerItem` |
| `LeadersAreMembers` | `QueueSpec => []LeaderIsMember` |
| `FirstComeServed` | `QueueSpec => []FirstComeFirstServed` |
| `OneJobAtATime` | `QueueSpec => []OneJob /\ JobsEnd` |
| `NoBidStarves` | `QueueSpec => EffortsFall /\ TurnsComeNearer /\ []WorkerIsBusy`, with finite efforts |

`QueueInv` has four parts. `JobsInv`: the waiting list has the waiting bids, each once, in
the order they were made but for those that were stalled, which come back at its front.
`RoomsInv`: an item that is announced has no leader, and a leader was served. `RaisedInv`:
what a bid has raised cannot be raised by it again (`Passed`), as its run is over, or a
later item is on offer, or the item costs as much by now as the bid says. That is kept
because runs are new, items only go on and prices only rise (`RaisedKept`). `MadeInv` and
`ServedAreOutdone`: a bid of the present run whose item is on offer was either outdone, or
leads, or could not be paid, once it was served, also while it waits to be run again; with
the order of the jobs this leaves the lead to the first of two equal bids.

`NoBidStarves` is the safety half of `EveryBidIsServed`. A bid is moved six times at the
most (`Effort`): taken, stalled, put back once, taken and stalled again, given up.
Before a waiting bid stand those in hand and the waiting list up to it; the pairs of such a
bid and one of its moves (`Efforts`) are a finite set that no step adds to, since new bids
queue behind and those that are put back were counted, and from which everything that
the worker or the check of stalled jobs does takes at least one.

`TimeReductionProofs` proves, from `TimesAssumption`, `RateAssumption` and
`ReductionBounds`:

| Theorem | Statement |
|---|---|
| `HistoryStaysSorted` | `ReductionSpec => []HistorySorted` |
| `OverlapsLoseEntries` | `ReductionSpec => []LostOnlyToOverlap` |
| `AloneTakesHalf` | `ReductionSpec => AloneTakesAtMostHalf` |
| `ReductionTypes` | `ReductionSpec => []ReductionTypeOK` |
| `NoCallStarves` | `ReductionSpec => AnswersBringCallsOn /\ []SomeCommandIsServed` |

`AloneTakesHalf` bounds only the answer to a bid that had no other in its window: of the
others nothing can be said, so `AuctionGame` lets any answer come. `ReductionInv` rests on the connection (`ConnectionInv`): a call has one
command on it, so of two lists on their way the later one was read before the earlier was
saved, and its call has noticed (`missed`). `UntouchedInv` says what a list that missed
nobody is: the history with its own entry, sorted and cut. That sorting with the new
entry and cutting the oldest keeps the order, and drops nothing newer, needs a least
element, taken from the well-founded order of the naturals. `NoCallStarves` is the safety
half of `CallsAreAnswered`: while a call waits there is a command to serve, and each one
that is served either brings the call to its next command or moves it up on the
connection, where nothing ever overtakes it.

`PrivateAuctionsProofs` proves, from `AccountInputs`, `AccountBounds`, `PrivateInputs` and
`PrivateBounds`:

| Theorem | Statement |
|---|---|
| `AccountsAreOne` | `AccountSpec => []TwinsOnlyFromOverlap` |
| `TestUsersAreLentOnce` | `AccountSpec => []TestAccountsApart` |
| `PrivateImplementsAccounts` | `PrivateSpec => AccountSpec` |
| `EntriesAreKept` | `PrivateSpec => []LostOnlyToOverlappingEntry` |
| `PrivateStaysPrivate` | `PrivateSpec => []ShownOnlyIfAllowed` |
| `EnteredStaysIn` | `PrivateSpec => []EnteredSeesAll` |

`AccountInv` has what a login that inserts had seen (`InsertersLooked`: the rows up to
there are others'), that whoever inserted is done, and that tokens name rows of their own
account. `PrivateInv` adds to it that a list holds only auctions entered by a code they
have had, or put there by a PATCH (`ListsByCode`), that a list about to be written has
what its user has entered unless that may have been undone (`ListsHoldEntered`), and what
a read knows between its two queries (`ReadsAllowed`, `EnteredBefore`).

`CatalogueProofs` proves, from `CatalogueInputs` and `CatalogueBounds`:

| Theorem | Statement |
|---|---|
| `SalesAreKept` | `CatalogueSpec => []RowKeepsTheSale` |
| `BuyersHaveWon` | `CatalogueSpec => []RowsWereWon`: whoever a row names as buyer has won the item or was named by a PATCH |
| `PurchasesShowWhatWasWon` | `CatalogueSpec => []PurchasesWereWon` |
| `NoRowIsMissed` | `CatalogueSpec => []PagesMissOnlyIfRemoved` |
| `NoRowIsRepeated` | `CatalogueSpec => []PagesRepeatOnlyIfAdded` |

`CatalogueInv` says where the last sale of an item is while its save is under way
(`KeptInv`), that a new item is unknown to all runs (`CreatedInv`), and that saves and
loaded lots name winners as well (`WonInv`).

`ReaderInv` is about a client that pages through a list while it changes. A page is the
rows whose place in the list (`Position`, the number of rows before it) lies in a range.
As long as no row leaves the list places only grow, and as long as none comes they only
fall; so unless a row left, what is still to be shown lies behind the rows read, and unless
one came, what was shown lies before them (`PagesInv`). That the last page ends at or
behind the end of the list is arithmetic on what `PaginationResponse` counts.

Every safety invariant and every action property of the passing runs is stated by one of
these theorems. Only model-checked are the six properties that need fairness:
`TerminateEnds`, `QuietEnds`, `ReadyIsLeft`, `DueIsStarted`, `EveryBidIsServed` and
`CallsAreAnswered`. Liveness under fairness and `ENABLED` are out of the prover's reach;
for each of them a theorem above gives the part that is not fairness (`TerminationRunsDown`,
`QuietRunsDown`, `LoadsEnd`, `NoDueIsForgotten`, `NoBidStarves`, `NoCallStarves`): what is
left to do falls in a well-founded order, or is not lost on its way, and something is always
there to be done. That such an order has no infinite descent, and that fairness then takes
the steps, is not spelled out.

## 5. Plan

Done in this order: `AuctionGame`, `EnglishAuction`, `AuctionGameProofs`,
`GameRegistry`, `GameRegistryProofs`, `AutoStart`, `AutoStartProofs`, `MediaRoom`,
`MediaRoomProofs`, `BidQueue`, `TimeReduction`, `Accounts`, `PrivateAuctions`,
`Catalogue`, `MediaStreams`, the proofs of the last six, and last those of the money, of
the pages and of what brings runs, loads, looks, bids and calls to their end. Left to do:

1. `GameRegistry`: an abstract life cycle of one auction (idle, loading, open), which the
   registry implements for each auction, as `EnglishAuction` is one of an item.
2. `AuctionGame` with `BidQueue`: that the rooms of `BidQueue` are those of
   `AuctionGame` seen without their clock, as a refinement.

## 6. Not modelled

* Uploads, S3 and MediaConvert (`file/`, `aws/`), configuration, DTO validation and
  exception filters hold no state of their own.
* Chat and voice messages, `requestCamera` and the other calls that only relay or read.
* The exchange with Kakao and the signature of tokens, which are libraries; the profile
  columns of a user, by which nothing decides; `createMasterUser`, which is not called.
* The earliest start date of an auction (`auction.policy.ts`), its pictures and texts.
* `game/logic/exponantial.ts` is not used by anything; `clearAuctionHistory` and
  `getHistoryInTimeRange` are never called.
* The list and item routes (`auction.service.ts:95-120` and `185-197`) show the rows of
  private auctions to any token and ask for no endorsement; what is claimed of private
  auctions is claimed of `getAuctionDetail` alone.
* The clocks are integers, while a `reduceTime` without a time makes the clock NaN in the
  code.
