----------------------------- MODULE Catalogue ------------------------------
(***************************************************************************)
(* The auctions and items in the database, and everybody who changes or     *)
(* reads them: AuctionController and AuctionService, the repositories, the   *)
(* runs that load items and save what they sold (GameService.load and       *)
(* saveEach), and clients that page through a list (common/pagination).     *)
(*                                                                         *)
(* No foreign key ties an item to its auction, no request is a transaction, *)
(* and nobody waits for the save of a sale.  How a run sells is             *)
(* AuctionGame's, when it starts is AutoStart's: here a run takes the items *)
(* one after the other and sells each or does not.  Titles, pictures and    *)
(* dates are left out.                                                      *)
(***************************************************************************)
EXTENDS Integers, Sequences, FiniteSets

CONSTANTS
    Users,
    Nobody,        \* null
    Seller,        \* the user whose auctions are there to begin with
    Listings,      \* how many of them
    Stock,         \* the items the first one has to begin with
    StartPrice,
    Prices,        \* what a bidder may pay
    Lists,         \* what clients page through: a list, of a user or of Nobody, and how
                   \* many rows make a page
    MaxAuctions,   \* BOUND on the auctions created, of all times
    MaxItems,      \* BOUND on the items created, of all times
    MaxCalls,      \* BOUND on the requests for a change
    MaxRuns,       \* BOUND on the runs
    MaxSteps       \* BOUND on these requests and runs together

Auctions == 1..MaxAuctions
Items == 1..MaxItems
Calls == 1..MaxCalls
Buyers == Users \cup {Nobody}

ASSUME CatalogueInputs ==
    /\ Nobody \notin Users /\ Seller \in Users
    /\ MaxAuctions \in Nat \ {0} /\ MaxItems \in Nat
    /\ Stock \in 0..MaxItems
    /\ Listings \in Auctions
    /\ Lists \subseteq
        [list : {"auctions"}, user : Buyers, take : Nat \ {0}]
            \cup [list : {"purchases"}, user : Users, take : Nat \ {0}]
    /\ StartPrice \in Nat /\ Prices \subseteq Nat

ASSUME CatalogueBounds == MaxCalls \in Nat /\ MaxRuns \in Nat /\ MaxSteps \in Nat

VARIABLES
    host,       \* the auctions: id |-> its user, Nobody if there is no such row
    opened,     \* how many auctions were created; ids are in the order of createdAt
    item,       \* the items: id |-> its auction, seller, isSold, buyerId, lastPrice
    added,      \* how many items were created
    call,       \* request |-> the change it may make, between its check and its change
    lots,       \* auction |-> the items its run has loaded and not settled
    runs,       \* how many runs there were
    writes,     \* item |-> the saves under way; equal ones count as one
    reader,     \* the client that pages: its list, page, the query it waits for
    shown,      \* id |-> how often the reader was shown it
    won,        \* HISTORY: item |-> the users who won it, or whom its seller named
    last,       \* HISTORY: item |-> what its last run settled
    blurred,    \* HISTORY: the items whose save was lost or raced another one
    stayed,     \* HISTORY: the ids that were in the list of the reader all the time
    joined,     \* HISTORY: did a row come into that list meanwhile?
    left        \* HISTORY: did a row leave it?

rowVars == <<host, opened, item, added>>
runVars == <<lots, runs, writes, won, last, blurred>>
readerVars == <<reader, shown, stayed, joined, left>>
catalogueVars == <<rowVars, call, runVars, readerVars>>

-----------------------------------------------------------------------------
(* Data *)

NoItem == [auction |-> 0]
Exists(x) == item[x] # NoItem
NewItem(a, u) ==
    [auction |-> a, seller |-> u, sold |-> FALSE, buyer |-> Nobody, price |-> 0]

NoSale == [sold |-> FALSE]

NoCall == [kind |-> "none"]
NoReader == [at |-> "idle", list |-> "none"]

\* The bound on the requests and the runs together is not reached.
MoreSteps == runs + Cardinality({c \in Calls : call[c] # NoCall}) < MaxSteps

CatalogueInit ==
    /\ host = [a \in Auctions |-> IF a <= Listings THEN Seller ELSE Nobody]
    /\ opened = Listings
    /\ item = [x \in Items |-> IF x <= Stock THEN NewItem(1, Seller) ELSE NoItem]
    /\ added = Stock
    /\ call = [c \in Calls |-> NoCall]
    /\ lots = [a \in Auctions |-> <<>>]
    /\ runs = 0
    /\ writes = [x \in Items |-> {}]
    /\ reader = NoReader
    /\ shown = [x \in 1..0 |-> 0]
    /\ won = [x \in Items |-> {}]
    /\ last = [x \in Items |-> NoSale]
    /\ blurred = {}
    /\ stayed = {} /\ joined = FALSE /\ left = FALSE

-----------------------------------------------------------------------------
(* Auctions and items *)

Ask(c, request) ==
    /\ MoreSteps /\ call[c] = NoCall /\ \A d \in Calls : d < c => call[d] # NoCall
    /\ call' = [call EXCEPT ![c] = request]

Done(c) == call' = [call EXCEPT ![c] = [kind |-> "done"]]

\* create, createAuction: the user of a token has a row.
CreateAuction(c, u) ==
    /\ opened < MaxAuctions
    /\ Ask(c, [kind |-> "done"])
    /\ opened' = opened + 1
    /\ host' = [host EXCEPT ![opened + 1] = u]
    /\ UNCHANGED <<item, added, runVars>>

\* createAuctionItem (when its pictures are uploaded), updateAuctionItem, removeItem
\* and remove: the first query of each finds the auction or the item, and all but the
\* first compare its user with the client.  A request refused here changes nothing.
MayChange(u, r) ==
    \/ r.kind = "createItem" /\ host[r.id] # Nobody
    \/ r.kind = "remove" /\ host[r.id] = u
    \/ r.kind \in {"updateItem", "removeItem"} /\ Exists(r.id) /\ item[r.id].seller = u

CheckRequest(c, u) ==
    /\ \E r \in [kind : {"createItem", "remove"}, id : 1..opened, user : {u}]
            \cup [kind : {"updateItem", "removeItem"}, id : 1..added, user : {u}] :
        MayChange(u, r) /\ Ask(c, r)
    /\ UNCHANGED <<rowVars, runVars>>

\* The second query of request c.
Changing(c, kind) == call[c].kind = kind /\ Done(c)

\* The item is saved, whether or not its auction is still there.
CreateItem(c) ==
    /\ Changing(c, "createItem") /\ added < MaxItems
    /\ added' = added + 1
    /\ item' = [item EXCEPT ![added + 1] = NewItem(call[c].id, call[c].user)]
    /\ UNCHANGED <<host, opened, runVars>>

\* updateAuctionItem: the body may hold isSold, buyerId and lastPrice, each or none,
\* whether they fit or not; checkAffected if the row is gone.
UpdateItem(c) ==
    /\ Changing(c, "updateItem")
    /\ LET x == call[c].id IN
        \/ /\ ~Exists(x) /\ UNCHANGED <<item, won, blurred>>
        \/ /\ Exists(x)
           /\ \E s \in BOOLEAN, b \in Buyers, p \in Prices \cup {item[x].price} :
                /\ item' = [item EXCEPT ![x].sold = s, ![x].buyer = b, ![x].price = p]
                /\ won' = [won EXCEPT ![x] = @ \cup ({b} \cap Users)]
           /\ blurred' = blurred \cup {x}
    /\ UNCHANGED <<host, opened, added, lots, runs, writes, last>>

RemoveItem(c) ==
    /\ Changing(c, "removeItem")
    /\ item' = [item EXCEPT ![call[c].id] = NoItem]
    /\ UNCHANGED <<host, opened, added, runVars>>

\* remove: the row of the auction goes, its items stay.
RemoveAuction(c) ==
    /\ Changing(c, "remove")
    /\ host' = [host EXCEPT ![call[c].id] = Nobody]
    /\ UNCHANGED <<opened, item, added, runVars>>

-----------------------------------------------------------------------------
(* Runs *)

ItemsOf(a) == {x \in Items : Exists(x) /\ item[x].auction = a}

\* load: a lot knows who bought it before, its price begins anew.
LotOf(x) == [item |-> x, sold |-> item[x].sold, buyer |-> item[x].buyer, price |-> StartPrice]

\* A run without items settles nothing and is left out.
StartRun(a) ==
    /\ lots[a] = <<>> /\ host[a] # Nobody /\ ItemsOf(a) # {} /\ runs < MaxRuns /\ MoreSteps
    /\ runs' = runs + 1
    /\ \E order \in [1..Cardinality(ItemsOf(a)) -> ItemsOf(a)] :
        /\ \A i, j \in DOMAIN order : i < j => order[i] < order[j]
        /\ lots' = [lots EXCEPT ![a] = [i \in DOMAIN order |-> LotOf(order[i])]]
    /\ UNCHANGED <<rowVars, call, writes, won, last, blurred>>

\* The columns that a lot is saved with.
SaleOf(lot) == [sold |-> lot.sold, buyer |-> lot.buyer, price |-> lot.price]

\* The bids for the first lot of a end: the save is sent and not awaited.
SettleAs(a, lot) ==
    /\ lots' = [lots EXCEPT ![a] = Tail(@)]
    /\ writes' = [writes EXCEPT ![lot.item] = @ \cup {SaleOf(lot)}]
    /\ last' = [last EXCEPT ![lot.item] = SaleOf(lot)]
    /\ blurred' = IF writes[lot.item] = {} THEN blurred \ {lot.item}
                  ELSE blurred \cup {lot.item}
    /\ UNCHANGED <<rowVars, call, runs>>

\* onBidEnded sets buyerId and isSold; saveEach sends the lot to the database.
Sell(a, u, p) ==
    /\ lots[a] # <<>>
    /\ LET lot == Head(lots[a]) IN
        /\ SettleAs(a, [lot EXCEPT !.sold = TRUE, !.buyer = u, !.price = p])
        /\ won' = [won EXCEPT ![lot.item] = @ \cup {u}]

\* jobAfterBidEnd without a bid: the lot is saved all the same.
PassIn(a) ==
    /\ lots[a] # <<>>
    /\ SettleAs(a, Head(lots[a]))
    /\ UNCHANGED won

\* Mutant: the price is not saved.
WrittenWithoutPrice(x, w) == [item[x] EXCEPT !.sold = w.sold, !.buyer = w.buyer]

\* The row with the columns of a save.
Written(x, w) == [item[x] EXCEPT !.sold = w.sold, !.buyer = w.buyer, !.price = w.price]

\* updateAuctionItem of the repository: an item that was removed stays removed.
SaveEach(x) == \E w \in writes[x] :
    /\ writes' = [writes EXCEPT ![x] = @ \ {w}]
    /\ item' = IF Exists(x) THEN [item EXCEPT ![x] = Written(x, w)] ELSE item
    /\ UNCHANGED <<host, opened, added, call, lots, runs, won, last, blurred>>

\* The process ends, for one when a save fails: what it had sent and not yet done is
\* lost, the runs and requests are.
ProcessEnds ==
    /\ lots' = [a \in Auctions |-> <<>>]
    /\ writes' = [x \in Items |-> {}]
    /\ blurred' = blurred \cup {x \in Items : writes[x] # {}}
    /\ call' = [c \in Calls |-> IF call[c] = NoCall THEN NoCall ELSE [kind |-> "done"]]
    /\ UNCHANGED <<rowVars, runs, won, last>>

-----------------------------------------------------------------------------
(* Paging *)

\* Mutant: whatever was sold is in every list.
IsSold(x, u) == item[x].sold

\* { isSold: true, buyerId }
IsBoughtBy(x, u) == item[x].sold /\ item[x].buyer = u

\* The ids of the rows that a list has: all auctions, the auctions or the purchases
\* of a user.
Listed(list, u) ==
    IF list = "purchases" THEN {x \in Items : Exists(x) /\ IsBoughtBy(x, u)}
    ELSE {a \in Auctions : host[a] # Nobody /\ u \in {host[a], Nobody}}

\* order: { createdAt: 'DESC' }: how many of the rows come before that of x.
Position(ids, x) == Cardinality({y \in ids : y > x})

\* Mutant: the first row of a page is the last one of the page before.
SkipOneLess(page, take) == IF page = 1 THEN 0 ELSE (page - 1) * take - 1

\* PaginationRequest.skip
Skip(page, take) == (page - 1) * take

\* Mutant: a page that is not full does not count.
TotalPageDown(total, take) == total \div take

\* getTotalPage
TotalPage(total, take) == (total + take - 1) \div take

\* The ids on a page.
Page(ids, page, take) ==
    LET skip == Skip(page, take)
    IN  {x \in ids : Position(ids, x) \in skip..(skip + take - 1)}

\* A client asks for the first page of a list.
OpenList(l) ==
    /\ reader.at = "idle"
    /\ reader' = [at |-> "rows", page |-> 1, list |-> l.list, user |-> l.user, take |-> l.take]
    /\ shown' = [x \in Items \cup Auctions |-> 0]
    /\ stayed' = Listed(l.list, l.user)
    /\ UNCHANGED <<joined, left>>

\* findAndCount, the rows.
ReadRows ==
    /\ reader.at = "rows"
    /\ LET page == Page(Listed(reader.list, reader.user), reader.page, reader.take)
       IN  shown' = [x \in DOMAIN shown |-> IF x \in page THEN shown[x] + 1 ELSE shown[x]]
    /\ reader' = [reader EXCEPT !.at = "count"]
    /\ UNCHANGED <<stayed, joined, left>>

\* findAndCount, the number of rows: getHasNextPage, and the client asks for it.
CountRows ==
    /\ reader.at = "count"
    /\ LET total == Cardinality(Listed(reader.list, reader.user))
       IN  reader' = IF reader.page < TotalPage(total, reader.take)
                     THEN [reader EXCEPT !.at = "rows", !.page = @ + 1]
                     ELSE [reader EXCEPT !.at = "done"]
    /\ UNCHANGED <<shown, stayed, joined, left>>

\* HISTORY: what a change does to the list of the reader.
Watched ==
    IF reader.at \notin {"rows", "count"} THEN UNCHANGED readerVars
    ELSE LET now == Listed(reader.list, reader.user)
             then == Listed(reader.list, reader.user)'
         IN  /\ UNCHANGED <<reader, shown>>
             /\ stayed' = stayed \cap then
             /\ joined' = (joined \/ ~ then \subseteq now)
             /\ left' = (left \/ ~ now \subseteq then)

-----------------------------------------------------------------------------
(* The specification *)

Change == \E c \in Calls :
    \/ \E u \in Users : CreateAuction(c, u) \/ CheckRequest(c, u)
    \/ CreateItem(c) \/ UpdateItem(c)
    \/ RemoveItem(c) \/ RemoveAuction(c)

Running ==
    \/ \E a \in Auctions : StartRun(a) \/ PassIn(a)
    \/ \E a \in Auctions, u \in Users, p \in Prices : Sell(a, u, p)
    \/ \E x \in Items : SaveEach(x)
    \/ ProcessEnds

Paging ==
    /\ \/ \E l \in Lists : OpenList(l)
       \/ ReadRows \/ CountRows
    /\ UNCHANGED <<rowVars, call, runVars>>

CatalogueNext ==
    \/ Change /\ Watched
    \/ Running /\ Watched
    \/ Paging

CatalogueSpec == CatalogueInit /\ [][CatalogueNext]_catalogueVars

-----------------------------------------------------------------------------
(* Properties *)

\* When no save is under way, the row of an item says what its last run settled,
\* although nobody waits for the save and a run without bids saves as well: a sale is
\* lost only with its row, with the process, to a PATCH of the item since its last
\* settlement, or to a save of the item that was under way when this one was sent
\* (game.service.ts:343-345, auction-item.repository.ts:82-92).
RowKeepsTheSale ==
    \A x \in Items : Exists(x) /\ writes[x] = {} /\ last[x] # NoSale /\ x \notin blurred =>
        /\ item[x].sold = last[x].sold
        /\ item[x].buyer = last[x].buyer
        /\ item[x].price = last[x].price

\* A user's purchases show nothing but what the user has won in some run, or what a
\* PATCH of the seller says the user has bought
\* (auction.service.ts:132-143).
PurchasesWereWon ==
    reader.list = "purchases" =>
        \A x \in DOMAIN shown : shown[x] > 0 => reader.user \in won[x]

\* A row that is in a list all the time is on one of its pages, unless a row before
\* it left the list meanwhile and moved it to a page already read; rows that come
\* in, and a count that is newer than the rows, make nobody miss one
\* (auction.service.ts:219-231, pagination.response.ts:26-32).
PagesMissOnlyIfRemoved ==
    reader.at = "done" /\ ~left => \A x \in stayed : shown[x] > 0

\* No row is on two pages unless another one came into the list meanwhile
\* (pagination.request.ts:16-18).
PagesRepeatOnlyIfAdded ==
    reader.at # "idle" /\ ~joined => \A x \in DOMAIN shown : shown[x] <= 1
=============================================================================
