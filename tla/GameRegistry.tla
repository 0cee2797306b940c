---------------------------- MODULE GameRegistry ----------------------------
(***************************************************************************)
(* Which auctions run: GameService.startAuction and the life cycle's        *)
(* callbacks, GameStatusService's maps, and the status column of an         *)
(* auction (game/services, game/lifecycle/game-abstraction.lifecycle.ts).   *)
(*                                                                         *)
(* A call runs in one turn of the event loop up to its first await of the  *)
(* database.  The writes of the status are not awaited: they are `writes'   *)
(* under way on the connections of a pool, and take effect in any order.    *)
(* What happens inside a room is AuctionGame's; here it is open until it    *)
(* ends.  A promise that is rejected and that nobody awaits, as run() and   *)
(* the writes are, ends the process; pm2 starts it again with empty maps.   *)
(***************************************************************************)
EXTENDS Integers, FiniteSets

CONSTANTS
    Auctions,    \* the ids of the auctions in the database
    Patched,     \* the statuses that PATCH auction/:id is used to write
    MaxRooms,    \* BOUND on the AuctionGame objects alive for one auction
    MaxWrites    \* BOUND on equal writes under way: this many stand for more

Rooms == 1..MaxRooms
NoRoom == 0

Statuses == {"WAIT", "PROGRESS", "END", "TERMINATED"}

ASSUME PatchedStatuses == Patched \subseteq Statuses

ASSUME RegistryBounds ==
    /\ MaxRooms \in Nat \ {0}
    /\ MaxWrites \in Nat \ {0}

VARIABLES
    status,     \* auction |-> its status column, "REMOVED" without a row
    writes,     \* auction |-> status |-> how many writes of it are under way
    ready,      \* the keys of auctionsForReady
    running,    \* auction |-> the room auctionsMap has for it
    room        \* auction |-> room |-> where its run() is

registryVars == <<status, writes, ready, running, room>>

-----------------------------------------------------------------------------
(* Data *)

Written == {"PROGRESS", "END"}

\* run() waits for the auction's row, for the rows of its items, for the room to
\* end; "stopped" is a room without items, whose run() has returned; "none" is no
\* object at all.
Places == {"none", "auctionRow", "itemRows", "open", "stopped"}
Loading == {"auctionRow", "itemRows"}
Opened == {"open", "stopped"}

RegistryTypeOK ==
    /\ status \in [Auctions -> Statuses \cup {"REMOVED"}]
    /\ writes \in [Auctions -> [Written -> 0..MaxWrites]]
    /\ ready \subseteq Auctions
    /\ running \in [Auctions -> Rooms \cup {NoRoom}]
    /\ room \in [Auctions -> [Rooms -> Places]]

\* isRunning
InMap(a) == running[a] # NoRoom

\* Mutant: only the running map is asked.
OnlyRunning(a) == InMap(a)

\* isRunningOrReady
RunningOrReady(a) == InMap(a) \/ a \in ready

Quiet(a) == \A s \in Written : writes[a][s] = 0

RegistryInit ==
    /\ status \in [Auctions -> Statuses]
    /\ writes = [a \in Auctions |-> [s \in Written |-> 0]]
    /\ ready = {}
    /\ running = [a \in Auctions |-> NoRoom]
    /\ room = [a \in Auctions |-> [r \in Rooms |-> "none"]]

\* Mutant: no status is written when an auction is started.
NotWritten(ws, s, S) == ws

\* ws after a write of s for each of the auctions of S was sent.
Sent(ws, s, S) ==
    [a \in Auctions |->
        IF a \in S /\ ws[a][s] < MaxWrites THEN [ws[a] EXCEPT ![s] = @ + 1] ELSE ws[a]]

-----------------------------------------------------------------------------
(* Starting and ending *)

\* The auctions that startAuction launches out of those it is called for.
Launched(S) == {a \in S : ~RunningOrReady(a)}

\* A new AuctionGame for each auction of S: run() is up to load's first query.
NewRooms(S) ==
    \E r \in [S -> Rooms] :
        /\ \A a \in S :
              /\ room[a][r[a]] = "none"
              /\ \A q \in 1..(r[a] - 1) : room[a][q] # "none"
        /\ room' = [a \in Auctions |->
                      IF a \in S THEN [room[a] EXCEPT ![r[a]] = "auctionRow"]
                                 ELSE room[a]]

\* startAuction for the auctions of S in one turn, as startAuctionTimers calls it;
\* other callers pass one auction.
StartAuctions(S) ==
    /\ writes' = Sent(writes, "PROGRESS", S)
    /\ ready' = ready \cup Launched(S)
    /\ NewRooms(Launched(S))
    /\ UNCHANGED <<status, running>>

\* Every object is gone; a write under way may be lost with its connection.
ProcessEnds ==
    /\ ready' = {}
    /\ running' = [a \in Auctions |-> NoRoom]
    /\ room' = [a \in Auctions |-> [r \in Rooms |-> "none"]]
    /\ writes' \in [Auctions -> [Written -> 0..MaxWrites]]
    /\ \A a \in Auctions, s \in Written : writes'[a][s] <= writes[a][s]
    /\ UNCHANGED status

\* load: the row of the auction arrives.
AuctionRow(a, r) ==
    /\ room[a][r] = "auctionRow"
    /\ status[a] # "REMOVED"
    /\ room' = [room EXCEPT ![a][r] = "itemRows"]
    /\ UNCHANGED <<status, writes, ready, running>>

\* load: 'not found auction' rejects run(), which nobody awaits.
AuctionNotFound(a, r) ==
    /\ room[a][r] = "auctionRow"
    /\ status[a] = "REMOVED"
    /\ ProcessEnds

\* Mutant: the auction stays in the ready map.
KeepReady(a) == ready

\* deleteReady
DeleteReady(a) == ready \ {a}

\* load: the rows of the items arrive; the rest of onRoomCreate, and onBidCreate,
\* which stops at once in a room without items.
OpenRoom(a, r) ==
    /\ room[a][r] = "itemRows"
    /\ writes' = Sent(writes, "PROGRESS", {a})
    /\ ready' = DeleteReady(a)
    /\ running' = [running EXCEPT ![a] = r]
    /\ \E place \in Opened : room' = [room EXCEPT ![a][r] = place]
    /\ UNCHANGED status

\* Mutant: the room stays in the running map.
KeepRunning(a) == running

\* deleteRunning
DeleteRunning(a) == [running EXCEPT ![a] = NoRoom]

\* onRoomDestroy, after the last item of the room.
CloseRoom(a, r) ==
    /\ room[a][r] = "open"
    /\ running' = DeleteRunning(a)
    /\ writes' = Sent(writes, "END", {a})
    /\ room' = [room EXCEPT ![a][r] = "none"]
    /\ UNCHANGED <<status, ready>>

-----------------------------------------------------------------------------
(* The database, the process, the catalogue *)

\* A write reaches the row of the auction, if there still is one.
WriteLands(a, s) ==
    /\ writes[a][s] > 0
    /\ writes' = [writes EXCEPT ![a][s] = @ - 1]
    /\ status' = [status EXCEPT ![a] = IF @ = "REMOVED" THEN @ ELSE s]
    /\ UNCHANGED <<ready, running, room>>

\* The process dies, or a query or a write fails.
Crash == ProcessEnds

\* DELETE auction/:id looks at nothing but the owner.
Remove(a) ==
    /\ status[a] # "REMOVED"
    /\ status' = [status EXCEPT ![a] = "REMOVED"]
    /\ UNCHANGED <<writes, ready, running, room>>

\* PATCH auction/:id writes the status it is given, of a row that exists.
PatchAuction(a, s) ==
    /\ status[a] # "REMOVED"
    /\ status' = [status EXCEPT ![a] = s]
    /\ UNCHANGED <<writes, ready, running, room>>

Start == \E S \in SUBSET Auctions : S # {} /\ StartAuctions(S)

Load == \E a \in Auctions, r \in Rooms : AuctionRow(a, r) \/ OpenRoom(a, r)

Settle ==
    \/ \E a \in Auctions, r \in Rooms : CloseRoom(a, r)
    \/ \E a \in Auctions, s \in Written : WriteLands(a, s)

Dies == Crash \/ \E a \in Auctions, r \in Rooms : AuctionNotFound(a, r)

RegistryNext ==
    \/ Start \/ Load \/ Settle \/ Dies
    \/ \E a \in Auctions : Remove(a)
    \/ \E a \in Auctions, s \in Patched : PatchAuction(a, s)

\* The database answers queries or refuses them.
RegistryFairness == \A a \in Auctions : WF_registryVars(
    \E r \in Rooms : AuctionRow(a, r) \/ AuctionNotFound(a, r) \/ OpenRoom(a, r))

RegistrySpec == RegistryInit /\ [][RegistryNext]_registryVars
FairRegistrySpec == RegistrySpec /\ RegistryFairness

-----------------------------------------------------------------------------
(* Properties *)

\* An auction has at most one room at a time, from the call that starts it to its
\* last turn: two of them would sell the same items twice.  Between startAuction
\* and setRunning only the ready map stands in the way (game.service.ts:135-140).
OneRoom ==
    \A a \in Auctions : \A q, r \in Rooms :
        room[a][q] # "none" /\ room[a][r] # "none" => q = r

\* The running map has exactly the rooms that are open, each under its auction, so
\* a bid, a skip or terminateAllAuctions reaches every open room, and never one
\* that is gone (game.status.service.ts, README.md:126-129).
MapHasTheRooms ==
    \A a \in Auctions : \A r \in Rooms :
        running[a] = r <=> room[a][r] \in Opened

\* The ready map has exactly the auctions that are being loaded: an auction left
\* there could never be started again (game.service.ts:90-102, 140).
ReadyIsLoading ==
    \A a \in Auctions : a \in ready <=> \E r \in Rooms : room[a][r] \in Loading

\* An auction whose row says WAIT, with no write under way, has no room and is not
\* about to get one, unless a PATCH made it say so: getWaitAuctions lists only
\* auctions that are not running (game.service.ts:134, auction.repository.ts:38-42).
WaitingHasNoRoom ==
    \A a \in Auctions :
        status[a] = "WAIT" /\ Quiet(a) =>
            \A r \in Rooms : room[a][r] = "none"

WaitingUnlessPatched == "WAIT" \notin Patched => WaitingHasNoRoom

\* The inductive invariant of the proofs: the maps are right only together.
RegistryInv ==
    /\ RegistryTypeOK /\ OneRoom /\ MapHasTheRooms /\ ReadyIsLoading
    /\ WaitingUnlessPatched

\* An auction does not stay ready: load ends one way or another, and each way,
\* the auction opened, not found or the process gone, leaves the ready map.
ReadyIsLeft == \A a \in Auctions : a \in ready ~> a \notin ready
=============================================================================
