------------------------- MODULE GameRegistryProofs -------------------------
(***************************************************************************)
(* Proofs about GameRegistry for any set of auctions and any bounds: the   *)
(* ready and the running map together keep an auction to one room.         *)
(***************************************************************************)
EXTENDS GameRegistry, TLAPS

USE DEF Statuses, Written, Places, Loading, Opened

\* Rooms are numbers from 1, so that no room is NoRoom.
LEMMA RoomsArePositive == \A r \in Rooms : r # NoRoom
BY RegistryBounds DEF Rooms, NoRoom

\* A write sent is under way, and nothing that was under way is forgotten.
LEMMA SentKeeps ==
    ASSUME writes \in [Auctions -> [Written -> 0..MaxWrites]],
           NEW s \in Written, NEW S \in SUBSET Auctions,
           writes' = Sent(writes, s, S)
    PROVE  /\ writes' \in [Auctions -> [Written -> 0..MaxWrites]]
           /\ \A a \in Auctions, t \in Written : writes'[a][t] >= writes[a][t]
           /\ \A a \in S : writes'[a][s] > 0
<1> DEFINE W == 0..MaxWrites
<1>1. MaxWrites \in Nat \ {0}
  BY RegistryBounds
<1>2. ASSUME NEW a \in Auctions
      PROVE  /\ writes'[a] \in [Written -> 0..MaxWrites]
             /\ \A t \in Written : writes'[a][t] >= writes[a][t]
             /\ a \in S => writes'[a][s] > 0
  <2>1. writes[a] \in [Written -> 0..MaxWrites]
    OBVIOUS
  <2>2. CASE a \in S /\ writes[a][s] < MaxWrites
    <3>1. writes'[a] = [writes[a] EXCEPT ![s] = @ + 1]
      BY <2>2 DEF Sent
    <3>2. writes[a][s] + 1 \in 0..MaxWrites
      BY <1>1, <2>1, <2>2
    <3> QED
      BY <2>1, <3>1, <3>2
  <2>3. CASE ~(a \in S /\ writes[a][s] < MaxWrites)
    <3>1. writes'[a] = writes[a]
      BY <2>3 DEF Sent
    <3> QED
      BY <1>1, <2>1, <2>3, <3>1
  <2> QED
    BY <2>2, <2>3
<1>3. writes' \in [Auctions -> [Written -> 0..MaxWrites]]
  <2>1. writes' = [a \in Auctions |-> writes'[a]]
    BY DEF Sent
  <2> QED
    BY <1>2, <2>1
<1> QED
  BY <1>2, <1>3

\* A server that starts has empty maps and no room.
LEMMA InitRegistryInv == RegistryInit => RegistryInv
<1> SUFFICES ASSUME RegistryInit PROVE RegistryInv
  OBVIOUS
<1>1. 0 \in 0..MaxWrites
  BY RegistryBounds
<1>2. RegistryTypeOK
  BY <1>1 DEF RegistryInit, RegistryTypeOK
<1>3. OneRoom /\ MapHasTheRooms /\ ReadyIsLoading /\ WaitingUnlessPatched
  BY RoomsArePositive DEF RegistryInit, OneRoom, MapHasTheRooms, ReadyIsLoading,
                          WaitingUnlessPatched, WaitingHasNoRoom
<1> QED
  BY <1>2, <1>3 DEF RegistryInv

\* A start launches only auctions without a room, so they get their first.
LEMMA StartKeeps ==
    ASSUME RegistryInv, NEW S \in SUBSET Auctions, StartAuctions(S)
    PROVE  RegistryInv'
<1> DEFINE L == Launched(S)
<1>1. /\ RegistryTypeOK /\ OneRoom /\ MapHasTheRooms /\ ReadyIsLoading
      /\ WaitingUnlessPatched
  BY DEF RegistryInv
<1>2. L \subseteq Auctions /\ ready' = ready \cup L
  BY DEF Launched, StartAuctions
<1>3. \A a \in L : \A r \in Rooms : room[a][r] = "none"
  BY <1>1, RoomsArePositive
     DEF Launched, RunningOrReady, InMap, RegistryTypeOK, MapHasTheRooms, ReadyIsLoading
<1>4. PICK n \in [L -> Rooms] :
         room' = [a \in Auctions |->
                     IF a \in L THEN [room[a] EXCEPT ![n[a]] = "auctionRow"]
                                ELSE room[a]]
  BY DEF StartAuctions, NewRooms
<1>5. \A a \in Auctions \ L : room'[a] = room[a]
  BY <1>4
<1>6. ASSUME NEW a \in L
      PROVE  /\ n[a] \in Rooms /\ room'[a][n[a]] = "auctionRow"
             /\ \A r \in Rooms \ {n[a]} : room'[a][r] = "none"
             /\ room'[a] \in [Rooms -> Places]
  <2>1. a \in Auctions /\ n[a] \in Rooms /\ room[a] \in [Rooms -> Places]
    BY <1>1, <1>2, <1>4 DEF RegistryTypeOK
  <2>2. room'[a] = [room[a] EXCEPT ![n[a]] = "auctionRow"]
    BY <1>4, <2>1
  <2> QED
    BY <1>3, <2>1, <2>2
<1>7. writes' = Sent(writes, "PROGRESS", S) /\ UNCHANGED <<status, running>>
  BY DEF StartAuctions
<1>8. /\ writes' \in [Auctions -> [Written -> 0..MaxWrites]]
      /\ \A a \in Auctions, t \in Written : writes'[a][t] >= writes[a][t]
      /\ \A a \in S : writes'[a]["PROGRESS"] > 0
  BY <1>1, <1>7, SentKeeps DEF RegistryTypeOK
<1>9. RegistryTypeOK'
  <2>1. \A a \in Auctions : room'[a] \in [Rooms -> Places]
    BY <1>1, <1>5, <1>6 DEF RegistryTypeOK
  <2>2. room' \in [Auctions -> [Rooms -> Places]]
    BY <1>4, <2>1
  <2> QED
    BY <1>1, <1>2, <1>7, <1>8, <2>2 DEF RegistryTypeOK
<1>10. OneRoom'
  BY <1>1, <1>5, <1>6 DEF OneRoom
<1>11. MapHasTheRooms'
  <2>1. \A a \in L : running[a] = NoRoom
    BY DEF Launched, RunningOrReady, InMap
  <2> QED
    BY <1>1, <1>2, <1>5, <1>6, <1>7, <2>1, RoomsArePositive DEF MapHasTheRooms
<1>12. ReadyIsLoading'
  BY <1>1, <1>2, <1>5, <1>6 DEF ReadyIsLoading
<1>13. WaitingUnlessPatched'
  <2> SUFFICES ASSUME "WAIT" \notin Patched, NEW a \in Auctions, status'[a] = "WAIT", Quiet(a)'
               PROVE  \A r \in Rooms : room'[a][r] = "none"
    BY DEF WaitingUnlessPatched, WaitingHasNoRoom
  <2>1. a \notin S
    BY <1>8 DEF Quiet
  <2>2. \A t \in Written : writes[a][t] \in Int /\ writes[a][t] >= 0
    BY <1>1 DEF RegistryTypeOK
  <2>3. Quiet(a)
    BY <1>8, <2>2 DEF Quiet
  <2>4. a \notin L
    BY <2>1 DEF Launched
  <2> QED
    BY <1>1, <1>5, <1>7, <2>3, <2>4 DEF WaitingUnlessPatched, WaitingHasNoRoom
<1> QED
  BY <1>9, <1>10, <1>11, <1>12, <1>13 DEF RegistryInv

\* When the process ends nothing is left to be wrong.
LEMMA EndKeeps ==
    ASSUME RegistryInv, ProcessEnds
    PROVE  RegistryInv'
<1>1. RegistryTypeOK'
  BY DEF RegistryInv, RegistryTypeOK, ProcessEnds
<1>2. (OneRoom /\ MapHasTheRooms /\ ReadyIsLoading /\ WaitingUnlessPatched)'
  BY RoomsArePositive DEF ProcessEnds, OneRoom, MapHasTheRooms, ReadyIsLoading,
                          WaitingUnlessPatched, WaitingHasNoRoom
<1> QED
  BY <1>1, <1>2 DEF RegistryInv

\* A room that moves on stays the only room of its auction.
LEMMA MoveKeepsOneRoom ==
    ASSUME RegistryTypeOK, OneRoom, NEW a \in Auctions, NEW r \in Rooms, NEW p \in Places,
           room[a][r] # "none",
           room' = [room EXCEPT ![a][r] = p]
    PROVE  /\ room' \in [Auctions -> [Rooms -> Places]]
           /\ OneRoom'
           /\ room'[a][r] = p
           /\ \A q \in Rooms \ {r} : room[a][q] = "none" /\ room'[a][q] = "none"
           /\ \A b \in Auctions \ {a} : room'[b] = room[b]
<1>1. room \in [Auctions -> [Rooms -> Places]]
  BY DEF RegistryTypeOK
<1>2. \A q \in Rooms \ {r} : room[a][q] = "none"
  BY DEF OneRoom
<1>3. room'[a] = [room[a] EXCEPT ![r] = p]
  BY <1>1
<1>4. room'[a][r] = p /\ \A q \in Rooms \ {r} : room'[a][q] = room[a][q]
  BY <1>1, <1>3
<1>5. \A b \in Auctions \ {a} : room'[b] = room[b]
  BY <1>1
<1>6. room' \in [Auctions -> [Rooms -> Places]]
  BY <1>1
<1>7. OneRoom'
  BY <1>2, <1>4, <1>5 DEF OneRoom
<1> QED
  BY <1>2, <1>4, <1>5, <1>6, <1>7

\* The row of a loading auction has arrived: it goes on loading.
LEMMA RowKeeps ==
    ASSUME RegistryInv, NEW a \in Auctions, NEW r \in Rooms, AuctionRow(a, r)
    PROVE  RegistryInv'
<1>1. /\ RegistryTypeOK /\ OneRoom /\ MapHasTheRooms /\ ReadyIsLoading
      /\ WaitingUnlessPatched
  BY DEF RegistryInv
<1>2. /\ room[a][r] = "auctionRow" /\ room' = [room EXCEPT ![a][r] = "itemRows"]
      /\ UNCHANGED <<status, writes, ready, running>>
  BY DEF AuctionRow
<1>3. /\ room' \in [Auctions -> [Rooms -> Places]]
      /\ OneRoom'
      /\ room'[a][r] = "itemRows"
      /\ \A q \in Rooms \ {r} : room[a][q] = "none" /\ room'[a][q] = "none"
      /\ \A b \in Auctions \ {a} : room'[b] = room[b]
  <2>1. "itemRows" \in Places /\ room[a][r] # "none"
    BY <1>2
  <2> QED
    BY <1>1, <1>2, <2>1, MoveKeepsOneRoom
<1>4. RegistryTypeOK'
  BY <1>1, <1>2, <1>3 DEF RegistryTypeOK
<1>5. MapHasTheRooms'
  BY <1>1, <1>2, <1>3 DEF MapHasTheRooms
<1>6. ReadyIsLoading'
  BY <1>1, <1>2, <1>3 DEF ReadyIsLoading
<1>7. WaitingUnlessPatched'
  BY <1>1, <1>2, <1>3 DEF WaitingUnlessPatched, WaitingHasNoRoom, Quiet
<1> QED
  BY <1>3, <1>4, <1>5, <1>6, <1>7 DEF RegistryInv

\* A write that is sent only makes rows less quiet.
LEMMA SentKeepsWaiting ==
    ASSUME RegistryTypeOK, WaitingUnlessPatched, "WAIT" \notin Patched, NEW b \in Auctions,
           NEW s \in Written, NEW S \in SUBSET Auctions,
           writes' = Sent(writes, s, S), UNCHANGED status,
           status'[b] = "WAIT", Quiet(b)'
    PROVE  b \notin S /\ \A r \in Rooms : room[b][r] = "none"
<1>1. /\ \A t \in Written : writes'[b][t] >= writes[b][t]
      /\ b \in S => writes'[b][s] > 0
  BY SentKeeps DEF RegistryTypeOK
<1>2. \A t \in Written : writes[b][t] \in Int /\ writes[b][t] >= 0
  BY DEF RegistryTypeOK
<1>3. Quiet(b)
  BY <1>1, <1>2 DEF Quiet
<1> QED
  BY <1>1, <1>3 DEF WaitingUnlessPatched, WaitingHasNoRoom, Quiet

\* An auction that opens goes from the ready map to the running map in one turn.
LEMMA OpenKeeps ==
    ASSUME RegistryInv, NEW a \in Auctions, NEW r \in Rooms, OpenRoom(a, r)
    PROVE  RegistryInv'
<1>1. /\ RegistryTypeOK /\ OneRoom /\ MapHasTheRooms /\ ReadyIsLoading
      /\ WaitingUnlessPatched
  BY DEF RegistryInv
<1>2. PICK p \in Opened : room' = [room EXCEPT ![a][r] = p]
  BY DEF OpenRoom
<1>3. /\ room[a][r] = "itemRows" /\ ready' = ready \ {a}
      /\ running' = [running EXCEPT ![a] = r]
      /\ writes' = Sent(writes, "PROGRESS", {a}) /\ UNCHANGED status
  BY DEF OpenRoom, DeleteReady
<1>4. /\ room' \in [Auctions -> [Rooms -> Places]]
      /\ OneRoom'
      /\ room'[a][r] = p
      /\ \A q \in Rooms \ {r} : room[a][q] = "none" /\ room'[a][q] = "none"
      /\ \A b \in Auctions \ {a} : room'[b] = room[b]
  <2>1. p \in Places /\ room[a][r] # "none"
    BY <1>3
  <2> QED
    BY <1>1, <1>2, <2>1, MoveKeepsOneRoom
<1>5. writes' \in [Auctions -> [Written -> 0..MaxWrites]]
  <2>1. writes \in [Auctions -> [Written -> 0..MaxWrites]] /\ {a} \in SUBSET Auctions
    BY <1>1 DEF RegistryTypeOK
  <2> QED
    BY <1>3, <2>1, SentKeeps
<1>6. RegistryTypeOK'
  BY <1>1, <1>3, <1>4, <1>5 DEF RegistryTypeOK
<1>7. MapHasTheRooms'
  BY <1>1, <1>3, <1>4 DEF MapHasTheRooms, RegistryTypeOK
<1>8. ReadyIsLoading'
  BY <1>1, <1>3, <1>4 DEF ReadyIsLoading
<1>9. WaitingUnlessPatched'
  <2> SUFFICES ASSUME "WAIT" \notin Patched, NEW b \in Auctions, status'[b] = "WAIT", Quiet(b)'
               PROVE  \A q \in Rooms : room'[b][q] = "none"
    BY DEF WaitingUnlessPatched, WaitingHasNoRoom
  <2>1. b \notin {a} /\ \A q \in Rooms : room[b][q] = "none"
    BY <1>1, <1>3, SentKeepsWaiting
  <2> QED
    BY <1>4, <2>1
<1> QED
  BY <1>4, <1>6, <1>7, <1>8, <1>9 DEF RegistryInv

\* A room that ends is the one its auction has in the running map.
LEMMA CloseKeeps ==
    ASSUME RegistryInv, NEW a \in Auctions, NEW r \in Rooms, CloseRoom(a, r)
    PROVE  RegistryInv'
<1>1. /\ RegistryTypeOK /\ OneRoom /\ MapHasTheRooms /\ ReadyIsLoading
      /\ WaitingUnlessPatched
  BY DEF RegistryInv
<1>2. /\ room[a][r] = "open" /\ room' = [room EXCEPT ![a][r] = "none"]
      /\ running' = [running EXCEPT ![a] = NoRoom]
      /\ writes' = Sent(writes, "END", {a}) /\ UNCHANGED <<status, ready>>
  BY DEF CloseRoom, DeleteRunning
<1>3. /\ room' \in [Auctions -> [Rooms -> Places]]
      /\ OneRoom'
      /\ room'[a][r] = "none"
      /\ \A q \in Rooms \ {r} : room[a][q] = "none" /\ room'[a][q] = "none"
      /\ \A b \in Auctions \ {a} : room'[b] = room[b]
  <2>1. "none" \in Places /\ room[a][r] # "none"
    BY <1>2
  <2> QED
    BY <1>1, <1>2, <2>1, MoveKeepsOneRoom
<1>4. writes' \in [Auctions -> [Written -> 0..MaxWrites]]
  <2>1. writes \in [Auctions -> [Written -> 0..MaxWrites]] /\ {a} \in SUBSET Auctions
    BY <1>1 DEF RegistryTypeOK
  <2> QED
    BY <1>2, <2>1, SentKeeps
<1>5. RegistryTypeOK'
  BY <1>1, <1>2, <1>3, <1>4 DEF RegistryTypeOK
<1>6. MapHasTheRooms'
  BY <1>1, <1>2, <1>3, RoomsArePositive DEF MapHasTheRooms, RegistryTypeOK
<1>7. ReadyIsLoading'
  BY <1>1, <1>2, <1>3 DEF ReadyIsLoading
<1>8. WaitingUnlessPatched'
  <2> SUFFICES ASSUME "WAIT" \notin Patched, NEW b \in Auctions, status'[b] = "WAIT", Quiet(b)'
               PROVE  \A q \in Rooms : room'[b][q] = "none"
    BY DEF WaitingUnlessPatched, WaitingHasNoRoom
  <2>1. b \notin {a} /\ \A q \in Rooms : room[b][q] = "none"
    BY <1>1, <1>2, SentKeepsWaiting
  <2> QED
    BY <1>3, <2>1
<1> QED
  BY <1>3, <1>5, <1>6, <1>7, <1>8 DEF RegistryInv

\* A write that lands makes the row anything but WAIT.
LEMMA WriteKeeps ==
    ASSUME RegistryInv, NEW a \in Auctions, NEW s \in Written, WriteLands(a, s)
    PROVE  RegistryInv'
<1>1. /\ RegistryTypeOK /\ OneRoom /\ MapHasTheRooms /\ ReadyIsLoading
      /\ WaitingUnlessPatched
  BY DEF RegistryInv
<1>2. /\ writes[a][s] > 0
      /\ writes' = [writes EXCEPT ![a][s] = @ - 1]
      /\ status' = [status EXCEPT ![a] = IF @ = "REMOVED" THEN @ ELSE s]
      /\ UNCHANGED <<ready, running, room>>
  BY DEF WriteLands
<1>3. RegistryTypeOK'
  <2>1. /\ writes \in [Auctions -> [Written -> 0..MaxWrites]]
        /\ status \in [Auctions -> Statuses \cup {"REMOVED"}]
    BY <1>1 DEF RegistryTypeOK
  <2>2. writes[a][s] - 1 \in 0..MaxWrites
    BY <1>2, <2>1, RegistryBounds
  <2>3. writes' \in [Auctions -> [Written -> 0..MaxWrites]]
    BY <1>2, <2>1, <2>2
  <2>4. status' \in [Auctions -> Statuses \cup {"REMOVED"}]
    BY <1>2, <2>1
  <2> QED
    BY <1>1, <1>2, <2>3, <2>4 DEF RegistryTypeOK
<1>4. OneRoom' /\ MapHasTheRooms' /\ ReadyIsLoading'
  BY <1>1, <1>2 DEF OneRoom, MapHasTheRooms, ReadyIsLoading
<1>5. WaitingUnlessPatched'
  <2>1. status'[a] # "WAIT"
    BY <1>1, <1>2 DEF RegistryTypeOK
  <2>2. \A b \in Auctions \ {a} : status'[b] = status[b] /\ writes'[b] = writes[b]
    BY <1>1, <1>2 DEF RegistryTypeOK
  <2> QED
    BY <1>1, <1>2, <2>1, <2>2 DEF WaitingUnlessPatched, WaitingHasNoRoom, Quiet
<1> QED
  BY <1>3, <1>4, <1>5 DEF RegistryInv

\* A row that is removed is not WAIT, and no map is touched.
LEMMA RemoveKeeps ==
    ASSUME RegistryInv, NEW a \in Auctions, Remove(a)
    PROVE  RegistryInv'
<1>1. RegistryTypeOK'
  BY DEF RegistryInv, RegistryTypeOK, Remove
<1>2. OneRoom' /\ MapHasTheRooms' /\ ReadyIsLoading'
  BY DEF RegistryInv, Remove, OneRoom, MapHasTheRooms, ReadyIsLoading
<1>3. WaitingUnlessPatched'
  BY DEF RegistryInv, RegistryTypeOK, Remove, WaitingUnlessPatched, WaitingHasNoRoom, Quiet
<1> QED
  BY <1>1, <1>2, <1>3 DEF RegistryInv

\* A PATCH changes one row; only one that writes WAIT could make it lie.
LEMMA PatchKeeps ==
    ASSUME RegistryInv, NEW a \in Auctions, NEW s \in Patched, PatchAuction(a, s)
    PROVE  RegistryInv'
<1>1. RegistryTypeOK'
  BY PatchedStatuses DEF RegistryInv, RegistryTypeOK, PatchAuction
<1>2. OneRoom' /\ MapHasTheRooms' /\ ReadyIsLoading'
  BY DEF RegistryInv, PatchAuction, OneRoom, MapHasTheRooms, ReadyIsLoading
<1>3. WaitingUnlessPatched'
  BY DEF RegistryInv, RegistryTypeOK, PatchAuction, WaitingUnlessPatched,
         WaitingHasNoRoom, Quiet
<1> QED
  BY <1>1, <1>2, <1>3 DEF RegistryInv

\* Every step of the registry keeps the invariant.
LEMMA RegistryStep == RegistryInv /\ [RegistryNext]_registryVars => RegistryInv'
<1> SUFFICES ASSUME RegistryInv, [RegistryNext]_registryVars PROVE RegistryInv'
  OBVIOUS
<1>1. CASE Start
  BY <1>1, StartKeeps DEF Start
<1>2. CASE Load
  BY <1>2, RowKeeps, OpenKeeps DEF Load
<1>3. CASE Settle
  BY <1>3, CloseKeeps, WriteKeeps DEF Settle
<1>4. CASE Dies
  BY <1>4, EndKeeps DEF Dies, Crash, AuctionNotFound
<1>5. CASE \E a \in Auctions : Remove(a)
  BY <1>5, RemoveKeeps
<1>6. CASE \E a \in Auctions, s \in Patched : PatchAuction(a, s)
  BY <1>6, PatchKeeps
<1>7. CASE UNCHANGED registryVars
  BY <1>7 DEF registryVars, RegistryInv, RegistryTypeOK, OneRoom, MapHasTheRooms,
              ReadyIsLoading, WaitingUnlessPatched, WaitingHasNoRoom, Quiet
<1> QED
  BY <1>1, <1>2, <1>3, <1>4, <1>5, <1>6, <1>7 DEF RegistryNext

\* The invariant of the maps holds in every reachable state of the registry
\* (game.service.ts, game.status.service.ts), whatever crashes.
THEOREM RegistryInvariance == RegistrySpec => []RegistryInv
BY InitRegistryInv, RegistryStep, PTL DEF RegistrySpec

\* At most one room per auction, for any number of auctions (startAuction).
THEOREM AtMostOneRoom == RegistrySpec => []OneRoom
<1>1. RegistryInv => OneRoom
  BY DEF RegistryInv
<1> QED
  BY <1>1, RegistryInvariance, PTL

\* The running map has exactly the open rooms (setRunning, deleteRunning).
THEOREM MapIsRight == RegistrySpec => []MapHasTheRooms
<1>1. RegistryInv => MapHasTheRooms
  BY DEF RegistryInv
<1> QED
  BY <1>1, RegistryInvariance, PTL

\* The ready map has exactly the auctions being loaded (setReady, deleteReady).
THEOREM ReadyIsRight == RegistrySpec => []ReadyIsLoading
<1>1. RegistryInv => ReadyIsLoading
  BY DEF RegistryInv
<1> QED
  BY <1>1, RegistryInvariance, PTL

\* Where no PATCH writes WAIT, an auction whose row waits, with nothing under way,
\* has no room (startAuction).
THEOREM WaitingIsIdle ==
    ASSUME "WAIT" \notin Patched
    PROVE  RegistrySpec => []WaitingHasNoRoom
<1>1. RegistryInv => WaitingHasNoRoom
  BY DEF RegistryInv, WaitingUnlessPatched
<1> QED
  BY <1>1, RegistryInvariance, PTL

-----------------------------------------------------------------------------
(* The end of a load *)

\* The queries that the load of auction a waits for.
QueriesLeft(a) ==
    IF \E r \in Rooms : room[a][r] = "auctionRow" THEN 2
    ELSE IF \E r \in Rooms : room[a][r] = "itemRows" THEN 1
    ELSE 0

\* The answer to a query of a's load arrives, or the auction is not found.
LoadMoves(a) == \E r \in Rooms : AuctionRow(a, r) \/ AuctionNotFound(a, r) \/ OpenRoom(a, r)

\* Every answer leaves a load fewer queries, nothing gives it more: nobody starts an
\* auction again that is being loaded.
LoadsRunDown ==
    [][\A a \in ready : /\ QueriesLeft(a)' <= QueriesLeft(a)
                        /\ LoadMoves(a) => QueriesLeft(a)' < QueriesLeft(a)]_registryVars

\* An auction is ready as long as its load waits, and what startAuction launches has
\* no room of any kind: there always is a place for the new one.
LoadIsDue == \A a \in Auctions : a \in ready <=> QueriesLeft(a) > 0
LaunchedAreNew == \A a \in Launched(Auctions) : \A r \in Rooms : room[a][r] = "none"

\* What is left to a load is told by the one room that is loaded.
LEMMA QueriesOfRoom ==
    ASSUME NEW a \in Auctions, NEW r \in Rooms,
           \A q \in Rooms \ {r} : room[a][q] = "none"
    PROVE  QueriesLeft(a) = CASE room[a][r] = "auctionRow" -> 2
                              [] room[a][r] = "itemRows" -> 1
                              [] OTHER -> 0
BY DEF QueriesLeft

\* No step gives a load more queries, and its own steps take one.
LEMMA LoadStep ==
    ASSUME RegistryInv, [RegistryNext]_registryVars, NEW a \in ready
    PROVE  /\ QueriesLeft(a)' <= QueriesLeft(a)
           /\ LoadMoves(a) => QueriesLeft(a)' < QueriesLeft(a)
<1>1. RegistryTypeOK /\ OneRoom /\ ReadyIsLoading
  BY DEF RegistryInv
<1>2. a \in Auctions
  BY <1>1 DEF RegistryTypeOK
<1>3. PICK r \in Rooms : room[a][r] \in {"auctionRow", "itemRows"}
  BY <1>1, <1>2 DEF ReadyIsLoading
<1>4. \A q \in Rooms \ {r} : room[a][q] = "none"
  BY <1>1, <1>2, <1>3 DEF OneRoom, RegistryTypeOK
<1>5. QueriesLeft(a) = IF room[a][r] = "auctionRow" THEN 2 ELSE 1
  BY <1>2, <1>3, <1>4, QueriesOfRoom
<1>6. ASSUME room'[a] = room[a]
      PROVE  QueriesLeft(a)' = QueriesLeft(a)
  BY <1>6 DEF QueriesLeft, Rooms
<1>7. ASSUME NEW p \in {"itemRows", "none", "open", "stopped"}, room'[a][r] = p,
             \A q \in Rooms \ {r} : room'[a][q] = "none"
      PROVE  QueriesLeft(a)' = IF p = "itemRows" THEN 1 ELSE 0
  BY <1>7 DEF QueriesLeft, Rooms
<1>8. ASSUME ProcessEnds
      PROVE  QueriesLeft(a)' = 0
  BY <1>2, <1>8 DEF ProcessEnds, QueriesLeft, Rooms
<1>9. ASSUME NEW b \in Auctions, NEW q \in Rooms, AuctionRow(b, q)
      PROVE  IF b = a THEN QueriesLeft(a)' < QueriesLeft(a) ELSE room'[a] = room[a]
  <2>1. b # a => room'[a] = room[a]
    BY <1>1, <1>2, <1>9 DEF AuctionRow, RegistryTypeOK
  <2>2. CASE b = a
    <3>1. q = r /\ room[a][r] = "auctionRow"
      BY <1>4, <1>9, <2>2 DEF AuctionRow
    <3>2. room'[a][r] = "itemRows" /\ \A t \in Rooms \ {r} : room'[a][t] = "none"
      BY <1>1, <1>2, <1>4, <1>9, <2>2, <3>1 DEF AuctionRow, RegistryTypeOK
    <3>3. QED
      BY <1>5, <1>7, <2>2, <3>1, <3>2
  <2>3. QED
    BY <2>1, <2>2
<1>10. ASSUME NEW b \in Auctions, NEW q \in Rooms, OpenRoom(b, q)
       PROVE  IF b = a THEN QueriesLeft(a)' < QueriesLeft(a) ELSE room'[a] = room[a]
  <2>1. PICK p \in {"open", "stopped"} : room' = [room EXCEPT ![b][q] = p]
    BY <1>10 DEF OpenRoom
  <2>2. b # a => room'[a] = room[a]
    BY <1>1, <1>2, <2>1 DEF RegistryTypeOK
  <2>3. CASE b = a
    <3>1. q = r
      BY <1>4, <1>10, <2>3 DEF OpenRoom
    <3>2. room'[a][r] = p /\ \A t \in Rooms \ {r} : room'[a][t] = "none"
      BY <1>1, <1>2, <1>4, <2>1, <2>3, <3>1 DEF RegistryTypeOK
    <3>3. QueriesLeft(a)' = 0
      BY <1>7, <3>2
    <3>4. QED
      BY <1>5, <2>3, <3>3
  <2>4. QED
    BY <2>2, <2>3
<1>11. ASSUME NEW b \in Auctions, NEW q \in Rooms, CloseRoom(b, q)
       PROVE  room'[a] = room[a]
  <2>1. b # a
    BY <1>3, <1>4, <1>11 DEF CloseRoom
  <2>2. QED
    BY <1>1, <1>2, <1>11, <2>1 DEF CloseRoom, RegistryTypeOK
<1>12. ASSUME NEW S \in SUBSET Auctions, StartAuctions(S)
       PROVE  room'[a] = room[a]
  <2>1. a \notin Launched(S) /\ Launched(S) \subseteq S
    BY DEF Launched, RunningOrReady
  <2>2. NewRooms(Launched(S))
    BY <1>12 DEF StartAuctions
  <2>3. QED
    BY <1>1, <1>2, <2>1, <2>2 DEF NewRooms, RegistryTypeOK
<1>13. ASSUME NEW b \in Auctions,
              Remove(b) \/ (\E s \in Patched : PatchAuction(b, s))
                        \/ (\E s \in Written : WriteLands(b, s))
       PROVE  room'[a] = room[a]
  BY <1>13 DEF Remove, PatchAuction, WriteLands
<1>14. QueriesLeft(a) \in {1, 2} /\ QueriesLeft(a)' \in {0, 1, 2}
  BY <1>5 DEF QueriesLeft
<1>15. QueriesLeft(a)' <= QueriesLeft(a)
  <2>1. CASE Start
    BY <1>6, <1>12, <1>14, <2>1 DEF Start
  <2>2. CASE Load
    BY <1>6, <1>9, <1>10, <1>14, <2>2 DEF Load
  <2>3. CASE Settle
    BY <1>6, <1>11, <1>13, <1>14, <2>3 DEF Settle
  <2>4. CASE Dies
    BY <1>8, <1>14, <2>4 DEF Dies, Crash, AuctionNotFound
  <2>5. CASE \/ \E b \in Auctions : Remove(b)
             \/ \E b \in Auctions, s \in Patched : PatchAuction(b, s)
    BY <1>6, <1>13, <1>14, <2>5
  <2>6. CASE UNCHANGED registryVars
    BY <1>6, <1>14, <2>6 DEF registryVars
  <2>7. QED
    BY <2>1, <2>2, <2>3, <2>4, <2>5, <2>6 DEF RegistryNext
<1>16. LoadMoves(a) => QueriesLeft(a)' < QueriesLeft(a)
  BY <1>2, <1>8, <1>9, <1>10, <1>14 DEF LoadMoves, AuctionNotFound
<1>17. QED
  BY <1>15, <1>16

\* An auction leaves the ready map once its queries are answered, and a start never finds
\* a room in its way (load in game.lifecycle.ts:20-33, game.service.ts:135-140).
THEOREM LoadsEnd == RegistrySpec => LoadsRunDown /\ []LoadIsDue /\ []LaunchedAreNew
<1>1. RegistryInv /\ [RegistryNext]_registryVars =>
          \A a \in ready : /\ QueriesLeft(a)' <= QueriesLeft(a)
                           /\ LoadMoves(a) => QueriesLeft(a)' < QueriesLeft(a)
  BY LoadStep
<1>2. RegistryInv => LoadIsDue
  BY DEF RegistryInv, ReadyIsLoading, LoadIsDue, QueriesLeft
<1>3. RegistryInv => LaunchedAreNew
  <2> SUFFICES ASSUME RegistryInv, NEW a \in Launched(Auctions), NEW r \in Rooms
               PROVE  room[a][r] = "none"
    BY DEF LaunchedAreNew
  <2>1. a \in Auctions /\ running[a] = NoRoom /\ a \notin ready
    BY DEF Launched, RunningOrReady, InMap
  <2>2. room[a][r] \notin Loading /\ room[a][r] \notin Opened
    BY <2>1, RoomsArePositive DEF RegistryInv, ReadyIsLoading, MapHasTheRooms
  <2>3. room[a][r] \in Places
    BY <2>1 DEF RegistryInv, RegistryTypeOK
  <2>4. QED
    BY <2>2, <2>3
<1>4. QED
  BY <1>1, <1>2, <1>3, RegistryInvariance, PTL DEF LoadsRunDown, RegistrySpec
=============================================================================
