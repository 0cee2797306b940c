--------------------------- MODULE BidQueueProofs ---------------------------
(***************************************************************************)
(* Proofs about BidQueue, for any number of auctions, users, bids, items     *)
(* and runs.  The invariant has four parts: the types, the order of the      *)
(* jobs, the rooms, and what a bid has to do with the run it was made in.    *)
(***************************************************************************)
EXTENDS BidQueue, FiniteSetTheorems, SequenceTheorems, TLAPS

-----------------------------------------------------------------------------
(* The inductive invariant *)

HistoryTypeOK ==
    /\ made \in [Bids -> (Runs \cup {NoRun}) \X (Items \cup {0})]
    /\ raised \in [Bids -> Seq(Runs \X Items)]

\* Bids are made in the order of their numbers, and have a job from then on.
MadeInTurn ==
    /\ \A b, c \in Bids : b < c /\ place[b] = "unmade" => place[c] = "unmade"
    /\ \A b \in Bids : place[b] # "unmade" => bid[b] \in Job
    /\ \A b \in stalled : place[b] # "unmade"

\* The waiting list has the waiting bids, each once.
ListIsWaiting ==
    /\ \A i \in 1..Len(wait) : place[wait[i]] = "waiting"
    /\ \A i, j \in 1..Len(wait) : wait[i] = wait[j] => i = j
    /\ \A b \in Bids : place[b] = "waiting" => \E i \in 1..Len(wait) : wait[i] = b

\* Those that were never put back wait in the order in which they were made.
ListInOrder ==
    \A i, j \in 1..Len(wait) :
        i < j /\ wait[i] \notin stalled /\ wait[j] \notin stalled => wait[i] < wait[j]

\* The worker has had b.
Served(b) == place[b] \in {"active", "stalled", "gone"} \/ b \in stalled

\* Whoever waits while a later bid was served has been served as well.
OvertakenOnlyIfStalled ==
    \A b, c \in Bids : b < c /\ place[b] = "waiting" /\ Served(c) => b \in stalled

JobsInv == MadeInTurn /\ ListIsWaiting /\ ListInOrder /\ OvertakenOnlyIfStalled

\* An item that is announced has no leader, a room that is not in the map announces.
\* The leader of an item was served.
RoomsInv ==
    /\ \A a \in Auctions : ~InMap(a) => stage[a] = "announced"
    /\ \A a \in Auctions : stage[a] = "announced" => leader[a] = NoBid
    /\ \A a \in Auctions : leader[a] # NoBid =>
           Served(leader[a]) /\ bid[leader[a]].auction = a
    /\ \A a \in Auctions : open[a] <= runs
    /\ LeaderIsMember

\* If run r[1] of b's auction is open, item r[2] came before the one on offer, or is it
\* and costs what b said by now, or more.
Passed(b, r) ==
    LET a == bid[b].auction IN
    r[1] = open[a] =>
        \/ r[2] < item[a]
        \/ r[2] = item[a] /\ leader[a] # NoBid /\ bid[leader[a]].price >= bid[b].price

\* No bid can raise again what it has raised.
RaisedInv ==
    /\ \A b \in Bids : place[b] = "unmade" => raised[b] = <<>>
    /\ \A b \in Bids : \A i \in 1..Len(raised[b]) : raised[b][i][1] <= runs
    /\ \A b \in Bids : \A i \in 1..Len(raised[b]) : Passed(b, raised[b][i])
    /\ RaisedOncePerItem

\* Bid b was made in the run that its auction is in.
Current(b) == made[b][1] # NoRun /\ made[b][1] = open[bid[b].auction]

\* The run of a bid that is current is the run it was made in: its bidder is still a
\* member, the item has not gone back.
MadeInv ==
    /\ \A b \in Bids : made[b][1] <= runs
    /\ \A b \in Bids : place[b] = "unmade" => made[b][1] = NoRun
    /\ \A b \in Bids : Current(b) =>
           /\ bid[b].user \in members[bid[b].auction]
           /\ made[b][2] <= item[bid[b].auction]
           /\ stage[bid[b].auction] = "announced" => made[b][2] < item[bid[b].auction]

\* Bid b has lost against the leader of its auction, is the leader, or was too much.
Outdone(b) ==
    LET a == bid[b].auction IN
    \/ spent[a][bid[b].user] + bid[b].price > Budget
    \/ /\ leader[a] # NoBid
       /\ \/ bid[leader[a]].price > bid[b].price
          \/ bid[leader[a]].price = bid[b].price /\ leader[a] <= b

\* Whoever bid for the item on offer and was served is outdone, put back or not.
ServedAreOutdone ==
    \A b \in Bids :
        (/\ Served(b) /\ Current(b)
         /\ stage[bid[b].auction] = "bidding" /\ made[b][2] = item[bid[b].auction])
            => Outdone(b)

QueueInv ==
    /\ QueueTypeOK
    /\ HistoryTypeOK
    /\ JobsInv
    /\ RoomsInv
    /\ RaisedInv
    /\ MadeInv
    /\ ServedAreOutdone

\* The queue begins in the invariant.
LEMMA QueueStarts == QueueInit => QueueInv
<1> SUFFICES ASSUME QueueInit PROVE QueueInv
  OBVIOUS
<1> USE QueueInputs, QueueBounds DEF QueueInit, NoBid, NoRun
<1>1. QueueTypeOK
  BY DEF QueueTypeOK, Runs, Stages, Items, Bids, Places
<1>2. HistoryTypeOK
  BY DEF HistoryTypeOK
<1>3. JobsInv
  BY DEF JobsInv, MadeInTurn, ListIsWaiting, ListInOrder, OvertakenOnlyIfStalled, Served
<1>4. RoomsInv
  <2>1. \A a \in Auctions : ~InMap(a) /\ leader[a] = NoBid /\ open[a] <= runs
    BY DEF InMap
  <2>2. LeaderIsMember
    BY <2>1 DEF LeaderIsMember
  <2>3. QED
    BY <2>1, <2>2 DEF RoomsInv
<1>5. RaisedInv
  BY DEF RaisedInv, RaisedOncePerItem, IsInjective
<1>6. MadeInv /\ ServedAreOutdone
  <2>1. \A b \in Bids : made[b][1] = NoRun
    OBVIOUS
  <2>2. MadeInv
    BY <2>1 DEF MadeInv, Current
  <2>3. ServedAreOutdone
    BY <2>1 DEF ServedAreOutdone, Current
  <2>4. QED
    BY <2>2, <2>3
<1>7. QED
  BY <1>1, <1>2, <1>3, <1>4, <1>5, <1>6 DEF QueueInv

-----------------------------------------------------------------------------
(* The waiting list *)

\* The head of the list is taken: the others stand one place further on.
LEMMA ListTaken ==
    ASSUME QueueTypeOK, ListIsWaiting, NEW b \in Bids, wait # <<>>, b = Head(wait),
           wait' = Tail(wait)
    PROVE  /\ wait' \in Seq(Bids) /\ Len(wait') \in Nat /\ Len(wait') = Len(wait) - 1
           /\ \A i \in 1..Len(wait') : i + 1 \in 1..Len(wait) /\ wait'[i] = wait[i + 1]
           /\ 1 \in 1..Len(wait) /\ b = wait[1] /\ place[b] = "waiting"
           /\ \A i \in 1..Len(wait') : wait'[i] # b
<1>1. wait \in Seq(Bids) /\ Len(wait) \in Nat \ {0}
  BY EmptySeq DEF QueueTypeOK
<1>2. wait' \in Seq(Bids) /\ Len(wait') = Len(wait) - 1
  BY <1>1, HeadTailProperties
<1>3. \A i \in 1..Len(wait') : i + 1 \in 1..Len(wait) /\ wait'[i] = wait[i + 1]
  BY <1>1, <1>2, HeadTailProperties
<1>4. 1 \in 1..Len(wait) /\ b = wait[1]
  BY <1>1
<1>5. place[b] = "waiting" /\ \A i \in 1..Len(wait') : wait'[i] # b
  <2>1. place[b] = "waiting"
    BY <1>4 DEF ListIsWaiting
  <2>2. ASSUME NEW i \in 1..Len(wait'), wait'[i] = b
        PROVE  FALSE
    BY <1>1, <1>2, <1>3, <1>4, <2>2 DEF ListIsWaiting
  <2>3. QED
    BY <2>1, <2>2
<1>6. QED
  BY <1>1, <1>2, <1>3, <1>4, <1>5

\* The jobs when the head of the list is taken.
LEMMA JobsTaken ==
    ASSUME QueueTypeOK, JobsInv, NEW b \in Bids, Takes(b),
           NEW p \in {"active", "stalled"}, place' = [place EXCEPT ![b] = p],
           UNCHANGED <<bid, stalled>>
    PROVE  JobsInv' /\ place[b] = "waiting"
<1>1. /\ wait' \in Seq(Bids) /\ Len(wait') \in Nat /\ Len(wait') = Len(wait) - 1
      /\ \A i \in 1..Len(wait') : i + 1 \in 1..Len(wait) /\ wait'[i] = wait[i + 1]
      /\ 1 \in 1..Len(wait) /\ b = wait[1] /\ place[b] = "waiting"
      /\ \A i \in 1..Len(wait') : wait'[i] # b
  BY ListTaken DEF JobsInv, Takes
<1>2. place'[b] = p /\ \A c \in Bids : c # b => place'[c] = place[c]
  BY DEF QueueTypeOK
<1>3. MadeInTurn'
  BY <1>1, <1>2 DEF JobsInv, MadeInTurn, QueueTypeOK
<1>4. ListIsWaiting'
  <2>1. \A i \in 1..Len(wait') : wait'[i] \in Bids /\ place'[wait'[i]] = "waiting"
    BY <1>1, <1>2 DEF JobsInv, ListIsWaiting
  <2>2. \A i, j \in 1..Len(wait') : wait'[i] = wait'[j] => i = j
    BY <1>1 DEF JobsInv, ListIsWaiting
  <2>3. ASSUME NEW c \in Bids, place'[c] = "waiting"
        PROVE  \E i \in 1..Len(wait') : wait'[i] = c
    <3>1. c # b /\ place[c] = "waiting"
      BY <1>2, <2>3
    <3>2. PICK j \in 1..Len(wait) : wait[j] = c
      BY <3>1 DEF JobsInv, ListIsWaiting
    <3>3. j # 1 /\ j - 1 \in 1..Len(wait')
      BY <1>1, <3>1, <3>2
    <3>4. wait'[j - 1] = c
      BY <1>1, <3>2, <3>3
    <3>5. QED
      BY <3>3, <3>4
  <2>4. QED
    BY <2>1, <2>2, <2>3 DEF ListIsWaiting
<1>5. ListInOrder'
  BY <1>1 DEF JobsInv, ListInOrder
<1>6. OvertakenOnlyIfStalled'
  <2> SUFFICES ASSUME NEW c \in Bids, NEW d \in Bids, c < d, place'[c] = "waiting", Served(d)'
               PROVE  c \in stalled
    BY DEF OvertakenOnlyIfStalled
  <2>1. c # b /\ place[c] = "waiting"
    BY <1>2
  <2>2. CASE Served(d)
    BY <2>1, <2>2 DEF JobsInv, OvertakenOnlyIfStalled
  <2>3. CASE ~Served(d)
    <3>1. d = b /\ b \notin stalled
      BY <1>2, <2>3 DEF Served
    <3>2. PICK j \in 1..Len(wait) : wait[j] = c
      BY <2>1 DEF JobsInv, ListIsWaiting
    <3>3. 1 < j
      BY <1>1, <2>1, <3>2
    <3>4. c \in Nat /\ b \in Nat
      BY QueueBounds DEF Bids
    <3>5. c \notin stalled => b < c
      BY <1>1, <3>1, <3>2, <3>3 DEF JobsInv, ListInOrder
    <3>6. QED
      BY <3>1, <3>4, <3>5
  <2>4. QED
    BY <2>2, <2>3
<1>7. QED
  BY <1>1, <1>3, <1>4, <1>5, <1>6 DEF JobsInv

\* The jobs when a bid is made.
LEMMA JobsMade ==
    ASSUME QueueTypeOK, JobsInv, NEW b \in Bids, NEW job \in Job,
           place[b] = "unmade", \A c \in Bids : c < b => place[c] # "unmade",
           bid' = [bid EXCEPT ![b] = job], place' = [place EXCEPT ![b] = "waiting"],
           wait' = Append(wait, b), UNCHANGED stalled
    PROVE  JobsInv'
<1>1. wait \in Seq(Bids) /\ Len(wait) \in Nat
  BY EmptySeq DEF QueueTypeOK
<1>2. /\ wait' \in Seq(Bids) /\ Len(wait') = Len(wait) + 1
      /\ \A i \in 1..Len(wait) : wait'[i] = wait[i]
      /\ wait'[Len(wait) + 1] = b
  BY <1>1, AppendProperties
<1>3. /\ place'[b] = "waiting" /\ bid'[b] = job
      /\ \A c \in Bids : c # b => place'[c] = place[c] /\ bid'[c] = bid[c]
  BY DEF QueueTypeOK
<1>4. \A c, d \in Bids : c < d \/ c = d \/ d < c
  BY QueueBounds DEF Bids
<1>5. b \notin stalled /\ \A i \in 1..Len(wait) : wait[i] \in Bids /\ wait[i] # b
  BY <1>1, ElementOfSeq DEF JobsInv, MadeInTurn, ListIsWaiting
<1>6. \A i \in 1..Len(wait) : wait[i] < b
  BY <1>4, <1>5 DEF JobsInv, MadeInTurn, ListIsWaiting
<1>7. MadeInTurn'
  <2>1. \A c, d \in Bids : c < d /\ place'[c] = "unmade" => place'[d] = "unmade"
    BY <1>3, <1>4 DEF JobsInv, MadeInTurn
  <2>2. QED
    BY <1>3, <2>1 DEF JobsInv, MadeInTurn, QueueTypeOK
<1>8. ListIsWaiting'
  <2>1. \A i \in 1..Len(wait') : i \in 1..Len(wait) \/ i = Len(wait) + 1
    BY <1>1, <1>2
  <2>2. \A i \in 1..Len(wait') : place'[wait'[i]] = "waiting"
    BY <1>2, <1>3, <1>5, <2>1 DEF JobsInv, ListIsWaiting
  <2>3. \A i, j \in 1..Len(wait') : wait'[i] = wait'[j] => i = j
    BY <1>2, <1>5, <2>1 DEF JobsInv, ListIsWaiting
  <2>4. \A c \in Bids : place'[c] = "waiting" => \E i \in 1..Len(wait') : wait'[i] = c
    <3>1. 1..Len(wait) \subseteq 1..Len(wait') /\ Len(wait) + 1 \in 1..Len(wait')
      BY <1>1, <1>2
    <3>2. QED
      BY <1>2, <1>3, <3>1 DEF JobsInv, ListIsWaiting
  <2>5. QED
    BY <2>2, <2>3, <2>4 DEF ListIsWaiting
<1>9. ListInOrder'
  <2> SUFFICES ASSUME NEW i \in 1..Len(wait'), NEW j \in 1..Len(wait'), i < j,
                      wait'[i] \notin stalled, wait'[j] \notin stalled
               PROVE  wait'[i] < wait'[j]
    BY DEF ListInOrder
  <2>1. i \in 1..Len(wait)
    BY <1>1, <1>2
  <2>2. CASE j \in 1..Len(wait)
    BY <1>2, <2>1, <2>2 DEF JobsInv, ListInOrder
  <2>3. CASE j = Len(wait) + 1
    BY <1>2, <1>6, <2>1, <2>3
  <2>4. QED
    BY <1>1, <1>2, <2>2, <2>3
<1>10. OvertakenOnlyIfStalled'
  <2> SUFFICES ASSUME NEW c \in Bids, NEW d \in Bids, c < d, place'[c] = "waiting", Served(d)'
               PROVE  c \in stalled
    BY DEF OvertakenOnlyIfStalled
  <2>1. d # b /\ Served(d)
    BY <1>3, <1>5 DEF Served
  <2>2. place[d] # "unmade"
    BY <2>1 DEF Served, JobsInv, MadeInTurn
  <2>3. c # b
    BY <2>2 DEF JobsInv, MadeInTurn
  <2>4. QED
    BY <1>3, <2>1, <2>3 DEF JobsInv, OvertakenOnlyIfStalled
<1>11. QED
  BY <1>7, <1>8, <1>9, <1>10 DEF JobsInv

\* The jobs when a stalled one goes back to the head of the list.
LEMMA JobsPutBack ==
    ASSUME QueueTypeOK, JobsInv, NEW b \in Bids, place[b] = "stalled",
           place' = [place EXCEPT ![b] = "waiting"], wait' = <<b>> \o wait,
           stalled' = stalled \cup {b}, UNCHANGED bid
    PROVE  JobsInv'
<1>1. wait \in Seq(Bids) /\ Len(wait) \in Nat /\ <<b>> \in Seq(Bids) /\ Len(<<b>>) = 1
  BY EmptySeq DEF QueueTypeOK
<1>2. /\ Len(wait') = Len(wait) + 1 /\ wait'[1] = b
      /\ \A i \in 2..Len(wait') : i - 1 \in 1..Len(wait) /\ wait'[i] = wait[i - 1]
  BY <1>1, ConcatProperties
<1>3. place'[b] = "waiting" /\ \A c \in Bids : c # b => place'[c] = place[c]
  BY DEF QueueTypeOK
<1>4. \A i \in 1..Len(wait) : wait[i] \in Bids /\ wait[i] # b
  BY <1>1, ElementOfSeq DEF JobsInv, ListIsWaiting
<1>5. MadeInTurn'
  BY <1>3 DEF JobsInv, MadeInTurn
<1>6. \A i \in 1..Len(wait') : i = 1 \/ i \in 2..Len(wait')
  BY <1>1, <1>2
<1>7. ListIsWaiting'
  <2>1. \A i \in 1..Len(wait') : place'[wait'[i]] = "waiting"
    BY <1>2, <1>3, <1>4, <1>6 DEF JobsInv, ListIsWaiting
  <2>2. ASSUME NEW i \in 1..Len(wait'), NEW j \in 1..Len(wait'), wait'[i] = wait'[j]
        PROVE  i = j
    <3>1. CASE i = 1 \/ j = 1
      BY <1>2, <1>4, <1>6, <2>2, <3>1
    <3>2. CASE i \in 2..Len(wait') /\ j \in 2..Len(wait')
      <4>1. i - 1 = j - 1
        BY <1>2, <2>2, <3>2 DEF JobsInv, ListIsWaiting
      <4>2. QED
        BY <3>2, <4>1
    <3>3. QED
      BY <1>6, <3>1, <3>2
  <2>3. ASSUME NEW c \in Bids, place'[c] = "waiting"
        PROVE  \E i \in 1..Len(wait') : wait'[i] = c
    <3>1. CASE c = b
      <4>1. 1 \in 1..Len(wait')
        BY <1>1, <1>2
      <4>2. QED
        BY <1>2, <3>1, <4>1
    <3>2. CASE c # b
      <4>1. PICK i \in 1..Len(wait) : wait[i] = c
        BY <1>3, <2>3, <3>2 DEF JobsInv, ListIsWaiting
      <4>2. i + 1 \in 2..Len(wait') /\ i + 1 \in 1..Len(wait') /\ (i + 1) - 1 = i
        BY <1>1, <1>2
      <4>3. wait'[i + 1] = c
        BY <1>2, <4>1, <4>2
      <4>4. QED
        BY <4>2, <4>3
    <3>3. QED
      BY <3>1, <3>2
  <2>4. QED
    BY <2>1, <2>2, <2>3 DEF ListIsWaiting
<1>8. ListInOrder'
  <2> SUFFICES ASSUME NEW i \in 1..Len(wait'), NEW j \in 1..Len(wait'), i < j,
                      wait'[i] \notin stalled', wait'[j] \notin stalled'
               PROVE  wait'[i] < wait'[j]
    BY DEF ListInOrder
  <2>1. i \in 2..Len(wait') /\ j \in 2..Len(wait')
    BY <1>2, <1>6
  <2>2. i - 1 < j - 1
    BY <2>1
  <2>3. QED
    BY <1>2, <2>1, <2>2 DEF JobsInv, ListInOrder
<1>9. OvertakenOnlyIfStalled'
  <2>1. \A d \in Bids : Served(d)' => Served(d)
    BY <1>3 DEF Served
  <2>2. QED
    BY <1>3, <2>1 DEF JobsInv, OvertakenOnlyIfStalled
<1>10. QED
  BY <1>5, <1>7, <1>8, <1>9 DEF JobsInv

\* The jobs when nothing happens to them.
LEMMA JobsStay ==
    ASSUME JobsInv, UNCHANGED <<bid, place, wait, stalled>>
    PROVE  JobsInv'
  BY DEF JobsInv, MadeInTurn, ListIsWaiting, ListInOrder, OvertakenOnlyIfStalled, Served

\* The jobs when served ones get elsewhere, and wait nowhere.
LEMMA JobsMoved ==
    ASSUME QueueTypeOK, JobsInv,
           \A b \in Bids :
               \/ place'[b] = place[b]
               \/ place[b] \in {"active", "stalled"} /\ place'[b] \in {"stalled", "gone"},
           UNCHANGED <<bid, wait, stalled>>
    PROVE  JobsInv'
<1>1. wait \in Seq(Bids)
  BY DEF QueueTypeOK
<1>2. \A i \in 1..Len(wait) : wait[i] \in Bids
  BY <1>1, ElementOfSeq
<1>3. \A b \in Bids : place'[b] = "waiting" <=> place[b] = "waiting"
  OBVIOUS
<1>4. \A b \in Bids : place'[b] = "unmade" <=> place[b] = "unmade"
  OBVIOUS
<1>5. \A b \in Bids : Served(b)' => Served(b)
  BY DEF Served
<1>6. MadeInTurn'
  BY <1>4 DEF JobsInv, MadeInTurn, QueueTypeOK
<1>7. ListIsWaiting' /\ ListInOrder'
  BY <1>2, <1>3 DEF JobsInv, ListIsWaiting, ListInOrder
<1>8. OvertakenOnlyIfStalled'
  BY <1>3, <1>5 DEF JobsInv, OvertakenOnlyIfStalled
<1>9. QED
  BY <1>6, <1>7, <1>8 DEF JobsInv

-----------------------------------------------------------------------------
(* The rooms *)

\* What is known of a bid that was made.
LEMMA JobIsKnown ==
    ASSUME QueueTypeOK, HistoryTypeOK, JobsInv, NEW b \in Bids, place[b] # "unmade"
    PROVE  /\ bid[b].auction \in Auctions /\ bid[b].user \in Users
           /\ bid[b].price \in Nat /\ bid[b].price > 0
           /\ made[b][1] \in Nat /\ made[b][2] \in Nat
<1>1. bid[b] \in Job
  BY DEF JobsInv, MadeInTurn
<1>2. made[b] \in (Runs \cup {NoRun}) \X (Items \cup {0})
  BY DEF HistoryTypeOK
<1>3. bid[b].auction \in Auctions /\ bid[b].user \in Users /\ bid[b].price \in Prices
  BY <1>1 DEF Job
<1>4. \A p \in Prices : p \in Nat /\ p > 0
  BY QueueInputs DEF StartPrice
<1>5. made[b][1] \in Runs \cup {NoRun} /\ made[b][2] \in Items \cup {0}
  BY <1>2
<1>6. Runs \cup {NoRun} \subseteq Nat /\ Items \cup {0} \subseteq Nat
  BY QueueBounds DEF Runs, Items, NoRun
<1>7. QED
  BY <1>3, <1>4, <1>5, <1>6

\* The leader of an item is a bid that was made.
LEMMA LeaderIsKnown ==
    ASSUME QueueTypeOK, JobsInv, RoomsInv, NEW a \in Auctions, leader[a] # NoBid
    PROVE  /\ leader[a] \in Bids /\ Served(leader[a]) /\ place[leader[a]] # "unmade"
           /\ bid[leader[a]].auction = a
<1>1. leader[a] \in Bids
  BY DEF QueueTypeOK
<1>2. Served(leader[a]) /\ bid[leader[a]].auction = a
  BY DEF RoomsInv
<1>3. QED
  BY <1>1, <1>2 DEF Served, JobsInv, MadeInTurn

\* The run of b's auction is over or new, or a later item is on offer, or the same one
\* with the same leader.
LeadStays(b) ==
    \/ open'[bid'[b].auction] \in {NoRun, runs + 1}
    \/ LET a == bid[b].auction IN
       /\ bid'[b] = bid[b] /\ open'[a] = open[a]
       /\ \/ item[a] < item'[a]
          \/ /\ item'[a] = item[a]
             /\ leader[a] # NoBid =>
                    leader'[a] = leader[a] /\ bid'[leader[a]] = bid[leader[a]]

\* What was raised is not raised again, as runs are new, items only go on and prices
\* only rise.
LEMMA RaisedKept ==
    ASSUME QueueTypeOK, QueueTypeOK', HistoryTypeOK, JobsInv, RaisedInv, UNCHANGED raised,
           runs <= runs',
           \A b \in Bids : place'[b] = "unmade" => place[b] = "unmade",
           \A b \in Bids : place[b] # "unmade" => LeadStays(b)
    PROVE  RaisedInv'
<1>1. runs \in Nat /\ runs' \in Nat
  BY QueueBounds DEF QueueTypeOK, Runs, NoRun
<1>2. ASSUME NEW b \in Bids, NEW i \in 1..Len(raised[b])
      PROVE  /\ raised[b][i][1] \in Nat /\ raised[b][i][1] # NoRun /\ raised[b][i][1] <= runs
             /\ raised[b][i][2] \in Nat
  <2>1. raised[b] \in Seq(Runs \X Items)
    BY DEF HistoryTypeOK
  <2>2. raised[b][i] \in Runs \X Items
    BY <2>1, ElementOfSeq
  <2>3. raised[b][i][1] \in Runs /\ raised[b][i][2] \in Items
    BY <2>2
  <2>4. \A m \in Runs : m \in Nat /\ m # NoRun
    BY QueueBounds DEF Runs, NoRun
  <2>5. Items \subseteq Nat
    BY QueueBounds DEF Items
  <2>6. QED
    BY <2>3, <2>4, <2>5 DEF RaisedInv
<1>3. \A b \in Bids : \A i \in 1..Len(raised[b]) : raised[b][i][1] <= runs'
  BY <1>1, <1>2
<1>4. ASSUME NEW b \in Bids, NEW i \in 1..Len(raised[b])
      PROVE  Passed(b, raised[b][i])'
  <2> DEFINE a == bid[b].auction
  <2>1. place[b] # "unmade"
    <3>1. place[b] = "unmade" => raised[b] = <<>>
      BY DEF RaisedInv
    <3>2. raised[b] # <<>>
      BY <1>4
    <3>3. QED
      BY <3>1, <3>2
  <2>2. CASE open'[bid'[b].auction] \in {NoRun, runs + 1}
    BY <1>1, <1>2, <1>4, <2>2 DEF Passed
  <2>3. CASE ~ open'[bid'[b].auction] \in {NoRun, runs + 1}
    <3>1. /\ bid'[b] = bid[b] /\ open'[a] = open[a]
          /\ \/ item[a] < item'[a]
             \/ /\ item'[a] = item[a]
                /\ leader[a] # NoBid =>
                       leader'[a] = leader[a] /\ bid'[leader[a]] = bid[leader[a]]
      BY <2>1, <2>3 DEF LeadStays
    <3>2. item[a] \in Nat /\ item'[a] \in Nat
      <4>1. a \in Auctions
        BY <2>1, JobIsKnown
      <4>2. Items \subseteq Nat
        BY QueueBounds DEF Items
      <4>3. QED
        BY <4>1, <4>2 DEF QueueTypeOK
    <3>3. Passed(b, raised[b][i])
      BY DEF RaisedInv
    <3>4. raised[b][i][2] \in Nat
      BY <1>2, <1>4
    <3>5. QED
      BY <3>1, <3>2, <3>3, <3>4 DEF Passed
  <2>4. QED
    BY <2>2, <2>3
<1>5. RaisedOncePerItem'
  BY DEF RaisedInv, RaisedOncePerItem
<1>6. \A b \in Bids : place'[b] = "unmade" => raised[b] = <<>>
  BY DEF RaisedInv
<1>7. QED
  BY <1>3, <1>4, <1>5, <1>6 DEF RaisedInv

\* A room is opened: no bid was made in it.
LEMMA OpenRoomKeeps ==
    ASSUME QueueInv, NEW a \in Auctions, OpenRoom(a)
    PROVE  QueueInv'
<1> USE DEF OpenRoom, jobVars
<1>1. runs \in Nat /\ runs + 1 \in Runs /\ runs + 1 # NoRun
  BY QueueBounds DEF QueueInv, QueueTypeOK, Runs, NoRun
<1>2. open'[a] = runs + 1 /\ \A c \in Auctions : c # a => open'[c] = open[c]
  BY DEF QueueInv, QueueTypeOK
<1>3. QueueTypeOK' /\ HistoryTypeOK'
  BY <1>1 DEF QueueInv, QueueTypeOK, HistoryTypeOK
<1>4. JobsInv'
  BY JobsStay DEF QueueInv
<1>5. open[a] = NoRun /\ stage[a] = "announced" /\ leader[a] = NoBid
  BY DEF QueueInv, RoomsInv, InMap, Served
<1>6. RoomsInv'
  <2>1. \A c \in Auctions : open[c] \in Nat
    BY QueueBounds DEF QueueInv, QueueTypeOK, Runs, NoRun
  <2>2. \A c \in Auctions : open'[c] <= runs'
    BY <1>1, <1>2, <2>1 DEF QueueInv, RoomsInv
  <2>3. LeaderIsMember'
    BY <1>2, <1>5 DEF QueueInv, RoomsInv, LeaderIsMember, InMap
  <2>4. QED
    BY <1>1, <1>2, <1>5, <2>2, <2>3 DEF QueueInv, RoomsInv, InMap, Served
<1>7. RaisedInv'
  <2>1. \A b \in Bids : place[b] # "unmade" =>
            open'[bid[b].auction] \in {open[bid[b].auction], runs + 1}
    BY <1>2, JobIsKnown DEF QueueInv
  <2>2. \A b \in Bids : place[b] # "unmade" => LeadStays(b)
    BY <2>1 DEF LeadStays
  <2>3. QED
    BY <1>1, <1>3, <2>2, RaisedKept DEF QueueInv
<1>8. \A b \in Bids : Current(b)' => Current(b) /\ bid[b].auction \in Auctions \ {a}
  <2> SUFFICES ASSUME NEW b \in Bids, Current(b)'
               PROVE  Current(b) /\ bid[b].auction \in Auctions \ {a}
    OBVIOUS
  <2>1. place[b] # "unmade"
    BY DEF Current, QueueInv, MadeInv
  <2>2. made[b][1] \in Nat /\ made[b][1] <= runs /\ bid[b].auction \in Auctions
    BY <2>1, JobIsKnown DEF QueueInv, MadeInv
  <2>3. bid[b].auction # a
    BY <1>1, <1>2, <2>2 DEF Current
  <2>4. QED
    BY <1>2, <2>2, <2>3 DEF Current
<1>9. MadeInv'
  <2>1. \A b \in Bids : made[b][1] <= runs'
    <3>1. \A b \in Bids : made[b][1] \in Nat
      BY QueueBounds DEF QueueInv, HistoryTypeOK, Runs, NoRun
    <3>2. QED
      BY <1>1, <3>1 DEF QueueInv, MadeInv
  <2>2. QED
    BY <1>8, <2>1 DEF QueueInv, MadeInv
<1>10. ServedAreOutdone'
  BY <1>8 DEF QueueInv, ServedAreOutdone, Outdone, Served
<1>11. QED
  BY <1>3, <1>4, <1>6, <1>7, <1>9, <1>10 DEF QueueInv

\* The bids are taken: nobody has led or bid for this item yet.
LEMMA ActivateKeeps ==
    ASSUME QueueInv, NEW a \in Auctions, ActivateBid(a)
    PROVE  QueueInv'
<1> USE DEF ActivateBid, jobVars
<1>1. /\ stage'[a] = "bidding" /\ leader[a] = NoBid /\ open[a] # NoRun
      /\ \A c \in Auctions : c # a => stage'[c] = stage[c]
  BY DEF QueueInv, QueueTypeOK, RoomsInv, InMap
<1>2. QueueTypeOK' /\ HistoryTypeOK'
  BY DEF QueueInv, QueueTypeOK, HistoryTypeOK, Stages
<1>3. JobsInv'
  BY JobsStay DEF QueueInv
<1>4. RoomsInv'
  <2>1. LeaderIsMember'
    BY <1>1 DEF QueueInv, RoomsInv, LeaderIsMember, InMap
  <2>2. QED
    BY <1>1, <2>1 DEF QueueInv, RoomsInv, InMap, Served
<1>5. RaisedInv'
  <2>1. runs \in Nat
    BY QueueBounds DEF QueueInv, QueueTypeOK, Runs, NoRun
  <2>2. \A b \in Bids : LeadStays(b)
    BY DEF LeadStays
  <2>3. QED
    BY <1>2, <2>1, <2>2, RaisedKept DEF QueueInv
<1>6. \A b \in Bids : Current(b) => bid[b].auction \in Auctions
  BY JobIsKnown DEF QueueInv, MadeInv, Current
<1>7. MadeInv'
  BY <1>1, <1>6 DEF QueueInv, MadeInv, Current
<1>8. ServedAreOutdone'
  <2> SUFFICES ASSUME NEW b \in Bids, Served(b), Current(b),
                      stage'[bid[b].auction] = "bidding", made[b][2] = item[bid[b].auction]
               PROVE  Outdone(b)
    BY DEF ServedAreOutdone, Current, Outdone, Served
  <2>1. bid[b].auction # a
    <3>1. made[b][2] \in Nat
      BY JobIsKnown DEF QueueInv, MadeInv, Current
    <3>2. QED
      BY <3>1 DEF QueueInv, MadeInv
  <2>2. QED
    BY <1>1, <1>6, <2>1 DEF QueueInv, ServedAreOutdone
<1>9. QED
  BY <1>2, <1>3, <1>4, <1>5, <1>7, <1>8 DEF QueueInv

\* The item is settled: the leader pays, and had the budget.
LEMMA SettleKeeps ==
    ASSUME QueueInv, NEW a \in Auctions, SettleItem(a)
    PROVE  QueueInv'
<1> USE DEF SettleItem, jobVars
<1>1. /\ stage'[a] = "settled" /\ stage[a] = "bidding" /\ open[a] # NoRun
      /\ \A c \in Auctions : c # a => stage'[c] = stage[c]
  BY DEF QueueInv, QueueTypeOK, InMap
<1>2. /\ spent' \in [Auctions -> [Users -> 0..Budget]]
      /\ \A c \in Auctions : c # a => spent'[c] = spent[c]
  <2>1. spent \in [Auctions -> [Users -> 0..Budget]] /\ Budget \in Nat
    BY QueueInputs DEF QueueInv, QueueTypeOK
  <2>2. CASE leader[a] = NoBid
    BY <2>1, <2>2 DEF Charged
  <2>3. CASE leader[a] # NoBid
    <3> DEFINE u == bid[leader[a]].user
               p == bid[leader[a]].price
    <3>1. leader[a] \in Bids /\ place[leader[a]] # "unmade"
      BY <2>3, LeaderIsKnown DEF QueueInv
    <3>2. u \in Users /\ p \in Nat
      BY <3>1, JobIsKnown DEF QueueInv
    <3>3. spent[a][u] + p <= Budget
      BY <1>1, <2>3 DEF QueueInv, RoomsInv, LeaderIsMember, InMap
    <3>4. spent' = [spent EXCEPT ![a][u] = spent[a][u] + p]
      BY <2>3 DEF Charged
    <3> HIDE DEF u, p
    <3>5. spent[a][u] + p \in 0..Budget
      BY <2>1, <3>2, <3>3
    <3>6. QED
      BY <2>1, <3>2, <3>4, <3>5
  <2>4. QED
    BY <2>2, <2>3
<1>3. QueueTypeOK' /\ HistoryTypeOK'
  BY <1>2 DEF QueueInv, QueueTypeOK, HistoryTypeOK, Stages
<1>4. JobsInv'
  BY JobsStay DEF QueueInv
<1>5. RoomsInv'
  <2>1. LeaderIsMember'
    BY <1>1, <1>2 DEF QueueInv, RoomsInv, LeaderIsMember, InMap
  <2>2. QED
    BY <1>1, <2>1 DEF QueueInv, RoomsInv, InMap, Served
<1>6. RaisedInv'
  <2>1. runs \in Nat
    BY QueueBounds DEF QueueInv, QueueTypeOK, Runs, NoRun
  <2>2. \A b \in Bids : LeadStays(b)
    BY DEF LeadStays
  <2>3. QED
    BY <1>3, <2>1, <2>2, RaisedKept DEF QueueInv
<1>7. \A b \in Bids : Current(b) => bid[b].auction \in Auctions
  BY JobIsKnown DEF QueueInv, MadeInv, Current
<1>8. MadeInv'
  BY <1>1, <1>7 DEF QueueInv, MadeInv, Current
<1>9. ServedAreOutdone'
  <2> SUFFICES ASSUME NEW b \in Bids, Served(b), Current(b),
                      stage'[bid[b].auction] = "bidding", made[b][2] = item[bid[b].auction]
               PROVE  Outdone(b)'
    BY DEF ServedAreOutdone, Current, Served
  <2>1. bid[b].auction \in Auctions \ {a}
    BY <1>1, <1>7
  <2>2. Outdone(b)
    BY <1>1, <2>1 DEF QueueInv, ServedAreOutdone
  <2>3. QED
    BY <1>2, <2>1, <2>2 DEF Outdone
<1>10. QED
  BY <1>3, <1>4, <1>5, <1>6, <1>8, <1>9 DEF QueueInv

\* The next item is announced: whatever was bid in this run was for an earlier one.
LEMMA NextItemKeeps ==
    ASSUME QueueInv, NEW a \in Auctions, NextItem(a)
    PROVE  QueueInv'
<1> USE DEF NextItem, jobVars
<1>1. /\ stage'[a] = "announced" /\ leader'[a] = NoBid /\ open[a] # NoRun
      /\ \A c \in Auctions : c # a => stage'[c] = stage[c] /\ leader'[c] = leader[c]
                                      /\ item'[c] = item[c]
  BY DEF QueueInv, QueueTypeOK, InMap
<1>2. item[a] \in Items /\ item[a] \in Nat /\ item[a] + 1 \in Items /\ item'[a] = item[a] + 1
  BY QueueBounds DEF QueueInv, QueueTypeOK, HasNextItem, Items
<1>3. QueueTypeOK' /\ HistoryTypeOK'
  BY <1>2 DEF QueueInv, QueueTypeOK, HistoryTypeOK, Stages, NoBid
<1>4. JobsInv'
  BY JobsStay DEF QueueInv
<1>5. RoomsInv'
  <2>1. LeaderIsMember'
    BY <1>1 DEF QueueInv, RoomsInv, LeaderIsMember, InMap
  <2>2. QED
    BY <1>1, <2>1 DEF QueueInv, RoomsInv, InMap, Served
<1>6. RaisedInv'
  <2>1. runs \in Nat
    BY QueueBounds DEF QueueInv, QueueTypeOK, Runs, NoRun
  <2>2. ASSUME NEW b \in Bids, place[b] # "unmade"
        PROVE  LeadStays(b)
    <3>1. bid[b].auction \in Auctions
      BY <2>2, JobIsKnown DEF QueueInv
    <3>2. CASE bid[b].auction = a
      <4>1. item[a] < item'[a]
        BY <1>2
      <4>2. QED
        BY <3>2, <4>1 DEF LeadStays
    <3>3. CASE bid[b].auction # a
      BY <1>1, <3>1, <3>3 DEF LeadStays
    <3>4. QED
      BY <3>2, <3>3
  <2>3. QED
    BY <1>3, <2>1, <2>2, RaisedKept DEF QueueInv
<1>7. \A b \in Bids : Current(b) => bid[b].auction \in Auctions /\ made[b][2] \in Nat
  BY JobIsKnown DEF QueueInv, MadeInv, Current
<1>8. MadeInv'
  <2> SUFFICES ASSUME NEW b \in Bids, Current(b)
               PROVE  /\ made[b][2] <= item'[bid[b].auction]
                      /\ stage'[bid[b].auction] = "announced" =>
                             made[b][2] < item'[bid[b].auction]
    BY DEF QueueInv, MadeInv, Current
  <2>1. CASE bid[b].auction = a
    BY <1>2, <1>7, <2>1 DEF QueueInv, MadeInv
  <2>2. CASE bid[b].auction # a
    BY <1>1, <1>7, <2>2 DEF QueueInv, MadeInv
  <2>3. QED
    BY <2>1, <2>2
<1>9. ServedAreOutdone'
  <2> SUFFICES ASSUME NEW b \in Bids, Served(b), Current(b),
                      stage'[bid[b].auction] = "bidding", made[b][2] = item'[bid[b].auction]
               PROVE  Outdone(b)'
    BY DEF ServedAreOutdone, Current, Served
  <2>1. bid[b].auction \in Auctions \ {a}
    BY <1>1, <1>7
  <2>2. Outdone(b)
    BY <1>1, <2>1 DEF QueueInv, ServedAreOutdone
  <2>3. QED
    BY <1>1, <2>1, <2>2 DEF Outdone
<1>10. QED
  BY <1>3, <1>4, <1>5, <1>6, <1>8, <1>9 DEF QueueInv

\* Rooms leave the map: the bids that were made in them are not current any longer.
LEMMA DropKeeps ==
    ASSUME QueueInv, NEW S \in SUBSET Auctions, Drop(S), JobsInv',
           UNCHANGED <<runs, bid, made, raised>>,
           wait' \in Seq(Bids), stalled' = stalled,
           \A b \in Bids :
               \/ place'[b] = place[b]
               \/ S = Auctions /\ place'[b] = "stalled" /\ place[b] \in {"active", "waiting"},
           place' \in [Bids -> Places]
    PROVE  QueueInv'
<1> USE DEF Drop
<1>1. \A a \in S : /\ open'[a] = NoRun /\ stage'[a] = "announced" /\ item'[a] = 1
                   /\ leader'[a] = NoBid
  OBVIOUS
<1>2. \A a \in Auctions \ S :
          /\ open'[a] = open[a] /\ stage'[a] = stage[a] /\ item'[a] = item[a]
          /\ leader'[a] = leader[a] /\ spent'[a] = spent[a] /\ members'[a] = members[a]
  OBVIOUS
<1>3. QueueTypeOK'
  <2>1. /\ open' \in [Auctions -> Runs \cup {NoRun}] /\ stage' \in [Auctions -> Stages]
        /\ leader' \in [Auctions -> Bids \cup {NoBid}]
    BY DEF QueueInv, QueueTypeOK, Stages
  <2>2. item' \in [Auctions -> Items]
    BY QueueBounds DEF QueueInv, QueueTypeOK, Items
  <2>3. spent' \in [Auctions -> [Users -> 0..Budget]]
    <3>1. [u \in Users |-> 0] \in [Users -> 0..Budget]
      BY QueueInputs
    <3>2. QED
      BY <3>1 DEF QueueInv, QueueTypeOK
  <2>4. members' \in [Auctions -> SUBSET Users]
    BY DEF QueueInv, QueueTypeOK
  <2>5. QED
    BY <2>1, <2>2, <2>3, <2>4 DEF QueueInv, QueueTypeOK
<1>4. HistoryTypeOK'
  BY DEF QueueInv, HistoryTypeOK
<1>5. runs \in Nat
  BY QueueBounds DEF QueueInv, QueueTypeOK, Runs, NoRun
<1>6. \A b \in Bids : Served(b) => Served(b)'
  BY DEF Served
<1>7. RoomsInv'
  <2>1. \A a \in Auctions : open'[a] <= runs
    BY <1>1, <1>2, <1>5 DEF QueueInv, RoomsInv, NoRun
  <2>2. LeaderIsMember'
    BY <1>1, <1>2 DEF QueueInv, RoomsInv, LeaderIsMember, InMap
  <2>3. ASSUME NEW a \in Auctions, leader'[a] # NoBid
        PROVE  Served(leader[a])' /\ bid'[leader'[a]].auction = a
    <3>1. a \notin S
      BY <1>1, <2>3
    <3>2. leader'[a] = leader[a]
      BY <1>2, <3>1
    <3>3. leader[a] \in Bids /\ Served(leader[a]) /\ bid[leader[a]].auction = a
      BY <2>3, <3>2, LeaderIsKnown DEF QueueInv
    <3>4. QED
      BY <1>6, <3>2, <3>3 DEF Served
  <2>4. QED
    BY <1>1, <1>2, <2>1, <2>2, <2>3 DEF QueueInv, RoomsInv, InMap
<1>8. RaisedInv'
  <2>1. ASSUME NEW b \in Bids, place[b] # "unmade"
        PROVE  LeadStays(b)
    <3>1. bid[b].auction \in Auctions
      BY <2>1, JobIsKnown DEF QueueInv
    <3>2. CASE bid[b].auction \in S
      BY <1>1, <3>2 DEF LeadStays
    <3>3. CASE bid[b].auction \notin S
      BY <1>2, <3>1, <3>3 DEF LeadStays
    <3>4. QED
      BY <3>2, <3>3
  <2>2. runs <= runs' /\ \A b \in Bids : place'[b] = "unmade" => place[b] = "unmade"
    BY <1>5
  <2>3. QED
    BY <1>3, <2>1, <2>2, RaisedKept DEF QueueInv
<1>9. ASSUME NEW b \in Bids, Current(b)'
      PROVE  Current(b) /\ bid[b].auction \in Auctions \ S /\ place'[b] = place[b]
  <2>1. made[b][1] # NoRun /\ made[b][1] = open'[bid[b].auction]
    BY <1>9 DEF Current
  <2>2. bid[b].auction \in Auctions
    BY <2>1, JobIsKnown DEF QueueInv, MadeInv
  <2>3. bid[b].auction \notin S
    BY <1>1, <2>1
  <2>4. QED
    BY <1>2, <2>1, <2>2, <2>3 DEF Current
<1>10. MadeInv'
  <2>1. ASSUME NEW b \in Bids, Current(b)'
        PROVE  /\ bid[b].user \in members'[bid[b].auction]
               /\ made[b][2] <= item'[bid[b].auction]
               /\ stage'[bid[b].auction] = "announced" =>
                      made[b][2] < item'[bid[b].auction]
    BY <1>2, <1>9, <2>1 DEF QueueInv, MadeInv
  <2>2. \A b \in Bids : place'[b] = "unmade" => place[b] = "unmade"
    OBVIOUS
  <2>3. QED
    BY <2>1, <2>2 DEF QueueInv, MadeInv
<1>11. ServedAreOutdone'
  <2> SUFFICES ASSUME NEW b \in Bids, Served(b)', Current(b)',
                      stage'[bid[b].auction] = "bidding", made[b][2] = item'[bid[b].auction]
               PROVE  Outdone(b)'
    BY DEF ServedAreOutdone
  <2>1. Current(b) /\ bid[b].auction \in Auctions \ S /\ Served(b)
    BY <1>9 DEF Served
  <2>2. Outdone(b)
    BY <1>2, <2>1 DEF QueueInv, ServedAreOutdone
  <2>3. QED
    BY <1>2, <2>1, <2>2 DEF Outdone
<1>12. QED
  BY <1>3, <1>4, <1>7, <1>8, <1>10, <1>11 DEF QueueInv

\* The room has had its last item, or the process dies with all rooms.
LEMMA EndsKeep ==
    ASSUME QueueInv, Crash \/ \E a \in Auctions : CloseRoom(a)
    PROVE  QueueInv'
<1>1. ASSUME NEW a \in Auctions, CloseRoom(a)
      PROVE  QueueInv'
  <2>1. Drop({a}) /\ UNCHANGED <<runs, bid, wait, stalled, made, place, raised>>
    BY <1>1 DEF CloseRoom, jobVars
  <2>2. JobsInv'
    BY <2>1, JobsStay DEF QueueInv
  <2>3. wait' \in Seq(Bids) /\ place' \in [Bids -> Places] /\ {a} \in SUBSET Auctions
    BY <2>1 DEF QueueInv, QueueTypeOK
  <2>4. QED
    BY <2>1, <2>2, <2>3, DropKeeps
<1>2. CASE Crash /\ UNCHANGED wait /\ place' = [b \in Bids |->
               IF place[b] = "active" THEN "stalled" ELSE place[b]]
  <2>1. Drop(Auctions) /\ UNCHANGED <<runs, bid, wait, stalled, made, raised>>
    BY <1>2 DEF Crash
  <2>2. \A b \in Bids :
            place'[b] = place[b] \/ (place[b] = "active" /\ place'[b] = "stalled")
    BY <1>2
  <2>3. JobsInv'
    <3>1. \A b \in Bids :
              \/ place'[b] = place[b]
              \/ place[b] \in {"active", "stalled"} /\ place'[b] \in {"stalled", "gone"}
      BY <2>2
    <3>2. QED
      BY <2>1, <3>1, JobsMoved DEF QueueInv
  <2>4. wait' \in Seq(Bids) /\ place' \in [Bids -> Places]
    BY <1>2, <2>1 DEF QueueInv, QueueTypeOK, Places
  <2>5. QED
    BY <2>1, <2>2, <2>3, <2>4, DropKeeps
<1>3. ASSUME Crash, NEW b \in Bids, Takes(b), place' = [place EXCEPT ![b] = "stalled"]
      PROVE  QueueInv'
  <2>1. Drop(Auctions) /\ UNCHANGED <<runs, bid, stalled, made, raised>>
    BY <1>3 DEF Crash
  <2>2. JobsInv' /\ place[b] = "waiting"
    BY <1>3, <2>1, JobsTaken DEF QueueInv
  <2>3. /\ place' \in [Bids -> Places]
        /\ \A c \in Bids :
               place'[c] = place[c] \/ (place[c] = "waiting" /\ place'[c] = "stalled")
    BY <1>3, <2>2 DEF QueueInv, QueueTypeOK, Places
  <2>4. wait' \in Seq(Bids)
    BY <1>3, HeadTailProperties DEF Takes, QueueInv, QueueTypeOK
  <2>5. QED
    BY <2>1, <2>2, <2>3, <2>4, DropKeeps
<1>4. QED
  BY <1>1, <1>2, <1>3 DEF Crash

\* Somebody joins.
LEMMA JoinKeeps ==
    ASSUME QueueInv, NEW u \in Users, NEW a \in Auctions, Join(u, a)
    PROVE  QueueInv'
<1> USE DEF Join, roomVars, jobVars
<1>1. members' \in [Auctions -> SUBSET Users] /\ \A c \in Auctions : members[c] \subseteq members'[c]
  BY DEF QueueInv, QueueTypeOK
<1>2. QueueTypeOK' /\ HistoryTypeOK'
  BY <1>1 DEF QueueInv, QueueTypeOK, HistoryTypeOK
<1>3. JobsInv'
  BY JobsStay DEF QueueInv
<1>4. RoomsInv'
  <2>1. LeaderIsMember'
    BY <1>1 DEF QueueInv, RoomsInv, LeaderIsMember, InMap
  <2>2. QED
    BY <2>1 DEF QueueInv, RoomsInv, InMap, Served
<1>5. RaisedInv'
  <2>1. runs \in Nat
    BY QueueBounds DEF QueueInv, QueueTypeOK, Runs, NoRun
  <2>2. \A b \in Bids : LeadStays(b)
    BY DEF LeadStays
  <2>3. QED
    BY <1>2, <2>1, <2>2, RaisedKept DEF QueueInv
<1>6. \A b \in Bids : Current(b) => bid[b].auction \in Auctions
  BY JobIsKnown DEF QueueInv, MadeInv, Current
<1>7. MadeInv'
  BY <1>1, <1>6 DEF QueueInv, MadeInv, Current
<1>8. ServedAreOutdone'
  BY DEF QueueInv, ServedAreOutdone, Current, Outdone, Served
<1>9. QED
  BY <1>2, <1>3, <1>4, <1>5, <1>7, <1>8 DEF QueueInv

-----------------------------------------------------------------------------
(* The bids *)

\* A bid is made, by a member of the room for the item on offer.
LEMMA NewBidKeeps ==
    ASSUME QueueInv, NEW a \in Auctions, NEW u \in Users, NEW p \in Prices, NewBid(a, u, p)
    PROVE  QueueInv'
<1> DEFINE job == [auction |-> a, user |-> u, price |-> p]
<1>1. PICK b \in Bids :
          /\ place[b] = "unmade"
          /\ \A c \in Bids : c < b => place[c] # "unmade"
          /\ bid' = [bid EXCEPT ![b] = job]
          /\ place' = [place EXCEPT ![b] = "waiting"]
          /\ wait' = Append(wait, b)
          /\ made' = [made EXCEPT ![b] =
                          IF stage[a] = "bidding" THEN <<open[a], item[a]>> ELSE <<NoRun, 0>>]
  BY DEF NewBid, Added
<1>2. /\ UNCHANGED <<open, runs, stage, item, leader, spent, members, stalled, raised>>
      /\ open[a] # NoRun /\ u \in members[a]
  BY DEF NewBid, roomVars, Guarded, InMap
<1>3. job \in Job /\ job.auction = a /\ job.user = u
  BY DEF Job
<1> HIDE DEF job
<1>4. /\ bid'[b] = job /\ place'[b] = "waiting" /\ raised[b] = <<>>
      /\ \A c \in Bids : c # b => bid'[c] = bid[c] /\ place'[c] = place[c] /\ made'[c] = made[c]
  BY <1>1 DEF QueueInv, QueueTypeOK, HistoryTypeOK, RaisedInv
<1>5. /\ made'[b] \in {<<open[a], item[a]>>, <<NoRun, 0>>}
      /\ made'[b] = <<open[a], item[a]>> => stage[a] # "announced"
  <2>1. open[a] # NoRun => <<open[a], item[a]>> # <<NoRun, 0>>
    OBVIOUS
  <2>2. QED
    BY <1>1, <1>2, <2>1 DEF QueueInv, HistoryTypeOK
<1>6. open[a] \in Runs \cup {NoRun} /\ item[a] \in Items /\ open[a] <= runs
  BY DEF QueueInv, QueueTypeOK, RoomsInv
<1>7. HistoryTypeOK'
  <2>1. made'[b] \in (Runs \cup {NoRun}) \X (Items \cup {0})
    BY <1>5, <1>6
  <2>2. QED
    BY <1>1, <1>2, <2>1 DEF QueueInv, HistoryTypeOK
<1>8. QueueTypeOK'
  <2>1. wait' \in Seq(Bids)
    BY <1>1, AppendProperties DEF QueueInv, QueueTypeOK
  <2>2. QED
    BY <1>1, <1>2, <1>3, <2>1 DEF QueueInv, QueueTypeOK, Places
<1>9. JobsInv'
  BY <1>1, <1>2, <1>3, JobsMade DEF QueueInv
<1>10. \A c \in Auctions : leader[c] # NoBid =>
           leader[c] \in Bids /\ leader[c] # b /\ Served(leader[c]) /\ bid[leader[c]].auction = c
  BY <1>1, LeaderIsKnown DEF QueueInv
<1>11. RoomsInv'
  <2>1. LeaderIsMember'
    BY <1>2, <1>4, <1>10 DEF QueueInv, RoomsInv, LeaderIsMember, InMap
  <2>2. \A c \in Auctions : leader[c] # NoBid =>
            Served(leader[c])' /\ bid'[leader[c]].auction = c
    BY <1>2, <1>4, <1>10 DEF Served
  <2>3. QED
    BY <1>2, <2>1, <2>2 DEF QueueInv, RoomsInv, InMap
<1>12. RaisedInv'
  <2>1. runs \in Nat
    BY QueueBounds DEF QueueInv, QueueTypeOK, Runs, NoRun
  <2>2. ASSUME NEW c \in Bids, place[c] # "unmade"
        PROVE  LeadStays(c)
    <3>1. bid'[c] = bid[c] /\ bid[c].auction \in Auctions
      BY <1>1, <1>4, <2>2, JobIsKnown DEF QueueInv
    <3>2. QED
      BY <1>2, <1>4, <1>10, <3>1 DEF LeadStays
  <2>3. \A c \in Bids : place'[c] = "unmade" => place[c] = "unmade"
    BY <1>4
  <2>4. QED
    BY <1>2, <1>7, <1>8, <2>1, <2>2, <2>3, RaisedKept DEF QueueInv
<1>13. MadeInv'
  <2>1. ASSUME NEW c \in Bids, c # b
        PROVE  /\ made'[c][1] <= runs
               /\ place'[c] = "unmade" => made'[c][1] = NoRun
               /\ Current(c)' =>
                    /\ bid'[c].user \in members[bid'[c].auction]
                    /\ made'[c][2] <= item[bid'[c].auction]
                    /\ stage[bid'[c].auction] = "announced" =>
                           made'[c][2] < item[bid'[c].auction]
    BY <1>2, <1>4, <2>1 DEF QueueInv, MadeInv, Current
  <2>2. made'[b][1] <= runs
    <3>1. 0 <= runs
      BY QueueBounds DEF QueueInv, QueueTypeOK, Runs, NoRun
    <3>2. QED
      BY <1>5, <1>6, <3>1 DEF NoRun
  <2>3. ASSUME Current(b)'
        PROVE  /\ bid'[b].user \in members[bid'[b].auction]
               /\ made'[b][2] <= item[bid'[b].auction]
               /\ stage[bid'[b].auction] # "announced"
    <3>1. made'[b][1] # NoRun
      BY <2>3 DEF Current
    <3>2. made'[b] = <<open[a], item[a]>>
      BY <1>5, <3>1
    <3>3. item[a] \in Nat
      BY <1>6, QueueBounds DEF Items
    <3>4. QED
      BY <1>2, <1>3, <1>4, <1>5, <3>2, <3>3
  <2>4. QED
    BY <1>2, <1>4, <2>1, <2>2, <2>3 DEF MadeInv
<1>14. ServedAreOutdone'
  <2> SUFFICES ASSUME NEW c \in Bids, Served(c)', Current(c)',
                      stage'[bid'[c].auction] = "bidding",
                      made'[c][2] = item'[bid'[c].auction]
               PROVE  Outdone(c)'
    BY DEF ServedAreOutdone
  <2>1. c # b
    <3>1. b \notin stalled
      BY <1>1 DEF QueueInv, JobsInv, MadeInTurn
    <3>2. QED
      BY <1>2, <1>4, <3>1 DEF Served
  <2>2. bid'[c] = bid[c] /\ Current(c) /\ Served(c)
    BY <1>2, <1>4, <2>1 DEF Current, Served
  <2>3. Outdone(c) /\ bid[c].auction \in Auctions
    <3>1. place[c] # "unmade"
      BY <2>2 DEF QueueInv, MadeInv, Current
    <3>2. QED
      BY <1>2, <1>4, <2>1, <2>2, <3>1, JobIsKnown DEF QueueInv, ServedAreOutdone
  <2>4. QED
    BY <1>2, <1>4, <1>10, <2>2, <2>3 DEF Outdone
<1>15. QED
  BY <1>7, <1>8, <1>9, <1>11, <1>12, <1>13, <1>14 DEF QueueInv

\* A bid raises the price: it outdoes all before it.
LEMMA RaiseKeeps ==
    ASSUME QueueInv, NEW b \in Bids, RaisePrice(b)
    PROVE  QueueInv'
<1> DEFINE a == bid[b].auction
<1>1. /\ Takes(b) /\ Acceptable(b)
      /\ leader' = [leader EXCEPT ![a] = b]
      /\ raised' = [raised EXCEPT ![b] = Append(raised[b], <<open[a], item[a]>>)]
      /\ place' = [place EXCEPT ![b] = "active"]
      /\ UNCHANGED <<open, runs, stage, item, spent, members, bid, stalled, made>>
  BY DEF RaisePrice
<1>2. JobsInv' /\ place[b] = "waiting"
  BY <1>1, JobsTaken DEF QueueInv
<1>3. /\ a \in Auctions /\ bid[b].user \in Users
      /\ bid[b].price \in Nat /\ bid[b].price > 0
  BY <1>2, JobIsKnown DEF QueueInv
<1>4. /\ open[a] # NoRun /\ bid[b].user \in members[a] /\ stage[a] = "bidding"
      /\ bid[b].price > Price(a)
      /\ spent[a][bid[b].user] + bid[b].price <= Budget
  BY <1>1 DEF Acceptable, InMap
<1> HIDE DEF a
<1>5. /\ leader'[a] = b /\ place'[b] = "active"
      /\ \A c \in Auctions : c # a => leader'[c] = leader[c]
      /\ \A c \in Bids : c # b => place'[c] = place[c] /\ raised'[c] = raised[c]
      /\ \A c \in Bids : Served(c) => Served(c)'
      /\ \A c \in Bids \ {b} : Served(c)' => Served(c)
  BY <1>1, <1>3 DEF QueueInv, QueueTypeOK, HistoryTypeOK, Served
<1>6. wait' \in Seq(Bids)
  BY <1>1, HeadTailProperties DEF Takes, QueueInv, QueueTypeOK
<1>7. QueueTypeOK'
  BY <1>1, <1>3, <1>6 DEF QueueInv, QueueTypeOK, Places
<1>8. /\ open[a] \in Runs /\ runs \in Nat /\ open[a] <= runs
      /\ item[a] \in Items /\ item[a] \in Nat
  BY <1>3, <1>4, QueueBounds DEF QueueInv, QueueTypeOK, RoomsInv, Runs, NoRun, Items
<1> DEFINE here == <<open[a], item[a]>>
<1>9. raised[b] \in Seq(Runs \X Items) /\ Len(raised[b]) \in Nat
  BY EmptySeq DEF QueueInv, HistoryTypeOK
<1>10. /\ raised'[b] \in Seq(Runs \X Items) /\ Len(raised'[b]) = Len(raised[b]) + 1
       /\ \A i \in 1..Len(raised[b]) : raised'[b][i] = raised[b][i]
       /\ raised'[b][Len(raised[b]) + 1] = here
  <2>1. raised'[b] = Append(raised[b], here)
    BY <1>1 DEF QueueInv, HistoryTypeOK
  <2>2. here \in Runs \X Items
    BY <1>8
  <2> HIDE DEF here
  <2>3. QED
    BY <1>9, <2>1, <2>2, AppendProperties
<1>11. HistoryTypeOK'
  BY <1>1, <1>5, <1>10 DEF QueueInv, HistoryTypeOK
<1>12. \A c \in Auctions : leader[c] # NoBid =>
           /\ leader[c] \in Bids /\ Served(leader[c]) /\ place[leader[c]] # "unmade"
           /\ bid[leader[c]].auction = c
  BY LeaderIsKnown DEF QueueInv
<1>13. RoomsInv'
  <2>1. LeaderIsMember'
    <3> SUFFICES ASSUME NEW c \in Auctions, open[c] # NoRun, stage[c] = "bidding",
                        leader'[c] # NoBid
                 PROVE  /\ bid[leader'[c]].auction = c
                        /\ bid[leader'[c]].user \in members[c]
                        /\ spent[c][bid[leader'[c]].user] + bid[leader'[c]].price <= Budget
      BY <1>1 DEF LeaderIsMember, InMap
    <3>1. CASE c = a
      BY <1>4, <1>5, <3>1 DEF a
    <3>2. CASE c # a
      BY <1>5, <3>2 DEF QueueInv, RoomsInv, LeaderIsMember, InMap
    <3>3. QED
      BY <3>1, <3>2
  <2>2. ASSUME NEW c \in Auctions, leader'[c] # NoBid
        PROVE  Served(leader[c])' /\ bid[leader'[c]].auction = c
    <3>1. CASE c = a
      BY <1>5, <2>2, <3>1 DEF a, Served
    <3>2. CASE c # a
      <4>1. leader'[c] = leader[c]
        BY <1>5, <2>2, <3>2
      <4>2. leader[c] \in Bids /\ Served(leader[c]) /\ bid[leader[c]].auction = c
        BY <1>12, <2>2, <4>1
      <4>3. QED
        BY <1>5, <4>1, <4>2 DEF Served
    <3>3. QED
      BY <3>1, <3>2
  <2>3. \A c \in Auctions : stage[c] = "announced" => leader'[c] = NoBid
    BY <1>4, <1>5 DEF QueueInv, RoomsInv
  <2>4. QED
    BY <1>1, <2>1, <2>2, <2>3 DEF QueueInv, RoomsInv, InMap, Served
<1>14. RaisedInv'
  <2>1. \A i \in 1..Len(raised'[b]) : i \in 1..Len(raised[b]) \/ i = Len(raised[b]) + 1
    BY <1>9, <1>10
  <2>2. here[1] = open[a] /\ here[2] = item[a]
    OBVIOUS
  <2>3. \A i \in 1..Len(raised[b]) : raised[b][i][1] <= runs /\ raised[b][i] # here
    <3> SUFFICES ASSUME NEW i \in 1..Len(raised[b]), raised[b][i] = here
                 PROVE  FALSE
      BY DEF QueueInv, RaisedInv
    <3>1. Passed(b, here)
      BY DEF QueueInv, RaisedInv
    <3> HIDE DEF here
    <3>2. leader[a] # NoBid /\ bid[leader[a]].price >= bid[b].price
      BY <1>8, <2>2, <3>1 DEF Passed, a
    <3>3. Price(a) = bid[leader[a]].price
      BY <3>2 DEF Price
    <3>4. bid[leader[a]].price \in Nat
      BY <1>3, <1>12, <3>2, JobIsKnown DEF QueueInv
    <3>5. QED
      BY <1>3, <1>4, <3>2, <3>3, <3>4
  <2> HIDE DEF here
  <2>4. \A i \in 1..Len(raised'[b]) : raised'[b][i][1] <= runs
    BY <1>8, <1>10, <2>1, <2>2, <2>3
  <2>5. IsInjective(raised'[b])
    <3>1. IsInjective(raised[b])
      BY DEF QueueInv, RaisedInv, RaisedOncePerItem
    <3>2. DOMAIN raised[b] = 1..Len(raised[b]) /\ DOMAIN raised'[b] = 1..Len(raised'[b])
      BY <1>9, <1>10, LenProperties
    <3>3. \A i, j \in 1..Len(raised'[b]) : raised'[b][i] = raised'[b][j] => i = j
      BY <1>10, <2>1, <2>3, <3>1, <3>2 DEF IsInjective
    <3>4. QED
      BY <3>2, <3>3 DEF IsInjective
  <2>6. RaisedOncePerItem'
    BY <1>5, <2>5 DEF QueueInv, RaisedInv, RaisedOncePerItem
  <2>7. \A c \in Bids : place'[c] = "unmade" => raised'[c] = <<>>
    BY <1>5 DEF QueueInv, RaisedInv
  <2>8. ASSUME NEW c \in Bids, NEW r, Passed(c, r), place[c] # "unmade"
        PROVE  Passed(c, r)'
    <3>1. bid[c].auction \in Auctions /\ bid[c].price \in Nat
      BY <2>8, JobIsKnown DEF QueueInv
    <3>2. CASE bid[c].auction # a
      <4>1. leader'[bid[c].auction] = leader[bid[c].auction]
        BY <1>5, <3>1, <3>2
      <4>2. QED
        BY <1>1, <2>8, <4>1 DEF Passed
    <3>3. CASE bid[c].auction = a
      <4>1. CASE leader[a] = NoBid
        BY <1>1, <2>8, <3>3, <4>1 DEF Passed
      <4>2. CASE leader[a] # NoBid
        <5>1. bid[leader[a]].price \in Nat /\ Price(a) = bid[leader[a]].price
          BY <1>3, <1>12, <4>2, JobIsKnown DEF QueueInv, Price
        <5>2. bid[leader[a]].price >= bid[c].price => bid[b].price >= bid[c].price
          BY <1>3, <1>4, <3>1, <5>1
        <5>3. b # NoBid
          BY QueueBounds DEF Bids, NoBid
        <5>4. QED
          BY <1>1, <1>5, <2>8, <3>3, <5>2, <5>3 DEF Passed
      <4>3. QED
        BY <4>1, <4>2
    <3>4. QED
      BY <3>2, <3>3
  <2>9. Passed(b, here)'
    <3>1. leader'[a] = b /\ b # NoBid /\ bid[b].price >= bid[b].price
      BY <1>3, <1>5, QueueBounds DEF Bids, NoBid
    <3>2. QED
      BY <1>1, <2>2, <3>1 DEF Passed, a, here
  <2>10. \A c \in Bids : \A i \in 1..Len(raised'[c]) : Passed(c, raised[c][i])'
    <3> SUFFICES ASSUME NEW c \in Bids, NEW i \in 1..Len(raised'[c])
                 PROVE  Passed(c, raised[c][i])'
      OBVIOUS
    <3> DEFINE r == raised'[c][i]
    <3>1. CASE c = b /\ i = Len(raised[b]) + 1
      <4>1. raised'[c][i] = here
        BY <1>10, <3>1
      <4>2. here' = here
        BY <1>1 DEF a, here
      <4>3. QED
        BY <2>9, <3>1, <4>1, <4>2 DEF Passed
    <3>2. CASE ~ (c = b /\ i = Len(raised[b]) + 1)
      <4>1. i \in 1..Len(raised[c]) /\ raised'[c][i] = raised[c][i]
        BY <1>5, <1>10, <2>1, <3>2
      <4>2. Passed(c, raised[c][i]) /\ place[c] # "unmade"
        <5>1. Passed(c, raised[c][i])
          BY <4>1 DEF QueueInv, RaisedInv
        <5>2. raised[c] # <<>>
          BY <4>1
        <5>3. QED
          BY <5>1, <5>2 DEF QueueInv, RaisedInv
      <4>3. PICK q : q = raised[c][i]
        OBVIOUS
      <4>4. Passed(c, q)'
        BY <2>8, <4>2, <4>3
      <4>5. QED
        BY <4>1, <4>3, <4>4 DEF Passed
    <3>3. QED
      BY <3>1, <3>2
  <2>11. \A c \in Bids : \A i \in 1..Len(raised'[c]) : raised'[c][i][1] <= runs
    BY <1>5, <2>4 DEF QueueInv, RaisedInv
  <2>12. QED
    BY <1>1, <2>6, <2>7, <2>10, <2>11 DEF RaisedInv
<1>15. MadeInv'
  BY <1>1, <1>2, <1>5 DEF QueueInv, MadeInv, Current
<1>16. ServedAreOutdone'
  <2> SUFFICES ASSUME NEW c \in Bids, Served(c)', Current(c),
                      stage[bid[c].auction] = "bidding", made[c][2] = item[bid[c].auction]
               PROVE  Outdone(c)'
    BY <1>1 DEF ServedAreOutdone, Current
  <2>1. CASE c = b
    <3>1. leader'[bid[c].auction] = c /\ c # NoBid /\ c \in Nat
      BY <1>5, <2>1, QueueBounds DEF a, Bids, NoBid
    <3>2. QED
      BY <1>1, <3>1 DEF Outdone
  <2>2. CASE c # b /\ bid[c].auction # a
    <3>1. Outdone(c) /\ bid[c].auction \in Auctions
      BY <1>5, <2>2, JobIsKnown DEF QueueInv, ServedAreOutdone, MadeInv, Current
    <3>2. QED
      BY <1>1, <1>5, <2>2, <3>1 DEF Outdone
  <2>3. CASE c # b /\ bid[c].auction = a
    <3>1. Outdone(c) /\ bid[c].price \in Nat
      BY <1>5, <2>3, JobIsKnown DEF QueueInv, ServedAreOutdone, MadeInv, Current
    <3>2. CASE spent[a][bid[c].user] + bid[c].price > Budget
      BY <1>1, <2>3, <3>2 DEF Outdone
    <3>3. CASE ~ spent[a][bid[c].user] + bid[c].price > Budget
      <4>1. leader[a] # NoBid /\ (bid[leader[a]].price > bid[c].price
                                  \/ bid[leader[a]].price = bid[c].price)
        BY <2>3, <3>1, <3>3 DEF Outdone
      <4>2. bid[leader[a]].price \in Nat /\ Price(a) = bid[leader[a]].price
        BY <1>3, <1>12, <4>1, JobIsKnown DEF QueueInv, Price
      <4>3. bid[b].price > bid[c].price
        BY <1>3, <1>4, <3>1, <4>1, <4>2
      <4>4. b # NoBid
        BY QueueBounds DEF Bids, NoBid
      <4>5. QED
        BY <1>1, <1>5, <2>3, <4>3, <4>4 DEF Outdone
    <3>4. QED
      BY <3>2, <3>3
  <2>4. QED
    BY <2>1, <2>2, <2>3
<1>17. QED
  BY <1>2, <1>7, <1>11, <1>13, <1>14, <1>15, <1>16 DEF QueueInv

\* A bid is refused: it is outdone, if it was made for the item on offer.
LEMMA RefuseBidKeeps ==
    ASSUME QueueInv, NEW b \in Bids, RefuseBid(b)
    PROVE  QueueInv'
<1>1. /\ Takes(b) /\ ~Acceptable(b)
      /\ place' = [place EXCEPT ![b] = "active"]
      /\ UNCHANGED <<open, runs, stage, item, leader, spent, members, bid, stalled, made, raised>>
  BY DEF RefuseBid, roomVars
<1>2. JobsInv' /\ place[b] = "waiting"
  BY <1>1, JobsTaken DEF QueueInv
<1>3. /\ place'[b] = "active" /\ \A c \in Bids : c # b => place'[c] = place[c]
      /\ \A c \in Bids : Served(c) => Served(c)'
      /\ \A c \in Bids \ {b} : Served(c)' => Served(c)
  BY <1>1 DEF QueueInv, QueueTypeOK, Served
<1>4. wait' \in Seq(Bids)
  BY <1>1, HeadTailProperties DEF Takes, QueueInv, QueueTypeOK
<1>5. QueueTypeOK' /\ HistoryTypeOK'
  BY <1>1, <1>4 DEF QueueInv, QueueTypeOK, HistoryTypeOK, Places
<1>6. \A c \in Auctions : leader[c] # NoBid =>
          /\ leader[c] \in Bids /\ Served(leader[c]) /\ place[leader[c]] # "unmade"
          /\ bid[leader[c]].auction = c
  BY LeaderIsKnown DEF QueueInv
<1>7. RoomsInv'
  <2>1. LeaderIsMember'
    BY <1>1 DEF QueueInv, RoomsInv, LeaderIsMember, InMap
  <2>2. \A c \in Auctions : leader'[c] # NoBid =>
            Served(leader[c])' /\ bid'[leader'[c]].auction = c
    <3>1. ASSUME NEW c \in Auctions, leader[c] # NoBid
          PROVE  Served(leader[c])' /\ bid[leader[c]].auction = c
      BY <1>1, <1>3, <1>6, <3>1 DEF Served
    <3>2. QED
      BY <1>1, <3>1
  <2>3. QED
    BY <1>1, <2>1, <2>2 DEF QueueInv, RoomsInv, InMap
<1>8. RaisedInv'
  <2>1. runs \in Nat
    BY QueueBounds DEF QueueInv, QueueTypeOK, Runs, NoRun
  <2>2. \A c \in Bids : LeadStays(c)
    BY <1>1 DEF LeadStays
  <2>3. QED
    BY <1>1, <1>3, <1>5, <2>1, <2>2, RaisedKept DEF QueueInv
<1>9. MadeInv'
  BY <1>1, <1>2, <1>3 DEF QueueInv, MadeInv, Current
<1>10. ServedAreOutdone'
  <2> SUFFICES ASSUME NEW c \in Bids, Served(c)', Current(c),
                      stage[bid[c].auction] = "bidding", made[c][2] = item[bid[c].auction]
               PROVE  Outdone(c)
    BY <1>1 DEF ServedAreOutdone, Current, Outdone
  <2>1. CASE Served(c)
    BY <2>1 DEF QueueInv, ServedAreOutdone
  <2>2. CASE ~ Served(c)
    <3> DEFINE a == bid[b].auction
    <3>1. /\ a \in Auctions /\ bid[b].user \in Users
          /\ bid[b].price \in Nat /\ bid[b].price > 0
      BY <1>2, JobIsKnown DEF QueueInv
    <3>2. c = b /\ b \notin stalled
      BY <1>3, <2>2 DEF Served
    <3>3. open[a] # NoRun /\ bid[b].user \in members[a]
      BY <3>2 DEF QueueInv, MadeInv, Current
    <3>4. \/ ~ bid[b].price > Price(a)
          \/ ~ spent[a][bid[b].user] + bid[b].price <= Budget
      BY <1>1, <3>2, <3>3 DEF Acceptable, InMap
    <3>5. spent[a][bid[b].user] \in Nat /\ Budget \in Nat
      BY <3>1, QueueInputs DEF QueueInv, QueueTypeOK
    <3> HIDE DEF a
    <3>6. CASE ~ spent[a][bid[b].user] + bid[b].price <= Budget
      BY <3>1, <3>2, <3>5, <3>6 DEF Outdone, a
    <3>7. CASE ~ bid[b].price > Price(a)
      <4>1. leader[a] # NoBid
        BY <3>1, <3>7 DEF Price, StartPrice
      <4>2. leader[a] \in Bids /\ Served(leader[a]) /\ place[leader[a]] # "unmade"
        BY <1>6, <3>1, <4>1
      <4>3. bid[leader[a]].price \in Nat /\ Price(a) = bid[leader[a]].price
        BY <4>1, <4>2, JobIsKnown DEF QueueInv, Price
      <4>4. bid[leader[a]].price > bid[b].price \/ bid[leader[a]].price = bid[b].price
        BY <3>1, <3>7, <4>3
      <4>5. ~ b < leader[a]
        BY <1>2, <3>2, <4>2 DEF QueueInv, JobsInv, OvertakenOnlyIfStalled
      <4>6. leader[a] <= b
        BY <4>2, <4>5, QueueBounds DEF Bids
      <4>7. QED
        BY <3>2, <4>1, <4>4, <4>6 DEF Outdone, a
    <3>8. QED
      BY <3>4, <3>6, <3>7
  <2>3. QED
    BY <2>1, <2>2
<1>11. QED
  BY <1>2, <1>5, <1>7, <1>8, <1>9, <1>10 DEF QueueInv

\* A job leaves Redis, as its handler is done or it has stalled twice, or its lock expires.
LEMMA JobOverKeeps ==
    ASSUME QueueInv, NEW b \in Bids, NEW p \in {"stalled", "gone"},
           place' = [place EXCEPT ![b] = p], place[b] \in {"active", "stalled"},
           UNCHANGED <<open, runs, stage, item, leader, spent, members, bid, wait, stalled,
                       made, raised>>
    PROVE  QueueInv'
<1>1. place'[b] = p /\ \A c \in Bids : c # b => place'[c] = place[c]
  BY DEF QueueInv, QueueTypeOK
<1>2. JobsInv'
  <2>1. \A c \in Bids :
            \/ place'[c] = place[c]
            \/ place[c] \in {"active", "stalled"} /\ place'[c] \in {"stalled", "gone"}
    BY <1>1
  <2>2. QED
    BY <2>1, JobsMoved DEF QueueInv
<1>3. QueueTypeOK' /\ HistoryTypeOK'
  BY DEF QueueInv, QueueTypeOK, HistoryTypeOK, Places
<1>4. \A c \in Bids : Served(c)' <=> Served(c)
  BY <1>1 DEF Served
<1>5. RoomsInv'
  <2>1. LeaderIsMember'
    BY DEF QueueInv, RoomsInv, LeaderIsMember, InMap
  <2>2. ASSUME NEW c \in Auctions, leader[c] # NoBid
        PROVE  Served(leader[c])' /\ bid[leader[c]].auction = c
    <3>1. leader[c] \in Bids /\ Served(leader[c]) /\ bid[leader[c]].auction = c
      BY <2>2, LeaderIsKnown DEF QueueInv
    <3>2. QED
      BY <1>4, <3>1 DEF Served
  <2>3. QED
    BY <2>1, <2>2 DEF QueueInv, RoomsInv, InMap
<1>6. RaisedInv'
  <2>1. runs \in Nat
    BY QueueBounds DEF QueueInv, QueueTypeOK, Runs, NoRun
  <2>2. \A c \in Bids : LeadStays(c)
    BY DEF LeadStays
  <2>3. QED
    BY <1>1, <1>3, <2>1, <2>2, RaisedKept DEF QueueInv
<1>7. MadeInv'
  BY <1>1 DEF QueueInv, MadeInv, Current
<1>8. ServedAreOutdone'
  BY <1>4 DEF QueueInv, ServedAreOutdone, Current, Outdone
<1>9. QED
  BY <1>2, <1>3, <1>5, <1>6, <1>7, <1>8 DEF QueueInv

\* A stalled job goes back to the head of the queue, or fails.
LEMMA StalledCheckKeeps ==
    ASSUME QueueInv, NEW b \in Bids, StalledCheck(b)
    PROVE  QueueInv'
<1>1. /\ place[b] = "stalled"
      /\ UNCHANGED <<open, runs, stage, item, leader, spent, members, bid, made, raised>>
  BY DEF StalledCheck, roomVars
<1>2. CASE b \in stalled
  <2>1. place' = [place EXCEPT ![b] = "gone"] /\ UNCHANGED <<wait, stalled>>
    BY <1>2 DEF StalledCheck
  <2>2. QED
    BY <1>1, <2>1, JobOverKeeps
<1>3. CASE b \notin stalled
  <2>1. /\ place' = [place EXCEPT ![b] = "waiting"]
        /\ wait' = <<b>> \o wait /\ stalled' = stalled \cup {b}
    BY <1>3 DEF StalledCheck
  <2>2. JobsInv'
    BY <1>1, <2>1, JobsPutBack DEF QueueInv
  <2>3. /\ place'[b] = "waiting" /\ \A c \in Bids : c # b => place'[c] = place[c]
        /\ \A c \in Bids : Served(c)' <=> Served(c)
    BY <1>1, <2>1 DEF QueueInv, QueueTypeOK, Served
  <2>4. QueueTypeOK' /\ HistoryTypeOK'
    <3>1. wait' \in Seq(Bids)
      BY <2>1, ConcatProperties DEF QueueInv, QueueTypeOK
    <3>2. QED
      BY <1>1, <2>1, <3>1 DEF QueueInv, QueueTypeOK, HistoryTypeOK, Places
  <2>5. RoomsInv'
    <3>1. LeaderIsMember'
      BY <1>1 DEF QueueInv, RoomsInv, LeaderIsMember, InMap
    <3>2. ASSUME NEW c \in Auctions, leader[c] # NoBid
          PROVE  Served(leader[c])' /\ bid[leader[c]].auction = c
      <4>1. leader[c] \in Bids /\ Served(leader[c]) /\ bid[leader[c]].auction = c
        BY <3>2, LeaderIsKnown DEF QueueInv
      <4>2. Served(leader[c])'
        BY <1>1, <2>3, <4>1 DEF Served
      <4>3. QED
        BY <4>1, <4>2
    <3>3. QED
      BY <1>1, <3>1, <3>2 DEF QueueInv, RoomsInv, InMap
  <2>6. RaisedInv'
    <3>1. runs \in Nat
      BY QueueBounds DEF QueueInv, QueueTypeOK, Runs, NoRun
    <3>2. \A c \in Bids : LeadStays(c)
      BY <1>1 DEF LeadStays
    <3>3. QED
      BY <1>1, <2>3, <2>4, <3>1, <3>2, RaisedKept DEF QueueInv
  <2>7. MadeInv'
    BY <1>1, <2>1, <2>3 DEF QueueInv, MadeInv, Current
  <2>8. ServedAreOutdone'
    BY <1>1, <2>3 DEF QueueInv, ServedAreOutdone, Current, Outdone
  <2>9. QED
    BY <2>2, <2>4, <2>5, <2>6, <2>7, <2>8 DEF QueueInv
<1>4. QED
  BY <1>2, <1>3

-----------------------------------------------------------------------------
(* The theorems *)

\* Every step keeps the invariant.
LEMMA QueueStepKeeps ==
    ASSUME QueueInv, [QueueNext]_queueVars
    PROVE  QueueInv'
<1>1. CASE Rooms
  BY <1>1, OpenRoomKeeps, ActivateKeeps, SettleKeeps, NextItemKeeps, EndsKeep DEF Rooms
<1>2. CASE Clients
  BY <1>2, JoinKeeps, NewBidKeeps DEF Clients
<1>3. CASE Worker
  <2>1. ASSUME NEW b \in Bids, FinishJob(b)
        PROVE  QueueInv'
    <3>1. place[b] = "active" /\ place' = [place EXCEPT ![b] = "gone"]
      BY <2>1 DEF FinishJob, Settled
    <3>2. UNCHANGED <<open, runs, stage, item, leader, spent, members, bid, wait, stalled,
                      made, raised>>
      BY <2>1 DEF FinishJob, roomVars, jobVars
    <3>3. QED
      BY <3>1, <3>2, JobOverKeeps
  <2>2. QED
    BY <1>3, <2>1, RaiseKeeps, RefuseBidKeeps DEF Worker
<1>4. CASE Crash
  BY <1>4, EndsKeep
<1>5. CASE \E b \in Bids : LockExpires(b) \/ StalledCheck(b)
  <2>1. ASSUME NEW b \in Bids, LockExpires(b)
        PROVE  QueueInv'
    <3>1. place[b] = "active" /\ place' = [place EXCEPT ![b] = "stalled"]
      BY <2>1 DEF LockExpires
    <3>2. UNCHANGED <<open, runs, stage, item, leader, spent, members, bid, wait, stalled,
                      made, raised>>
      BY <2>1 DEF LockExpires, roomVars, jobVars
    <3>3. QED
      BY <3>1, <3>2, JobOverKeeps
  <2>2. QED
    BY <1>5, <2>1, StalledCheckKeeps
<1>6. CASE UNCHANGED queueVars
  <2>1. UNCHANGED <<open, runs, stage, item, leader, spent, members, bid, wait, stalled, made,
                    place, raised>>
    BY <1>6 DEF queueVars, roomVars, jobVars
  <2>2. QueueTypeOK' /\ HistoryTypeOK'
    BY <2>1 DEF QueueInv, QueueTypeOK, HistoryTypeOK
  <2>3. JobsInv'
    BY <2>1, JobsStay DEF QueueInv
  <2>4. RoomsInv'
    BY <2>1 DEF QueueInv, RoomsInv, LeaderIsMember, InMap, Served
  <2>5. RaisedInv'
    BY <2>1 DEF QueueInv, RaisedInv, RaisedOncePerItem, Passed
  <2>6. MadeInv'
    BY <2>1 DEF QueueInv, MadeInv, Current
  <2>7. ServedAreOutdone'
    BY <2>1 DEF QueueInv, ServedAreOutdone, Current, Outdone, Served
  <2>8. QED
    BY <2>2, <2>3, <2>4, <2>5, <2>6, <2>7 DEF QueueInv
<1>7. QED
  BY <1>1, <1>2, <1>3, <1>4, <1>5, <1>6 DEF QueueNext

\* The invariant of the queue and the rooms.
THEOREM QueueInvariant == QueueSpec => []QueueInv
<1>1. QED
  BY QueueStarts, QueueStepKeeps, PTL DEF QueueSpec

\* Bids are run in the order in which they were made, however many rooms there are:
\* only a bid that was stalled is overtaken (queue.processor.ts, Bull's list).
THEOREM QueueServesInOrder == QueueSpec => []ServedInOrder
<1>1. QueueInv => ServedInOrder
  BY DEF QueueInv, JobsInv, OvertakenOnlyIfStalled, Served, ServedInOrder
<1>2. QED
  BY <1>1, QueueInvariant, PTL

\* No bid raises the price of one item twice, also when it was stalled, with its worker
\* dead or alive, and is run again (queue.processor.ts:10-26, game.lifecycle.ts:187-221).
THEOREM PricesRaisedOncePerItem == QueueSpec => []RaisedOncePerItem
<1>1. QueueInv => RaisedOncePerItem
  BY DEF QueueInv, RaisedInv
<1>2. QED
  BY <1>1, QueueInvariant, PTL

\* The leader of an item that takes bids is a member of this run who can pay, also
\* when the bid was made in an earlier run (game.lifecycle.ts:187-221).
THEOREM LeadersAreMembers == QueueSpec => []LeaderIsMember
<1>1. QueueInv => LeaderIsMember
  BY DEF QueueInv, RoomsInv
<1>2. QED
  BY <1>1, QueueInvariant, PTL

\* Of two bids with one price for one item the first made leads (README.md:142-143).
THEOREM FirstComeServed == QueueSpec => []FirstComeFirstServed
<1>1. QueueInv => FirstComeFirstServed
  <2> SUFFICES ASSUME QueueInv, NEW a \in Auctions, InMap(a), stage[a] = "bidding",
                      leader[a] # NoBid, NEW b \in 1..(leader[a] - 1),
                      bid[b].auction = a, made[b] = <<open[a], item[a]>>,
                      bid[b].price = Price(a),
                      spent[a][bid[b].user] + bid[b].price <= Budget
               PROVE  FALSE
    BY DEF FirstComeFirstServed
  <2>1. leader[a] \in Bids /\ Served(leader[a])
    BY LeaderIsKnown DEF QueueInv
  <2>2. b \in Bids /\ b < leader[a]
    BY <2>1, QueueBounds DEF Bids
  <2>3. Current(b) /\ made[b][2] = item[a]
    BY DEF Current, InMap
  <2>4. place[b] # "unmade"
    BY <2>2, <2>3 DEF QueueInv, MadeInv, Current
  <2>5. place[b] = "waiting" => b \in stalled
    BY <2>1, <2>2 DEF QueueInv, JobsInv, OvertakenOnlyIfStalled
  <2>6. Served(b)
    BY <2>2, <2>4, <2>5 DEF QueueInv, QueueTypeOK, Places, Served
  <2>7. Outdone(b)
    BY <2>2, <2>3, <2>6 DEF QueueInv, ServedAreOutdone
  <2>8. bid[b].price \in Nat /\ bid[b].price = bid[leader[a]].price
    BY <2>2, <2>4, JobIsKnown DEF QueueInv, Price
  <2>9. spent[a][bid[b].user] \in Nat /\ Budget \in Nat
    <3>1. bid[b].user \in Users
      BY <2>2, <2>4, JobIsKnown DEF QueueInv
    <3>2. QED
      BY <3>1, QueueInputs DEF QueueInv, QueueTypeOK
  <2>10. leader[a] <= b
    BY <2>7, <2>8, <2>9 DEF Outdone
  <2>11. QED
    BY <2>2, <2>10, <2>1, QueueBounds DEF Bids
<1>2. QED
  BY <1>1, QueueInvariant, PTL

-----------------------------------------------------------------------------
(* The turns of the bids *)

\* How often bid b is still moved, at the most: it is taken, finished or stalled, put
\* back once, and taken again.
Effort(b) ==
    CASE place[b] = "gone" -> 0
      [] place[b] = "stalled" -> IF b \in stalled THEN 1 ELSE 4
      [] place[b] = "active" -> IF b \in stalled THEN 2 ELSE 5
      [] place[b] = "waiting" -> IF b \in stalled THEN 3 ELSE 6
      [] OTHER -> 7

\* The bids whose turn comes before b's has ended: those that the worker has or had,
\* and the waiting list up to b.
Before(b) ==
    {c \in Bids : \/ place[c] \in {"active", "stalled"}
                  \/ \E i, j \in 1..Len(wait) : i <= j /\ wait[i] = c /\ wait[j] = b}

\* All that may have to be done until b has had its turn.
Efforts(b) == {e \in Before(b) \X (1..6) : e[2] <= Effort(e[1])}

\* No bid is moved without end, whatever dies under it.
EffortsFall ==
    [][\A b \in Bids :
          /\ Effort(b)' <= Effort(b)
          /\ place'[b] # place[b] => Effort(b)' < Effort(b)]_queueVars

\* While a bid waits nothing is added to what comes before it: neither by new bids nor by
\* those that are put back.  Whatever the worker or the check of stalled jobs does takes
\* something away.
TurnsComeNearer ==
    [][\A b \in Bids : place[b] = "waiting" /\ place'[b] = "waiting" =>
          /\ Efforts(b)' \subseteq Efforts(b)
          /\ Worker \/ (\E c \in Bids : StalledCheck(c)) => Efforts(b)' # Efforts(b)]_queueVars

\* The worker has one job at a time, and ends it before it takes another.
OneJob == \A b, c \in Bids : place[b] = "active" /\ place[c] = "active" => b = c
JobsEnd == [][\A b \in Bids : place[b] = "active" /\ Worker => place'[b] = "gone"]_queueVars

\* While a bid waits the worker has a job, or one to take.
WorkerIsBusy ==
    (\E b \in Bids : place[b] = "waiting") =>
        \E c \in Bids : Settled(c) \/ (Idle /\ wait # <<>> /\ c = Head(wait))

\* What a step does to the jobs: nothing; one is made; the worker takes one, and may die
\* at once; one is over or its lock expires; those of a worker that died are stalled; one
\* is put back.
JobMade(b) ==
    /\ place[b] = "unmade" /\ place' = [place EXCEPT ![b] = "waiting"]
    /\ wait' = Append(wait, b) /\ UNCHANGED stalled
JobTaken(b) ==
    /\ Takes(b) /\ \E p \in {"active", "stalled"} : place' = [place EXCEPT ![b] = p]
    /\ UNCHANGED stalled
JobOver(b) ==
    /\ place[b] \in {"active", "stalled"}
    /\ \E p \in {"stalled", "gone"} \ {place[b]} : place' = [place EXCEPT ![b] = p]
    /\ UNCHANGED <<wait, stalled>>
WorkerLost ==
    /\ place' = [b \in Bids |-> IF place[b] = "active" THEN "stalled" ELSE place[b]]
    /\ UNCHANGED <<wait, stalled>>
JobPutBack(b) ==
    /\ place[b] = "stalled" /\ place' = [place EXCEPT ![b] = "waiting"]
    /\ b \notin stalled /\ stalled' = stalled \cup {b}
    /\ wait' = <<b>> \o wait
JobStep(b) == JobMade(b) \/ JobTaken(b) \/ JobOver(b) \/ JobPutBack(b)

\* Every step of the queue is one of these.
LEMMA JobSteps ==
    ASSUME [QueueNext]_queueVars
    PROVE  UNCHANGED <<place, wait, stalled>> \/ WorkerLost \/ \E b \in Bids : JobStep(b)
<1> USE DEF queueVars, roomVars, jobVars
<1>1. ASSUME NEW a \in Auctions,
             OpenRoom(a) \/ ActivateBid(a) \/ SettleItem(a) \/ NextItem(a) \/ CloseRoom(a)
      PROVE  UNCHANGED <<place, wait, stalled>>
  BY <1>1 DEF OpenRoom, ActivateBid, SettleItem, NextItem, CloseRoom
<1>2. ASSUME NEW u \in Users, NEW a \in Auctions, Join(u, a)
      PROVE  UNCHANGED <<place, wait, stalled>>
  BY <1>2 DEF Join
<1>3. ASSUME NEW a \in Auctions, NEW u \in Users, NEW p \in Prices, NewBid(a, u, p)
      PROVE  \E b \in Bids : JobMade(b)
  BY <1>3 DEF NewBid, Added, JobMade
<1>4. ASSUME NEW b \in Bids, RaisePrice(b) \/ RefuseBid(b) PROVE JobTaken(b)
  BY <1>4 DEF RaisePrice, RefuseBid, JobTaken
<1>5. ASSUME NEW b \in Bids, FinishJob(b) \/ LockExpires(b) PROVE JobOver(b)
  BY <1>5 DEF FinishJob, Settled, LockExpires, JobOver
<1>6. CASE Crash
  BY <1>6 DEF Crash, WorkerLost, JobStep, JobTaken
<1>7. ASSUME NEW b \in Bids, StalledCheck(b) PROVE JobOver(b) \/ JobPutBack(b)
  BY <1>7 DEF StalledCheck, JobOver, JobPutBack
<1>8. QED
  BY <1>1, <1>2, <1>3, <1>4, <1>5, <1>6, <1>7 DEF QueueNext, Rooms, Clients, Worker, JobStep

\* A step moves one bid, or stalls what the worker had.
LEMMA OthersStay ==
    ASSUME QueueTypeOK, NEW d \in Bids, JobStep(d), NEW b \in Bids \ {d}
    PROVE  place'[b] = place[b] /\ (b \in stalled' <=> b \in stalled)
BY DEF JobStep, JobMade, JobTaken, JobOver, JobPutBack, QueueTypeOK

\* An effort is a number up to seven.
LEMMA EffortType ==
    ASSUME NEW b \in Bids
    PROVE  /\ Effort(b) \in 0..7
           /\ place[b] \in {"waiting", "active", "stalled"} => Effort(b) \in 1..6
BY DEF Effort

\* Whatever moves a bid leaves it less to go, and nothing gives it more.
LEMMA EffortFalls ==
    ASSUME QueueTypeOK, JobsInv, [QueueNext]_queueVars, NEW b \in Bids
    PROVE  /\ Effort(b)' <= Effort(b)
           /\ place'[b] # place[b] => Effort(b)' < Effort(b)
<1>1. ASSUME place'[b] = place[b], b \in stalled' <=> b \in stalled
      PROVE  Effort(b)' = Effort(b)
  BY <1>1 DEF Effort
<1>2. Effort(b) \in 0..7 /\ place[b] \in Places
  BY EffortType DEF QueueTypeOK
<1>3. CASE UNCHANGED <<place, wait, stalled>>
  BY <1>1, <1>2, <1>3
<1>4. CASE WorkerLost
  <2>1. CASE place[b] = "active"
    <3>1. place'[b] = "stalled" /\ stalled' = stalled
      BY <1>4, <2>1 DEF WorkerLost
    <3>2. QED
      BY <2>1, <3>1 DEF Effort
  <2>2. CASE place[b] # "active"
    <3>1. place'[b] = place[b] /\ stalled' = stalled
      BY <1>4, <2>2 DEF WorkerLost
    <3>2. QED
      BY <1>1, <1>2, <3>1
  <2>3. QED
    BY <2>1, <2>2
<1>5. ASSUME NEW d \in Bids, JobStep(d), b # d
      PROVE  Effort(b)' = Effort(b) /\ place'[b] = place[b]
  BY <1>1, <1>5, OthersStay
<1>6. CASE JobStep(b)
  <2>1. CASE JobMade(b)
    <3>1. place[b] = "unmade" /\ place'[b] = "waiting"
      BY <2>1 DEF JobMade, QueueTypeOK
    <3>2. QED
      BY <3>1 DEF Effort
  <2>2. CASE JobTaken(b)
    <3>1. place[b] = "waiting"
      BY <2>2, ListTaken DEF JobTaken, Takes, JobsInv
    <3>2. place'[b] \in {"active", "stalled"} /\ stalled' = stalled
      BY <2>2 DEF JobTaken, QueueTypeOK
    <3>3. QED
      BY <3>1, <3>2 DEF Effort
  <2>3. CASE JobOver(b)
    <3>1. /\ place[b] \in {"active", "stalled"} /\ stalled' = stalled
          /\ place'[b] \in {"stalled", "gone"} \ {place[b]}
      BY <2>3 DEF JobOver, QueueTypeOK
    <3>2. QED
      BY <3>1 DEF Effort
  <2>4. CASE JobPutBack(b)
    <3>1. /\ place[b] = "stalled" /\ place'[b] = "waiting"
          /\ b \notin stalled /\ b \in stalled'
      BY <2>4 DEF JobPutBack, QueueTypeOK
    <3>2. QED
      BY <3>1 DEF Effort
  <2>5. QED
    BY <1>6, <2>1, <2>2, <2>3, <2>4 DEF JobStep
<1>7. QED
  BY <1>2, <1>3, <1>4, <1>5, <1>6, JobSteps

\* What stands before a bid stood there already.
LEMMA BeforeShrinks ==
    ASSUME QueueTypeOK, JobsInv, [QueueNext]_queueVars,
           NEW b \in Bids, place[b] = "waiting", place'[b] = "waiting"
    PROVE  Before(b)' \subseteq Before(b)
<1> SUFFICES ASSUME NEW c \in Before(b)' PROVE c \in Before(b)
  OBVIOUS
<1>1. c \in Bids /\ Bids' = Bids
  BY DEF Before, Bids
<1>2. wait \in Seq(Bids) /\ Len(wait) \in Nat
  BY LenProperties DEF QueueTypeOK
<1>3. PICK k \in 1..Len(wait) : wait[k] = b
  BY DEF JobsInv, ListIsWaiting
<1>4. place[c] \in {"active", "stalled"} => c \in Before(b)
  BY <1>1 DEF Before
<1>5. (\E i, j \in 1..Len(wait) : i <= j /\ wait[i] = c /\ wait[j] = b) => c \in Before(b)
  BY <1>1 DEF Before
<1>6. \/ place'[c] \in {"active", "stalled"}
      \/ \E i, j \in 1..Len(wait') : i <= j /\ wait'[i] = c /\ wait'[j] = b
  BY DEF Before
<1>7. CASE UNCHANGED <<place, wait, stalled>>
  BY <1>4, <1>5, <1>6, <1>7
<1>8. CASE WorkerLost
  <2>1. place'[c] \in {"active", "stalled"} => place[c] \in {"active", "stalled"}
    BY <1>1, <1>8 DEF WorkerLost
  <2>2. QED
    BY <1>4, <1>5, <1>6, <1>8, <2>1 DEF WorkerLost
<1>9. ASSUME NEW d \in Bids, JobMade(d)
      PROVE  c \in Before(b)
  <2>1. /\ Len(wait') = Len(wait) + 1 /\ wait'[Len(wait) + 1] = d
        /\ \A i \in 1..Len(wait) : wait'[i] = wait[i]
    BY <1>2, <1>9, AppendProperties DEF JobMade
  <2>2. d # b /\ (place'[c] \in {"active", "stalled"} => place[c] \in {"active", "stalled"})
    BY <1>1, <1>9 DEF JobMade, QueueTypeOK
  <2>3. ASSUME NEW i \in 1..Len(wait'), NEW j \in 1..Len(wait'),
               i <= j, wait'[i] = c, wait'[j] = b
        PROVE  c \in Before(b)
    <3>1. j # Len(wait) + 1
      BY <2>1, <2>2, <2>3
    <3>2. i \in 1..Len(wait) /\ j \in 1..Len(wait)
      BY <1>2, <2>1, <2>3, <3>1
    <3>3. QED
      BY <1>5, <2>1, <2>3, <3>2
  <2>4. QED
    BY <1>4, <1>6, <2>2, <2>3
<1>10. ASSUME NEW d \in Bids, JobTaken(d)
       PROVE  c \in Before(b)
  <2>1. /\ \A i \in 1..Len(wait') : i + 1 \in 1..Len(wait) /\ wait'[i] = wait[i + 1]
        /\ 1 \in 1..Len(wait) /\ d = wait[1] /\ Len(wait') \in Nat
    BY <1>10, ListTaken DEF JobTaken, Takes, JobsInv
  <2>2. CASE c = d
    <3>1. 1 <= k /\ wait[1] = c
      BY <2>1, <2>2
    <3>2. QED
      BY <1>3, <1>5, <2>1, <3>1
  <2>3. CASE c # d
    <3>1. place'[c] = place[c]
      BY <1>1, <1>10, <2>3, OthersStay DEF JobStep
    <3>2. ASSUME NEW i \in 1..Len(wait'), NEW j \in 1..Len(wait'),
                 i <= j, wait'[i] = c, wait'[j] = b
          PROVE  c \in Before(b)
      <4>1. /\ i + 1 \in 1..Len(wait) /\ j + 1 \in 1..Len(wait) /\ i + 1 <= j + 1
            /\ wait[i + 1] = c /\ wait[j + 1] = b
        BY <2>1, <3>2
      <4>2. QED
        BY <1>5, <4>1
    <3>3. QED
      BY <1>4, <1>6, <3>1, <3>2
  <2>4. QED
    BY <2>2, <2>3
<1>11. ASSUME NEW d \in Bids, JobOver(d)
       PROVE  c \in Before(b)
  <2>1. /\ wait' = wait
        /\ place'[c] \in {"active", "stalled"} => place[c] \in {"active", "stalled"}
    BY <1>1, <1>11 DEF JobOver, QueueTypeOK
  <2>2. QED
    BY <1>4, <1>5, <1>6, <2>1
<1>12. ASSUME NEW d \in Bids, JobPutBack(d)
       PROVE  c \in Before(b)
  <2>1. /\ Len(wait') = Len(wait) + 1 /\ wait'[1] = d
        /\ \A i \in 2..Len(wait') : i - 1 \in 1..Len(wait) /\ wait'[i] = wait[i - 1]
    <3>1. <<d>> \in Seq(Bids) /\ Len(<<d>>) = 1 /\ <<d>>[1] = d
      OBVIOUS
    <3>2. QED
      BY <1>2, <1>12, <3>1, ConcatProperties DEF JobPutBack
  <2>2. d # b /\ place[d] = "stalled" /\ (c # d => place'[c] = place[c])
    BY <1>1, <1>12 DEF JobPutBack, QueueTypeOK
  <2>3. CASE c = d
    BY <1>4, <2>2, <2>3
  <2>4. CASE c # d
    <3>1. ASSUME NEW i \in 1..Len(wait'), NEW j \in 1..Len(wait'),
                 i <= j, wait'[i] = c, wait'[j] = b
          PROVE  c \in Before(b)
      <4>1. i # 1 /\ j # 1
        BY <2>1, <2>2, <2>4, <3>1
      <4>2. i \in 2..Len(wait') /\ j \in 2..Len(wait')
        BY <1>2, <2>1, <3>1, <4>1
      <4>3. /\ i - 1 \in 1..Len(wait) /\ j - 1 \in 1..Len(wait) /\ i - 1 <= j - 1
            /\ wait[i - 1] = c /\ wait[j - 1] = b
        BY <2>1, <3>1, <4>2
      <4>4. QED
        BY <1>5, <4>3
    <3>2. QED
      BY <1>4, <1>6, <2>2, <2>4, <3>1
  <2>5. QED
    BY <2>3, <2>4
<1>13. QED
  BY <1>7, <1>8, <1>9, <1>10, <1>11, <1>12, JobSteps DEF JobStep

\* The worker and the check of stalled jobs have a bid in hand whose turn comes before
\* that of whoever waits.
LEMMA WorkIsBefore ==
    ASSUME QueueTypeOK, JobsInv, NEW b \in Bids, place[b] = "waiting",
           Worker \/ \E c \in Bids : StalledCheck(c)
    PROVE  \E c \in Before(b) : place'[c] # place[c]
<1>1. PICK k \in 1..Len(wait) : wait[k] = b
  BY DEF JobsInv, ListIsWaiting
<1>2. ASSUME NEW c \in Bids, JobTaken(c)
      PROVE  c \in Before(b) /\ place'[c] # place[c]
  <2>1. 1 \in 1..Len(wait) /\ wait[1] = c /\ place[c] = "waiting"
    BY <1>2, ListTaken DEF JobTaken, Takes, JobsInv
  <2>2. place'[c] \in {"active", "stalled"}
    BY <1>2 DEF JobTaken, QueueTypeOK
  <2>3. QED
    BY <1>1, <2>1, <2>2 DEF Before
<1>3. ASSUME NEW c \in Bids, FinishJob(c) \/ StalledCheck(c)
      PROVE  c \in Before(b) /\ place'[c] # place[c]
  <2>1. /\ place[c] \in {"active", "stalled"}
        /\ place'[c] \in {"gone", "waiting"}
    BY <1>3 DEF FinishJob, Settled, StalledCheck, QueueTypeOK
  <2>2. QED
    BY <2>1 DEF Before
<1>4. ASSUME NEW c \in Bids, RaisePrice(c) \/ RefuseBid(c) PROVE JobTaken(c)
  BY <1>4 DEF RaisePrice, RefuseBid, JobTaken, jobVars, roomVars
<1>5. QED
  BY <1>2, <1>3, <1>4 DEF Worker

\* What comes before a waiting bid grows less with its work, and is finite.
LEMMA EffortsShrink ==
    ASSUME QueueTypeOK, JobsInv, [QueueNext]_queueVars,
           NEW b \in Bids, place[b] = "waiting", place'[b] = "waiting"
    PROVE  /\ Efforts(b)' \subseteq Efforts(b)
           /\ Worker \/ (\E c \in Bids : StalledCheck(c)) => Efforts(b)' # Efforts(b)
<1>1. \A c \in Before(b) : c \in Bids
  BY DEF Before
<1>2. \A c \in Bids : Effort(c)' \in 0..7
  BY DEF Effort
<1>3. \A c \in Bids : Effort(c) \in 0..7 /\ Effort(c)' <= Effort(c)
  BY EffortType, EffortFalls
<1>4. Efforts(b)' \subseteq Efforts(b)
  <2> SUFFICES ASSUME NEW e \in Efforts(b)' PROVE e \in Efforts(b)
    OBVIOUS
  <2>1. e \in Before(b)' \X (1..6) /\ e[2] <= Effort(e[1])'
    BY DEF Efforts
  <2>2. e \in Before(b) \X (1..6) /\ e[1] \in Bids /\ e[2] \in 1..6
    BY <1>1, <2>1, BeforeShrinks
  <2>3. e[2] <= Effort(e[1])
    BY <1>2, <1>3, <2>1, <2>2
  <2>4. QED
    BY <2>2, <2>3 DEF Efforts
<1>5. ASSUME Worker \/ \E c \in Bids : StalledCheck(c)
      PROVE  Efforts(b)' # Efforts(b)
  <2>1. PICK c \in Before(b) : place'[c] # place[c]
    BY <1>5, WorkIsBefore
  <2>2. place[c] \in {"waiting", "active", "stalled"}
    BY DEF Before, JobsInv, ListIsWaiting
  <2>3. c \in Bids /\ Effort(c) \in 1..6 /\ Effort(c)' < Effort(c)
    BY <1>1, <2>1, <2>2, EffortType, EffortFalls
  <2>4. <<c, Effort(c)>> \in Efforts(b)
    BY <2>3 DEF Efforts
  <2>5. <<c, Effort(c)>> \notin Efforts(b)'
    <3>1. SUFFICES ASSUME <<c, Effort(c)>> \in Efforts(b)' PROVE FALSE
      OBVIOUS
    <3>2. Effort(c) <= Effort(c)'
      BY <3>1 DEF Efforts
    <3>3. QED
      BY <1>2, <2>3, <3>2
  <2>6. QED
    BY <2>4, <2>5
<1>6. QED
  BY <1>4, <1>5

\* No more than six efforts for each bid.
LEMMA EffortsAreFinite ==
    ASSUME NEW b \in Bids
    PROVE  IsFiniteSet(Efforts(b))
<1>1. IsFiniteSet(Bids) /\ IsFiniteSet(1..6)
  <2>1. 1 \in Int /\ 6 \in Int /\ MaxBids \in Int
    BY QueueBounds
  <2>2. IsFiniteSet(1..MaxBids)
    BY <2>1, FS_Interval
  <2>3. IsFiniteSet(1..6)
    BY <2>1, FS_Interval
  <2>4. QED
    BY <2>2, <2>3 DEF Bids
<1>2. IsFiniteSet(Bids \X (1..6))
  BY <1>1, FS_Product
<1>3. Efforts(b) \subseteq Bids \X (1..6)
  BY DEF Efforts, Before
<1>4. QED
  BY <1>2, <1>3, FS_Subset

\* The worker has one job at a time.
LEMMA OneJobStep ==
    ASSUME QueueTypeOK, OneJob, [QueueNext]_queueVars
    PROVE  OneJob'
<1> SUFFICES ASSUME NEW b \in Bids, NEW c \in Bids, place'[b] = "active", place'[c] = "active"
             PROVE  b = c
  BY DEF OneJob, Bids
<1>1. CASE UNCHANGED <<place, wait, stalled>>
  BY <1>1 DEF OneJob
<1>2. CASE WorkerLost
  BY <1>2 DEF WorkerLost
<1>3. ASSUME NEW d \in Bids, JobTaken(d)
      PROVE  b = c
  BY <1>3 DEF JobTaken, Takes, Idle, QueueTypeOK
<1>4. ASSUME NEW d \in Bids, JobMade(d) \/ JobOver(d) \/ JobPutBack(d)
      PROVE  b = c
  <2>1. place'[d] # "active" /\ \A e \in Bids \ {d} : place'[e] = place[e]
    BY <1>4 DEF JobMade, JobOver, JobPutBack, QueueTypeOK
  <2>2. QED
    BY <2>1 DEF OneJob
<1>5. QED
  BY <1>1, <1>2, <1>3, <1>4, JobSteps DEF JobStep

\* The worker has one job at a time, whatever dies or expires (@nestjs/bull's default
\* concurrency, queue.processor.ts:10).
THEOREM OneJobAtATime == QueueSpec => []OneJob /\ JobsEnd
<1>1. QueueInit => OneJob
  BY DEF QueueInit, OneJob
<1>2. QueueInv /\ OneJob /\ [QueueNext]_queueVars => OneJob'
  BY OneJobStep DEF QueueInv
<1>3. QueueInv /\ OneJob /\ [QueueNext]_queueVars =>
          \A b \in Bids : place[b] = "active" /\ Worker => place'[b] = "gone"
  <2> SUFFICES ASSUME QueueTypeOK, OneJob, NEW b \in Bids, place[b] = "active",
                      NEW c \in Bids, RaisePrice(c) \/ RefuseBid(c) \/ FinishJob(c)
               PROVE  place'[b] = "gone"
    BY DEF QueueInv, Worker
  <2>1. FinishJob(c)
    BY DEF RaisePrice, RefuseBid, Takes, Idle
  <2>2. b = c
    BY <2>1 DEF FinishJob, Settled, OneJob
  <2>3. QED
    BY <2>1, <2>2 DEF FinishJob, QueueTypeOK
<1>4. QED
  BY <1>1, <1>2, <1>3, QueueInvariant, PTL DEF JobsEnd, QueueSpec

\* No bid starves behind those of other rooms, behind later ones or behind those that are
\* put back: what has to be done before its turn ends is finite and only grows less, with
\* everything that the worker does and every check of stalled jobs; and there always is
\* something to do (updateBidQueue in game.service.ts, queue.processor.ts).
THEOREM NoBidStarves ==
    QueueSpec => /\ EffortsFall
                 /\ TurnsComeNearer
                 /\ []WorkerIsBusy
                 /\ [](\A b \in Bids : IsFiniteSet(Efforts(b)))
<1>1. QueueInv /\ [QueueNext]_queueVars =>
          \A b \in Bids :
              /\ Effort(b)' <= Effort(b)
              /\ place'[b] # place[b] => Effort(b)' < Effort(b)
  BY EffortFalls DEF QueueInv
<1>2. QueueInv /\ [QueueNext]_queueVars =>
          \A b \in Bids : place[b] = "waiting" /\ place'[b] = "waiting" =>
              /\ Efforts(b)' \subseteq Efforts(b)
              /\ Worker \/ (\E c \in Bids : StalledCheck(c)) => Efforts(b)' # Efforts(b)
  BY EffortsShrink DEF QueueInv
<1>3. QueueInv => WorkerIsBusy
  <2> SUFFICES ASSUME QueueInv, NEW b \in Bids, place[b] = "waiting", Idle
               PROVE  wait # <<>> /\ Head(wait) \in Bids
    BY DEF WorkerIsBusy, Idle, Settled
  <2>1. wait \in Seq(Bids) /\ \E k \in 1..Len(wait) : wait[k] = b
    BY DEF QueueInv, QueueTypeOK, JobsInv, ListIsWaiting
  <2>2. wait # <<>>
    BY <2>1
  <2>3. QED
    BY <2>1, <2>2
<1>4. \A b \in Bids : IsFiniteSet(Efforts(b))
  BY EffortsAreFinite
<1>5. QED
  BY <1>1, <1>2, <1>3, <1>4, QueueInvariant, PTL DEF EffortsFall, TurnsComeNearer, QueueSpec
=============================================================================
