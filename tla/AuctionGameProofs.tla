------------------------- MODULE AuctionGameProofs -------------------------
(***************************************************************************)
(* Proofs about AuctionGame for every number of items, set of users, price *)
(* and time.  IInv is inductive: the invariants and the action property    *)
(* follow from it, and so does the refinement of EnglishAuction.  Two      *)
(* measures that every step of the run brings down are what its end rests  *)
(* on; that it comes, under the fairness of the timers, is left to TLC.    *)
(***************************************************************************)
EXTENDS AuctionGame, FiniteSetTheorems, WellFoundedInduction, TLAPS

USE DEF Stages, Running, Settled, Unsettled, SettledItem, Won

\* The reset of phase 2 gives a natural number, so the clock stays an integer.
LEMMA ResetTimeType ==
    ASSUME NEW t \in Int, NEW m \in Nat
    PROVE  ResetTime(t, m) \in Nat
BY DEF ResetTime

\* A phase 1 listener that has its answer sets an integer, at least 15.
LEMMA ReducedTimeType ==
    ASSUME NEW t \in Int, NEW cut \in Int
    PROVE  ReducedTime(t, cut) \in Int /\ ReducedTime(t, cut) >= 15
BY DEF ReducedTime

\* The poll or the listener at the head of the queue leaves it well typed.
LEMMA WakeType ==
    ASSUME TimeType, NEW w, Wake(w)
    PROVE  lockQueue' \in Seq(Listeners \cup {TickPoll})
BY DEF TimeType, Wake

\* A phase 2 listener at work leaves the clock and its own value well typed.
LEMMA ResetClockType ==
    ASSUME TimeType, NEW f \in Listeners, ResetClock(f)
    PROVE  clock' \in Int /\ resetTo' \in [Items -> Nat]
<1>1. clock \in Int /\ resetTo \in [Items -> Nat] /\ f.item \in Items
  BY DEF TimeType, Listeners
<1>2. clock' = ResetTime(clock, resetTo[f.item])
  BY DEF ResetClock
<1>3. clock' \in Nat
  BY <1>1, <1>2, ResetTimeType
<1>4. resetTo' = [resetTo EXCEPT ![f.item] = clock']
  BY DEF ResetClock
<1>5. resetTo' \in [Items -> Nat]
  BY <1>1, <1>3, <1>4
<1>6. clock' \in Int
  BY <1>3
<1> QED
  BY <1>5, <1>6

\* A call to Redis carries an integer time.
LEMMA AskRedisType ==
    ASSUME TimeType, AskRedis(clock)
    PROVE  redisCalls' \in [Calls -> Int \cup {None}]
BY DEF TimeType, AskRedis, FreeCalls

\* Entering phase 2 of a current item installs a listener of that item.
LEMMA EnterPhase2Type ==
    ASSUME TimeType, sequence \in Items, EnterPhase2
    PROVE  /\ stage' \in Stages
           /\ listener' \in Listeners \cup {NoListener}
           /\ resetTo' \in [Items -> Nat]
<1>1. stage' \in Stages
  BY DEF EnterPhase2
<1>2. listener' \in Listeners
  BY DEF EnterPhase2, Listener, Listeners
<1>3. resetTo' \in [Items -> Nat]
  BY DEF TimeType, EnterPhase2
<1> QED
  BY <1>1, <1>2, <1>3

\* A part of the state that a step leaves alone keeps its type.
LEMMA UnchangedType ==
    ASSUME TypeOK
    PROVE  /\ UNCHANGED roomVars => RoomType'
           /\ UNCHANGED userVars => UserType'
           /\ UNCHANGED itemVars => ItemType'
           /\ UNCHANGED canBid => canBid' \in BOOLEAN
           /\ UNCHANGED timeVars => TimeType'
<1>1. UNCHANGED roomVars => RoomType'
  BY DEF TypeOK, RoomType, roomVars
<1>2. UNCHANGED userVars => UserType'
  BY DEF TypeOK, UserType, userVars
<1>3. UNCHANGED itemVars => ItemType'
  BY DEF TypeOK, ItemType, itemVars
<1>4. UNCHANGED canBid => canBid' \in BOOLEAN
  BY DEF TypeOK
<1>5. UNCHANGED timeVars => TimeType'
  BY DEF TypeOK, TimeType, timeVars
<1> QED
  BY <1>1, <1>2, <1>3, <1>4, <1>5

\* An item that is current is one of the items.
LEMMA CurrentItem ==
    ASSUME RoomType, sequence >= 1
    PROVE  sequence \in Items
BY ItemsAssumption DEF RoomType, Items

\* The first part of the inductive step: every action keeps the types.  Only
\* Listener(p) needs more than TypeOK: a current item, hence Positioned.
LEMMA TypeStep ==
    ASSUME TypeOK, Positioned, [Next]_vars
    PROVE  TypeOK'
<1> USE ItemsAssumption, InputsAssumption, BoundsAssumption, UnchangedType
<1>0. RoomType /\ UserType /\ ItemType /\ canBid \in BOOLEAN /\ TimeType
  BY DEF TypeOK
<1>1. CASE UNCHANGED vars
  BY <1>1 DEF TypeOK, vars
<1>2. ASSUME NEW u \in Users, Join(u) PROVE TypeOK'
  <2>1. UserType'
    BY <1>0, <1>2 DEF UserType, Join
  <2> QED
    BY <1>2, <2>1 DEF TypeOK, Join
<1>3. CASE OnBidCreate
  <2>1. RoomType'
    BY <1>0, <1>3 DEF RoomType, OnBidCreate, HasNextItem
  <2>2. canBid' \in BOOLEAN
    BY <1>3 DEF OnBidCreate
  <2>3. TimeType'
    BY <1>0, <1>3 DEF TimeType, OnBidCreate
  <2> QED
    BY <1>3, <2>1, <2>2, <2>3 DEF TypeOK, OnBidCreate
<1>4. CASE OnBidCreateNoItem
  <2>1. RoomType'
    BY <1>0, <1>4 DEF RoomType, OnBidCreateNoItem
  <2> QED
    BY <1>4, <2>1 DEF TypeOK, OnBidCreateNoItem
<1>5. CASE OpenBidding
  <2>1. sequence \in Items
    BY <1>0, <1>5, CurrentItem DEF OpenBidding, Positioned
  <2>2. /\ stage' \in Stages
        /\ listener' \in Listeners \cup {NoListener}
        /\ resetTo' \in [Items -> Nat]
    <3>1. CASE EnterPhase2
      BY <1>0, <2>1, <3>1, EnterPhase2Type
    <3>2. CASE stage' = "phase1" /\ listener' = Listener(1) /\ UNCHANGED resetTo
      BY <1>0, <2>1, <3>2 DEF TimeType, Listener, Listeners
    <3> QED
      BY <1>5, <3>1, <3>2 DEF OpenBidding
  <2>3. RoomType'
    BY <1>0, <1>5, <2>2 DEF RoomType, OpenBidding
  <2>4. canBid' \in BOOLEAN
    BY <1>5 DEF OpenBidding
  <2>5. TimeType'
    BY <1>0, <1>5, <2>2 DEF TimeType, OpenBidding
  <2> QED
    BY <1>5, <2>3, <2>4, <2>5 DEF TypeOK, OpenBidding
<1>6. CASE Tick
  <2>1. TimeType'
    BY <1>0, <1>6 DEF TimeType, Tick, CountDown
  <2> QED
    BY <1>6, <2>1 DEF TypeOK, Tick
<1>7. CASE CheckPhase1
  <2>1. lockQueue' \in Seq(Listeners \cup {TickPoll})
    BY <1>0, <1>7, WakeType DEF CheckPhase1
  <2>2. sequence \in Items
    BY <1>0, <1>7, CurrentItem DEF CheckPhase1, Positioned
  <2>3. /\ stage' \in Stages
        /\ listener' \in Listeners \cup {NoListener}
        /\ resetTo' \in [Items -> Nat]
    <3>1. CASE EnterPhase2
      BY <1>0, <2>2, <3>1, EnterPhase2Type
    <3>2. CASE UNCHANGED <<stage, listener, resetTo>>
      BY <1>0, <3>2 DEF TimeType, RoomType
    <3> QED
      BY <1>7, <3>1, <3>2 DEF CheckPhase1
  <2>4. RoomType'
    BY <1>0, <1>7, <2>3 DEF RoomType, CheckPhase1
  <2>5. TimeType'
    BY <1>0, <1>7, <2>1, <2>3 DEF TimeType, CheckPhase1
  <2> QED
    BY <1>7, <2>4, <2>5 DEF TypeOK, CheckPhase1
<1>8. CASE CheckPhase2
  <2>1. lockQueue' \in Seq(Listeners \cup {TickPoll})
    BY <1>0, <1>8, WakeType DEF CheckPhase2
  <2>2. RoomType'
    BY <1>0, <1>8 DEF RoomType, CheckPhase2
  <2>3. TimeType'
    BY <1>0, <1>8, <2>1 DEF TimeType, CheckPhase2
  <2> QED
    BY <1>8, <2>2, <2>3 DEF TypeOK, CheckPhase2
<1>9. CASE KeepBidding
  <2>1. lockQueue' \in Seq(Listeners \cup {TickPoll})
    BY <1>0, <1>9, WakeType DEF KeepBidding
  <2>2. TimeType'
    BY <1>0, <1>9, <2>1 DEF TimeType, KeepBidding
  <2> QED
    BY <1>9, <2>2 DEF TypeOK, KeepBidding
<1>10. CASE OnBidEnded
  <2>1. lockQueue' \in Seq(Listeners \cup {TickPoll})
    BY <1>0, <1>10, WakeType DEF OnBidEnded
  <2>2. sequence \in Items
    BY <1>0, <1>10, CurrentItem DEF OnBidEnded, Positioned
  <2>3. budget' \in [Users -> Int]
    BY <1>0, <1>10, <2>2 DEF UserType, ItemType, OnBidEnded, Charge
  <2>4. buyerId' \in [Items -> Users \cup {None}] /\ isSold' \in [Items -> BOOLEAN]
    BY <1>0, <1>10, <2>2 DEF ItemType, OnBidEnded
  <2>5. userBidPrice' \in [Users -> Nat]
    BY <1>0, <1>10 DEF UserType, OnBidEnded, ResetUsersBidPrice
  <2>6. RoomType'
    BY <1>0, <1>10 DEF RoomType, OnBidEnded
  <2>7. UserType'
    BY <1>0, <1>10, <2>3, <2>5 DEF UserType, OnBidEnded
  <2>8. ItemType'
    BY <1>0, <1>10, <2>4 DEF ItemType, OnBidEnded
  <2>9. canBid' \in BOOLEAN
    BY <1>10 DEF OnBidEnded
  <2>10. TimeType'
    BY <1>0, <1>10, <2>1 DEF TimeType, OnBidEnded
  <2> QED
    BY <2>6, <2>7, <2>8, <2>9, <2>10 DEF TypeOK
<1>11. CASE AfterBidEnd
  <2>1. RoomType'
    BY <1>0, <1>11 DEF RoomType, AfterBidEnd
  <2> QED
    BY <1>11, <2>1 DEF TypeOK, AfterBidEnd
<1>12. CASE OnRoomDestroy
  <2>1. RoomType'
    BY <1>0, <1>12 DEF RoomType, OnRoomDestroy
  <2> QED
    BY <1>12, <2>1 DEF TypeOK, OnRoomDestroy
<1>13. ASSUME NEW u \in Users, NEW p \in Prices, NEW percent \in Percents,
              AcceptBid(u, p, percent)
       PROVE  TypeOK'
  <2>1. sequence \in Items /\ p \in Nat
    BY <1>0, <1>13, CurrentItem DEF AcceptBid, HasItem
  <2>2. lockQueue' \in Seq(Listeners \cup {TickPoll})
    <3>1. \/ lockQueue' = Append(lockQueue, listener)
          \/ lockQueue' = lockQueue
      BY <1>13 DEF AcceptBid, TimeEventAfterAccept
    <3>2. lockQueue \in Seq(Listeners \cup {TickPoll}) /\ listener \in Listeners \cup {TickPoll}
      BY <1>0 DEF TimeType, TickPoll
    <3> HIDE ItemsAssumption, InputsAssumption, BoundsAssumption, UnchangedType
    <3> QED
      BY <3>1, <3>2
  <2>3. UserType'
    BY <1>0, <1>13, <2>1 DEF UserType, AcceptBid
  <2>4. ItemType'
    BY <1>0, <1>13, <2>1 DEF ItemType, AcceptBid
  <2>5. TimeType'
    BY <1>0, <1>13, <2>2 DEF TimeType, AcceptBid
  <2> QED
    BY <1>13, <2>3, <2>4, <2>5 DEF TypeOK, AcceptBid
<1>14. ASSUME NEW u \in Users, NEW p \in Prices, NEW percent \in Percents,
              RefuseBid(u, p, percent)
       PROVE  TypeOK'
  <2> DEFINE rise == bidPrice[sequence] - prevBidPrice
  <2>1. /\ clock' \in Int
        /\ resetTo' \in [Items -> Nat]
        /\ redisCalls' \in [Calls -> Int \cup {None}]
    <3>1. CASE listener.phase = 1 /\ MovesTime(percent, rise)
      <4>1. AskRedis(clock) /\ UNCHANGED <<clock, resetTo>>
        BY <1>14, <3>1 DEF RefuseBid, TimeEventAfterRefuse
      <4> QED
        BY <1>0, <4>1, AskRedisType DEF TimeType
    <3>2. CASE listener.phase = 2
      <4>1. ResetClock(listener) /\ UNCHANGED redisCalls
        BY <1>14, <3>2 DEF RefuseBid, TimeEventAfterRefuse
      <4>2. listener \in Listeners
        BY <1>0, <3>2 DEF TimeType, NoListener
      <4> QED
        BY <1>0, <4>1, <4>2, ResetClockType DEF TimeType
    <3>3. CASE ~(listener.phase = 1 /\ MovesTime(percent, rise)) /\ listener.phase # 2
      <4>1. UNCHANGED <<clock, resetTo, redisCalls>>
        BY <1>14, <3>3 DEF RefuseBid, TimeEventAfterRefuse
      <4> QED
        BY <1>0, <4>1 DEF TimeType
    <3> QED
      BY <3>1, <3>2, <3>3
  <2>2. TimeType'
    BY <1>0, <1>14, <2>1 DEF TimeType, RefuseBid
  <2> QED
    BY <1>14, <2>2 DEF TypeOK, RefuseBid
<1>15. ASSUME NEW f \in Listeners, ReadClock(f) PROVE TypeOK'
  <2>1. lockQueue' \in Seq(Listeners \cup {TickPoll})
    BY <1>0, <1>15, WakeType DEF ReadClock
  <2>2. redisCalls' \in [Calls -> Int \cup {None}]
    BY <1>0, <1>15, AskRedisType DEF ReadClock
  <2>3. TimeType'
    BY <1>0, <1>15, <2>1, <2>2 DEF TimeType, ReadClock
  <2> QED
    BY <1>15, <2>3 DEF TypeOK, ReadClock
<1>16. ASSUME NEW f \in Listeners, SetResetTime(f) PROVE TypeOK'
  <2>1. lockQueue' \in Seq(Listeners \cup {TickPoll})
    BY <1>0, <1>16, WakeType DEF SetResetTime
  <2>2. clock' \in Int /\ resetTo' \in [Items -> Nat]
    BY <1>0, <1>16, ResetClockType DEF SetResetTime
  <2>3. TimeType'
    BY <1>0, <1>16, <2>1, <2>2 DEF TimeType, SetResetTime
  <2> QED
    BY <1>16, <2>3 DEF TypeOK, SetResetTime
<1>17. ASSUME NEW c \in Calls, SetReducedTime(c) PROVE TypeOK'
  <2>1. redisCalls[c] \in Int
    BY <1>0, <1>17 DEF TimeType, SetReducedTime
  <2>2. clock' \in Int
    BY <1>17, <2>1, ReducedTimeType DEF SetReducedTime
  <2>3. redisCalls' \in [Calls -> Int \cup {None}]
    BY <1>0, <1>17 DEF TimeType, SetReducedTime
  <2>4. TimeType'
    BY <1>0, <1>17, <2>2, <2>3 DEF TimeType, SetReducedTime
  <2> QED
    BY <1>17, <2>4 DEF TypeOK, SetReducedTime
<1>18. CASE SkipBidItem
  <2>1. canBid' \in BOOLEAN
    BY <1>18 DEF SkipBidItem
  <2>2. TimeType'
    BY <1>0, <1>18 DEF TimeType, SkipBidItem
  <2> QED
    BY <1>18, <2>1, <2>2 DEF TypeOK, SkipBidItem
<1>19. ASSUME NEW t \in Reductions, ReduceTime(t) PROVE TypeOK'
  <2>1. TimeType'
    BY <1>0, <1>19 DEF TimeType, ReduceTime
  <2> QED
    BY <1>19, <2>1 DEF TypeOK, ReduceTime
<1>20. CASE Terminate
  <2>1. RoomType'
    BY <1>0, <1>20 DEF RoomType, Terminate
  <2> QED
    BY <1>20, <2>1 DEF TypeOK, Terminate
<1>21. CASE Finished
  BY <1>1, <1>21 DEF Finished
<1> QED
  BY <1>1, <1>2, <1>3, <1>4, <1>5, <1>6, <1>7, <1>8, <1>9, <1>10, <1>11, <1>12,
     <1>13, <1>14, <1>15, <1>16, <1>17, <1>18, <1>19, <1>20, <1>21
     DEF Next, Lifecycle, Bidding, Console, Bid, ListenerWakes

-----------------------------------------------------------------------------
(* The position of the run *)

\* Every action keeps Positioned: only OpenBidding makes a bid possible, and the
\* actions that leave Running close it.
LEMMA PositionedStep ==
    ASSUME TypeOK, Positioned, [Next]_vars
    PROVE  Positioned'
<1> USE DEF roomVars, userVars, itemVars, timeVars, Positioned
<1>0. sequence \in Int /\ count \in Int /\ sequence <= count
  BY ItemsAssumption DEF TypeOK, RoomType
<1>1. CASE UNCHANGED vars
  BY <1>1 DEF vars
<1>2. ASSUME NEW u \in Users, Join(u) PROVE Positioned'
  BY <1>2 DEF Join
<1>3. CASE OnBidCreate
  BY <1>0, <1>3 DEF OnBidCreate, TypeOK, RoomType
<1>4. CASE OnBidCreateNoItem
  BY <1>4 DEF OnBidCreateNoItem
<1>5. CASE OpenBidding
  BY <1>5 DEF OpenBidding, EnterPhase2
<1>6. CASE Tick
  BY <1>6 DEF Tick
<1>7. CASE CheckPhase1
  BY <1>7 DEF CheckPhase1, EnterPhase2
<1>8. CASE CheckPhase2
  BY <1>8 DEF CheckPhase2
<1>9. CASE KeepBidding
  BY <1>9 DEF KeepBidding
<1>10. CASE OnBidEnded
  BY <1>10 DEF OnBidEnded
<1>11. CASE AfterBidEnd
  BY <1>0, <1>11 DEF AfterBidEnd
<1>12. CASE OnRoomDestroy
  BY <1>12 DEF OnRoomDestroy
<1>13. ASSUME NEW u \in Users, NEW p \in Prices, NEW percent \in Percents,
              AcceptBid(u, p, percent)
       PROVE  Positioned'
  BY <1>13 DEF AcceptBid
<1>14. ASSUME NEW u \in Users, NEW p \in Prices, NEW percent \in Percents,
              RefuseBid(u, p, percent)
       PROVE  Positioned'
  BY <1>14 DEF RefuseBid
<1>15. ASSUME NEW f \in Listeners, ReadClock(f) PROVE Positioned'
  BY <1>15 DEF ReadClock
<1>16. ASSUME NEW f \in Listeners, SetResetTime(f) PROVE Positioned'
  BY <1>16 DEF SetResetTime
<1>17. ASSUME NEW c \in Calls, SetReducedTime(c) PROVE Positioned'
  BY <1>17 DEF SetReducedTime
<1>18. CASE SkipBidItem
  BY <1>18 DEF SkipBidItem
<1>19. ASSUME NEW t \in Reductions, ReduceTime(t) PROVE Positioned'
  BY <1>19 DEF ReduceTime
<1>20. CASE Terminate
  BY <1>20 DEF Terminate
<1>21. CASE Finished
  BY <1>1, <1>21 DEF Finished
<1> QED
  BY <1>1, <1>2, <1>3, <1>4, <1>5, <1>6, <1>7, <1>8, <1>9, <1>10, <1>11, <1>12,
     <1>13, <1>14, <1>15, <1>16, <1>17, <1>18, <1>19, <1>20, <1>21
     DEF Next, Lifecycle, Bidding, Console, Bid, ListenerWakes

-----------------------------------------------------------------------------
(* The sale *)

\* A step that neither sells, bids, joins nor moves to another item, and does not
\* cross the line between items on offer and items settled, keeps the invariant.
LEMMA QuietStep ==
    ASSUME SaleInv, UNCHANGED <<sequence, userVars, itemVars>>,
           stage' \in Settled <=> stage \in Settled,
           Unsettled' => Unsettled
    PROVE  SaleInv'
BY DEF SaleInv, Fresh, LeaderCanPay, ReportedBudgetNotNegative, SoldToLeader,
       userVars, itemVars

\* A join brings a positive budget and leads nothing.
LEMMA JoinStep ==
    ASSUME TypeOK, SaleInv, NEW u \in Users, Join(u)
    PROVE  SaleInv'
<1> USE DEF Join, roomVars, itemVars
<1>1. Fresh' /\ SoldToLeader'
  BY DEF SaleInv, Fresh, SoldToLeader
<1>2. LeaderCanPay'
  BY DEF TypeOK, UserType, SaleInv, LeaderCanPay
<1>3. ReportedBudgetNotNegative'
  BY ItemsAssumption DEF TypeOK, UserType, SaleInv, ReportedBudgetNotNegative
<1> QED
  BY <1>1, <1>2, <1>3 DEF SaleInv

\* The next item has no leader yet, and its predecessors are settled.
LEMMA CreateStep ==
    ASSUME TypeOK, Positioned, SaleInv, OnBidCreate
    PROVE  SaleInv'
<1> USE DEF OnBidCreate, userVars, itemVars
<1>0. sequence \in Int /\ sequence + 1 \in Items /\ \A i \in Items : i \in Int
  BY ItemsAssumption DEF TypeOK, RoomType, HasNextItem, Items
<1>1. Fresh'
  BY <1>0 DEF SaleInv, Fresh
<1>2. LeaderCanPay'
  BY <1>0 DEF SaleInv, Fresh, LeaderCanPay
<1>3. ReportedBudgetNotNegative'
  BY DEF SaleInv, ReportedBudgetNotNegative
<1>4. SoldToLeader'
  BY <1>0 DEF SaleInv, SoldToLeader
<1> QED
  BY <1>1, <1>2, <1>3, <1>4 DEF SaleInv

\* An accepted bid is covered by its bidder's budget, for an item not yet settled.
LEMMA AcceptStep ==
    ASSUME TypeOK, Positioned, SaleInv,
           NEW u \in Users, NEW p \in Prices, NEW percent \in Percents,
           AcceptBid(u, p, percent)
    PROVE  SaleInv'
<1> USE DEF AcceptBid, Acceptable, roomVars
<1>0. /\ sequence \in Items /\ p \in Nat /\ stage \in Running
      /\ \A i \in Items : i \in Int
  BY ItemsAssumption, InputsAssumption, CurrentItem
     DEF TypeOK, HasItem, Positioned, Items
<1>1. Fresh'
  BY <1>0 DEF SaleInv, Fresh
<1>2. LeaderCanPay'
  BY <1>0 DEF TypeOK, ItemType, SaleInv, LeaderCanPay
<1>3. ReportedBudgetNotNegative'
  BY <1>0 DEF TypeOK, UserType, SaleInv, ReportedBudgetNotNegative
<1>4. SoldToLeader'
  BY <1>0 DEF TypeOK, ItemType, SaleInv, SoldToLeader
<1> QED
  BY <1>1, <1>2, <1>3, <1>4 DEF SaleInv

\* The charge leaves the winner a budget that is not negative, and the item sold to
\* exactly the user that led it.
LEMMA EndStep ==
    ASSUME TypeOK, Positioned, SaleInv, OnBidEnded
    PROVE  SaleInv'
<1> USE DEF OnBidEnded
<1>0. sequence \in Items /\ \A i \in Items : i \in Int
  BY ItemsAssumption, CurrentItem DEF TypeOK, Positioned, Items
<1>1. bidderId[sequence] # None <=> bidderId[sequence] \in joinedUsers
  BY UsersAssumption DEF TypeOK, UserType, SaleInv, LeaderCanPay
<1>2. Fresh'
  BY DEF SaleInv, Fresh
<1>3. LeaderCanPay'
  BY DEF LeaderCanPay
<1>4. ReportedBudgetNotNegative'
  <2> SUFFICES ASSUME NEW u \in Users
               PROVE  budget'[u] - userBidPrice'[u] >= 0
    BY DEF ReportedBudgetNotNegative
  <2>1. budget[u] \in Int /\ userBidPrice[u] \in Nat /\ budget[u] - userBidPrice[u] >= 0
    BY DEF TypeOK, UserType, SaleInv, ReportedBudgetNotNegative
  <2>2. userBidPrice'[u] = IF u \in joinedUsers THEN 0 ELSE userBidPrice[u]
    BY DEF ResetUsersBidPrice
  <2>3. CASE bidderId[sequence] \in joinedUsers /\ u = bidderId[sequence]
    <3>1. bidPrice[sequence] \in Nat /\ bidPrice[sequence] <= budget[u]
      BY <1>0, <1>1, <2>3 DEF TypeOK, ItemType, SaleInv, LeaderCanPay
    <3>2. budget'[u] = budget[u] - bidPrice[sequence]
      BY <2>3 DEF Charge, TypeOK, UserType
    <3> QED
      BY <2>1, <2>2, <2>3, <3>1, <3>2
  <2>4. CASE ~(bidderId[sequence] \in joinedUsers /\ u = bidderId[sequence])
    <3>1. budget'[u] = budget[u]
      BY <2>4 DEF Charge, TypeOK, UserType
    <3> QED
      BY <2>1, <2>2, <3>1
  <2> QED
    BY <2>3, <2>4
<1>5. SoldToLeader'
  <2> SUFFICES ASSUME NEW i \in Items
               PROVE  LET won == (i < sequence \/ i = sequence) /\ bidderId[i] # None
                      IN  /\ isSold'[i] = (won \/ RowIsSold[i])
                          /\ buyerId'[i] = IF won THEN bidderId[i] ELSE RowBuyerId[i]
    BY DEF SoldToLeader
  <2>1. LET won == i < sequence /\ bidderId[i] # None
        IN  /\ isSold[i] = (won \/ RowIsSold[i])
            /\ buyerId[i] = IF won THEN bidderId[i] ELSE RowBuyerId[i]
    BY DEF SaleInv, SoldToLeader
  <2>2. /\ isSold \in [Items -> BOOLEAN] /\ buyerId \in [Items -> Users \cup {None}]
        /\ RowIsSold[i] \in BOOLEAN
    BY ItemsAssumption DEF TypeOK, ItemType
  <2>3. CASE i = sequence
    BY <1>0, <1>1, <2>1, <2>2, <2>3
  <2>4. CASE i # sequence
    BY <1>0, <2>1, <2>2, <2>4
  <2> QED
    BY <2>3, <2>4
<1> QED
  BY <1>2, <1>3, <1>4, <1>5 DEF SaleInv

\* An auction without items sells none.
LEMMA NoItemStep ==
    ASSUME TypeOK, Positioned, SaleInv, OnBidCreateNoItem
    PROVE  SaleInv'
<1> USE DEF OnBidCreateNoItem, userVars, itemVars
<1>1. sequence = 0 /\ \A i \in Items : i > 0
  BY ItemsAssumption DEF TypeOK, RoomType, Positioned, HasNextItem, Items
<1>2. Fresh' /\ LeaderCanPay' /\ ReportedBudgetNotNegative'
  BY DEF SaleInv, Fresh, LeaderCanPay, ReportedBudgetNotNegative
<1>3. SoldToLeader'
  BY <1>1 DEF SaleInv, SoldToLeader
<1> QED
  BY <1>2, <1>3 DEF SaleInv

\* The second part of the inductive step: five actions touch the sale, all others
\* are quiet.
LEMMA SaleStep ==
    ASSUME TypeOK, Positioned, SaleInv, [Next]_vars
    PROVE  SaleInv'
<1> USE DEF roomVars, timeVars
<1>1. CASE UNCHANGED vars
  BY <1>1, QuietStep DEF vars
<1>2. ASSUME NEW u \in Users, Join(u) PROVE SaleInv'
  BY <1>2, JoinStep
<1>3. CASE OnBidCreate
  BY <1>3, CreateStep
<1>4. CASE OnBidCreateNoItem
  BY <1>4, NoItemStep
<1>5. CASE OpenBidding
  BY <1>5, QuietStep DEF OpenBidding, EnterPhase2
<1>6. CASE Tick
  BY <1>6, QuietStep DEF Tick
<1>7. CASE CheckPhase1
  BY <1>7, QuietStep DEF CheckPhase1, EnterPhase2
<1>8. CASE CheckPhase2
  BY <1>8, QuietStep DEF CheckPhase2
<1>9. CASE KeepBidding
  BY <1>9, QuietStep DEF KeepBidding
<1>10. CASE OnBidEnded
  BY <1>10, EndStep
<1>11. CASE AfterBidEnd
  BY <1>11, QuietStep DEF AfterBidEnd
<1>12. CASE OnRoomDestroy
  BY <1>12, QuietStep DEF OnRoomDestroy
<1>13. ASSUME NEW u \in Users, NEW p \in Prices, NEW percent \in Percents,
              AcceptBid(u, p, percent)
       PROVE  SaleInv'
  BY <1>13, AcceptStep
<1>14. ASSUME NEW u \in Users, NEW p \in Prices, NEW percent \in Percents,
              RefuseBid(u, p, percent)
       PROVE  SaleInv'
  BY <1>14, QuietStep DEF RefuseBid
<1>15. ASSUME NEW f \in Listeners, ReadClock(f) PROVE SaleInv'
  BY <1>15, QuietStep DEF ReadClock
<1>16. ASSUME NEW f \in Listeners, SetResetTime(f) PROVE SaleInv'
  BY <1>16, QuietStep DEF SetResetTime
<1>17. ASSUME NEW c \in Calls, SetReducedTime(c) PROVE SaleInv'
  BY <1>17, QuietStep DEF SetReducedTime
<1>18. CASE SkipBidItem
  BY <1>18, QuietStep DEF SkipBidItem
<1>19. ASSUME NEW t \in Reductions, ReduceTime(t) PROVE SaleInv'
  BY <1>19, QuietStep DEF ReduceTime
<1>20. CASE Terminate
  BY <1>20, QuietStep DEF Terminate
<1>21. CASE Finished
  BY <1>1, <1>21 DEF Finished
<1> QED
  BY <1>1, <1>2, <1>3, <1>4, <1>5, <1>6, <1>7, <1>8, <1>9, <1>10, <1>11, <1>12,
     <1>13, <1>14, <1>15, <1>16, <1>17, <1>18, <1>19, <1>20, <1>21
     DEF Next, Lifecycle, Bidding, Console, Bid, ListenerWakes

-----------------------------------------------------------------------------
(* The theorems *)

\* A room that has just been loaded satisfies the inductive invariant.
LEMMA InitIInv == Init => IInv
<1> SUFFICES ASSUME Init PROVE IInv
  OBVIOUS
<1> USE ItemsAssumption DEF Init
<1>1. RoomType
  BY DEF RoomType
<1>2. UserType
  BY DEF UserType
<1>3. ItemType
  BY DEF ItemType
<1>4. canBid \in BOOLEAN
  OBVIOUS
<1>5. TimeType
  BY DEF TimeType
<1>6. Positioned
  BY DEF Positioned
<1>7. \A i \in Items : i > 0
  BY DEF Items
<1>8. SaleInv
  BY <1>7 DEF SaleInv, Fresh, LeaderCanPay, ReportedBudgetNotNegative, SoldToLeader
<1> QED
  BY <1>1, <1>2, <1>3, <1>4, <1>5, <1>6, <1>8 DEF IInv, TypeOK

\* The inductive invariant holds of every reachable state of the room
\* (game.lifecycle.ts and game.context.ts as modelled).
THEOREM Invariance == Spec => []IInv
<1>1. IInv /\ [Next]_vars => IInv'
  BY TypeStep, PositionedStep, SaleStep DEF IInv
<1> QED
  BY <1>1, InitIInv, PTL DEF Spec

\* Types are kept, for every number of items and users: no item beyond the last
\* becomes current (setNextBidItem, isAuctionEnded) and clocks stay integers.
THEOREM TypeCorrect == Spec => []TypeOK
<1>1. IInv => TypeOK
  BY DEF IInv
<1> QED
  BY <1>1, Invariance, PTL

\* The leader of the item on offer can always pay (updateEvent, onBidEnded).
THEOREM LeaderPays == Spec => []LeaderCanPay
<1>1. IInv => LeaderCanPay
  BY DEF IInv, SaleInv
<1> QED
  BY <1>1, Invariance, PTL

\* No answer to a bid reports a negative budget (updateEvent, resetUsersBidPrice).
THEOREM ReportsBudget == Spec => []ReportedBudgetNotNegative
<1>1. IInv => ReportedBudgetNotNegative
  BY DEF IInv, SaleInv
<1> QED
  BY <1>1, Invariance, PTL

\* Items are sold to the user that led them, and only those (onBidEnded).
THEOREM SellsToLeader == Spec => []SoldToLeader
<1>1. IInv => SoldToLeader
  BY DEF IInv, SaleInv
<1> QED
  BY <1>1, Invariance, PTL

\* No step of the room undoes a finished sale (updateBidPrice, onBidEnded).
THEOREM SalesAreFinal == Spec => SettledIsFinal
<1> DEFINE Frozen == \A i \in Items :
          SettledItem(i) =>
              /\ bidPrice'[i] = bidPrice[i] /\ bidderId'[i] = bidderId[i]
              /\ isSold'[i] = isSold[i] /\ buyerId'[i] = buyerId[i]
<1>1. IInv /\ Next => Frozen \/ UNCHANGED vars
  <2> SUFFICES ASSUME IInv, Next PROVE Frozen
    OBVIOUS
  <2>0. TypeOK /\ Positioned /\ ItemType /\ \A i \in Items : i \in Int
    BY DEF IInv, TypeOK, Items
  <2>1. CASE OnBidEnded
    <3>1. ItemType /\ stage \notin Settled /\ UNCHANGED <<bidPrice, bidderId>>
      BY <2>0, <2>1 DEF OnBidEnded
    <3>2. \A i \in Items : i # sequence => isSold'[i] = isSold[i] /\ buyerId'[i] = buyerId[i]
      BY <2>1, <3>1 DEF OnBidEnded, ItemType
    <3>3. sequence \in Int
      BY <2>0 DEF TypeOK, RoomType
    <3> QED
      BY <2>0, <3>1, <3>2, <3>3
  <2>2. ASSUME NEW u \in Users, NEW p \in Prices, NEW percent \in Percents,
               AcceptBid(u, p, percent)
        PROVE  Frozen
    <3>1. stage \notin Settled /\ UNCHANGED <<isSold, buyerId>>
      BY <2>0, <2>2 DEF AcceptBid, Acceptable, Positioned
    <3>2. \A i \in Items : i # sequence => bidPrice'[i] = bidPrice[i] /\ bidderId'[i] = bidderId[i]
      BY <2>0, <2>2 DEF AcceptBid, ItemType
    <3>3. sequence \in Int
      BY <2>0 DEF TypeOK, RoomType
    <3> QED
      BY <2>0, <3>1, <3>2, <3>3
  <2>3. CASE UNCHANGED itemVars
    BY <2>3 DEF itemVars
  <2>4. \/ OnBidEnded \/ UNCHANGED itemVars
        \/ \E u \in Users, p \in Prices, percent \in Percents : AcceptBid(u, p, percent)
    BY DEF Next, Lifecycle, Bidding, Console, Bid, ListenerWakes, Join, OnBidCreate,
           OnBidCreateNoItem, OpenBidding, Tick, CheckPhase1, CheckPhase2, KeepBidding,
           AfterBidEnd, OnRoomDestroy, RefuseBid, ReadClock, SetResetTime,
           SetReducedTime, SkipBidItem, ReduceTime, Terminate, Finished, vars
  <2> QED
    BY <2>1, <2>2, <2>3, <2>4
<1>2. IInv /\ [Next]_vars => [Frozen]_vars
  BY <1>1
<1> QED
  BY <1>2, Invariance, PTL DEF Spec, SettledIsFinal

-----------------------------------------------------------------------------
(* The money *)

\* t adds up what the items cost user u, item by item.
AddsUp(u, t) ==
    /\ t \in [0..MaxItems -> Int]
    /\ t[0] = 0
    /\ \A i \in Items : t[i] = t[i - 1] + Cost(u, i)

\* Who won an item has joined, and the costs of every user who has joined add up to
\* what is missing from the budget.  That they add up at all is kept step by step, so
\* that no sum has to be evaluated.
WinnersJoined == \A i \in Items : Won(i) => buyerId[i] \in joinedUsers
Ledger ==
    \A u \in joinedUsers : \E t : AddsUp(u, t) /\ budget[u] + t[MaxItems] = Budget
MoneyInv == WinnersJoined /\ Ledger

\* What a user has paid is what the costs add up to: there is only one such sum.
LEMMA PaidAddsUp ==
    ASSUME NEW u, NEW t, AddsUp(u, t)
    PROVE  Paid(u) = t[MaxItems]
<1> USE ItemsAssumption
<1> DEFINE Sums(g) ==
               [i \in 0..MaxItems |-> IF i = 0 THEN 0 ELSE g[i - 1] + Cost(u, i)]
           f == CHOOSE g : g = Sums(g)
<1>1. Paid(u) = f[MaxItems]
  BY DEF Paid
<1>2. t = Sums(t)
  <2>1. \A i \in 0..MaxItems : t[i] = IF i = 0 THEN 0 ELSE t[i - 1] + Cost(u, i)
    BY DEF AddsUp, Items
  <2>2. t = [i \in 0..MaxItems |-> t[i]]
    BY DEF AddsUp
  <2>3. QED
    BY <2>1, <2>2
<1>3. f = Sums(f)
  BY <1>2
<1> HIDE DEF f
<1>4. \A i \in 0..MaxItems : f[i] = IF i = 0 THEN 0 ELSE f[i - 1] + Cost(u, i)
  BY <1>3
<1> DEFINE bad == {i \in 0..MaxItems : f[i] # t[i]}
<1>5. ASSUME bad # {} PROVE FALSE
  <2> DEFINE R == {ss \in Nat \X Nat : ss[1] < ss[2]}
  <2>1. IsWellFoundedOn(R, Nat)
    BY NatLessThanWellFounded DEF OpToRel
  <2>2. bad \in SUBSET Nat
    OBVIOUS
  <2> HIDE DEF R, bad
  <2>3. PICK i \in bad : \A j \in bad : ~ (<<j, i>> \in R)
    BY <1>5, <2>1, <2>2, WFMin
  <2>4. i \in 0..MaxItems /\ f[i] # t[i]
    BY <2>3 DEF bad
  <2>5. i # 0
    BY <1>4, <2>4 DEF AddsUp
  <2>6. i - 1 \in 0..MaxItems /\ i \in Items /\ i - 1 \in Nat /\ i \in Nat /\ i - 1 < i
    BY <2>4, <2>5 DEF Items
  <2>7. i - 1 \notin bad
    BY <2>2, <2>3, <2>6 DEF R
  <2>8. f[i - 1] = t[i - 1]
    BY <2>6, <2>7 DEF bad
  <2>9. QED
    BY <1>4, <2>4, <2>5, <2>6, <2>8 DEF AddsUp
<1>6. QED
  BY <1>1, <1>5

\* A user who joins has paid nothing.
LEMMA JoinKeepsMoney ==
    ASSUME TypeOK, MoneyInv, NEW u \in Users, Join(u)
    PROVE  MoneyInv'
<1>1. /\ u \notin joinedUsers /\ joinedUsers' = joinedUsers \cup {u}
      /\ budget' = [budget EXCEPT ![u] = Budget]
      /\ UNCHANGED <<stage, sequence, bidPrice, bidderId, buyerId>>
  BY DEF Join, roomVars, itemVars
<1>2. WinnersJoined'
  BY <1>1 DEF MoneyInv, WinnersJoined
<1>3. \A v \in Users : budget'[v] = IF v = u THEN Budget ELSE budget[v]
  BY <1>1 DEF TypeOK, UserType
<1>4. \A v, t : AddsUp(v, t)' <=> AddsUp(v, t)
  BY <1>1 DEF AddsUp, Cost
<1>5. ASSUME NEW v \in joinedUsers, v # u
      PROVE  \E t : AddsUp(v, t)' /\ budget'[v] + t[MaxItems] = Budget
  BY <1>3, <1>4, <1>5 DEF MoneyInv, Ledger, TypeOK, UserType
<1>6. \E t : AddsUp(u, t)' /\ budget'[u] + t[MaxItems] = Budget
  <2> DEFINE t == [i \in 0..MaxItems |-> 0]
  <2>1. \A i \in Items : Cost(u, i) = 0
    BY <1>1 DEF MoneyInv, WinnersJoined, Cost
  <2>2. \A i \in Items : i \in 0..MaxItems /\ i - 1 \in 0..MaxItems
    BY ItemsAssumption DEF Items
  <2>3. AddsUp(u, t) /\ t[MaxItems] = 0
    BY <2>1, <2>2, ItemsAssumption DEF AddsUp
  <2> HIDE DEF t
  <2>4. budget'[u] + t[MaxItems] = Budget
    BY <1>3, <2>3, ItemsAssumption
  <2>5. QED
    BY <1>4, <2>3, <2>4
<1>7. Ledger'
  BY <1>1, <1>5, <1>6 DEF Ledger
<1>8. QED
  BY <1>2, <1>7 DEF MoneyInv

\* A step that ends no bidding wins nothing: the items won are those won before.
LEMMA WonStays ==
    ASSUME TypeOK, Positioned, [Next]_vars, ~OnBidEnded, NEW i \in Items
    PROVE  /\ Won(i)' <=> Won(i)
           /\ Won(i) => bidPrice'[i] = bidPrice[i]
           /\ buyerId'[i] = buyerId[i]
<1>0. sequence \in Int /\ count \in Int /\ sequence <= count /\ i \in Int /\ i > 0
  BY ItemsAssumption DEF TypeOK, RoomType, Items
<1>1. ASSUME NEW u \in Users, NEW p \in Prices, NEW percent \in Percents,
             AcceptBid(u, p, percent)
      PROVE  /\ Won(i)' <=> Won(i)
             /\ Won(i) => bidPrice'[i] = bidPrice[i]
             /\ buyerId'[i] = buyerId[i]
  <2>1. stage \in Running /\ UNCHANGED <<stage, sequence, buyerId>>
    BY <1>1 DEF AcceptBid, Acceptable, Positioned, roomVars
  <2>2. i # sequence => bidPrice'[i] = bidPrice[i] /\ bidderId'[i] = bidderId[i]
    BY <1>1 DEF AcceptBid, TypeOK, ItemType
  <2>3. QED
    BY <1>0, <2>1, <2>2
<1>2. CASE OnBidCreate
  BY <1>0, <1>2 DEF OnBidCreate, itemVars
<1>3. CASE OnBidCreateNoItem
  BY <1>0, <1>3 DEF OnBidCreateNoItem, itemVars, Positioned, HasNextItem
<1>4. CASE UNCHANGED <<sequence, itemVars>> /\ (stage' \in Settled <=> stage \in Settled)
  BY <1>0, <1>4 DEF itemVars
<1>5. \/ UNCHANGED <<sequence, itemVars>> /\ (stage' \in Settled <=> stage \in Settled)
      \/ OnBidCreate \/ OnBidCreateNoItem
      \/ \E u \in Users, p \in Prices, percent \in Percents : AcceptBid(u, p, percent)
  BY DEF Next, Lifecycle, Bidding, Console, Bid, ListenerWakes, Join, OpenBidding,
         Tick, CheckPhase1, EnterPhase2, CheckPhase2, KeepBidding, AfterBidEnd,
         OnRoomDestroy, RefuseBid, ReadClock, SetResetTime, SetReducedTime,
         SkipBidItem, ReduceTime, Terminate, Finished, vars, roomVars
<1>6. QED
  BY <1>1, <1>2, <1>3, <1>4, <1>5

\* A step that ends no bidding and leaves budgets alone costs nobody anything.
LEMMA OthersKeepMoney ==
    ASSUME TypeOK, Positioned, MoneyInv, [Next]_vars, ~OnBidEnded,
           UNCHANGED <<joinedUsers, budget>>
    PROVE  MoneyInv'
<1>1. \A i \in Items : /\ Won(i)' <=> Won(i)
                       /\ Won(i) => bidPrice'[i] = bidPrice[i]
                       /\ buyerId'[i] = buyerId[i]
  BY WonStays
<1> HIDE DEF Won
<1>2. WinnersJoined'
  BY <1>1 DEF MoneyInv, WinnersJoined
<1>3. ASSUME NEW u \in joinedUsers, NEW t, AddsUp(u, t)
      PROVE  AddsUp(u, t)'
  <2>1. \A i \in Items : Cost(u, i)' = Cost(u, i)
    BY <1>1 DEF Cost
  <2>2. QED
    BY <1>3, <2>1 DEF AddsUp
<1>4. Ledger'
  BY <1>3 DEF MoneyInv, Ledger
<1>5. QED
  BY <1>2, <1>4 DEF MoneyInv

\* The winner pays the price once.
LEMMA EndKeepsMoney ==
    ASSUME TypeOK, MoneyInv, LeaderCanPay, sequence \in Items, OnBidEnded
    PROVE  MoneyInv'
<1> USE ItemsAssumption
<1> DEFINE w == bidderId[sequence]
           p == bidPrice[sequence]
<1>1. UNCHANGED <<joinedUsers, bidPrice>> /\ p \in Nat /\ sequence \in 1..MaxItems
  BY DEF OnBidEnded, TypeOK, ItemType, Items
<1>0. /\ ~Won(sequence)
      /\ \A i \in Items : Won(i)' <=> (Won(i) \/ (i = sequence /\ w # None))
  <2>1. sequence \in Int /\ \A i \in Items : i \in Int
    BY <1>1 DEF Items
  <2>2. /\ stage \notin Settled /\ stage' \in Settled
        /\ UNCHANGED <<sequence, bidderId>>
    BY DEF OnBidEnded
  <2>3. QED
    BY <2>1, <2>2
<1> HIDE DEF Won
<1>2. CASE w \notin joinedUsers
  <2>1. UNCHANGED <<joinedUsers, budget, bidPrice, buyerId>>
    BY <1>2 DEF OnBidEnded
  <2>2. w = None
    BY <1>2 DEF OnBidEnded, LeaderCanPay
  <2> HIDE DEF w
  <2>3. \A i \in Items : Won(i)' <=> Won(i)
    BY <1>0, <2>2
  <2>4. \A u, t : AddsUp(u, t)' <=> AddsUp(u, t)
    BY <2>1, <2>3 DEF AddsUp, Cost
  <2>5. QED
    BY <2>1, <2>3, <2>4 DEF MoneyInv, WinnersJoined, Ledger
<1>3. CASE w \in joinedUsers
  <2>1. /\ \A u \in Users : budget'[u] = IF u = w THEN budget[u] - p ELSE budget[u]
        /\ \A i \in Items : buyerId'[i] = IF i = sequence THEN w ELSE buyerId[i]
    BY <1>3 DEF OnBidEnded, Charge, TypeOK, UserType, ItemType
  <2>2. w \in Users /\ w # None
    BY <1>3, UsersAssumption DEF TypeOK, UserType
  <2> HIDE DEF w, p
  <2>3. WinnersJoined'
    BY <1>0, <1>1, <1>3, <2>1 DEF MoneyInv, WinnersJoined
  <2>4. ASSUME NEW u \in joinedUsers
        PROVE  \E t : AddsUp(u, t)' /\ budget'[u] + t[MaxItems] = Budget
    <3>1. u \in Users /\ u # None /\ budget[u] \in Int
      BY UsersAssumption DEF TypeOK, UserType
    <3>2. PICK t : AddsUp(u, t) /\ budget[u] + t[MaxItems] = Budget
      BY DEF MoneyInv, Ledger
    <3>3. CASE u # w
      <4>1. \A i \in Items : Cost(u, i)' = Cost(u, i)
        BY <1>0, <1>1, <2>1, <3>1, <3>3 DEF Cost
      <4>2. AddsUp(u, t)'
        BY <3>2, <4>1 DEF AddsUp
      <4>3. QED
        BY <2>1, <3>1, <3>2, <3>3, <4>2
    <3>4. CASE u = w
      <4>0. PICK n : n = [i \in 0..MaxItems |-> IF i >= sequence THEN t[i] + p ELSE t[i]]
        OBVIOUS
      <4>1. \A i \in Items : Cost(u, i)' = IF i = sequence THEN p ELSE Cost(u, i)
        BY <1>0, <1>1, <2>1, <2>2, <3>4 DEF Cost, p
      <4>2. Cost(u, sequence) = 0
        BY <1>0 DEF Cost
      <4>3. \A i \in 0..MaxItems : t[i] \in Int
        BY <3>2 DEF AddsUp
      <4>4. n \in [0..MaxItems -> Int] /\ n[0] = 0 /\ n[MaxItems] = t[MaxItems] + p
        BY <1>1, <3>2, <4>0, <4>3 DEF AddsUp
      <4>5. ASSUME NEW i \in Items
            PROVE  n[i] = n[i - 1] + Cost(u, i)'
        <5>1. i \in 0..MaxItems /\ i - 1 \in 0..MaxItems /\ t[i] = t[i - 1] + Cost(u, i)
          BY <3>2 DEF AddsUp, Items
        <5>2. Cost(u, i) \in Int
          BY DEF Cost, TypeOK, ItemType
        <5>3. QED
          BY <1>1, <4>0, <4>1, <4>2, <4>3, <5>1, <5>2
      <4>6. AddsUp(u, n)'
        BY <4>4, <4>5 DEF AddsUp
      <4>7. t[MaxItems] \in Int /\ budget'[u] = budget[u] - p
        BY <2>1, <3>1, <3>4, <4>3
      <4>8. budget'[u] + n[MaxItems] = Budget
        BY <1>1, <3>1, <3>2, <4>4, <4>7
      <4>9. QED
        BY <4>6, <4>8
    <3>5. QED
      BY <3>3, <3>4
  <2>5. Ledger'
    BY <1>1, <2>4 DEF Ledger
  <2>6. QED
    BY <2>3, <2>5 DEF MoneyInv
<1>4. QED
  BY <1>2, <1>3

\* Every step keeps the money: a join and the end of the bidding touch it.
LEMMA MoneyStep ==
    ASSUME IInv, MoneyInv, [Next]_vars
    PROVE  MoneyInv'
<1>0. TypeOK /\ Positioned /\ LeaderCanPay
  BY DEF IInv, SaleInv
<1>1. ASSUME NEW u \in Users, Join(u) PROVE MoneyInv'
  BY <1>0, <1>1, JoinKeepsMoney
<1>2. CASE OnBidEnded
  <2>1. sequence >= 1
    BY <1>0, <1>2 DEF OnBidEnded, Positioned
  <2>2. sequence \in Items
    BY <1>0, <2>1, CurrentItem DEF TypeOK
  <2>3. QED
    BY <1>0, <1>2, <2>2, EndKeepsMoney
<1>3. CASE UNCHANGED <<joinedUsers, budget>> /\ ~OnBidEnded
  BY <1>0, <1>3, OthersKeepMoney
<1>4. (\E u \in Users : Join(u)) \/ OnBidEnded \/ UNCHANGED <<joinedUsers, budget>>
  BY DEF Next, Lifecycle, Bidding, Console, Bid, ListenerWakes, OnBidCreate,
         OnBidCreateNoItem, OpenBidding, Tick, CheckPhase1, CheckPhase2, KeepBidding,
         AfterBidEnd, OnRoomDestroy, AcceptBid, RefuseBid, ReadClock, SetResetTime,
         SetReducedTime, SkipBidItem, ReduceTime, Terminate, Finished, vars, userVars
<1>5. QED
  BY <1>1, <1>2, <1>3, <1>4

\* No charge is forgotten and none is made twice: what a user has left and has paid make
\* the budget the user joined with, however bids, skips, joins and a termination follow
\* one another (game.lifecycle.ts:152-156).
THEOREM MoneyIsConserved == Spec => []BudgetConserved
<1>1. Init => MoneyInv
  BY DEF Init, MoneyInv, WinnersJoined, Ledger
<1>2. IInv /\ MoneyInv /\ [Next]_vars => MoneyInv'
  BY MoneyStep
<1>3. MoneyInv => BudgetConserved
  <2> SUFFICES ASSUME MoneyInv, NEW u \in joinedUsers
               PROVE  budget[u] + Paid(u) = Budget
    BY DEF BudgetConserved
  <2>1. PICK t : AddsUp(u, t) /\ budget[u] + t[MaxItems] = Budget
    BY DEF MoneyInv, Ledger
  <2>2. QED
    BY <2>1, PaidAddsUp
<1>4. QED
  BY <1>1, <1>2, <1>3, Invariance, PTL DEF Spec

-----------------------------------------------------------------------------
(* The end of the run *)

\* The poll of a tick waits only while a phase runs, and there is one at most: no check
\* of the clock outlives the phase whose interval asked for it.
OneCheck ==
    /\ Checking => stage \in Running
    /\ \A i, j \in DOMAIN lockQueue :
          lockQueue[i] = TickPoll /\ lockQueue[j] = TickPoll => i = j

\* A phase that runs has a listener, and each phase 1 listener in the queue will find a
\* free call.
ListenersInv ==
    /\ stage \in Running => listener # NoListener
    /\ Cardinality(Phase1Polls) <= Cardinality(FreeCalls)
ProgressInv == OneCheck /\ ListenersInv

\* A listener that joins the queue changes nothing of the tick's poll; the poll of a
\* tick that joins a queue without one is the only one.
LEMMA QueueGrows ==
    ASSUME TimeType, NEW w \in Listeners \cup {TickPoll}, lockQueue' = Append(lockQueue, w),
           w = TickPoll => ~Checking
    PROVE  /\ Len(lockQueue) \in Nat
           /\ Len(lockQueue') = Len(lockQueue) + 1
           /\ \A i \in DOMAIN lockQueue : lockQueue'[i] = lockQueue[i]
           /\ lockQueue'[Len(lockQueue) + 1] = w
           /\ DOMAIN lockQueue = 1..Len(lockQueue)
           /\ DOMAIN lockQueue' = 1..(Len(lockQueue) + 1)
           /\ Checking' <=> (Checking \/ w = TickPoll)
           /\ (\A i, j \in DOMAIN lockQueue :
                  lockQueue[i] = TickPoll /\ lockQueue[j] = TickPoll => i = j)
              => \A i, j \in DOMAIN lockQueue' :
                    lockQueue'[i] = TickPoll /\ lockQueue'[j] = TickPoll => i = j
<1>1. lockQueue \in Seq(Listeners \cup {TickPoll})
  BY DEF TimeType
<1>2. /\ Len(lockQueue) \in Nat
      /\ DOMAIN lockQueue = 1..Len(lockQueue)
      /\ Len(lockQueue') = Len(lockQueue) + 1
      /\ DOMAIN lockQueue' = 1..(Len(lockQueue) + 1)
      /\ \A i \in DOMAIN lockQueue : lockQueue'[i] = lockQueue[i]
      /\ lockQueue'[Len(lockQueue) + 1] = w
  BY <1>1
<1>3. Checking' <=> (Checking \/ w = TickPoll)
  BY <1>2 DEF Checking
<1>4. ASSUME \A i, j \in DOMAIN lockQueue :
                lockQueue[i] = TickPoll /\ lockQueue[j] = TickPoll => i = j,
             NEW i \in DOMAIN lockQueue', NEW j \in DOMAIN lockQueue',
             lockQueue'[i] = TickPoll, lockQueue'[j] = TickPoll
      PROVE  i = j
  BY <1>2, <1>4 DEF Checking
<1>5. QED
  BY <1>2, <1>3, <1>4

\* Who wakes was the first of the queue; the others move up.
LEMMA QueueMoves ==
    ASSUME TimeType, NEW w, Wake(w)
    PROVE  /\ Len(lockQueue) \in Nat \ {0}
           /\ DOMAIN lockQueue = 1..Len(lockQueue)
           /\ lockQueue[1] = w
           /\ Len(lockQueue') = Len(lockQueue) - 1
           /\ DOMAIN lockQueue' = 1..(Len(lockQueue) - 1)
           /\ \A i \in DOMAIN lockQueue' : lockQueue'[i] = lockQueue[i + 1]
BY DEF TimeType, Wake

\* When a listener wakes the poll of the tick stays; when that poll wakes there is none.
LEMMA PollMoves ==
    ASSUME TimeType, OneCheck, NEW w, Wake(w)
    PROVE  /\ w = TickPoll => Checking /\ ~Checking'
           /\ w # TickPoll => (Checking' <=> Checking)
           /\ \A i, j \in DOMAIN lockQueue' :
                 lockQueue'[i] = TickPoll /\ lockQueue'[j] = TickPoll => i = j
<1> DEFINE n == Len(lockQueue)
<1>1. /\ n \in Nat \ {0}
      /\ DOMAIN lockQueue = 1..n
      /\ lockQueue[1] = w
      /\ DOMAIN lockQueue' = 1..(n - 1)
      /\ \A i \in DOMAIN lockQueue' : lockQueue'[i] = lockQueue[i + 1]
  BY QueueMoves
<1> HIDE DEF n
<1>2. \A i \in 1..(n - 1) : i + 1 \in 1..n /\ i + 1 # 1
  BY <1>1
<1>3. \A i \in 1..n : i # 1 => i - 1 \in 1..(n - 1) /\ i - 1 + 1 = i
  BY <1>1
<1>4. \A i, j \in DOMAIN lockQueue :
         lockQueue[i] = TickPoll /\ lockQueue[j] = TickPoll => i = j
  BY DEF OneCheck
<1>5. ASSUME w = TickPoll PROVE Checking /\ ~Checking'
  BY <1>1, <1>2, <1>4, <1>5 DEF Checking
<1>6. ASSUME w # TickPoll PROVE Checking' <=> Checking
  <2>1. ASSUME Checking' PROVE Checking
    <3>1. PICK i \in 1..(n - 1) : lockQueue'[i] = TickPoll
      BY <1>1, <2>1 DEF Checking
    <3>2. lockQueue[i + 1] = TickPoll /\ i + 1 \in 1..n
      BY <1>1, <1>2, <3>1
    <3>3. QED
      BY <1>1, <3>2 DEF Checking
  <2>2. ASSUME Checking PROVE Checking'
    <3>1. PICK i \in 1..n : lockQueue[i] = TickPoll
      BY <1>1, <2>2 DEF Checking
    <3>2. i # 1
      BY <1>1, <1>6, <3>1
    <3>3. i - 1 \in 1..(n - 1) /\ lockQueue[i - 1 + 1] = TickPoll
      BY <1>3, <3>1, <3>2
    <3>4. lockQueue'[i - 1] = TickPoll
      BY <1>1, <3>3
    <3>5. QED
      BY <1>1, <3>3, <3>4 DEF Checking
  <2>3. QED
    BY <2>1, <2>2
<1>7. ASSUME NEW i \in DOMAIN lockQueue', NEW j \in DOMAIN lockQueue',
             lockQueue'[i] = TickPoll, lockQueue'[j] = TickPoll
      PROVE  i = j
  <2>1. /\ i + 1 \in 1..n /\ lockQueue[i + 1] = TickPoll
        /\ j + 1 \in 1..n /\ lockQueue[j + 1] = TickPoll
    BY <1>1, <1>2, <1>7
  <2>2. i + 1 = j + 1
    BY <1>1, <1>4, <2>1
  <2>3. QED
    BY <1>1, <1>7, <2>2
<1>8. QED
  BY <1>5, <1>6, <1>7

\* The queue holds finitely many phase 1 listeners.
LEMMA PollsAreFinite ==
    ASSUME TimeType
    PROVE  /\ IsFiniteSet(Phase1Polls) /\ Cardinality(Phase1Polls) \in Nat
           /\ IsFiniteSet(FreeCalls) /\ Cardinality(FreeCalls) \in Nat
           /\ IsFiniteSet(Calls \ FreeCalls) /\ Cardinality(Calls \ FreeCalls) \in Nat
<1>1. Phase1Polls \in SUBSET (1..Len(lockQueue)) /\ Len(lockQueue) \in Int
  BY DEF TimeType, Phase1Polls
<1>2. IsFiniteSet(1..Len(lockQueue))
  BY <1>1, FS_Interval
<1>3. IsFiniteSet(Phase1Polls)
  BY <1>1, <1>2, FS_Subset
<1>4. IsFiniteSet(Calls)
  BY BoundsAssumption, FS_Interval DEF Calls
<1>5. FreeCalls \in SUBSET Calls /\ (Calls \ FreeCalls) \in SUBSET Calls
  BY DEF FreeCalls
<1>6. IsFiniteSet(FreeCalls) /\ IsFiniteSet(Calls \ FreeCalls)
  BY <1>4, <1>5, FS_Subset
<1>7. QED
  BY <1>3, <1>6, FS_CardinalityType

\* A phase 1 listener that joins the queue is one more.
LEMMA PollJoins ==
    ASSUME TimeType, NEW w \in Listeners \cup {TickPoll}, lockQueue' = Append(lockQueue, w)
    PROVE  Cardinality(Phase1Polls')
              = IF w.phase = 1 THEN Cardinality(Phase1Polls) + 1 ELSE Cardinality(Phase1Polls)
<1> DEFINE n == Len(lockQueue)
<1>1. /\ n \in Nat
      /\ DOMAIN lockQueue = 1..n
      /\ DOMAIN lockQueue' = 1..(n + 1)
      /\ \A i \in DOMAIN lockQueue : lockQueue'[i] = lockQueue[i]
      /\ lockQueue'[n + 1] = w
  BY DEF TimeType
<1> HIDE DEF n
<1>2. \A i : i \in 1..(n + 1) <=> i \in 1..n \/ i = n + 1
  BY <1>1
<1>3. n + 1 \notin Phase1Polls
  BY <1>1 DEF Phase1Polls
<1>4. CASE w.phase = 1
  <2>1. Phase1Polls' = Phase1Polls \cup {n + 1}
    BY <1>1, <1>2, <1>4 DEF Phase1Polls
  <2>2. QED
    BY <1>3, <1>4, <2>1, PollsAreFinite, FS_AddElement
<1>5. CASE w.phase # 1
  <2>1. Phase1Polls' = Phase1Polls
    BY <1>1, <1>2, <1>5 DEF Phase1Polls
  <2>2. QED
    BY <1>5, <2>1
<1>6. QED
  BY <1>4, <1>5

\* A phase 1 listener that wakes is one less.
LEMMA PollLeaves ==
    ASSUME TimeType, NEW w, Wake(w)
    PROVE  Cardinality(Phase1Polls')
              = IF w.phase = 1 THEN Cardinality(Phase1Polls) - 1 ELSE Cardinality(Phase1Polls)
<1> DEFINE n == Len(lockQueue)
           later == Phase1Polls \ {1}
           up == [i \in later |-> i - 1]
<1>1. /\ n \in Nat \ {0}
      /\ DOMAIN lockQueue = 1..n
      /\ lockQueue[1] = w
      /\ DOMAIN lockQueue' = 1..(n - 1)
      /\ \A i \in DOMAIN lockQueue' : lockQueue'[i] = lockQueue[i + 1]
  BY QueueMoves
<1> HIDE DEF n
<1>2. \A i : i \in later <=> i \in 2..n /\ lockQueue[i].phase = 1
  BY <1>1 DEF Phase1Polls
<1>3. \A i : i \in Phase1Polls' <=> i \in 1..(n - 1) /\ lockQueue[i + 1].phase = 1
  BY <1>1 DEF Phase1Polls
<1>4. IsFiniteSet(later)
      /\ Cardinality(later) = IF 1 \in Phase1Polls THEN Cardinality(Phase1Polls) - 1
                                                   ELSE Cardinality(Phase1Polls)
  BY PollsAreFinite, FS_RemoveElement
<1>5. 1 \in Phase1Polls <=> w.phase = 1
  BY <1>1 DEF Phase1Polls
<1> HIDE DEF later
<1>6. up \in [later -> Phase1Polls']
  <2> SUFFICES ASSUME NEW i \in later PROVE i - 1 \in Phase1Polls'
    OBVIOUS
  <2>1. i \in 2..n /\ lockQueue[i].phase = 1
    BY <1>2
  <2>2. i - 1 \in 1..(n - 1) /\ i - 1 + 1 = i
    BY <1>1, <2>1
  <2>3. QED
    BY <1>3, <2>1, <2>2
<1>7. \A i, j \in later : up[i] = up[j] => i = j
  BY <1>1, <1>2
<1>8. ASSUME NEW k \in Phase1Polls' PROVE \E i \in later : up[i] = k
  <2>1. k \in 1..(n - 1) /\ lockQueue[k + 1].phase = 1
    BY <1>3, <1>8
  <2>2. k + 1 \in 2..n /\ k + 1 - 1 = k
    BY <1>1, <2>1
  <2>3. k + 1 \in later
    BY <1>2, <2>1, <2>2
  <2>4. k \in Int /\ up[k + 1] = (k + 1) - 1
    BY <1>1, <2>1, <2>3
  <2> HIDE DEF up
  <2>5. QED
    BY <2>2, <2>3, <2>4
<1>9. ExistsBijection(later, Phase1Polls')
  <2>1. DOMAIN up = later
    OBVIOUS
  <2> HIDE DEF up
  <2>2. IsInjective(up)
    BY <1>7, <2>1 DEF IsInjective
  <2>3. up \in Injection(later, Phase1Polls') /\ up \in Surjection(later, Phase1Polls')
    BY <1>6, <1>8, <2>2 DEF Injection, Surjection
  <2>4. QED
    BY <2>3 DEF ExistsBijection, Bijection
<1>10. Cardinality(Phase1Polls') = Cardinality(later)
  BY <1>4, <1>9, FS_Bijection
<1>11. QED
  BY <1>4, <1>5, <1>10

\* A listener that asks Redis takes one of the free calls.
LEMMA CallIsTaken ==
    ASSUME TimeType, AskRedis(clock)
    PROVE  /\ Cardinality(FreeCalls') = Cardinality(FreeCalls) - 1
           /\ Cardinality(Calls \ FreeCalls') = Cardinality(Calls \ FreeCalls) + 1
<1>1. PICK c \in FreeCalls : redisCalls' = [redisCalls EXCEPT ![c] = clock]
  BY DEF AskRedis
<1>2. clock # None /\ c \in Calls /\ DOMAIN redisCalls = Calls
  BY TimesAssumption DEF TimeType, FreeCalls
<1>3. FreeCalls' = FreeCalls \ {c}
  BY <1>1, <1>2 DEF FreeCalls
<1>4. Calls \ FreeCalls' = (Calls \ FreeCalls) \cup {c} /\ c \notin Calls \ FreeCalls
  BY <1>2, <1>3
<1>5. Cardinality(FreeCalls \ {c}) = Cardinality(FreeCalls) - 1
  BY PollsAreFinite, FS_RemoveElement
<1>6. Cardinality((Calls \ FreeCalls) \cup {c}) = Cardinality(Calls \ FreeCalls) + 1
  BY <1>4, PollsAreFinite, FS_AddElement
<1>7. QED
  BY <1>3, <1>4, <1>5, <1>6

\* An answer of Redis frees its call.
LEMMA CallIsFreed ==
    ASSUME TimeType, NEW c \in Calls, SetReducedTime(c)
    PROVE  /\ Cardinality(FreeCalls') = Cardinality(FreeCalls) + 1
           /\ Cardinality(Calls \ FreeCalls') = Cardinality(Calls \ FreeCalls) - 1
<1>1. redisCalls' = [redisCalls EXCEPT ![c] = None] /\ redisCalls[c] # None
  BY DEF SetReducedTime
<1>2. DOMAIN redisCalls = Calls /\ c \notin FreeCalls
  BY <1>1 DEF TimeType, FreeCalls
<1>3. FreeCalls' = FreeCalls \cup {c}
  BY <1>1, <1>2 DEF FreeCalls
<1>4. Calls \ FreeCalls' = (Calls \ FreeCalls) \ {c} /\ c \in Calls \ FreeCalls
  BY <1>2, <1>3
<1>5. Cardinality(FreeCalls \cup {c}) = Cardinality(FreeCalls) + 1
  BY <1>2, PollsAreFinite, FS_AddElement
<1>6. Cardinality((Calls \ FreeCalls) \ {c}) = Cardinality(Calls \ FreeCalls) - 1
  BY <1>4, PollsAreFinite, FS_RemoveElement
<1>7. QED
  BY <1>3, <1>4, <1>5, <1>6

\* What a bid does to the queue: nothing, or a listener of the running phase joins.
LEMMA BidListens ==
    ASSUME TypeOK, Positioned, ProgressInv, NEW u \in Users, NEW p \in Prices,
           NEW percent \in Percents, AcceptBid(u, p, percent)
    PROVE  /\ stage \in Running
           /\ \/ lockQueue' = lockQueue
              \/ /\ listener \in Listeners
                 /\ lockQueue' = Append(lockQueue, listener)
                 /\ listener.phase = 1 => CallToSpare
<1>1. stage \in Running
  BY DEF AcceptBid, Acceptable, Positioned
<1>2. listener \in Listeners
  BY <1>1 DEF ProgressInv, ListenersInv, TypeOK, TimeType
<1>3. QED
  BY <1>1, <1>2 DEF AcceptBid, TimeEventAfterAccept

\* OneCheck is kept: a tick polls only if no other does, a phase ends with the poll of
\* its own tick, and what else joins the queue is a listener.
LEMMA OneCheckStep ==
    ASSUME TypeOK, Positioned, ProgressInv, [Next]_vars
    PROVE  OneCheck'
<1> USE DEF roomVars, userVars, itemVars, timeVars
<1>0. TimeType /\ OneCheck
  BY DEF TypeOK, ProgressInv
<1> DEFINE One == \A i, j \in DOMAIN lockQueue :
                     lockQueue[i] = TickPoll /\ lockQueue[j] = TickPoll => i = j
<1>1. CASE UNCHANGED <<stage, lockQueue>>
  BY <1>0, <1>1 DEF OneCheck, Checking
<1>2. CASE Tick
  <2>1. One' /\ stage' \in Running
    BY <1>0, <1>2, QueueGrows DEF Tick, OneCheck
  <2>2. QED
    BY <2>1 DEF OneCheck
<1>3. CASE CheckPhase1 \/ CheckPhase2 \/ KeepBidding \/ OnBidEnded
  <2>1. Wake(TickPoll)
    BY <1>3 DEF CheckPhase1, CheckPhase2, KeepBidding, OnBidEnded
  <2>2. ~Checking' /\ One'
    BY <1>0, <2>1, PollMoves
  <2>3. QED
    BY <2>2 DEF OneCheck
<1>4. ASSUME NEW f \in Listeners, Wake(f), stage' = stage PROVE OneCheck'
  <2>1. f # TickPoll
    BY DEF Listeners, TickPoll, NoListener
  <2>2. (Checking' <=> Checking) /\ One'
    BY <1>0, <1>4, <2>1, PollMoves
  <2>3. QED
    BY <1>0, <1>4, <2>2 DEF OneCheck
<1>5. ASSUME NEW u \in Users, NEW p \in Prices, NEW percent \in Percents,
             AcceptBid(u, p, percent)
      PROVE  OneCheck'
  <2>1. stage' = stage /\ stage \in Running
    BY <1>5, BidListens DEF AcceptBid
  <2>2. CASE lockQueue' = lockQueue
    BY <1>1, <2>1, <2>2
  <2>3. CASE listener \in Listeners /\ lockQueue' = Append(lockQueue, listener)
    <3>1. listener # TickPoll
      BY <2>3 DEF Listeners, TickPoll, NoListener
    <3>2. One'
      BY <1>0, <2>3, <3>1, QueueGrows DEF OneCheck
    <3>3. QED
      BY <2>1, <3>2 DEF OneCheck
  <2>4. QED
    BY <1>5, <2>2, <2>3, BidListens
<1>6. CASE OnBidCreate \/ OnBidCreateNoItem \/ OpenBidding \/ AfterBidEnd \/ OnRoomDestroy
  <2>1. lockQueue' = lockQueue
    BY <1>6 DEF OnBidCreate, OnBidCreateNoItem, OpenBidding, EnterPhase2, AfterBidEnd,
                OnRoomDestroy
  <2>2. stage \notin Running
    BY <1>6 DEF OnBidCreate, OnBidCreateNoItem, OpenBidding, AfterBidEnd, OnRoomDestroy
  <2>3. ~Checking' /\ One'
    BY <1>0, <2>1, <2>2 DEF OneCheck, Checking
  <2>4. QED
    BY <2>3 DEF OneCheck
<1>7. \/ UNCHANGED <<stage, lockQueue>>
      \/ Tick \/ CheckPhase1 \/ CheckPhase2 \/ KeepBidding \/ OnBidEnded
      \/ \E f \in Listeners : Wake(f) /\ stage' = stage
      \/ \E u \in Users, p \in Prices, percent \in Percents : AcceptBid(u, p, percent)
      \/ OnBidCreate \/ OnBidCreateNoItem \/ OpenBidding \/ AfterBidEnd \/ OnRoomDestroy
  BY DEF Next, Lifecycle, Bidding, Console, Bid, ListenerWakes, Join, RefuseBid,
         ReadClock, SetResetTime, SetReducedTime, SkipBidItem, ReduceTime, Terminate,
         Finished, vars
<1>8. QED
  BY <1>1, <1>2, <1>3, <1>4, <1>5, <1>6, <1>7

\* ListenersInv is kept: whoever starts a phase 1 listener leaves a call for it.
LEMMA ListenersStep ==
    ASSUME TypeOK, Positioned, ProgressInv, [Next]_vars
    PROVE  ListenersInv'
<1> USE DEF roomVars, userVars, itemVars, timeVars
<1>0. TimeType /\ OneCheck /\ ListenersInv
  BY DEF TypeOK, ProgressInv
<1>1. stage' \in Running => listener' # NoListener
  <2>1. CASE UNCHANGED <<stage, listener>>
    BY <1>0, <2>1 DEF ListenersInv
  <2>2. CASE OpenBidding \/ CheckPhase1
    BY <1>0, <2>2 DEF OpenBidding, CheckPhase1, EnterPhase2, Listener, NoListener, ListenersInv
  <2>3. CASE stage' \notin Running
    BY <2>3
  <2>4. CASE CheckPhase2
    BY <1>0, <2>4 DEF CheckPhase2, ListenersInv
  <2>5. \/ UNCHANGED <<stage, listener>>
        \/ OpenBidding \/ CheckPhase1 \/ CheckPhase2
        \/ stage' \notin Running
    BY DEF Next, Lifecycle, Bidding, Console, Bid, ListenerWakes, OnBidCreate,
           OnBidCreateNoItem, Tick, KeepBidding, OnBidEnded, AfterBidEnd, OnRoomDestroy,
           Join, AcceptBid, RefuseBid, ReadClock, SetResetTime, SetReducedTime,
           SkipBidItem, ReduceTime, Terminate, Finished, vars
  <2>6. QED
    BY <2>1, <2>2, <2>3, <2>4, <2>5
<1>2. /\ Cardinality(Phase1Polls) \in Nat
      /\ Cardinality(FreeCalls) \in Nat
      /\ Cardinality(Phase1Polls) <= Cardinality(FreeCalls)
  BY <1>0, PollsAreFinite DEF ListenersInv
<1> DEFINE Suffice == Cardinality(Phase1Polls) <= Cardinality(FreeCalls)
<1>3. ASSUME UNCHANGED <<lockQueue, redisCalls>> PROVE Suffice'
  BY <1>2, <1>3 DEF Phase1Polls, FreeCalls
<1>4. ASSUME Tick PROVE Suffice'
  <2>1. Cardinality(Phase1Polls') = Cardinality(Phase1Polls)
    BY <1>0, <1>4, PollJoins DEF Tick, TickPoll, NoListener
  <2>2. FreeCalls' = FreeCalls
    BY <1>4 DEF Tick, FreeCalls
  <2>3. QED
    BY <1>2, <2>1, <2>2
<1>5. ASSUME NEW w, Wake(w), UNCHANGED redisCalls PROVE Suffice'
  <2>1. Cardinality(Phase1Polls') <= Cardinality(Phase1Polls)
    BY <1>0, <1>2, <1>5, PollLeaves
  <2>2. FreeCalls' = FreeCalls
    BY <1>5 DEF FreeCalls
  <2>3. Cardinality(Phase1Polls') \in Int
    BY <1>0, <1>2, <1>5, PollLeaves
  <2>4. QED
    BY <1>2, <2>1, <2>2, <2>3
<1>6. ASSUME NEW u \in Users, NEW p \in Prices, NEW percent \in Percents,
             AcceptBid(u, p, percent)
      PROVE  Suffice'
  <2>1. FreeCalls' = FreeCalls
    BY <1>6 DEF AcceptBid, FreeCalls
  <2>2. CASE lockQueue' = lockQueue
    BY <1>2, <2>1, <2>2 DEF Phase1Polls
  <2>3. CASE /\ listener \in Listeners
             /\ lockQueue' = Append(lockQueue, listener)
             /\ listener.phase = 1 => CallToSpare
    BY <1>0, <1>2, <2>1, <2>3, PollJoins DEF CallToSpare
  <2>4. QED
    BY <1>6, <2>2, <2>3, BidListens
<1>7. ASSUME UNCHANGED lockQueue, CallToSpare, AskRedis(clock) PROVE Suffice'
  <2>1. Phase1Polls' = Phase1Polls
    BY <1>7 DEF Phase1Polls
  <2>2. QED
    BY <1>0, <1>2, <1>7, <2>1, CallIsTaken DEF CallToSpare
<1>8. ASSUME NEW f \in Listeners, ReadClock(f) PROVE Suffice'
  BY <1>0, <1>2, <1>8, CallIsTaken, PollLeaves DEF ReadClock
<1>9. ASSUME NEW c \in Calls, SetReducedTime(c) PROVE Suffice'
  <2>1. Phase1Polls' = Phase1Polls
    BY <1>9 DEF SetReducedTime, Phase1Polls
  <2>2. QED
    BY <1>0, <1>2, <1>9, <2>1, CallIsFreed
<1>10. \/ UNCHANGED <<lockQueue, redisCalls>>
       \/ Tick
       \/ \E w \in Listeners \cup {TickPoll} : Wake(w) /\ UNCHANGED redisCalls
       \/ \E u \in Users, p \in Prices, percent \in Percents : AcceptBid(u, p, percent)
       \/ UNCHANGED lockQueue /\ CallToSpare /\ AskRedis(clock)
       \/ \E f \in Listeners : ReadClock(f)
       \/ \E c \in Calls : SetReducedTime(c)
  BY DEF Next, Lifecycle, Bidding, Console, Bid, ListenerWakes, OnBidCreate,
         OnBidCreateNoItem, OpenBidding, EnterPhase2, CheckPhase1, CheckPhase2,
         KeepBidding, OnBidEnded, AfterBidEnd, OnRoomDestroy, Join, RefuseBid,
         TimeEventAfterRefuse, SetResetTime, SkipBidItem, ReduceTime, Terminate,
         Finished, vars
<1>11. Suffice'
  BY <1>3, <1>4, <1>5, <1>6, <1>7, <1>8, <1>9, <1>10
<1>12. QED
  BY <1>1, <1>11 DEF ListenersInv

\* Both parts hold of every state that is reached.
LEMMA ProgressInvariance == Spec => [](IInv /\ ProgressInv)
<1>1. Init => ProgressInv
  <2> SUFFICES ASSUME Init PROVE ProgressInv
    OBVIOUS
  <2>1. OneCheck /\ (stage \in Running => listener # NoListener)
    BY DEF Init, OneCheck, Checking
  <2>2. Phase1Polls = {}
    BY DEF Init, Phase1Polls
  <2>3. Cardinality(Phase1Polls) = 0
    BY <2>2, FS_EmptySet
  <2>4. TimeType
    BY InitIInv DEF IInv, TypeOK
  <2>5. Cardinality(FreeCalls) \in Nat
    BY <2>4, PollsAreFinite
  <2>6. QED
    BY <2>1, <2>3, <2>5 DEF ProgressInv, ListenersInv
<1>2. IInv /\ ProgressInv /\ [Next]_vars => ProgressInv'
  BY OneCheckStep, ListenersStep DEF IInv, ProgressInv
<1>3. QED
  BY <1>1, <1>2, Invariance, PTL DEF Spec

\* No check of the clock outlives its phase, and no phase has two of them under way: the
\* interval a phase leaves behind ends with the check that ended the phase
\* (startTimer in game-abstraction.lifecycle.ts, onBidPhase1 to onBidEnded in
\* game.lifecycle.ts).
THEOREM ChecksEndWithTheirPhase == Spec => []OneCheck
<1>1. ProgressInv => OneCheck
  BY DEF ProgressInv
<1>2. QED
  BY <1>1, ProgressInvariance, PTL

\* Something of the run itself is due: a delay, a tick, or who is first in the queue.
Due ==
    \/ stage \in {"bidCreate", "ready", "roomDestroy"}
    \/ stage = "bidEnd" /\ lockQueue = <<>>
    \/ stage \in Running /\ ~Checking
    \/ /\ lockQueue # <<>>
       /\ \/ Head(lockQueue) = TickPoll /\ stage \in Running
          \/ Head(lockQueue).phase = 1 /\ FreeCalls # {}
          \/ Head(lockQueue).phase = 2

\* A run that is not over has something due.
NeverStuck == stage \notin {"destroyed", "terminated"} => Due

\* A run that is not over never waits for a bid, for the owner or for Redis: a delay, a
\* tick or the poll at the head of the queue moves it on.
THEOREM RunIsNeverStuck == Spec => []NeverStuck
<1>1. ASSUME IInv, ProgressInv, stage \notin {"destroyed", "terminated"} PROVE Due
  <2>1. TimeType /\ OneCheck /\ stage \in Stages
    BY <1>1 DEF IInv, TypeOK, RoomType, ProgressInv
  <2>2. CASE stage \in {"bidCreate", "ready", "roomDestroy"}
    BY <2>2 DEF Due
  <2>3. CASE stage = "bidEnd" /\ lockQueue = <<>>
    BY <2>3 DEF Due
  <2>4. CASE stage \in Running /\ ~Checking
    BY <2>4 DEF Due
  <2>5. CASE \/ stage = "bidEnd" /\ lockQueue # <<>>
             \/ stage \in Running /\ Checking
    <3>1. lockQueue # <<>>
      <4>1. lockQueue = <<>> => DOMAIN lockQueue = {}
        OBVIOUS
      <4>2. QED
        BY <2>5, <4>1 DEF Checking
    <3>2. /\ 1 \in DOMAIN lockQueue
          /\ Head(lockQueue) = lockQueue[1]
          /\ Head(lockQueue) \in Listeners \cup {TickPoll}
      BY <2>1, <3>1 DEF TimeType
    <3>3. CASE Head(lockQueue) = TickPoll
      <4>1. Checking
        BY <3>2, <3>3 DEF Checking
      <4>2. QED
        BY <2>1, <3>1, <3>3, <4>1 DEF OneCheck, Due
    <3>4. CASE Head(lockQueue).phase = 2
      BY <3>1, <3>4 DEF Due
    <3>5. CASE Head(lockQueue).phase = 1
      <4>1. 1 \in Phase1Polls
        BY <3>2, <3>5 DEF Phase1Polls
      <4>2. Cardinality(Phase1Polls) # 0
        BY <2>1, <4>1, PollsAreFinite, FS_EmptySet
      <4>3. Cardinality(FreeCalls) # 0
        BY <1>1, <2>1, <4>2, PollsAreFinite DEF ProgressInv, ListenersInv
      <4>4. FreeCalls # {}
        BY <4>3, FS_EmptySet
      <4>5. QED
        BY <3>1, <3>5, <4>4 DEF Due
    <3>6. \A f \in Listeners : f.phase = 1 \/ f.phase = 2
      BY DEF Listeners
    <3>7. \/ Head(lockQueue) = TickPoll
          \/ Head(lockQueue).phase = 1
          \/ Head(lockQueue).phase = 2
      BY <3>2, <3>6
    <3>8. QED
      BY <3>3, <3>4, <3>5, <3>7
  <2>6. QED
    BY <1>1, <2>1, <2>2, <2>3, <2>4, <2>5
<1>2. IInv /\ ProgressInv => NeverStuck
  BY <1>1 DEF NeverStuck
<1>3. QED
  BY <1>2, ProgressInvariance, PTL

\* The stages in the order in which a run goes through them, item by item.
Place(s) ==
    CASE s = "ready" -> 1
      [] s = "phase1" -> 2
      [] s = "phase2" -> 3
      [] s = "final" -> 4
      [] s = "bidEnd" -> 5
      [] s \in {"bidCreate", "roomDestroy"} -> 6
      [] OTHER -> 7
StagesLeft == 8 * (count - sequence) + 7 - Place(stage)

\* The listeners under way: one that polls may call Redis, one that called only answers.
ListenerPolls == IF Checking THEN Len(lockQueue) - 1 ELSE Len(lockQueue)
Pending == 2 * ListenerPolls + Cardinality(Calls \ FreeCalls)

\* The ticks and checks left to a phase while nobody sets its clock: two for each second
\* above the bound at which it ends.
Bound == CASE stage = "phase1" -> 15 [] stage = "phase2" -> 6 [] OTHER -> 0
Ahead == IF Checking THEN 1 ELSE 0
Fuel == IF clock > Bound THEN 2 * (clock - Bound) + Ahead ELSE 1 - Ahead

\* What is left to do is less: stages count before listeners, listeners before ticks.
RunsDown ==
    \/ StagesLeft' < StagesLeft
    \/ StagesLeft' = StagesLeft /\ Pending' < Pending
    \/ StagesLeft' = StagesLeft /\ Pending' = Pending /\ Fuel' < Fuel
NoMoreToDo == StagesLeft' = StagesLeft /\ Pending' = Pending /\ Fuel' <= Fuel

\* What is left is three natural numbers, so that it cannot become less for ever.
LEMMA MeasureType ==
    ASSUME TypeOK, OneCheck
    PROVE  /\ StagesLeft \in Nat
           /\ ListenerPolls \in Nat /\ Cardinality(Calls \ FreeCalls) \in Nat
           /\ Pending \in Nat
           /\ Bound \in Nat /\ Fuel \in Nat
<1>1. StagesLeft \in Nat
  <2>1. Place(stage) \in 1..7
    BY DEF Place
  <2>2. count - sequence \in Nat
    BY ItemsAssumption DEF TypeOK, RoomType
  <2>3. QED
    BY <2>1, <2>2 DEF StagesLeft
<1>2. ListenerPolls \in Nat
  <2>1. Len(lockQueue) \in Nat /\ DOMAIN lockQueue = 1..Len(lockQueue)
    BY DEF TypeOK, TimeType
  <2>2. Checking => Len(lockQueue) >= 1
    BY <2>1 DEF Checking
  <2>3. QED
    BY <2>1, <2>2 DEF ListenerPolls
<1>3. Cardinality(Calls \ FreeCalls) \in Nat
  BY PollsAreFinite DEF TypeOK
<1>4. Pending \in Nat
  BY <1>2, <1>3 DEF Pending
<1>5. Bound \in Nat /\ clock \in Int
  BY DEF Bound, TypeOK, TimeType
<1>6. Fuel \in Nat
  BY <1>5 DEF Fuel, Ahead
<1>7. QED
  BY <1>1, <1>2, <1>3, <1>4, <1>5, <1>6

\* Every change of the stage is a step forward.
LEMMA StagesFall ==
    ASSUME TypeOK,
           \/ OnBidCreate \/ OnBidCreateNoItem \/ OpenBidding
           \/ (CheckPhase1 \/ CheckPhase2) /\ stage' # stage
           \/ OnBidEnded \/ AfterBidEnd \/ OnRoomDestroy
    PROVE  StagesLeft' < StagesLeft
<1>1. sequence \in Int /\ count \in Int
  BY ItemsAssumption DEF TypeOK, RoomType
<1>2. CASE OnBidCreate
  BY <1>1, <1>2 DEF OnBidCreate, StagesLeft, Place
<1>3. CASE /\ count' = count /\ sequence' = sequence
           /\ Place(stage') > Place(stage) /\ Place(stage) \in Int /\ Place(stage') \in Int
  BY <1>1, <1>3 DEF StagesLeft
<1>4. CASE OnBidCreateNoItem \/ OpenBidding \/ OnBidEnded \/ AfterBidEnd \/ OnRoomDestroy
  BY <1>3, <1>4 DEF OnBidCreateNoItem, OpenBidding, EnterPhase2, OnBidEnded, AfterBidEnd,
                    OnRoomDestroy, roomVars, Place
<1>5. CASE (CheckPhase1 \/ CheckPhase2) /\ stage' # stage
  BY <1>3, <1>5 DEF CheckPhase1, CheckPhase2, EnterPhase2, roomVars, Place
<1>6. QED
  BY <1>2, <1>4, <1>5

\* A listener that wakes leaves the tick's poll alone and is one poll less; the tick's
\* poll is none of the listeners'.
LEMMA PollsFall ==
    ASSUME TypeOK, OneCheck, NEW w \in Listeners \cup {TickPoll}, Wake(w)
    PROVE  /\ w = TickPoll => Checking /\ ~Checking' /\ ListenerPolls' = ListenerPolls
           /\ w # TickPoll => (Checking' <=> Checking) /\ ListenerPolls' = ListenerPolls - 1
<1>1. TimeType
  BY DEF TypeOK
<1>2. Len(lockQueue) \in Nat /\ Len(lockQueue') = Len(lockQueue) - 1
  BY <1>1, QueueMoves
<1>3. /\ w = TickPoll => Checking /\ ~Checking'
      /\ w # TickPoll => (Checking' <=> Checking)
  BY <1>1, PollMoves
<1>4. QED
  BY <1>2, <1>3 DEF ListenerPolls

\* A tick takes a second off and adds its check: what is left of the phase is less, and
\* the listeners are the same.
LEMMA TickRunsDown ==
    ASSUME TypeOK, OneCheck, Tick
    PROVE  ~Checking /\ Checking' /\ RunsDown
<1>1. TimeType /\ TickPoll \in Listeners \cup {TickPoll} /\ clock \in Int
  BY DEF TypeOK, TimeType
<1>2. ~Checking /\ lockQueue' = Append(lockQueue, TickPoll)
  BY DEF Tick
<1>3. Len(lockQueue) \in Nat /\ Len(lockQueue') = Len(lockQueue) + 1 /\ Checking'
  BY <1>1, <1>2, QueueGrows
<1>4. UNCHANGED <<stage, sequence, count, redisCalls>> /\ clock' = clock - 1
  BY DEF Tick, roomVars, CountDown
<1>5. StagesLeft' = StagesLeft
  BY <1>4 DEF StagesLeft
<1>6. ListenerPolls' = ListenerPolls /\ FreeCalls' = FreeCalls
  BY <1>2, <1>3, <1>4 DEF ListenerPolls, FreeCalls
<1>7. Pending' = Pending
  BY <1>6 DEF Pending
<1>8. Bound' = Bound /\ Bound \in Nat
  BY <1>4, MeasureType DEF Bound
<1>9. Fuel' < Fuel
  BY <1>1, <1>2, <1>3, <1>4, <1>8 DEF Fuel, Ahead
<1>10. QED
  BY <1>2, <1>3, <1>5, <1>7, <1>9 DEF RunsDown

\* A check ends its phase, or finds seconds left and is done.
LEMMA CheckRunsDown ==
    ASSUME TypeOK, OneCheck, CheckPhase1 \/ CheckPhase2 \/ KeepBidding
    PROVE  RunsDown
<1>1. CASE stage' # stage
  BY <1>1, StagesFall DEF RunsDown, CheckPhase1, CheckPhase2, KeepBidding, roomVars
<1>2. CASE stage' = stage
  <2>1. Wake(TickPoll) /\ UNCHANGED <<sequence, count, clock, redisCalls>>
    BY DEF CheckPhase1, CheckPhase2, KeepBidding, roomVars
  <2>2. clock \in Int /\ Bound \in Nat
    BY MeasureType DEF TypeOK, TimeType
  <2>3. clock > Bound
    BY <1>2, <2>2 DEF CheckPhase1, CheckPhase2, KeepBidding, EnterPhase2, PhaseOver, Bound
  <2>4. Checking /\ ~Checking' /\ ListenerPolls' = ListenerPolls
    BY <2>1, PollsFall
  <2>5. StagesLeft' = StagesLeft /\ Bound' = Bound
    BY <1>2, <2>1 DEF StagesLeft, Bound
  <2>6. Pending' = Pending
    BY <2>1, <2>4 DEF Pending, FreeCalls
  <2>7. Fuel' < Fuel
    BY <2>1, <2>2, <2>3, <2>4, <2>5 DEF Fuel, Ahead
  <2>8. QED
    BY <2>5, <2>6, <2>7 DEF RunsDown
<1>3. QED
  BY <1>1, <1>2

\* A listener that goes on has less left: it calls, or it is done.
LEMMA ListenerRunsDown ==
    ASSUME TypeOK, OneCheck, ListenerWakes \/ \E c \in Calls : SetReducedTime(c)
    PROVE  RunsDown
<1> USE DEF roomVars, userVars, itemVars, timeVars
<1>1. TimeType
  BY DEF TypeOK
<1>2. UNCHANGED <<stage, sequence, count>>
  BY DEF ListenerWakes, ReadClock, SetResetTime, SetReducedTime
<1>3. StagesLeft' = StagesLeft
  BY <1>2 DEF StagesLeft
<1>4. \A f \in Listeners : f # TickPoll
  BY DEF Listeners, TickPoll, NoListener
<1>5. ListenerPolls \in Nat /\ Cardinality(Calls \ FreeCalls) \in Nat
  BY MeasureType
<1>6. ASSUME NEW f \in Listeners, ReadClock(f) PROVE Pending' < Pending
  <2>1. ListenerPolls' = ListenerPolls - 1
    BY <1>4, <1>6, PollsFall DEF ReadClock
  <2>2. Cardinality(Calls \ FreeCalls') = Cardinality(Calls \ FreeCalls) + 1
    BY <1>1, <1>6, CallIsTaken DEF ReadClock
  <2>3. Pending' = 2 * ListenerPolls' + Cardinality(Calls \ FreeCalls')
    BY DEF Pending, Calls
  <2>4. QED
    BY <1>5, <2>1, <2>2, <2>3 DEF Pending
<1>7. ASSUME NEW f \in Listeners, SetResetTime(f) PROVE Pending' < Pending
  <2>1. ListenerPolls' = ListenerPolls - 1
    BY <1>4, <1>7, PollsFall DEF SetResetTime
  <2>2. FreeCalls' = FreeCalls
    BY <1>7 DEF SetResetTime, FreeCalls
  <2>3. Pending' = 2 * ListenerPolls' + Cardinality(Calls \ FreeCalls)
    BY <2>2 DEF Pending, Calls
  <2>4. QED
    BY <1>5, <2>1, <2>3 DEF Pending
<1>8. ASSUME NEW c \in Calls, SetReducedTime(c) PROVE Pending' < Pending
  <2>1. ListenerPolls' = ListenerPolls
    BY <1>8 DEF SetReducedTime, ListenerPolls, Checking
  <2>2. Cardinality(Calls \ FreeCalls') = Cardinality(Calls \ FreeCalls) - 1
    BY <1>1, <1>8, CallIsFreed
  <2>3. Pending' = 2 * ListenerPolls' + Cardinality(Calls \ FreeCalls')
    BY DEF Pending, Calls
  <2>4. QED
    BY <1>5, <2>1, <2>2, <2>3 DEF Pending
<1>9. QED
  BY <1>3, <1>6, <1>7, <1>8 DEF RunsDown, ListenerWakes

\* Whatever the run, a listener or Redis does leaves less to do.
LEMMA RunStepRunsDown ==
    ASSUME TypeOK, OneCheck,
           Lifecycle \/ ListenerWakes \/ \E c \in Calls : SetReducedTime(c)
    PROVE  RunsDown
BY StagesFall, TickRunsDown, CheckRunsDown, ListenerRunsDown DEF Lifecycle, RunsDown

\* A phase with less on its clock has no more ticks left.
LEMMA LessTimeLessFuel ==
    ASSUME NEW c \in Int, NEW d \in Int, d <= c, NEW b \in Nat, NEW a \in {0, 1}
    PROVE  (IF d > b THEN 2 * (d - b) + a ELSE 1 - a)
              <= (IF c > b THEN 2 * (c - b) + a ELSE 1 - a)
<1>1. d > b => 2 * (d - b) + a <= 2 * (c - b) + a
  OBVIOUS
<1>2. c > b => 1 - a <= 2 * (c - b) + a
  OBVIOUS
<1>3. QED
  BY <1>1, <1>2

\* Of the other steps only bids and skips can give the run more to do: an owner who
\* reduces the time leaves less of the phase.
LEMMA OtherStepAddsNothing ==
    ASSUME TypeOK, OneCheck, [Next]_vars, ~Bid, ~SkipBidItem
    PROVE  RunsDown \/ NoMoreToDo
<1> USE DEF roomVars, userVars, itemVars, timeVars
<1>1. CASE Lifecycle \/ ListenerWakes \/ \E c \in Calls : SetReducedTime(c)
  BY <1>1, RunStepRunsDown
<1>2. ASSUME UNCHANGED <<stage, sequence, count, lockQueue, redisCalls>>,
             clock' \in Int, clock' <= clock
      PROVE  NoMoreToDo
  <2>1. clock \in Int /\ Bound \in Nat
    BY MeasureType DEF TypeOK, TimeType
  <2>2. StagesLeft' = StagesLeft /\ Bound' = Bound
    BY <1>2 DEF StagesLeft, Bound
  <2>3. (Checking' <=> Checking) /\ FreeCalls' = FreeCalls
    BY <1>2 DEF Checking, FreeCalls
  <2>4. Pending' = Pending
    BY <1>2, <2>3 DEF Pending, ListenerPolls
  <2>5. Ahead' = Ahead /\ Ahead \in {0, 1}
    BY <2>3 DEF Ahead
  <2>6. Fuel' <= Fuel
    BY <1>2, <2>1, <2>2, <2>5, LessTimeLessFuel DEF Fuel
  <2>7. QED
    BY <2>2, <2>4, <2>6 DEF NoMoreToDo
<1>3. clock \in Int
  BY DEF TypeOK, TimeType
<1>4. ASSUME NEW t \in Reductions, ReduceTime(t) PROVE NoMoreToDo
  <2>1. t \in Nat
    BY InputsAssumption
  <2>2. QED
    BY <1>2, <1>3, <1>4, <2>1 DEF ReduceTime
<1>5. CASE (\E u \in Users : Join(u)) \/ Terminate \/ Finished \/ UNCHANGED vars
  BY <1>2, <1>3, <1>5 DEF Join, Terminate, Finished, vars
<1>6. QED
  BY <1>1, <1>4, <1>5 DEF Next, Bidding, Console

\* Once bids and skips stop the run comes to its end: what a delay, a tick, a check, a
\* listener or an answer of Redis leaves to do is less, and no join, termination or
\* reduction of the time adds to it.  No phase waits for a clock value that it has passed.
QuietStepsRunDown ==
    [][/\ Lifecycle \/ ListenerWakes \/ (\E c \in Calls : SetReducedTime(c)) => RunsDown
       /\ ~Bid /\ ~SkipBidItem => RunsDown \/ NoMoreToDo]_vars

\* What is left to do falls with every step of the run, in the well-founded order of
\* three natural numbers: no quiet run goes on for ever (game.lifecycle.ts run(),
\* startTimer in game-abstraction.lifecycle.ts).
THEOREM QuietRunsDown ==
    Spec => QuietStepsRunDown /\ [](StagesLeft \in Nat /\ Pending \in Nat /\ Fuel \in Nat)
<1> DEFINE A == /\ Lifecycle \/ ListenerWakes \/ (\E c \in Calls : SetReducedTime(c))
                      => RunsDown
                /\ ~Bid /\ ~SkipBidItem => RunsDown \/ NoMoreToDo
           M == StagesLeft \in Nat /\ Pending \in Nat /\ Fuel \in Nat
<1>1. IInv /\ ProgressInv => M
  BY MeasureType DEF IInv, ProgressInv
<1>2. IInv /\ ProgressInv /\ [Next]_vars => A
  BY RunStepRunsDown, OtherStepAddsNothing DEF IInv, ProgressInv
<1>3. QuietStepsRunDown <=> [][A]_vars
  BY PTL DEF QuietStepsRunDown
<1> HIDE DEF A, M
<1>4. Spec => [][A]_vars /\ []M
  BY <1>1, <1>2, ProgressInvariance, PTL DEF Spec
<1>5. QED
  BY <1>3, <1>4, PTL DEF M

-----------------------------------------------------------------------------
(* The end of a terminated run *)

\* How many polls wake until that of the tick has, or all where no tick waits.
Turns ==
    IF Checking THEN CHOOSE i \in DOMAIN lockQueue : lockQueue[i] = TickPoll
                ELSE Len(lockQueue)
TurnsFall == StagesLeft' = StagesLeft /\ Turns' < Turns
TurnsStay == StagesLeft' = StagesLeft /\ Turns' = Turns

\* A termination lasts, and no bid holds it up: each step of the life cycle ends a stage
\* or is a tick; whoever bids while the check of a tick waits queues behind it, so that
\* each poll that wakes brings it nearer; and when it is its turn it ends the phase,
\* whatever the clock says.  The same holds of the polls left when the last phase is over.
TerminatedRunsDown ==
    [][auctionStatus = "TERMINATED" =>
          /\ auctionStatus' = "TERMINATED" \/ stage' = "destroyed"
          /\ StagesLeft' <= StagesLeft
          /\ Lifecycle => StagesLeft' < StagesLeft \/ (Tick /\ ~Checking /\ Checking')
          /\ Checking \/ stage = "bidEnd" =>
                /\ StagesLeft' < StagesLeft \/ TurnsFall \/ TurnsStay
                /\ ListenerWakes => TurnsFall]_vars

\* There is one place at which the tick polls.
LEMMA PollsAt ==
    ASSUME NEW q, NEW i \in DOMAIN q, q[i] = TickPoll,
           \A j, k \in DOMAIN q : q[j] = TickPoll /\ q[k] = TickPoll => j = k
    PROVE  (CHOOSE j \in DOMAIN q : q[j] = TickPoll) = i
OBVIOUS

\* A listener that wakes brings the check nearer.
LEMMA ListenerTakesTurn ==
    ASSUME TypeOK, OneCheck, ListenerWakes
    PROVE  TurnsFall
<1>1. PICK f \in Listeners : Wake(f)
  BY DEF ListenerWakes, ReadClock, SetResetTime
<1>2. UNCHANGED <<stage, sequence, count>>
  BY DEF ListenerWakes, ReadClock, SetResetTime, roomVars
<1>3. StagesLeft' = StagesLeft
  BY <1>2 DEF StagesLeft
<1>4. TimeType /\ f # TickPoll
  BY DEF TypeOK, Listeners, TickPoll, NoListener
<1>5. /\ Checking' <=> Checking
      /\ \A j, k \in DOMAIN lockQueue' :
            lockQueue'[j] = TickPoll /\ lockQueue'[k] = TickPoll => j = k
  BY <1>1, <1>4, PollMoves
<1> DEFINE n == Len(lockQueue)
<1>6. /\ n \in Nat \ {0}
      /\ DOMAIN lockQueue = 1..n
      /\ lockQueue[1] = f
      /\ Len(lockQueue') = n - 1
      /\ DOMAIN lockQueue' = 1..(n - 1)
      /\ \A j \in DOMAIN lockQueue' : lockQueue'[j] = lockQueue[j + 1]
  BY <1>1, <1>4, QueueMoves
<1> HIDE DEF n
<1>7. CASE Checking
  <2>1. PICK i \in 1..n : lockQueue[i] = TickPoll
    BY <1>6, <1>7 DEF Checking
  <2>2. i \in 2..n /\ i - 1 \in 1..(n - 1) /\ (i - 1) + 1 = i
    BY <1>4, <1>6, <2>1
  <2>3. lockQueue'[i - 1] = TickPoll
    BY <1>6, <2>1, <2>2
  <2>4. \A j, k \in DOMAIN lockQueue :
           lockQueue[j] = TickPoll /\ lockQueue[k] = TickPoll => j = k
    BY DEF OneCheck
  <2>5. (CHOOSE j \in DOMAIN lockQueue : lockQueue[j] = TickPoll) = i
    BY <1>6, <2>1, <2>4, PollsAt
  <2>6. (CHOOSE j \in DOMAIN lockQueue' : lockQueue'[j] = TickPoll) = i - 1
    BY <1>5, <1>6, <2>2, <2>3, PollsAt
  <2>7. Turns = i /\ Turns' = i - 1
    BY <1>5, <1>7, <2>5, <2>6 DEF Turns
  <2>8. QED
    BY <1>3, <1>6, <2>2, <2>7 DEF TurnsFall
<1>8. CASE ~Checking
  <2>1. Turns = n /\ Turns' = n - 1
    BY <1>5, <1>6, <1>8 DEF Turns, n
  <2>2. QED
    BY <1>3, <1>6, <2>1 DEF TurnsFall
<1>9. QED
  BY <1>7, <1>8

\* Who bids while a check waits queues behind it.
LEMMA BidQueuesBehind ==
    ASSUME TypeOK, Positioned, ProgressInv, NEW u \in Users, NEW p \in Prices,
           NEW percent \in Percents, AcceptBid(u, p, percent), Checking
    PROVE  TurnsStay
<1>1. UNCHANGED <<stage, sequence, count>>
  BY DEF AcceptBid, roomVars
<1>2. StagesLeft' = StagesLeft
  BY <1>1 DEF StagesLeft
<1>3. CASE lockQueue' = lockQueue
  BY <1>2, <1>3 DEF TurnsStay, Turns, Checking
<1>4. CASE listener \in Listeners /\ lockQueue' = Append(lockQueue, listener)
  <2>1. PICK i \in DOMAIN lockQueue : lockQueue[i] = TickPoll
    BY DEF Checking
  <2>2. TimeType /\ listener # TickPoll
    BY <1>4 DEF TypeOK, Listeners, TickPoll, NoListener
  <2>3. \A j, k \in DOMAIN lockQueue :
           lockQueue[j] = TickPoll /\ lockQueue[k] = TickPoll => j = k
    BY DEF ProgressInv, OneCheck
  <2>4. /\ Checking'
        /\ i \in DOMAIN lockQueue' /\ lockQueue'[i] = TickPoll
        /\ \A j, k \in DOMAIN lockQueue' :
              lockQueue'[j] = TickPoll /\ lockQueue'[k] = TickPoll => j = k
    BY <1>4, <2>1, <2>2, <2>3, QueueGrows
  <2>5. (CHOOSE j \in DOMAIN lockQueue : lockQueue[j] = TickPoll) = i
    BY <2>1, <2>3, PollsAt
  <2>6. (CHOOSE j \in DOMAIN lockQueue' : lockQueue'[j] = TickPoll) = i
    BY <2>4, PollsAt
  <2>7. QED
    BY <1>2, <2>4, <2>5, <2>6 DEF TurnsStay, Turns
<1>5. QED
  BY <1>3, <1>4, BidListens

\* Once terminated, a step of the life cycle is a tick or ends a stage: the callback of
\* every phase tests isTerminated.
LEMMA TerminatedLifecycle ==
    ASSUME TypeOK, OneCheck, auctionStatus = "TERMINATED", Lifecycle
    PROVE  StagesLeft' < StagesLeft \/ (Tick /\ ~Checking /\ Checking')
<1>1. CASE Tick
  BY <1>1, TickRunsDown
<1>2. CASE CheckPhase1 \/ CheckPhase2
  <2>1. stage' # stage
    BY <1>2 DEF CheckPhase1, CheckPhase2, PhaseOver, EnterPhase2
  <2>2. QED
    BY <1>2, <2>1, StagesFall
<1>3. ~KeepBidding
  BY DEF KeepBidding, PhaseOver
<1>4. QED
  BY <1>1, <1>2, <1>3, StagesFall DEF Lifecycle

\* Once terminated, every step keeps the turn of the check, brings it nearer or ends a
\* stage.
LEMMA TerminatedStep ==
    ASSUME TypeOK, Positioned, ProgressInv, auctionStatus = "TERMINATED", [Next]_vars
    PROVE  /\ auctionStatus' = "TERMINATED" \/ stage' = "destroyed"
           /\ StagesLeft' <= StagesLeft
           /\ Checking \/ stage = "bidEnd" =>
                StagesLeft' < StagesLeft \/ TurnsFall \/ TurnsStay
<1> USE DEF roomVars, userVars, itemVars, timeVars
<1>1. OneCheck /\ StagesLeft \in Nat /\ StagesLeft' \in Int
  <2>1. OneCheck /\ StagesLeft \in Nat
    BY MeasureType DEF ProgressInv
  <2>2. sequence' \in Int /\ count' \in Int
    BY TypeStep, ItemsAssumption DEF TypeOK, RoomType
  <2>3. Place(stage') \in 1..7
    BY DEF Place
  <2>4. QED
    BY <2>1, <2>2, <2>3 DEF StagesLeft
<1>2. auctionStatus' = "TERMINATED" \/ stage' = "destroyed"
  BY DEF Next, Lifecycle, Bidding, Console, Bid, ListenerWakes, OnBidCreate,
         OnBidCreateNoItem, OpenBidding, Tick, CheckPhase1, CheckPhase2, KeepBidding,
         OnBidEnded, AfterBidEnd, OnRoomDestroy, Join, AcceptBid, RefuseBid, ReadClock,
         SetResetTime, SetReducedTime, SkipBidItem, ReduceTime, Terminate, Finished, vars
<1>3. CASE Lifecycle /\ ~Tick
  BY <1>1, <1>2, <1>3, TerminatedLifecycle
<1>4. ASSUME UNCHANGED <<stage, sequence, count>>
      PROVE  StagesLeft' = StagesLeft
  BY <1>4 DEF StagesLeft
<1>5. CASE Tick
  <2>1. ~Checking /\ stage # "bidEnd" /\ UNCHANGED <<stage, sequence, count>>
    BY <1>5 DEF Tick
  <2>2. QED
    BY <1>1, <1>2, <1>4, <2>1
<1>6. CASE ListenerWakes
  <2>1. TurnsFall
    BY <1>1, <1>6, ListenerTakesTurn
  <2>2. QED
    BY <1>1, <1>2, <2>1 DEF TurnsFall
<1>7. ASSUME NEW u \in Users, NEW p \in Prices, NEW percent \in Percents,
             AcceptBid(u, p, percent)
      PROVE  /\ StagesLeft' <= StagesLeft
             /\ Checking \/ stage = "bidEnd" => TurnsStay
  <2>1. stage \in Running /\ UNCHANGED <<stage, sequence, count>>
    BY <1>7, BidListens DEF AcceptBid
  <2>2. Checking => TurnsStay
    BY <1>7, BidQueuesBehind
  <2>3. QED
    BY <1>1, <1>4, <2>1, <2>2
<1>8. ASSUME UNCHANGED <<stage, sequence, count, lockQueue>>
      PROVE  StagesLeft' = StagesLeft /\ TurnsStay
  BY <1>4, <1>8 DEF TurnsStay, Turns, Checking
<1>9. \/ Lifecycle \/ ListenerWakes
      \/ \E u \in Users, p \in Prices, percent \in Percents : AcceptBid(u, p, percent)
      \/ UNCHANGED <<stage, sequence, count, lockQueue>>
  BY DEF Next, Bidding, Console, Bid, Join, RefuseBid, SetReducedTime, SkipBidItem,
         ReduceTime, Terminate, Finished, vars
<1>10. CASE \E u \in Users, p \in Prices, percent \in Percents : AcceptBid(u, p, percent)
  BY <1>2, <1>7, <1>10
<1>11. CASE UNCHANGED <<stage, sequence, count, lockQueue>>
  BY <1>1, <1>2, <1>8, <1>11
<1>12. QED
  BY <1>3, <1>5, <1>6, <1>9, <1>10, <1>11

\* Nobody's bids hold up a termination (game.context.ts isTerminated, tested by the
\* callback of each phase in game.lifecycle.ts).
THEOREM TerminationRunsDown == Spec => TerminatedRunsDown
<1>1. IInv /\ ProgressInv /\ [Next]_vars =>
        (auctionStatus = "TERMINATED" =>
          /\ auctionStatus' = "TERMINATED" \/ stage' = "destroyed"
          /\ StagesLeft' <= StagesLeft
          /\ Lifecycle => StagesLeft' < StagesLeft \/ (Tick /\ ~Checking /\ Checking')
          /\ Checking \/ stage = "bidEnd" =>
                /\ StagesLeft' < StagesLeft \/ TurnsFall \/ TurnsStay
                /\ ListenerWakes => TurnsFall)
  <2>1. ASSUME IInv, ProgressInv PROVE TypeOK /\ Positioned /\ OneCheck
    BY <2>1 DEF IInv, ProgressInv
  <2>2. QED
    BY <2>1, TerminatedStep, TerminatedLifecycle, ListenerTakesTurn
<1>2. QED
  BY <1>1, ProgressInvariance, PTL DEF Spec, TerminatedRunsDown

-----------------------------------------------------------------------------
(* The refinement of EnglishAuction *)

\* What the abstract auction sees of a step that it does not take part in.
AuctionUnchanged ==
    UNCHANGED <<count, sequence, Unsettled, joinedUsers, budget, bidPrice, bidderId,
                buyerId>>

LEMMA StutterIsStutter == AuctionUnchanged => UNCHANGED Auction!vars
BY DEF AuctionUnchanged, Auction!vars

\* The five actions that touch the sale are Join, Offer, Raise and Close; all the
\* others stutter.
LEMMA StepRefines ==
    ASSUME IInv, [Next]_vars
    PROVE  [Auction!Next]_(Auction!vars)
<1> USE DEF roomVars, userVars, itemVars, timeVars
<1>0. TypeOK /\ Positioned /\ SaleInv
  BY DEF IInv
<1>1. CASE UNCHANGED vars
  BY <1>1, StutterIsStutter DEF vars, AuctionUnchanged
<1>2. ASSUME NEW u \in Users, Join(u) PROVE Auction!Next
  <2>1. Auction!Join(u)
    BY <1>2 DEF Join, Auction!Join
  <2> QED
    BY <2>1 DEF Auction!Next
<1>3. CASE OnBidCreate
  <2>1. Auction!Offer
    BY <1>3 DEF OnBidCreate, HasNextItem, Auction!Offer
  <2> QED
    BY <2>1 DEF Auction!Next
<1>4. CASE OnBidEnded
  <2>1. bidderId[sequence] # None <=> bidderId[sequence] \in joinedUsers
    BY <1>0, <1>4, UsersAssumption DEF OnBidEnded, TypeOK, UserType, SaleInv, LeaderCanPay
  <2>2. Unsettled /\ Unsettled' = FALSE
    BY <1>4 DEF OnBidEnded
  <2>3. CASE bidderId[sequence] = None
    <3>1. Auction!Close
      BY <1>4, <2>1, <2>2, <2>3 DEF OnBidEnded, Auction!Close
    <3> QED
      BY <3>1 DEF Auction!Next
  <2>4. CASE bidderId[sequence] # None
    <3>1. bidPrice[sequence] <= budget[bidderId[sequence]]
      BY <1>0, <2>2, <2>4 DEF SaleInv, LeaderCanPay
    <3>2. Auction!Close
      BY <1>4, <2>1, <2>2, <2>4, <3>1 DEF OnBidEnded, Charge, Auction!Close
    <3> QED
      BY <3>2 DEF Auction!Next
  <2> QED
    BY <2>3, <2>4
<1>5. ASSUME NEW u \in Users, NEW p \in Prices, NEW percent \in Percents,
             AcceptBid(u, p, percent)
      PROVE  Auction!Next
  <2>1. stage \in Running
    BY <1>0, <1>5 DEF AcceptBid, Acceptable, Positioned
  <2>2. bidPrice[sequence] < p /\ p <= budget[u]
    <3>1. sequence \in Items /\ p \in Nat /\ bidPrice[sequence] \in Nat
      BY <1>0, <1>5, CurrentItem, InputsAssumption DEF AcceptBid, HasItem, TypeOK, ItemType
    <3> QED
      BY <1>5, <3>1 DEF AcceptBid, Acceptable
  <2>3. Auction!Raise(u, p)
    BY <1>5, <2>1, <2>2 DEF AcceptBid, Auction!Raise
  <2> QED
    BY <2>3 DEF Auction!Next
<1>6. CASE OnBidCreateNoItem \/ OpenBidding
  BY <1>6, StutterIsStutter
     DEF OnBidCreateNoItem, OpenBidding, EnterPhase2, AuctionUnchanged
<1>7. CASE Tick \/ CheckPhase1 \/ CheckPhase2 \/ KeepBidding
  BY <1>7, StutterIsStutter
     DEF Tick, CheckPhase1, EnterPhase2, CheckPhase2, KeepBidding, AuctionUnchanged
<1>8. CASE AfterBidEnd \/ OnRoomDestroy
  BY <1>8, StutterIsStutter DEF AfterBidEnd, OnRoomDestroy, AuctionUnchanged
<1>9. ASSUME NEW u \in Users, NEW p \in Prices, NEW percent \in Percents,
             RefuseBid(u, p, percent)
      PROVE  UNCHANGED Auction!vars
  BY <1>9, StutterIsStutter DEF RefuseBid, AuctionUnchanged
<1>10. CASE ListenerWakes \/ \E c \in Calls : SetReducedTime(c)
  BY <1>10, StutterIsStutter
     DEF ListenerWakes, ReadClock, SetResetTime, SetReducedTime, AuctionUnchanged
<1>11. CASE Console
  BY <1>11, StutterIsStutter
     DEF Console, SkipBidItem, ReduceTime, Terminate, AuctionUnchanged
<1>12. CASE Finished
  BY <1>1, <1>12 DEF Finished
<1> QED
  BY <1>1, <1>2, <1>3, <1>4, <1>5, <1>6, <1>7, <1>8, <1>9, <1>10, <1>11, <1>12
     DEF Next, Lifecycle, Bidding, Bid

\* The room implements the English auction: clock, phases, listeners, refused bids
\* and the console are invisible to the sale (game.lifecycle.ts, game.context.ts).
THEOREM Refinement == Spec => ImplementsEnglishAuction
<1>1. Init => Auction!Init
  BY ItemsAssumption DEF Init, Auction!Init, Items
<1>2. IInv /\ [Next]_vars => [Auction!Next]_(Auction!vars)
  BY StepRefines
<1> QED
  BY <1>1, <1>2, Invariance, PTL DEF Spec, ImplementsEnglishAuction, Auction!Spec
=============================================================================
