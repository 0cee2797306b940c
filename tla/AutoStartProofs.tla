-------------------------- MODULE AutoStartProofs --------------------------
(***************************************************************************)
(* Proofs about AutoStart for any set of auctions and any bounds: it is an *)
(* implementation of the registry, and its handles are good.               *)
(***************************************************************************)
EXTENDS AutoStart, GameRegistryProofs, TLAPS

-----------------------------------------------------------------------------
(* Refinement *)

\* Whoever calls startAuction, the registry sees a start.
LEMMA OneStart ==
    ASSUME NEW a \in Auctions, StartAuctions({a})
    PROVE  Start
<1>1. {a} \in SUBSET Auctions /\ {a} # {}
  OBVIOUS
<1> QED
  BY <1>1 DEF Start

\* A look that finds auctions due is one start of all of them.
LEMMA ListedStarts ==
    ASSUME NEW c \in Checks, WaitingListed(c)
    PROVE  [RegistryNext]_registryVars
<1> DEFINE S == Due(check[c].list)
<1>1. CASE S = {}
  BY <1>1 DEF WaitingListed
<1>2. CASE S # {}
  <2>1. S \in SUBSET Auctions
    BY DEF Due
  <2>2. StartAuctions(S)
    BY <1>2 DEF WaitingListed
  <2> QED
    BY <1>2, <2>1, <2>2 DEF RegistryNext, Start
<1> QED
  BY <1>1, <1>2

\* A step of the timers, the repeats, the owner, the process or the database is a
\* step of the registry or leaves it alone.
LEMMA AutoStepIsRegistryStep == [AutoNext]_autoVars => [RegistryNext]_registryVars
<1> SUFFICES ASSUME [AutoNext]_autoVars PROVE [RegistryNext]_registryVars
  OBVIOUS
<1>1. ASSUME NEW a \in Auctions, TimeoutFires(a) PROVE Start
  BY <1>1, OneStart DEF TimeoutFires
<1>2. ASSUME NEW a \in Auctions, RepeatAuction(a) PROVE Start
  BY <1>2, OneStart DEF RepeatAuction
<1>3. ASSUME NEW t \in Timers, RepeatInterval(t) PROVE Start
  BY <1>3, OneStart DEF RepeatInterval
<1>4. ASSUME NEW a \in Auctions, OwnerStarts(a) PROVE Start
  BY <1>4, OneStart DEF OwnerStarts
<1>5. CASE ActivateTimer \/ DeactivateTimer \/ StopRepeat
  BY <1>5 DEF ActivateTimer, DeactivateTimer, StopRepeat
<1>6. CASE \E c \in Checks : ListWaiting(c) \/ WaitingListed(c)
  BY <1>6, ListedStarts DEF ListWaiting
<1>7. CASE \E t \in Timers : CheckInterval(t) \/ RepeatInterval(t)
  BY <1>3, <1>7 DEF CheckInterval, RegistryNext
<1>8. CASE \E a \in Auctions : TimeoutFires(a) \/ RepeatAuction(a)
  BY <1>1, <1>2, <1>8 DEF RegistryNext
<1>9. CASE \E a \in Auctions : OwnerStarts(a) \/ TimePasses(a) \/ PatchRow(a)
  BY <1>4, <1>9 DEF TimePasses, PatchRow, RegistryNext
<1>10. CASE RegistryMoves \/ ServerDies
  BY <1>10 DEF RegistryMoves, ServerDies, RegistryNext
<1>11. CASE UNCHANGED autoVars
  BY <1>11 DEF autoVars
<1> QED
  BY <1>5, <1>6, <1>7, <1>8, <1>9, <1>10, <1>11 DEF AutoNext, TimersMove

\* Whatever starts an auction, the server implements the registry
\* (game.service.ts:177-259, game.controller.ts:14-79).
THEOREM AutoImplementsRegistry == AutoSpec => ImplementsRegistry
<1>1. AutoInit => RegistryInit
  BY DEF AutoInit
<1> QED
  BY <1>1, AutoStepIsRegistryStep, PTL DEF AutoSpec, ImplementsRegistry, RegistrySpec

\* However it is started, an auction has one room (game.service.ts:135-140).
THEOREM AutoOneRoom == AutoSpec => []OneRoom
BY AutoImplementsRegistry, AtMostOneRoom, PTL DEF ImplementsRegistry

-----------------------------------------------------------------------------
(* The handles *)

\* An interval is set in a free place, which no handle names; the handle that is
\* cleared names an interval of its own kind, and the other handle another one.
LEMMA HandleStep == HandleInv /\ [AutoNext]_autoVars => HandleInv'
<1> SUFFICES ASSUME HandleInv, [AutoNext]_autoVars PROVE HandleInv'
  OBVIOUS
<1> USE DEF HandleInv, HandlesAreLive
<1>1. CASE UNCHANGED <<timer, repeatTimer, job>>
  BY <1>1
<1>2. CASE DeactivateTimer
  <2>1. /\ timer \in Timers /\ timer' = NoTimer /\ repeatTimer' = repeatTimer
        /\ job' = [job EXCEPT ![timer] = "none"]
    BY <1>2 DEF DeactivateTimer, HandleCleared
  <2>2. repeatTimer # NoTimer => repeatTimer # timer
    BY <2>1, AuctionIds
  <2> QED
    BY <2>1, <2>2
<1>3. CASE StopRepeat
  <2>1. /\ repeatTimer \in Timers /\ repeatTimer' = NoTimer /\ timer' = timer
        /\ job' = [job EXCEPT ![repeatTimer] = "none"]
    BY <1>3 DEF StopRepeat, HandleCleared
  <2>2. timer # NoTimer => timer # repeatTimer
    BY <2>1, AuctionIds
  <2> QED
    BY <2>1, <2>2
<1>4. ASSUME NEW c \in Checks, WaitingListed(c), check[c].caller = "activate"
      PROVE  HandleInv'
  <2>1. PICK t \in Timers : /\ FreeTimer(t) /\ job' = [job EXCEPT ![t] = "check"]
                            /\ timer' = t /\ repeatTimer' = repeatTimer
    BY <1>4 DEF WaitingListed
  <2>2. t # NoTimer
    BY AutoStartBounds DEF Timers, NoTimer
  <2>3. repeatTimer # NoTimer => repeatTimer # t
    BY <2>1, AuctionIds DEF FreeTimer
  <2> QED
    BY <2>1, <2>2, <2>3
<1>5. ASSUME NEW a \in Auctions, RepeatAuction(a)
      PROVE  HandleInv'
  <2>1. PICK t \in Timers : /\ FreeTimer(t) /\ job' = [job EXCEPT ![t] = a]
                            /\ repeatTimer' = t /\ timer' = timer
    BY <1>5 DEF RepeatAuction
  <2>2. timer # NoTimer => timer # t
    BY <2>1 DEF FreeTimer
  <2> QED
    BY <2>1, <2>2
<1>6. CASE ServerDies
  <2>1. /\ timer' = NoTimer /\ repeatTimer' = NoTimer
        /\ job' = [t \in Timers |-> "none"]
    BY <1>6 DEF ServerDies
  <2> QED
    BY <2>1
<1>7. CASE ActivateTimer \/ \E t \in Timers : CheckInterval(t) \/ RepeatInterval(t)
  BY <1>1, <1>7 DEF ActivateTimer, CheckInterval, RepeatInterval, timerVars
<1>8. CASE \E c \in Checks : ListWaiting(c) \/ WaitingListed(c)
  BY <1>1, <1>4, <1>8 DEF ListWaiting, WaitingListed
<1>9. CASE \E a \in Auctions : TimeoutFires(a) \/ RepeatAuction(a)
  BY <1>1, <1>5, <1>9 DEF TimeoutFires
<1>10. CASE \E a \in Auctions : OwnerStarts(a) \/ TimePasses(a) \/ PatchRow(a)
  BY <1>1, <1>10 DEF OwnerStarts, TimePasses, PatchRow, timerVars
<1>11. CASE RegistryMoves \/ UNCHANGED autoVars
  BY <1>1, <1>11 DEF RegistryMoves, autoVars, timerVars
<1> QED
  BY <1>2, <1>3, <1>6, <1>7, <1>8, <1>9, <1>10, <1>11 DEF AutoNext, TimersMove

\* A handle that is cleared is that of a live interval of its own kind
\* (deactivateAutoStartAuctionTimer, stopAutoRepeatAuctions).
THEOREM HandlesStayLive == AutoSpec => []HandlesAreLive
<1>1. AutoInit => HandleInv
  BY DEF AutoInit, NoTimers, HandleInv, HandlesAreLive
<1>2. HandleInv => HandlesAreLive
  BY DEF HandleInv
<1> QED
  BY <1>1, <1>2, HandleStep, PTL DEF AutoSpec

-----------------------------------------------------------------------------
(* Types *)

\* What an action does to the dates, the handles and the intervals has their types.
LEMMA HandleTypes ==
    ASSUME AutoTypeOK, [AutoNext]_autoVars
    PROVE  /\ eventDate' \in [Auctions -> Dates]
           /\ timer' \in Timers \cup {NoTimer} /\ repeatTimer' \in Timers \cup {NoTimer}
           /\ job' \in [Timers -> {"none", "check"} \cup Auctions]
<1> USE DEF AutoTypeOK
<1>1. CASE ActivateTimer \/ DeactivateTimer \/ StopRepeat
  BY <1>1 DEF ActivateTimer, DeactivateTimer, StopRepeat, HandleCleared
<1>2. CASE \E c \in Checks : ListWaiting(c) \/ WaitingListed(c)
  BY <1>2 DEF ListWaiting, WaitingListed
<1>3. CASE \E t \in Timers : CheckInterval(t) \/ RepeatInterval(t)
  BY <1>3 DEF CheckInterval, RepeatInterval, timerVars
<1>4. CASE \E a \in Auctions : TimeoutFires(a) \/ RepeatAuction(a)
  BY <1>4 DEF TimeoutFires, RepeatAuction
<1>5. CASE \E a \in Auctions : OwnerStarts(a) \/ TimePasses(a) \/ PatchRow(a)
  BY <1>5 DEF OwnerStarts, TimePasses, PatchRow, timerVars, Dates
<1>6. CASE RegistryMoves \/ ServerDies \/ UNCHANGED autoVars
  BY <1>6 DEF RegistryMoves, ServerDies, autoVars, timerVars
<1> QED
  BY <1>1, <1>2, <1>3, <1>4, <1>5, <1>6 DEF AutoNext, TimersMove

\* So has what it does to the looks under way: a list has the dates of the database.
LEMMA CheckTypes ==
    ASSUME AutoTypeOK, [AutoNext]_autoVars
    PROVE  check' \in [Checks -> CheckType]
<1> USE DEF AutoTypeOK
<1>1. NoCheck \in CheckType /\ Asked("activate") \in CheckType /\ Asked("interval") \in CheckType
  BY DEF NoCheck, Asked, NoList, CheckType
<1>2. CASE ActivateTimer \/ \E t \in Timers : CheckInterval(t)
  BY <1>1, <1>2 DEF ActivateTimer, CheckInterval, StartAuctionTimers
<1>3. ASSUME NEW c \in Checks, ListWaiting(c)
      PROVE  check' \in [Checks -> CheckType]
  <2> DEFINE seen == [a \in Auctions |-> IF status[a] = "WAIT" THEN eventDate[a] ELSE "unlisted"]
             answer == [check[c] EXCEPT !.listed = TRUE, !.list = seen]
  <2>1. seen \in [Auctions -> Dates \cup {"unlisted"}]
    OBVIOUS
  <2>2. check[c] \in CheckType
    OBVIOUS
  <2>3. answer \in CheckType
    BY <2>1, <2>2 DEF CheckType
  <2>4. check' = [check EXCEPT ![c] = answer]
    BY <1>3 DEF ListWaiting
  <2> QED
    BY <2>3, <2>4
<1>4. ASSUME NEW c \in Checks, WaitingListed(c)
      PROVE  check' \in [Checks -> CheckType]
  BY <1>1, <1>4 DEF WaitingListed
<1>5. CASE ServerDies
  BY <1>1, <1>5 DEF ServerDies
<1>6. CASE UNCHANGED check
  BY <1>6
<1> QED
  BY <1>2, <1>3, <1>4, <1>5, <1>6
  DEF AutoNext, TimersMove, DeactivateTimer, StopRepeat, RepeatInterval, TimeoutFires, RepeatAuction,
      OwnerStarts, TimePasses, PatchRow, RegistryMoves, autoVars, timerVars

\* So has what it does to the timeouts.
LEMMA ArmedTypes ==
    ASSUME AutoTypeOK, [AutoNext]_autoVars
    PROVE  armed' \in [Auctions -> 0..MaxArmed]
<1> USE AutoStartBounds DEF AutoTypeOK
<1>1. ASSUME NEW c \in Checks, WaitingListed(c)
      PROVE  armed' \in [Auctions -> 0..MaxArmed]
  BY <1>1 DEF WaitingListed, Arm
<1>2. ASSUME NEW a \in Auctions, TimeoutFires(a)
      PROVE  armed' \in [Auctions -> 0..MaxArmed]
  BY <1>2 DEF TimeoutFires
<1>3. CASE ServerDies
  BY <1>3 DEF ServerDies
<1>4. CASE UNCHANGED armed
  BY <1>4
<1> QED
  BY <1>1, <1>2, <1>3, <1>4
  DEF AutoNext, TimersMove, ActivateTimer, DeactivateTimer, ListWaiting, CheckInterval, StopRepeat,
      RepeatInterval, RepeatAuction, OwnerStarts, TimePasses, PatchRow, RegistryMoves, autoVars, timerVars

\* The handles, intervals, looks and timeouts stay what they are declared to be, on top
\* of the registry's types (game.service.ts:41-44,180-259).
THEOREM AutoTypes == AutoSpec => []AutoTypeOK
<1>1. AutoInit /\ RegistryTypeOK => AutoTypeOK
  BY AutoStartBounds DEF AutoInit, NoTimers, AutoTypeOK, NoCheck, NoList, CheckType
<1>2. AutoTypeOK /\ [AutoNext]_autoVars /\ RegistryTypeOK' => AutoTypeOK'
  BY HandleTypes, CheckTypes, ArmedTypes DEF AutoTypeOK
<1>3. RegistryInv => RegistryTypeOK
  BY DEF RegistryInv
<1> QED
  BY <1>1, <1>2, <1>3, AutoImplementsRegistry, RegistryInvariance, PTL DEF AutoSpec, ImplementsRegistry

-----------------------------------------------------------------------------
(* The way of an auction that is due *)

USE DEF Statuses, Written, Places, Loading, Opened

\* Look c will start auction a if a is due and waits: it is yet to be listed, or has a as due.
WillStart(c, a) == check[c] # NoCheck /\ (~check[c].listed \/ check[c].list[a] = "due")

\* A start of a was written, and is on its way to the row.
StartIsSent(a) == writes[a]["PROGRESS"] > 0

\* An auction that is due and waits is not forgotten on its way: a look under way still
\* has it, or its start is sent, until its row says so.  Only the end of the process
\* takes both away.
DueIsKept ==
    [][\A a \in Auctions :
          eventDate[a] = "due" /\ status[a] = "WAIT" /\ ~ServerDies =>
              /\ \A c \in Checks : WillStart(c, a) => WillStart(c, a)' \/ StartIsSent(a)'
              /\ StartIsSent(a) => StartIsSent(a)' \/ status'[a] # "WAIT"]_autoVars

\* Writes that were sent are under way, and those before them still are.
LEMMA StartsSend ==
    ASSUME AutoTypeOK, NEW S \in SUBSET Auctions, StartAuctions(S)
    PROVE  /\ \A a \in S : StartIsSent(a)'
           /\ \A a \in Auctions : StartIsSent(a) => StartIsSent(a)'
<1>1. /\ \A a \in Auctions, t \in Written : writes'[a][t] >= writes[a][t]
      /\ \A a \in S : writes'[a]["PROGRESS"] > 0
      /\ writes' \in [Auctions -> [Written -> 0..MaxWrites]]
  BY SentKeeps DEF StartAuctions, AutoTypeOK, RegistryTypeOK
<1>2. ASSUME NEW a \in Auctions
      PROVE  writes[a]["PROGRESS"] \in Nat /\ writes'[a]["PROGRESS"] \in Nat
  BY <1>1, RegistryBounds DEF AutoTypeOK, RegistryTypeOK
<1>3. QED
  BY <1>1, <1>2 DEF StartIsSent

\* A start that was sent is under way until it reaches the row.
LEMMA SentIsKept ==
    ASSUME AutoTypeOK, [AutoNext]_autoVars, ~ServerDies, NEW a \in Auctions,
           status[a] = "WAIT", StartIsSent(a)
    PROVE  StartIsSent(a)' \/ status'[a] # "WAIT"
<1>1. CASE UNCHANGED writes
  BY <1>1 DEF StartIsSent
<1>2. ASSUME NEW S \in SUBSET Auctions, StartAuctions(S)
      PROVE  StartIsSent(a)'
  BY <1>2, StartsSend
<1>3. ASSUME NEW s \in Written, NEW b \in Auctions, writes' = Sent(writes, s, {b})
      PROVE  StartIsSent(a)'
  <2>1. /\ writes'[a]["PROGRESS"] >= writes[a]["PROGRESS"]
        /\ writes' \in [Auctions -> [Written -> 0..MaxWrites]]
    <3>1. {b} \in SUBSET Auctions
      OBVIOUS
    <3>2. QED
      BY <1>3, <3>1, SentKeeps DEF AutoTypeOK, RegistryTypeOK
  <2>2. writes[a]["PROGRESS"] \in Nat /\ writes'[a]["PROGRESS"] \in Nat
    BY <2>1, RegistryBounds DEF AutoTypeOK, RegistryTypeOK
  <2>3. QED
    BY <2>1, <2>2 DEF StartIsSent
<1>4. ASSUME NEW b \in Auctions, NEW s \in Written, WriteLands(b, s)
      PROVE  StartIsSent(a)' \/ status'[a] # "WAIT"
  <2>1. /\ writes' = [writes EXCEPT ![b][s] = @ - 1]
        /\ status' = [status EXCEPT ![b] = IF @ = "REMOVED" THEN @ ELSE s]
    BY <1>4 DEF WriteLands
  <2>2. CASE b = a
    <3>1. status'[a] = s
      BY <2>1, <2>2 DEF AutoTypeOK, RegistryTypeOK
    <3>2. QED
      BY <3>1
  <2>3. CASE b # a
    <3>1. writes'[a] = writes[a]
      BY <2>1, <2>3 DEF AutoTypeOK, RegistryTypeOK
    <3>2. QED
      BY <3>1 DEF StartIsSent
  <2>4. QED
    BY <2>2, <2>3
<1>5. CASE ActivateTimer \/ DeactivateTimer \/ StopRepeat
  BY <1>1, <1>5 DEF ActivateTimer, DeactivateTimer, StopRepeat, registryVars
<1>6. ASSUME NEW c \in Checks, ListWaiting(c) \/ WaitingListed(c)
      PROVE  StartIsSent(a)'
  <2>1. Due(check[c].list) \in SUBSET Auctions
    BY DEF Due
  <2>2. QED
    BY <1>1, <1>2, <1>6, <2>1 DEF ListWaiting, WaitingListed, registryVars, StartIsSent
<1>7. CASE \E t \in Timers : CheckInterval(t) \/ RepeatInterval(t)
  BY <1>1, <1>2, <1>7 DEF CheckInterval, RepeatInterval, registryVars, StartIsSent
<1>8. CASE \E b \in Auctions : TimeoutFires(b) \/ RepeatAuction(b) \/ OwnerStarts(b)
  BY <1>2, <1>8 DEF TimeoutFires, RepeatAuction, OwnerStarts
<1>9. CASE \E b \in Auctions : TimePasses(b) \/ PatchRow(b)
  BY <1>1, <1>9 DEF TimePasses, PatchRow, PatchAuction, registryVars
<1>10. CASE RegistryMoves
  <2>1. CASE Load
    <3>1. ASSUME NEW b \in Auctions, NEW r \in Rooms, OpenRoom(b, r)
          PROVE  StartIsSent(a)'
      <4>1. writes' = Sent(writes, "PROGRESS", {b})
        BY <3>1 DEF OpenRoom
      <4>2. QED
        BY <1>3, <4>1
    <3>2. QED
      BY <1>1, <2>1, <3>1 DEF Load, AuctionRow
  <2>2. CASE Settle
    <3>1. ASSUME NEW b \in Auctions, NEW r \in Rooms, CloseRoom(b, r)
          PROVE  StartIsSent(a)'
      <4>1. writes' = Sent(writes, "END", {b})
        BY <3>1 DEF CloseRoom
      <4>2. QED
        BY <1>3, <4>1
    <3>2. QED
      BY <1>4, <2>2, <3>1 DEF Settle
  <2>3. CASE \E b \in Auctions : Remove(b)
    BY <1>1, <2>3 DEF Remove
  <2>4. QED
    BY <1>10, <2>1, <2>2, <2>3 DEF RegistryMoves
<1>11. CASE UNCHANGED autoVars
  BY <1>1, <1>11 DEF autoVars, registryVars
<1>12. QED
  BY <1>5, <1>6, <1>7, <1>8, <1>9, <1>10, <1>11 DEF AutoNext, TimersMove

\* A look that will start a due auction keeps it, or starts it.
LEMMA LookKeepsDue ==
    ASSUME AutoTypeOK, [AutoNext]_autoVars, ~ServerDies, NEW a \in Auctions,
           eventDate[a] = "due", status[a] = "WAIT", NEW c \in Checks, WillStart(c, a)
    PROVE  WillStart(c, a)' \/ StartIsSent(a)'
<1>1. CASE check'[c] = check[c]
  BY <1>1 DEF WillStart, NoCheck, NoList
<1>2. CASE ActivateTimer \/ \E t \in Timers : CheckInterval(t)
  <2>1. check'[c] = check[c]
    BY <1>2 DEF ActivateTimer, CheckInterval, StartAuctionTimers, WillStart, AutoTypeOK
  <2>2. QED
    BY <1>1, <2>1
<1>3. ASSUME NEW d \in Checks, ListWaiting(d)
      PROVE  WillStart(c, a)' \/ StartIsSent(a)'
  <2>1. CASE d # c
    <3>1. check'[c] = check[c]
      BY <1>3, <2>1 DEF ListWaiting, AutoTypeOK
    <3>2. QED
      BY <1>1, <3>1
  <2>2. CASE d = c
    <3> DEFINE seen == [b \in Auctions |-> IF status[b] = "WAIT" THEN eventDate[b] ELSE "unlisted"]
               answer == [check[c] EXCEPT !.listed = TRUE, !.list = seen]
    <3>1. check' = [check EXCEPT ![c] = answer] /\ check[c] \in CheckType
      BY <1>3, <2>2 DEF ListWaiting, AutoTypeOK
    <3>2. check'[c] = answer
      BY <3>1 DEF AutoTypeOK
    <3>3. answer.listed = TRUE /\ answer.list = seen
      BY <3>1 DEF CheckType
    <3>4. seen[a] = "due"
      OBVIOUS
    <3>5. check'[c].listed = TRUE /\ check'[c].list[a] = "due"
      BY <3>2, <3>3, <3>4
    <3>6. check'[c] # NoCheck
      BY <3>5 DEF NoCheck
    <3>7. QED
      BY <3>5, <3>6 DEF WillStart, NoCheck, NoList
  <2>3. QED
    BY <2>1, <2>2
<1>4. ASSUME NEW d \in Checks, WaitingListed(d)
      PROVE  WillStart(c, a)' \/ StartIsSent(a)'
  <2>1. CASE d # c
    <3>1. check'[c] = check[c]
      BY <1>4, <2>1 DEF WaitingListed, AutoTypeOK
    <3>2. QED
      BY <1>1, <3>1
  <2>2. CASE d = c
    <3>1. a \in Due(check[c].list)
      BY <1>4, <2>2 DEF WaitingListed, WillStart, Due
    <3>2. StartAuctions(Due(check[c].list)) /\ Due(check[c].list) \in SUBSET Auctions
      BY <1>4, <2>2, <3>1 DEF WaitingListed, Due
    <3>3. QED
      BY <3>1, <3>2, StartsSend
  <2>3. QED
    BY <2>1, <2>2
<1>5. CASE UNCHANGED check
  BY <1>1, <1>5
<1>6. QED
  BY <1>2, <1>3, <1>4, <1>5
  DEF AutoNext, TimersMove, DeactivateTimer, StopRepeat, RepeatInterval, TimeoutFires, RepeatAuction,
      OwnerStarts, TimePasses, PatchRow, RegistryMoves, autoVars, timerVars

\* While the process lives an auction that is due is started by the look that is under way
\* or by the one that follows, whatever else is listed, timed out, patched or started
\* between the query and its answer (game.service.ts:180-201).
THEOREM NoDueIsForgotten == AutoSpec => DueIsKept
<1>1. AutoTypeOK /\ [AutoNext]_autoVars =>
        \A a \in Auctions :
          eventDate[a] = "due" /\ status[a] = "WAIT" /\ ~ServerDies =>
              /\ \A c \in Checks : WillStart(c, a) => WillStart(c, a)' \/ StartIsSent(a)'
              /\ StartIsSent(a) => StartIsSent(a)' \/ status'[a] # "WAIT"
  BY SentIsKept, LookKeepsDue
<1>2. QED
  BY <1>1, AutoTypes, PTL DEF DueIsKept, AutoSpec
=============================================================================
