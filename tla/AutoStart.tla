----------------------------- MODULE AutoStart -----------------------------
(***************************************************************************)
(* Who calls startAuction: the timers of GameService that look for due     *)
(* auctions every ten minutes, arm a timeout for those due before the next *)
(* look, or start one auction again and again, and the owner               *)
(* (game.service.ts:177-259, game.controller.ts).  Composed with the       *)
(* registry, whose StartAuctions they all end in.                          *)
(***************************************************************************)
EXTENDS GameRegistry

CONSTANTS
    MaxTimers,    \* BOUND on the setIntervals alive
    MaxChecks,    \* BOUND on the calls of startAuctionTimers that wait
    MaxArmed      \* BOUND on equal timeouts: this many stand for more

Timers == 1..MaxTimers
NoTimer == 0
Checks == 1..MaxChecks

ASSUME AutoStartBounds ==
    /\ MaxTimers \in Nat /\ MaxChecks \in Nat
    /\ MaxArmed \in Nat \ {0}

\* Ids are UUIDs: none of them is a word of this module.
ASSUME AuctionIds == Auctions \cap {"none", "check"} = {}

VARIABLES
    eventDate,       \* auction |-> how far its date is from now
    timer,           \* this.timer
    repeatTimer,     \* this.autoRepeatAuctionTimer
    job,             \* setInterval |-> what its callback does: a check, an auction
    check,           \* call of startAuctionTimers |-> who waits, for which answer
    armed            \* auction |-> its setTimeouts

timerVars == <<timer, repeatTimer, job, check, armed>>
autoVars == <<registryVars, eventDate, timerVars>>

-----------------------------------------------------------------------------
(* Data *)

\* More than 600000 ms away, less, passed.
Dates == {"far", "soon", "due"}

\* A call of startAuctionTimers: its query is on its way, or the database has listed
\* the waiting auctions with their dates.  The list is read with the clock of the
\* moment it was made: that time passes before the answer arrives changes nothing
\* that a later query would not show.
NoList == [a \in Auctions |-> "unlisted"]
NoCheck == [caller |-> "none", listed |-> FALSE, list |-> NoList]
Asked(caller) == [caller |-> caller, listed |-> FALSE, list |-> NoList]
CheckType ==
    [caller: {"none", "activate", "interval"}, listed: BOOLEAN,
     list: [Auctions -> Dates \cup {"unlisted"}]]

AutoTypeOK ==
    /\ RegistryTypeOK
    /\ eventDate \in [Auctions -> Dates]
    /\ timer \in Timers \cup {NoTimer}
    /\ repeatTimer \in Timers \cup {NoTimer}
    /\ job \in [Timers -> {"none", "check"} \cup Auctions]
    /\ check \in [Checks -> CheckType]
    /\ armed \in [Auctions -> 0..MaxArmed]

NoTimers ==
    /\ timer = NoTimer /\ repeatTimer = NoTimer
    /\ job = [t \in Timers |-> "none"]
    /\ check = [c \in Checks |-> NoCheck]
    /\ armed = [a \in Auctions |-> 0]

AutoInit == RegistryInit /\ eventDate \in [Auctions -> Dates] /\ NoTimers

\* The first free place of a setInterval.
FreeTimer(t) == job[t] = "none" /\ \A u \in 1..(t - 1) : job[u] # "none"

-----------------------------------------------------------------------------
(* Looking for auctions that are due *)

\* startAuctionTimers up to its query.
StartAuctionTimers(caller) ==
    \E c \in Checks :
        /\ check[c] = NoCheck
        /\ \A d \in 1..(c - 1) : check[d] # NoCheck
        /\ check' = [check EXCEPT ![c] = Asked(caller)]

\* activateAutoStartAuctionTimer, intervalAuctionCheck: this.timer is set only when
\* the first look is over.
ActivateTimer ==
    /\ timer = NoTimer
    /\ StartAuctionTimers("activate")
    /\ UNCHANGED <<registryVars, eventDate, timer, repeatTimer, job, armed>>

\* Mutant: the handle of the interval that was cleared is kept.
HandleKept(t) == t

\* this.timer = null
HandleCleared(t) == NoTimer

DeactivateTimer ==
    /\ timer # NoTimer
    /\ job' = [job EXCEPT ![timer] = "none"]
    /\ timer' = HandleCleared(timer)
    /\ UNCHANGED <<registryVars, eventDate, repeatTimer, check, armed>>

\* getWaitAuctions as the database sees it.
ListWaiting(c) ==
    /\ check[c] # NoCheck /\ ~check[c].listed
    /\ check' = [check EXCEPT
                   ![c].listed = TRUE,
                   ![c].list = [a \in Auctions |->
                       IF status[a] = "WAIT" THEN eventDate[a] ELSE "unlisted"]]
    /\ UNCHANGED <<registryVars, eventDate, timer, repeatTimer, job, armed>>

\* Mutant: an auction whose date has passed is left out.
DueLeftOut(list) == {}

\* timeDifference <= 0
Due(list) == {a \in Auctions : list[a] = "due"}

\* timeDifference <= 600000 and > 0
Soon(list) == {a \in Auctions : list[a] = "soon"}

Arm(S) == [a \in Auctions |->
              IF a \in S /\ armed[a] < MaxArmed THEN armed[a] + 1 ELSE armed[a]]

\* The answer arrives: the loop over the auctions listed, and the rest of
\* intervalAuctionCheck when that is the caller.
WaitingListed(c) ==
    LET list == check[c].list
    IN  /\ check[c].listed
        /\ IF Due(list) = {} THEN UNCHANGED registryVars ELSE StartAuctions(Due(list))
        /\ armed' = Arm(Soon(list))
        /\ check' = [check EXCEPT ![c] = NoCheck]
        /\ IF check[c].caller = "activate"
             THEN \E t \in Timers :
                    /\ FreeTimer(t)
                    /\ job' = [job EXCEPT ![t] = "check"]
                    /\ timer' = t
             ELSE UNCHANGED <<job, timer>>
        /\ UNCHANGED <<eventDate, repeatTimer>>

CheckInterval(t) ==
    /\ job[t] = "check"
    /\ StartAuctionTimers("interval")
    /\ UNCHANGED <<registryVars, eventDate, timer, repeatTimer, job, armed>>

\* Mutant: the timeout launches the auction without asking the maps.
TimeoutLaunches(a) ==
    /\ armed[a] > 0
    /\ armed' = [armed EXCEPT ![a] = @ - 1]
    /\ writes' = Sent(writes, "PROGRESS", {a})
    /\ ready' = ready \cup {a}
    /\ NewRooms({a})
    /\ UNCHANGED <<status, running, eventDate, timer, repeatTimer, job, check>>

\* A timeout armed by startAuctionTimers fires at the date that was listed.
TimeoutFires(a) ==
    /\ armed[a] > 0
    /\ armed' = [armed EXCEPT ![a] = @ - 1]
    /\ StartAuctions({a})
    /\ UNCHANGED <<eventDate, timer, repeatTimer, job, check>>

-----------------------------------------------------------------------------
(* Repeating, the owner, time and failures *)

\* startAutoRepeatAuctions([a])
RepeatAuction(a) ==
    /\ StartAuctions({a})
    /\ \E t \in Timers :
          /\ FreeTimer(t)
          /\ job' = [job EXCEPT ![t] = a]
          /\ repeatTimer' = t
    /\ UNCHANGED <<eventDate, timer, check, armed>>

RepeatInterval(t) ==
    /\ job[t] \in Auctions
    /\ StartAuctions({job[t]})
    /\ UNCHANGED <<eventDate, timerVars>>

\* stopAutoRepeatAuctions
StopRepeat ==
    /\ repeatTimer # NoTimer
    /\ job' = [job EXCEPT ![repeatTimer] = "none"]
    /\ repeatTimer' = HandleCleared(repeatTimer)
    /\ UNCHANGED <<registryVars, eventDate, timer, check, armed>>

\* GET game/start/:id, once isOwner has answered.
OwnerStarts(a) ==
    /\ StartAuctions({a})
    /\ UNCHANGED <<eventDate, timerVars>>

TimePasses(a) ==
    /\ eventDate[a] # "due"
    /\ eventDate' = [eventDate EXCEPT ![a] = IF @ = "far" THEN "soon" ELSE "due"]
    /\ UNCHANGED <<registryVars, timerVars>>

\* The timers are gone with the process; a new one has none.
ServerDies ==
    /\ Dies
    /\ timer' = NoTimer /\ repeatTimer' = NoTimer
    /\ job' = [t \in Timers |-> "none"]
    /\ check' = [c \in Checks |-> NoCheck]
    /\ armed' = [a \in Auctions |-> 0]
    /\ UNCHANGED eventDate

\* PATCH auction/:id changes the date as well.
PatchRow(a) ==
    /\ \E s \in Patched : PatchAuction(a, s)
    /\ \E d \in Dates : eventDate' = [eventDate EXCEPT ![a] = d]
    /\ UNCHANGED timerVars

RegistryMoves ==
    /\ Load \/ Settle \/ \E a \in Auctions : Remove(a)
    /\ UNCHANGED <<eventDate, timerVars>>

StatusWritten(a) == WriteLands(a, "PROGRESS") /\ UNCHANGED <<eventDate, timerVars>>

TimersMove ==
    \/ ActivateTimer \/ DeactivateTimer
    \/ \E c \in Checks : ListWaiting(c) \/ WaitingListed(c)
    \/ \E t \in Timers : CheckInterval(t) \/ RepeatInterval(t)
    \/ \E a \in Auctions : TimeoutFires(a) \/ RepeatAuction(a)
    \/ StopRepeat

AutoNext ==
    \/ TimersMove
    \/ \E a \in Auctions : OwnerStarts(a) \/ TimePasses(a) \/ PatchRow(a)
    \/ RegistryMoves
    \/ ServerDies

\* Node fires intervals, the database answers a look and does its writes.
AutoFairness ==
    /\ WF_autoVars(\E t \in Timers : CheckInterval(t))
    /\ \A c \in Checks : WF_autoVars(ListWaiting(c)) /\ WF_autoVars(WaitingListed(c))
    /\ \A a \in Auctions : WF_autoVars(StatusWritten(a))

AutoSpec == AutoInit /\ [][AutoNext]_autoVars
FairAutoSpec == AutoSpec /\ AutoFairness

-----------------------------------------------------------------------------
(* Properties *)

\* deactivateAutoStartAuctionTimer and stopAutoRepeatAuctions clear an interval that
\* is alive and is their own: the handles never outlive their intervals and are never
\* crossed, whatever is activated twice (game.service.ts:208-259).
HandlesAreLive ==
    /\ timer # NoTimer => job[timer] = "check"
    /\ repeatTimer # NoTimer => job[repeatTimer] \in Auctions

\* The inductive invariant of the proofs: handles are handles of intervals.
HandleInv ==
    /\ timer \in Timers \cup {NoTimer}
    /\ repeatTimer \in Timers \cup {NoTimer}
    /\ job \in [Timers -> {"none", "check"} \cup Auctions]
    /\ HandlesAreLive

\* However the timers, the repeats and the owner race, all they do to the auctions is
\* what the registry allows (GameRegistry): its theorems hold of this server.
ImplementsRegistry == RegistrySpec

\* While the timer stays activated and the process alive, an auction whose date has
\* passed does not wait for ever (game.service.ts:180-201): a look that read the list
\* too early is followed by another.
DueIsStarted ==
    <>[][~ServerDies]_autoVars /\ <>[](timer # NoTimer) =>
        \A a \in Auctions :
            (eventDate[a] = "due" /\ status[a] = "WAIT")
                ~> (eventDate[a] # "due" \/ status[a] # "WAIT")
=============================================================================
