---------------------------- MODULE TimeReduction ----------------------------
(***************************************************************************)
(* How much time a bid by percent takes away: AuctionTimeService            *)
(* (game/services/game.time.service.ts) for one auction.                    *)
(*                                                                         *)
(* A call asks Redis three times: for the last reductions, for the history *)
(* once more to add itself, and to save it.  The answers and the commands  *)
(* of all calls share one connection, so Redis serves them in the order in *)
(* which they were sent; between two commands of one call those of others  *)
(* come in.  The call is made by the phase 1 listener, which nobody awaits: *)
(* a command that is refused or times out ends the process.                 *)
(***************************************************************************)
EXTENDS Integers, Sequences, SequencesExt, FiniteSetsExt

CONSTANTS
    Times,       \* the remaining times, in seconds, a call may be made with: below
                 \* zero too, as reduceTime subtracts unchecked
    Increases,   \* by how many percent a bid may raise the price
    Rate,        \* increase |-> the reduction rate, in percent
    Threshold,   \* MINIMUM_INCREASE_THRESHOLD, in percent
    Window,      \* the seconds a reduction is recent for
    Cap,         \* how many reductions are kept
    MaxCalls,    \* BOUND on the calls made
    MaxNow       \* BOUND on the seconds that pass

Calls == 1..MaxCalls

ASSUME TimesAssumption == Times \subseteq Int /\ Increases \subseteq Nat

\* calculateTimeReductionRate: nothing below the threshold, never more than half.
ASSUME RateAssumption ==
    /\ Rate \in [Increases -> 0..50]
    /\ Threshold \in Nat
    /\ \A i \in Increases : i < Threshold => Rate[i] = 0

ASSUME ReductionBounds ==
    /\ Window \in Nat
    /\ Cap \in Nat \ {0}
    /\ MaxCalls \in Nat
    /\ MaxNow \in Nat

VARIABLES
    history,   \* the list in Redis, of the calls that added themselves
    now,       \* Date.now(), in seconds
    pipe,      \* the calls whose command is under way, in the order of sending
    at,        \* call |-> the command it waits for
    asked,     \* call |-> the time and the increase it was made with
    taken,     \* call |-> timeReduction
    seen,      \* call |-> the list it will save
    stamp,     \* call |-> the timestamp of its entry
    missed     \* HISTORY: call |-> the calls about to save when it read the list

reductionVars == <<history, now, pipe, at, asked, taken, seen, stamp, missed>>

-----------------------------------------------------------------------------
(* Data *)

Idle == "idle"
UnderWay == {"last", "all", "save"}
Points == {Idle, "answered", "lost"} \cup UnderWay
Question == [time : Times, increase : Increases]
NoQuestion == [time |-> 0]

ReductionTypeOK ==
    /\ history \in Seq(Calls) /\ Len(history) <= Cap
    /\ now \in 0..MaxNow
    /\ pipe \in Seq(Calls)
    /\ at \in [Calls -> Points]
    /\ asked \in [Calls -> Question \cup {NoQuestion}]
    /\ taken \in [Calls -> Int]
    /\ seen \in [Calls -> Seq(Calls)]
    /\ stamp \in [Calls -> 0..MaxNow]

\* The entries of a list.
Entries(list) == ToSet(list)

ReductionInit ==
    /\ history = <<>>
    /\ now = 0
    /\ pipe = <<>>
    /\ at = [c \in Calls |-> Idle]
    /\ asked = [c \in Calls |-> NoQuestion]
    /\ taken = [c \in Calls |-> 0]
    /\ seen = [c \in Calls |-> <<>>]
    /\ stamp = [c \in Calls |-> 0]
    /\ missed = [c \in Calls |-> {}]

\* Mutant: every entry counts, however old.
AnyEntry == Entries(history)

\* The entries of the last five seconds.
Recent == {c \in Entries(history) : stamp[c] > now - Window}

\* recentReductions[0]: the latest entry; of equal ones the one that stands first,
\* as the sort is stable.
LastReduction ==
    LET latest == Max({stamp[c] : c \in Recent})
    IN  history[Min({i \in 1..Len(history) : history[i] \in Recent /\ stamp[history[i]] = latest})]

\* The share of a time, rounded up: the answer is rounded down.
Share(time, percent) == (time * percent + 99) \div 100

\* calculateActualTimeReduction: a bid that raises more than the last one is
\* counted against the time before that one.
ActualReduction(c) ==
    LET q == asked[c] IN
    IF Recent # {} /\ q.increase > asked[LastReduction].increase
    THEN Share(asked[LastReduction].time, Rate[q.increase])
    ELSE Share(q.time, Rate[q.increase])

\* What calculateNewRemainingTime returns.
Answer(c) == Max({asked[c].time - taken[c], 0})

\* slice(-100)
Trimmed(list) == SubSeq(list, Max({1, Len(list) - Cap + 1}), Len(list))

\* Mutant: the list is replaced by the newest entry.
PushedAlone(list, c) == <<c>>

\* Mutant: the newest entry is put first.
PutFirst(list, c) == <<c>> \o list

\* history.push
Pushed(list, c) == Append(list, c)

-----------------------------------------------------------------------------
(* The calls *)

\* The command at the head of the connection is that of call c, at point p.
Serves(c, p) == pipe # <<>> /\ c = Head(pipe) /\ at[c] = p

\* Mutant: a call that takes nothing away sends no second command.
SendsIfTaken(c) == IF taken[c] = 0 THEN Tail(pipe) ELSE Append(Tail(pipe), c)

\* The command at the head is done, call c sends its next one.
Sends(c) == Append(Tail(pipe), c)

\* calculateNewRemainingTime, up to the first GET.
Ask(c, time, increase) ==
    /\ at[c] = Idle
    /\ \A d \in Calls : d < c => at[d] # Idle
    /\ asked' = [asked EXCEPT ![c] = [time |-> time, increase |-> increase]]
    /\ at' = [at EXCEPT ![c] = "last"]
    /\ pipe' = Append(pipe, c)
    /\ UNCHANGED <<history, now, taken, seen, stamp, missed>>

\* The first GET: the reduction is computed, the second GET is sent.
GetLast(c) ==
    /\ Serves(c, "last")
    /\ taken' = [taken EXCEPT ![c] = ActualReduction(c)]
    /\ at' = [at EXCEPT ![c] = "all"]
    /\ pipe' = Sends(c)
    /\ UNCHANGED <<history, now, asked, seen, stamp, missed>>

\* The calls whose SET is on its way.
AboutToSave == {d \in Calls : at[d] = "save"}

\* The second GET: the call adds itself to the list, the SET is sent.
GetAll(c) ==
    /\ Serves(c, "all")
    /\ stamp' = [stamp EXCEPT ![c] = now]
    /\ seen' = [seen EXCEPT ![c] = Trimmed(Pushed(history, c))]
    /\ missed' = [missed EXCEPT ![c] = AboutToSave]
    /\ at' = [at EXCEPT ![c] = "save"]
    /\ pipe' = Sends(c)
    /\ UNCHANGED <<history, now, asked, taken>>

\* The SET: the list is replaced, the call answers.
Save(c) ==
    /\ Serves(c, "save")
    /\ history' = seen[c]
    /\ at' = [at EXCEPT ![c] = "answered"]
    /\ pipe' = Tail(pipe)
    /\ UNCHANGED <<now, asked, taken, seen, stamp, missed>>

PassTime ==
    /\ now < MaxNow
    /\ now' = now + 1
    /\ UNCHANGED <<history, pipe, at, asked, taken, seen, stamp, missed>>

\* The key is gone, 24 hours after it was last set.
Expire ==
    /\ Recent = {}
    /\ history' = <<>>
    /\ UNCHANGED <<now, pipe, at, asked, taken, seen, stamp, missed>>

\* A command is refused or times out after five seconds, or the process dies for
\* another reason: its calls are lost, a SET that was sent may still be done.
ProcessEnds ==
    /\ history' \in {history} \cup {seen[c] : c \in AboutToSave}
    /\ at' = [c \in Calls |-> IF at[c] \in UnderWay THEN "lost" ELSE at[c]]
    /\ pipe' = <<>>
    /\ UNCHANGED <<now, asked, taken, seen, stamp, missed>>

Redis == \E c \in Calls : GetLast(c) \/ GetAll(c) \/ Save(c)

ReductionNext ==
    \/ \E c \in Calls, t \in Times, i \in Increases : Ask(c, t, i)
    \/ Redis \/ PassTime \/ Expire \/ ProcessEnds

\* Redis answers, or the command times out.
ReductionFairness == WF_reductionVars(Redis)

ReductionSpec == ReductionInit /\ [][ReductionNext]_reductionVars
FairReductionSpec == ReductionSpec /\ ReductionFairness
-----------------------------------------------------------------------------
(* Properties *)

\* Alone for the length of the window a bid is answered between half of the time and
\* all of it, and a clock below zero with zero: only what was bid in the last five
\* seconds makes it count against another time, which may take more than half, or,
\* if that clock was below zero, give time back (game.time.service.ts:87-112, 145).
AloneTakesAtMostHalf ==
    [][\A c \in Calls :
            at[c] = "last" /\ at'[c] = "all"
            /\ (\A d \in Entries(history) : stamp[d] <= now - Window)
                => Answer(c)' \in (asked[c].time \div 2)..Max({asked[c].time, 0})]_reductionVars

\* The list is in the order of the timestamps, whatever the calls overlap with: each
\* call that reads it sorts it again and takes the first (game.time.service.ts:90).
HistorySorted ==
    \A i, j \in 1..Len(history) : i <= j => stamp[history[i]] <= stamp[history[j]]

\* An entry is lost only to a call that read the list while the SET of another one
\* was on its way, or because a hundred newer ones were kept; calls that follow one
\* another lose nothing (game.time.service.ts:132-143).
LostOnlyToOverlap ==
    \A c \in Calls : at[c] = "save" /\ missed[c] = {} =>
        \A d \in Entries(history) \ Entries(seen[c]) :
            /\ Len(seen[c]) = Cap
            /\ \A e \in Entries(seen[c]) : stamp[d] <= stamp[e]

\* Every call is answered, unless the process ends: the listener that waits for it
\* sets the clock (game.lifecycle.ts:84-98).
CallsAreAnswered ==
    \A c \in Calls : at[c] = "last" ~> at[c] \in {"answered", "lost"}
=============================================================================
