------------------------- MODULE TimeReductionProofs -------------------------
(***************************************************************************)
(* Proofs about TimeReduction, for any number of calls, any times and rates, *)
(* any window and any length of the history.  What they rest on is the       *)
(* connection: the commands of the calls are served as they were sent.       *)
(***************************************************************************)
EXTENDS TimeReduction, WellFoundedInduction, SequenceTheorems, TLAPS

-----------------------------------------------------------------------------
(* The inductive invariant *)

ListsTypeOK ==
    /\ history \in Seq(Calls)
    /\ now \in Nat
    /\ pipe \in Seq(Calls)
    /\ at \in [Calls -> Points]
    /\ asked \in [Calls -> Question \cup {NoQuestion}]
    /\ DOMAIN taken = Calls
    /\ seen \in [Calls -> Seq(Calls)]
    /\ stamp \in [Calls -> Nat]
    /\ missed \in [Calls -> SUBSET Calls]

\* A call that waits for Redis has one command on the connection, the others none.
OneCommandEach ==
    /\ \A i \in 1..Len(pipe) : at[pipe[i]] \in UnderWay
    /\ \A i, j \in 1..Len(pipe) : pipe[i] = pipe[j] => i = j
    /\ \A c \in Calls : at[c] \in UnderWay => \E i \in 1..Len(pipe) : pipe[i] = c

\* Of two lists on their way, the one behind was read when the other was sent.
SavesInTurn ==
    \A i, j \in 1..Len(pipe) :
        i < j /\ at[pipe[i]] = "save" /\ at[pipe[j]] = "save" => pipe[i] \in missed[pipe[j]]

ConnectionInv == OneCommandEach /\ SavesInTurn

Finished == {c \in Calls : at[c] \in {"answered", "lost"}}

\* A list of calls in the order of their stamps, none of them later than now.
Sorted(list, s) == \A i, j \in 1..Len(list) : i <= j => s[list[i]] <= s[list[j]]

\* The history has calls that are finished, a list on its way has its call besides.
ListsInv ==
    /\ \A i \in 1..Len(history) : history[i] \in Finished
    /\ \A c \in Calls : at[c] = "save" =>
           \A i \in 1..Len(seen[c]) : seen[c][i] \in Finished \cup {c}
    /\ \A c \in Calls : stamp[c] <= now
    /\ HistorySorted
    /\ \A c \in Calls : at[c] = "save" => Sorted(seen[c], stamp)
    /\ Len(history) <= Cap
    /\ \A c \in Calls : at[c] = "save" => Len(seen[c]) <= Cap

\* Nobody changes the history between the read and the save of a call that missed
\* nobody, unless it is gone.
UntouchedInv ==
    \A c \in Calls : at[c] = "save" /\ missed[c] = {} =>
        \/ history = <<>>
        \/ /\ seen[c] = Trimmed(Append(history, c))
           /\ \A i \in 1..Len(history) : stamp[history[i]] <= stamp[c]

\* Whoever waits has asked.
AskedInv == \A c \in Calls : at[c] # Idle => asked[c] \in Question

ReductionInv ==
    /\ ListsTypeOK
    /\ ConnectionInv
    /\ ListsInv
    /\ UntouchedInv
    /\ AskedInv

-----------------------------------------------------------------------------
(* The lists *)

\* A list with one more entry, cut to the newest Cap.
LEMMA TrimmedList ==
    ASSUME NEW list \in Seq(Calls), NEW c \in Calls, Len(list) <= Cap
    PROVE  LET t == Trimmed(Append(list, c))
               k == IF Len(list) = Cap THEN 1 ELSE 0 IN
           /\ t \in Seq(Calls) /\ Len(list) \in Nat
           /\ Len(t) = Len(list) + 1 - k /\ Len(t) <= Cap
           /\ t[Len(t)] = c
           /\ \A i \in 1..(Len(t) - 1) : i + k \in 1..Len(list) /\ t[i] = list[i + k]
<1> DEFINE l == Append(list, c)
           m == Max({1, Len(l) - Cap + 1})
           k == IF Len(list) = Cap THEN 1 ELSE 0
<1>1. Len(list) \in Nat /\ Cap \in Nat \ {0}
  BY ReductionBounds, LenProperties
<1>2. /\ l \in Seq(Calls) /\ Len(l) = Len(list) + 1 /\ l[Len(list) + 1] = c
      /\ \A i \in 1..Len(list) : l[i] = list[i]
  BY AppendProperties
<1>3. m = k + 1
  <2>1. m \in {1, Len(l) - Cap + 1} /\ \A x \in {1, Len(l) - Cap + 1} : m >= x
    <3>1. 1 >= Len(l) - Cap + 1 \/ Len(l) - Cap + 1 >= 1
      BY <1>1, <1>2
    <3>2. \E x \in {1, Len(l) - Cap + 1} : \A y \in {1, Len(l) - Cap + 1} : x >= y
      BY <1>1, <1>2, <3>1
    <3>3. QED
      BY <3>2 DEF Max
  <2>2. QED
    BY <1>1, <1>2, <2>1
<1> HIDE DEF m, l
<1>4. Trimmed(l) = SubSeq(l, k + 1, Len(list) + 1)
  BY <1>2, <1>3 DEF Trimmed, m
<1>5. k \in {0, 1} /\ k + 1 \in 1..(Len(list) + 1) /\ Len(list) + 1 \in 1..Len(l)
  BY <1>1, <1>2
<1>6. /\ Trimmed(l) \in Seq(Calls) /\ Len(Trimmed(l)) = Len(list) + 1 - k
      /\ \A i \in 1..(Len(list) + 1 - k) : Trimmed(l)[i] = l[k + i]
  BY <1>1, <1>2, <1>4, <1>5, SubSeqProperties
<1>7. QED
  BY <1>1, <1>2, <1>5, <1>6 DEF l

\* What is left of the connection when the command at its head is served.
LEMMA PipeServed ==
    ASSUME ListsTypeOK, OneCommandEach, NEW c \in Calls, pipe # <<>>, c = Head(pipe)
    PROVE  /\ Tail(pipe) \in Seq(Calls) /\ Len(Tail(pipe)) = Len(pipe) - 1
           /\ Len(pipe) \in Nat \ {0} /\ pipe[1] = c
           /\ \A i \in 1..(Len(pipe) - 1) :
                  Tail(pipe)[i] = pipe[i + 1] /\ pipe[i + 1] # c /\ i + 1 \in 1..Len(pipe)
<1>1. pipe \in Seq(Calls) /\ Len(pipe) \in Nat \ {0}
  BY EmptySeq, LenProperties DEF ListsTypeOK
<1>2. /\ Tail(pipe) \in Seq(Calls) /\ Len(Tail(pipe)) = Len(pipe) - 1
      /\ \A i \in 1..(Len(pipe) - 1) : Tail(pipe)[i] = pipe[i + 1]
  BY <1>1, HeadTailProperties
<1>3. pipe[1] = c
  BY <1>1
<1>4. \A i \in 1..(Len(pipe) - 1) : i + 1 \in 1..Len(pipe) /\ i + 1 # 1 /\ 1 \in 1..Len(pipe)
  BY <1>1
<1>5. \A i \in 1..(Len(pipe) - 1) : pipe[i + 1] # c
  BY <1>3, <1>4 DEF OneCommandEach
<1>6. QED
  BY <1>1, <1>2, <1>3, <1>4, <1>5

\* A command is put behind the others, by a call that had none: nothing is on its way
\* that it did not see.
LEMMA PipeAppended ==
    ASSUME NEW p \in Seq(Calls), NEW c \in Calls, NEW q \in UnderWay,
           \A i \in 1..Len(p) : p[i] # c /\ at[p[i]] \in UnderWay,
           \A i, j \in 1..Len(p) : p[i] = p[j] => i = j,
           \A d \in Calls \ {c} : at[d] \in UnderWay => \E i \in 1..Len(p) : p[i] = d,
           \A i, j \in 1..Len(p) :
               i < j /\ at[p[i]] = "save" /\ at[p[j]] = "save" => p[i] \in missed[p[j]],
           at \in [Calls -> Points], at' = [at EXCEPT ![c] = q],
           pipe' = Append(p, c),
           \A d \in Calls \ {c} : missed'[d] = missed[d],
           q = "save" => missed'[c] = {d \in Calls : at[d] = "save"}
    PROVE  ConnectionInv'
<1>1. Len(p) \in Nat /\ \A i \in 1..Len(p) : p[i] \in Calls
  BY LenProperties, ElementOfSeq
<1>2. /\ Len(pipe') = Len(p) + 1 /\ pipe'[Len(p) + 1] = c
      /\ \A i \in 1..Len(p) : pipe'[i] = p[i]
  BY AppendProperties
<1>3. at'[c] = q /\ \A d \in Calls : d # c => at'[d] = at[d]
  OBVIOUS
<1>4. \A i \in 1..Len(pipe') : i \in 1..Len(p) \/ i = Len(p) + 1
  BY <1>1, <1>2
<1>5. OneCommandEach'
  <2>1. \A i \in 1..Len(pipe') : at'[pipe'[i]] \in UnderWay
    BY <1>1, <1>2, <1>3, <1>4
  <2>2. \A i, j \in 1..Len(pipe') : pipe'[i] = pipe'[j] => i = j
    BY <1>2, <1>4
  <2>3. 1..Len(p) \subseteq 1..Len(pipe') /\ Len(p) + 1 \in 1..Len(pipe')
    BY <1>1, <1>2
  <2>4. \A d \in Calls : at'[d] \in UnderWay => \E i \in 1..Len(pipe') : pipe'[i] = d
    BY <1>2, <1>3, <2>3
  <2>5. QED
    BY <2>1, <2>2, <2>4 DEF OneCommandEach, UnderWay
<1>6. SavesInTurn'
  <2> SUFFICES ASSUME NEW i \in 1..Len(pipe'), NEW j \in 1..Len(pipe'), i < j,
                      at'[pipe'[i]] = "save", at'[pipe'[j]] = "save"
               PROVE  pipe'[i] \in missed'[pipe'[j]]
    BY DEF SavesInTurn
  <2>1. i \in 1..Len(p)
    BY <1>1, <1>2
  <2>2. p[i] \in Calls \ {c} /\ pipe'[i] = p[i] /\ at[p[i]] = "save"
    BY <1>1, <1>2, <1>3, <2>1
  <2>3. CASE j \in 1..Len(p)
    BY <1>1, <1>2, <1>3, <2>1, <2>2, <2>3
  <2>4. CASE j = Len(p) + 1
    BY <1>2, <1>3, <2>2, <2>4
  <2>5. QED
    BY <1>4, <2>3, <2>4
<1>7. QED
  BY <1>5, <1>6 DEF ConnectionInv

-----------------------------------------------------------------------------
(* The steps *)

\* The service begins in the invariant.
LEMMA ReductionStarts == ReductionInit => ReductionInv
<1> SUFFICES ASSUME ReductionInit PROVE ReductionInv
  OBVIOUS
<1> USE DEF ReductionInit
<1>1. ListsTypeOK
  BY DEF ListsTypeOK, Points, Idle
<1>2. ConnectionInv
  BY DEF ConnectionInv, OneCommandEach, SavesInTurn, UnderWay, Idle
<1>3. ListsInv
  BY ReductionBounds DEF ListsInv, HistorySorted, Idle
<1>4. UntouchedInv /\ AskedInv
  BY DEF UntouchedInv, AskedInv, Idle
<1>5. QED
  BY <1>1, <1>2, <1>3, <1>4 DEF ReductionInv

\* A call asks.
LEMMA AskKeeps ==
    ASSUME ReductionInv, NEW c \in Calls, NEW t \in Times, NEW i \in Increases, Ask(c, t, i)
    PROVE  ReductionInv'
<1> DEFINE q == [time |-> t, increase |-> i]
<1>1. /\ at[c] = Idle /\ asked' = [asked EXCEPT ![c] = q]
      /\ at' = [at EXCEPT ![c] = "last"] /\ pipe' = Append(pipe, c)
      /\ UNCHANGED <<history, now, taken, seen, stamp, missed>>
  BY DEF Ask
<1>2. q \in Question
  BY DEF Question
<1> HIDE DEF q
<1>3. pipe' \in Seq(Calls)
  BY <1>1, AppendProperties DEF ReductionInv, ListsTypeOK
<1>4. "last" \in Points /\ "last" \in UnderWay
  BY DEF Points, UnderWay
<1>5. /\ at'[c] = "last" /\ asked'[c] = q
      /\ \A d \in Calls : d # c => at'[d] = at[d] /\ asked'[d] = asked[d]
  BY <1>1 DEF ReductionInv, ListsTypeOK
<1>6. at' \in [Calls -> Points]
  BY <1>1, <1>4 DEF ReductionInv, ListsTypeOK
<1>7. ListsTypeOK'
  BY <1>1, <1>2, <1>3, <1>6 DEF ReductionInv, ListsTypeOK
<1>8. ConnectionInv'
  <2>1. pipe \in Seq(Calls) /\ at \in [Calls -> Points]
    BY DEF ReductionInv, ListsTypeOK
  <2>2. \A j \in 1..Len(pipe) : pipe[j] # c /\ at[pipe[j]] \in UnderWay
    BY <1>1 DEF ReductionInv, ConnectionInv, OneCommandEach, UnderWay, Idle
  <2>3. /\ \A j, k \in 1..Len(pipe) : pipe[j] = pipe[k] => j = k
        /\ \A d \in Calls \ {c} : at[d] \in UnderWay => \E j \in 1..Len(pipe) : pipe[j] = d
    BY DEF ReductionInv, ConnectionInv, OneCommandEach
  <2>4. \A j, k \in 1..Len(pipe) :
            j < k /\ at[pipe[j]] = "save" /\ at[pipe[k]] = "save" => pipe[j] \in missed[pipe[k]]
    BY DEF ReductionInv, ConnectionInv, SavesInTurn
  <2>5. QED
    BY <1>1, <1>4, <2>1, <2>2, <2>3, <2>4, PipeAppended
<1>9. \A d \in Calls : at'[d] = "save" => at[d] = "save"
  BY <1>5
<1>10. Finished \subseteq Finished'
  BY <1>1, <1>5 DEF Finished, Idle
<1>11. ListsInv'
  BY <1>1, <1>9, <1>10 DEF ReductionInv, ListsInv, HistorySorted, Sorted
<1>12. UntouchedInv' /\ AskedInv'
  BY <1>1, <1>2, <1>5, <1>9 DEF ReductionInv, UntouchedInv, AskedInv, Trimmed
<1>13. QED
  BY <1>7, <1>8, <1>11, <1>12 DEF ReductionInv

\* A call sends its next command: the first part of GetLast and of GetAll.
LEMMA SendKeeps ==
    ASSUME ReductionInv, NEW c \in Calls, NEW p \in UnderWay, NEW q \in UnderWay,
           Serves(c, p), p # "save", at' = [at EXCEPT ![c] = q], pipe' = Sends(c),
           \A d \in Calls \ {c} : missed'[d] = missed[d],
           q = "save" => missed'[c] = AboutToSave
    PROVE  ConnectionInv' /\ pipe' \in Seq(Calls) /\ at' \in [Calls -> Points]
<1> DEFINE rest == Tail(pipe)
<1>1. /\ rest \in Seq(Calls) /\ Len(rest) = Len(pipe) - 1
      /\ Len(pipe) \in Nat \ {0} /\ pipe[1] = c
      /\ \A i \in 1..(Len(pipe) - 1) :
             rest[i] = pipe[i + 1] /\ pipe[i + 1] # c /\ i + 1 \in 1..Len(pipe)
  BY PipeServed DEF ReductionInv, ConnectionInv, Serves
<1> HIDE DEF rest
<1>2. at \in [Calls -> Points] /\ q \in Points
  BY DEF ReductionInv, ListsTypeOK, Points
<1>3. \A i \in 1..Len(rest) : rest[i] # c /\ at[rest[i]] \in UnderWay
  BY <1>1 DEF ReductionInv, ConnectionInv, OneCommandEach
<1>4. \A i, j \in 1..Len(rest) : rest[i] = rest[j] => i = j
  <2> SUFFICES ASSUME NEW i \in 1..Len(rest), NEW j \in 1..Len(rest),
                      rest[i] = rest[j]
               PROVE  i = j
    OBVIOUS
  <2>1. i + 1 = j + 1
    BY <1>1 DEF ReductionInv, ConnectionInv, OneCommandEach
  <2>2. QED
    BY <1>1, <2>1
<1>5. ASSUME NEW d \in Calls \ {c}, at[d] \in UnderWay
      PROVE  \E i \in 1..Len(rest) : rest[i] = d
  <2>1. PICK j \in 1..Len(pipe) : pipe[j] = d
    BY <1>5 DEF ReductionInv, ConnectionInv, OneCommandEach
  <2>2. j # 1 /\ j - 1 \in 1..Len(rest) /\ (j - 1) + 1 = j
    BY <1>1, <1>5, <2>1
  <2>3. rest[j - 1] = d
    BY <1>1, <2>1, <2>2
  <2>4. QED
    BY <2>2, <2>3
<1>6. \A i, j \in 1..Len(rest) :
          i < j /\ at[rest[i]] = "save" /\ at[rest[j]] = "save"
              => rest[i] \in missed[rest[j]]
  BY <1>1 DEF ReductionInv, ConnectionInv, SavesInTurn
<1>7. pipe' = Append(rest, c)
  BY DEF Sends, rest
<1>8. q = "save" => missed'[c] = {d \in Calls : at[d] = "save"}
  BY DEF AboutToSave
<1>9. ConnectionInv'
  BY <1>1, <1>2, <1>3, <1>4, <1>5, <1>6, <1>7, <1>8, PipeAppended
<1>10. QED
  BY <1>1, <1>2, <1>7, <1>9, AppendProperties

\* The first GET is answered.
LEMMA GetLastKeeps ==
    ASSUME ReductionInv, NEW c \in Calls, GetLast(c)
    PROVE  ReductionInv'
<1>1. /\ Serves(c, "last") /\ taken' = [taken EXCEPT ![c] = ActualReduction(c)]
      /\ at' = [at EXCEPT ![c] = "all"] /\ pipe' = Sends(c)
      /\ UNCHANGED <<history, now, asked, seen, stamp, missed>>
  BY DEF GetLast
<1>2. ConnectionInv' /\ pipe' \in Seq(Calls) /\ at' \in [Calls -> Points]
  <2>1. "last" \in UnderWay /\ "all" \in UnderWay /\ "last" # "save" /\ "all" # "save"
    BY DEF UnderWay
  <2>2. QED
    BY <1>1, <2>1, SendKeeps
<1>3. at[c] = "last" /\ at'[c] = "all" /\ \A d \in Calls : d # c => at'[d] = at[d]
  BY <1>1 DEF ReductionInv, ListsTypeOK, Serves
<1>4. ListsTypeOK'
  BY <1>1, <1>2 DEF ReductionInv, ListsTypeOK
<1>5. Finished \subseteq Finished' /\ \A d \in Calls : at'[d] = "save" => at[d] = "save"
  BY <1>3 DEF Finished
<1>6. ListsInv'
  BY <1>1, <1>5 DEF ReductionInv, ListsInv, HistorySorted, Sorted
<1>7. UntouchedInv' /\ AskedInv'
  BY <1>1, <1>3, <1>5 DEF ReductionInv, UntouchedInv, AskedInv, Trimmed, Idle
<1>8. QED
  BY <1>2, <1>4, <1>6, <1>7 DEF ReductionInv

\* The second GET is answered: the call adds itself to what it read.
LEMMA GetAllKeeps ==
    ASSUME ReductionInv, NEW c \in Calls, GetAll(c)
    PROVE  ReductionInv'
<1> DEFINE t == Trimmed(Append(history, c))
           k == IF Len(history) = Cap THEN 1 ELSE 0
<1>1. /\ Serves(c, "all") /\ stamp' = [stamp EXCEPT ![c] = now]
      /\ seen' = [seen EXCEPT ![c] = t] /\ missed' = [missed EXCEPT ![c] = AboutToSave]
      /\ at' = [at EXCEPT ![c] = "save"] /\ pipe' = Sends(c)
      /\ UNCHANGED <<history, now, asked, taken>>
  BY DEF GetAll, Pushed
<1>2. /\ t \in Seq(Calls) /\ Len(t) = Len(history) + 1 - k /\ Len(t) <= Cap
      /\ Len(history) \in Nat /\ t[Len(t)] = c
      /\ \A i \in 1..(Len(t) - 1) : i + k \in 1..Len(history) /\ t[i] = history[i + k]
  <2>1. history \in Seq(Calls) /\ Len(history) <= Cap
    BY DEF ReductionInv, ListsTypeOK, ListsInv
  <2>2. QED
    BY <2>1, TrimmedList
<1> HIDE DEF t
<1>3. /\ at'[c] = "save" /\ seen'[c] = t /\ stamp'[c] = now /\ missed'[c] = AboutToSave
      /\ \A d \in Calls : d # c =>
             /\ at'[d] = at[d] /\ seen'[d] = seen[d] /\ stamp'[d] = stamp[d]
             /\ missed'[d] = missed[d]
      /\ at[c] = "all"
  BY <1>1 DEF ReductionInv, ListsTypeOK, Serves
<1>4. ConnectionInv' /\ pipe' \in Seq(Calls) /\ at' \in [Calls -> Points]
  <2>1. "all" \in UnderWay /\ "save" \in UnderWay /\ "all" # "save"
    BY DEF UnderWay
  <2>2. QED
    BY <1>1, <1>3, <2>1, SendKeeps
<1>5. ListsTypeOK'
  <2>1. AboutToSave \in SUBSET Calls
    BY DEF AboutToSave
  <2>2. QED
    BY <1>1, <1>2, <1>4, <2>1 DEF ReductionInv, ListsTypeOK
<1>6. /\ Finished \subseteq Finished' /\ Finished \subseteq Calls /\ c \notin Finished
      /\ \A d \in Calls : d # c /\ at'[d] = "save" => at[d] = "save"
  BY <1>3 DEF Finished
<1>7. \A i \in 1..Len(history) : /\ history[i] \in Finished
                                 /\ stamp'[history[i]] = stamp[history[i]]
                                 /\ stamp[history[i]] <= now
  BY <1>3, <1>6 DEF ReductionInv, ListsInv
<1>8. \A i \in 1..Len(t) : i \in 1..(Len(t) - 1) \/ i = Len(t)
  BY <1>2
<1>9. Sorted(t, stamp')
  <2> SUFFICES ASSUME NEW i \in 1..Len(t), NEW j \in 1..Len(t), i <= j
               PROVE  stamp'[t[i]] <= stamp'[t[j]]
    BY DEF Sorted
  <2>1. CASE j = Len(t)
    <3>1. now \in Nat /\ stamp'[t[j]] = now
      BY <1>2, <1>3, <2>1 DEF ReductionInv, ListsTypeOK
    <3>2. QED
      BY <1>2, <1>3, <1>7, <1>8, <2>1, <3>1
  <2>2. CASE j \in 1..(Len(t) - 1)
    <3>1. i \in 1..(Len(t) - 1)
      BY <1>2, <2>2
    <3>2. /\ i + k \in 1..Len(history) /\ t[i] = history[i + k]
          /\ j + k \in 1..Len(history) /\ t[j] = history[j + k]
      BY <1>2, <2>2, <3>1
    <3>3. k \in {0, 1}
      OBVIOUS
    <3>4. i + k <= j + k
      BY <1>2, <2>2, <3>1, <3>3
    <3>5. stamp[history[i + k]] <= stamp[history[j + k]]
      BY <3>2, <3>4 DEF ReductionInv, ListsInv, HistorySorted
    <3>6. QED
      BY <1>7, <3>2, <3>5
  <2>3. QED
    BY <1>8, <2>1, <2>2
<1>10. ListsInv'
  <2>1. now \in Nat /\ \A d \in Calls : stamp'[d] <= now
    <3>1. now \in Nat /\ \A d \in Calls : stamp[d] <= now
      BY DEF ReductionInv, ListsTypeOK, ListsInv
    <3>2. QED
      BY <1>3, <3>1
  <2>2. HistorySorted'
    BY <1>1, <1>7 DEF ReductionInv, ListsInv, HistorySorted
  <2>3. ASSUME NEW d \in Calls, at'[d] = "save"
        PROVE  /\ \A i \in 1..Len(seen'[d]) : seen'[d][i] \in Finished' \cup {d}
               /\ Sorted(seen'[d], stamp')
               /\ Len(seen'[d]) <= Cap
    <3>1. CASE d = c
      BY <1>2, <1>3, <1>6, <1>7, <1>8, <1>9, <3>1
    <3>2. CASE d # c
      <4>1. /\ at[d] = "save" /\ seen'[d] = seen[d] /\ Len(seen[d]) <= Cap
            /\ Sorted(seen[d], stamp)
            /\ \A i \in 1..Len(seen[d]) : seen[d][i] \in Finished \cup {d}
        BY <1>3, <1>6, <2>3, <3>2 DEF ReductionInv, ListsInv
      <4>2. \A i \in 1..Len(seen[d]) : stamp'[seen[d][i]] = stamp[seen[d][i]]
        BY <1>3, <1>6, <3>2, <4>1
      <4>3. Sorted(seen'[d], stamp')
        BY <4>1, <4>2 DEF Sorted
      <4>4. QED
        BY <1>6, <4>1, <4>3
    <3>3. QED
      BY <3>1, <3>2
  <2>4. QED
    BY <1>1, <1>6, <1>7, <2>1, <2>2, <2>3 DEF ReductionInv, ListsInv
<1>11. UntouchedInv'
  <2> SUFFICES ASSUME NEW d \in Calls, at'[d] = "save", missed'[d] = {}, history # <<>>
               PROVE  /\ seen'[d] = Trimmed(Append(history, d))
                      /\ \A i \in 1..Len(history) : stamp'[history[i]] <= stamp'[d]
    BY <1>1 DEF UntouchedInv, Trimmed
  <2>1. CASE d = c
    BY <1>3, <1>7, <2>1 DEF t
  <2>2. CASE d # c
    BY <1>3, <1>6, <1>7, <2>2 DEF ReductionInv, UntouchedInv
  <2>3. QED
    BY <2>1, <2>2
<1>12. AskedInv'
  BY <1>1, <1>3 DEF ReductionInv, AskedInv, Idle
<1>13. QED
  BY <1>4, <1>5, <1>10, <1>11, <1>12 DEF ReductionInv

\* The list is saved: whoever saves later has missed it.
LEMMA SaveKeeps ==
    ASSUME ReductionInv, NEW c \in Calls, Save(c)
    PROVE  ReductionInv'
<1> DEFINE rest == Tail(pipe)
<1>1. /\ Serves(c, "save") /\ history' = seen[c] /\ at' = [at EXCEPT ![c] = "answered"]
      /\ pipe' = rest /\ UNCHANGED <<now, asked, taken, seen, stamp, missed>>
  BY DEF Save
<1>2. /\ rest \in Seq(Calls) /\ Len(rest) = Len(pipe) - 1
      /\ Len(pipe) \in Nat \ {0} /\ pipe[1] = c
      /\ \A i \in 1..(Len(pipe) - 1) :
             rest[i] = pipe[i + 1] /\ pipe[i + 1] # c /\ i + 1 \in 1..Len(pipe)
  BY <1>1, PipeServed DEF ReductionInv, ConnectionInv, Serves
<1> HIDE DEF rest
<1>3. /\ at[c] = "save" /\ at'[c] = "answered"
      /\ \A d \in Calls : d # c => at'[d] = at[d]
  BY <1>1 DEF ReductionInv, ListsTypeOK, Serves
<1>4. ListsTypeOK'
  <2>1. at' \in [Calls -> Points]
    BY <1>1 DEF ReductionInv, ListsTypeOK, Points
  <2>2. QED
    BY <1>1, <1>2, <2>1 DEF ReductionInv, ListsTypeOK
<1>5. \A d \in Calls : at[d] \in UnderWay /\ d # c => \E i \in 1..Len(rest) : rest[i] = d
  <2> SUFFICES ASSUME NEW d \in Calls, at[d] \in UnderWay, d # c
               PROVE  \E i \in 1..Len(rest) : rest[i] = d
    OBVIOUS
  <2>1. PICK j \in 1..Len(pipe) : pipe[j] = d
    BY DEF ReductionInv, ConnectionInv, OneCommandEach
  <2>2. j # 1 /\ j - 1 \in 1..Len(rest) /\ (j - 1) + 1 = j
    BY <1>2, <2>1
  <2>3. rest[j - 1] = d
    BY <1>2, <2>1, <2>2
  <2>4. QED
    BY <2>2, <2>3
<1>6. \A i \in 1..Len(rest) : rest[i] \in Calls /\ at'[rest[i]] = at[rest[i]]
  BY <1>2, <1>3, ElementOfSeq
<1>7. ConnectionInv'
  <2>1. \A i \in 1..Len(rest) : at'[rest[i]] \in UnderWay
    BY <1>2, <1>6 DEF ReductionInv, ConnectionInv, OneCommandEach
  <2>2. ASSUME NEW i \in 1..Len(rest), NEW j \in 1..Len(rest), rest[i] = rest[j]
        PROVE  i = j
    <3>1. i + 1 = j + 1
      BY <1>2, <2>2 DEF ReductionInv, ConnectionInv, OneCommandEach
    <3>2. QED
      BY <1>2, <3>1
  <2>3. \A d \in Calls : at'[d] \in UnderWay => \E i \in 1..Len(rest) : rest[i] = d
    BY <1>3, <1>5 DEF UnderWay
  <2>4. OneCommandEach'
    BY <1>1, <2>1, <2>2, <2>3 DEF OneCommandEach, UnderWay
  <2>5. \A i, j \in 1..Len(rest) :
            i < j /\ at[rest[i]] = "save" /\ at[rest[j]] = "save" => rest[i] \in missed[rest[j]]
    BY <1>2 DEF ReductionInv, ConnectionInv, SavesInTurn
  <2>6. SavesInTurn'
    BY <1>1, <1>6, <2>5 DEF SavesInTurn
  <2>7. QED
    BY <2>4, <2>6 DEF ConnectionInv
<1>8. /\ Finished \cup {c} \subseteq Finished'
      /\ \A d \in Calls : at'[d] = "save" => at[d] = "save" /\ d # c
  BY <1>3 DEF Finished
<1>9. ListsInv'
  <2>1. /\ \A i \in 1..Len(seen[c]) : seen[c][i] \in Finished'
        /\ Sorted(seen[c], stamp) /\ Len(seen[c]) <= Cap
    BY <1>3, <1>8 DEF ReductionInv, ListsInv
  <2>2. HistorySorted'
    BY <1>1, <2>1 DEF Sorted, HistorySorted
  <2>3. QED
    BY <1>1, <1>8, <2>1, <2>2 DEF ReductionInv, ListsInv, Sorted
<1>10. \A d \in Calls : at'[d] = "save" => c \in missed[d]
  <2> SUFFICES ASSUME NEW d \in Calls, at'[d] = "save"
               PROVE  c \in missed[d]
    OBVIOUS
  <2>1. at[d] = "save" /\ d # c
    BY <1>8
  <2>2. PICK i \in 1..Len(rest) : rest[i] = d
    BY <1>5, <2>1 DEF UnderWay
  <2>3. /\ 1 \in 1..Len(pipe) /\ i + 1 \in 1..Len(pipe) /\ 1 < i + 1
        /\ pipe[1] = c /\ pipe[i + 1] = d
    BY <1>2, <2>2
  <2>4. QED
    BY <1>3, <2>1, <2>3 DEF ReductionInv, ConnectionInv, SavesInTurn
<1>11. UntouchedInv'
  BY <1>1, <1>10 DEF UntouchedInv
<1>12. AskedInv'
  BY <1>1, <1>3 DEF ReductionInv, AskedInv, Idle
<1>13. QED
  BY <1>4, <1>7, <1>9, <1>11, <1>12 DEF ReductionInv

\* Time passes.
LEMMA PassTimeKeeps ==
    ASSUME ReductionInv, PassTime
    PROVE  ReductionInv'
<1>1. /\ now \in Nat /\ now' = now + 1
      /\ UNCHANGED <<history, pipe, at, asked, taken, seen, stamp, missed>>
  BY DEF PassTime, ReductionInv, ListsTypeOK
<1>2. ListsTypeOK'
  BY <1>1 DEF ReductionInv, ListsTypeOK
<1>3. ConnectionInv'
  BY <1>1 DEF ReductionInv, ConnectionInv, OneCommandEach, SavesInTurn
<1>4. ListsInv'
  <2>1. \A c \in Calls : stamp[c] <= now'
    BY <1>1 DEF ReductionInv, ListsTypeOK, ListsInv
  <2>2. QED
    BY <1>1, <2>1 DEF ReductionInv, ListsInv, HistorySorted, Sorted, Finished
<1>5. UntouchedInv' /\ AskedInv'
  BY <1>1 DEF ReductionInv, UntouchedInv, AskedInv
<1>6. QED
  BY <1>2, <1>3, <1>4, <1>5 DEF ReductionInv

\* The key is gone.
LEMMA ExpireKeeps ==
    ASSUME ReductionInv, Expire
    PROVE  ReductionInv'
<1>1. /\ history' = <<>>
      /\ UNCHANGED <<now, pipe, at, asked, taken, seen, stamp, missed>>
  BY DEF Expire
<1>2. history' \in Seq(Calls) /\ Len(history') = 0
  BY <1>1
<1>3. ListsTypeOK'
  BY <1>1, <1>2 DEF ReductionInv, ListsTypeOK
<1>4. ConnectionInv'
  BY <1>1 DEF ReductionInv, ConnectionInv, OneCommandEach, SavesInTurn
<1>5. ListsInv'
  <2>1. HistorySorted' /\ Len(history') <= Cap
    BY <1>2, ReductionBounds DEF HistorySorted
  <2>2. QED
    BY <1>1, <1>2, <2>1 DEF ReductionInv, ListsInv, Sorted, Finished
<1>6. UntouchedInv' /\ AskedInv'
  BY <1>1 DEF ReductionInv, UntouchedInv, AskedInv
<1>7. QED
  BY <1>3, <1>4, <1>5, <1>6 DEF ReductionInv

\* The process ends with its calls; a list on its way may still be saved.
LEMMA EndKeeps ==
    ASSUME ReductionInv, ProcessEnds
    PROVE  ReductionInv'
<1>1. /\ history' \in {history} \cup {seen[c] : c \in AboutToSave}
      /\ at' = [c \in Calls |-> IF at[c] \in UnderWay THEN "lost" ELSE at[c]]
      /\ pipe' = <<>> /\ UNCHANGED <<now, asked, taken, seen, stamp, missed>>
  BY DEF ProcessEnds
<1>2. \A c \in Calls : at'[c] \notin UnderWay /\ at'[c] # "save"
  BY <1>1 DEF UnderWay
<1>3. at' \in [Calls -> Points]
  BY <1>1 DEF ReductionInv, ListsTypeOK, Points
<1>4. \A c \in Calls : at[c] = "save" => c \in Finished'
  BY <1>1 DEF Finished, UnderWay
<1>5. Finished \subseteq Finished'
  BY <1>1 DEF Finished, UnderWay
<1>6. /\ history' \in Seq(Calls) /\ Len(history') <= Cap /\ Sorted(history', stamp)
      /\ \A i \in 1..Len(history') : history'[i] \in Finished'
  <2>1. CASE history' = history
    <3>1. history \in Seq(Calls) /\ Len(history) <= Cap /\ Sorted(history, stamp)
      BY DEF ReductionInv, ListsTypeOK, ListsInv, HistorySorted, Sorted
    <3>2. \A i \in 1..Len(history) : history[i] \in Finished'
      BY <1>5 DEF ReductionInv, ListsInv
    <3>3. QED
      BY <2>1, <3>1, <3>2
  <2>2. CASE \E c \in AboutToSave : history' = seen[c]
    <3>1. PICK c \in Calls : at[c] = "save" /\ history' = seen[c]
      BY <2>2 DEF AboutToSave
    <3>2. seen[c] \in Seq(Calls) /\ Len(seen[c]) <= Cap /\ Sorted(seen[c], stamp)
      BY <3>1 DEF ReductionInv, ListsTypeOK, ListsInv
    <3>3. \A i \in 1..Len(seen[c]) : seen[c][i] \in Finished'
      BY <1>4, <1>5, <3>1 DEF ReductionInv, ListsInv
    <3>4. QED
      BY <3>1, <3>2, <3>3
  <2>3. QED
    BY <1>1, <2>1, <2>2
<1>7. ListsTypeOK'
  <2>1. pipe' \in Seq(Calls)
    BY <1>1
  <2>2. QED
    BY <1>1, <1>3, <1>6, <2>1 DEF ReductionInv, ListsTypeOK
<1>8. ConnectionInv'
  BY <1>1, <1>2 DEF ConnectionInv, OneCommandEach, SavesInTurn, UnderWay
<1>9. ListsInv'
  <2>1. HistorySorted'
    BY <1>1, <1>6 DEF HistorySorted, Sorted
  <2>2. QED
    BY <1>1, <1>2, <1>6, <2>1 DEF ReductionInv, ListsInv
<1>10. UntouchedInv' /\ AskedInv'
  BY <1>1, <1>2 DEF ReductionInv, UntouchedInv, AskedInv, Idle, UnderWay
<1>11. QED
  BY <1>7, <1>8, <1>9, <1>10 DEF ReductionInv

-----------------------------------------------------------------------------
(* The theorems *)

\* Every step keeps the invariant.
LEMMA ReductionStepKeeps ==
    ASSUME ReductionInv, [ReductionNext]_reductionVars
    PROVE  ReductionInv'
<1>1. CASE UNCHANGED reductionVars
  <2>1. UNCHANGED <<history, now, pipe, at, asked, taken, seen, stamp, missed>>
    BY <1>1 DEF reductionVars
  <2>2. ListsTypeOK' /\ UntouchedInv' /\ AskedInv'
    BY <2>1 DEF ReductionInv, ListsTypeOK, UntouchedInv, AskedInv
  <2>3. ConnectionInv'
    BY <2>1 DEF ReductionInv, ConnectionInv, OneCommandEach, SavesInTurn
  <2>4. ListsInv'
    BY <2>1 DEF ReductionInv, ListsInv, HistorySorted, Sorted, Finished
  <2>5. QED
    BY <2>2, <2>3, <2>4 DEF ReductionInv
<1>2. CASE Redis
  BY <1>2, GetLastKeeps, GetAllKeeps, SaveKeeps DEF Redis
<1>3. QED
  BY <1>1, <1>2, AskKeeps, PassTimeKeeps, ExpireKeeps, EndKeeps DEF ReductionNext

\* The invariant of the lists and of the connection.
THEOREM ReductionInvariant == ReductionSpec => []ReductionInv
<1>1. QED
  BY ReductionStarts, ReductionStepKeeps, PTL DEF ReductionSpec

\* The last reduction is the one of a call that has asked.
LEMMA LastHasAsked ==
    ASSUME ReductionInv, Recent # {}
    PROVE  asked[LastReduction] \in Question
<1> DEFINE latest == Max({stamp[c] : c \in Recent})
           places == {i \in 1..Len(history) : history[i] \in Recent /\ stamp[history[i]] = latest}
<1>1. /\ history \in Seq(Calls) /\ Len(history) \in Nat
      /\ \A i \in 1..Len(history) : history[i] \in Calls /\ stamp[history[i]] \in Nat
  BY LenProperties, ElementOfSeq DEF ReductionInv, ListsTypeOK
<1>2. \A c \in Recent : \E i \in 1..Len(history) : history[i] = c /\ stamp[c] > now - Window
  BY <1>1 DEF Recent, Entries, ToSet
<1>3. now \in Nat /\ Window \in Nat
  BY ReductionBounds DEF ReductionInv, ListsTypeOK
<1>4. PICK k \in 1..Len(history) : k = Len(history)
  BY <1>1, <1>2
<1>5. \A i \in 1..Len(history) : stamp[history[i]] <= stamp[history[k]]
  BY <1>1, <1>4 DEF ReductionInv, ListsInv, HistorySorted
<1>6. history[k] \in Recent
  <2>1. stamp[history[k]] > now - Window
    BY <1>1, <1>2, <1>3, <1>5
  <2>2. history[k] \in Entries(history)
    BY <1>1 DEF Entries, ToSet
  <2>3. QED
    BY <2>1, <2>2 DEF Recent
<1>7. latest = stamp[history[k]]
  <2> DEFINE S == {stamp[c] : c \in Recent}
  <2>1. stamp[history[k]] \in S /\ \A x \in S : x \in Nat /\ stamp[history[k]] >= x
    BY <1>1, <1>2, <1>5, <1>6
  <2>2. latest \in S /\ \A x \in S : latest >= x
    <3> HIDE DEF S
    <3>1. \E x \in S : \A y \in S : x >= y
      BY <2>1
    <3>2. Max(S) \in S /\ \A y \in S : Max(S) >= y
      BY <3>1 DEF Max
    <3>3. QED
      BY <3>2 DEF S
  <2> HIDE DEF S, latest
  <2>3. QED
    BY <2>1, <2>2
<1>8. places \in SUBSET Nat /\ k \in places
  BY <1>6, <1>7
<1> HIDE DEF places
<1>9. \E x \in places : \A y \in places : x <= y
  <2> DEFINE R == {ss \in Nat \X Nat : ss[1] < ss[2]}
  <2>1. IsWellFoundedOn(R, Nat)
    BY NatLessThanWellFounded DEF OpToRel
  <2> HIDE DEF R
  <2>2. PICK x \in places : \A y \in places : ~ (<<y, x>> \in R)
    BY <1>8, <2>1, WFMin
  <2>3. \A y \in places : ~ y < x
    BY <1>8, <2>2 DEF R
  <2>4. \A y \in places : x <= y
    BY <1>8, <2>3
  <2>5. QED
    BY <2>4
<1>10. Min(places) \in places
  BY <1>9 DEF Min
<1>11. LastReduction = history[Min(places)]
  BY DEF LastReduction, places
<1>12. PICK i \in 1..Len(history) : LastReduction = history[i]
  BY <1>10, <1>11 DEF places
<1>13. history[i] \in Calls /\ at[history[i]] # Idle
  BY DEF ReductionInv, ListsInv, Finished, Idle
<1>14. QED
  BY <1>12, <1>13 DEF ReductionInv, AskedInv

\* The list is in the order of the timestamps, whatever the calls overlap with
\* (game.time.service.ts:90, 138-143).
THEOREM HistoryStaysSorted == ReductionSpec => []HistorySorted
<1>1. ReductionInv => HistorySorted
  BY DEF ReductionInv, ListsInv
<1>2. QED
  BY <1>1, ReductionInvariant, PTL

\* A call that missed nobody drops an entry only when the list is full, and then the
\* oldest (game.time.service.ts:132-143).
THEOREM OverlapsLoseEntries == ReductionSpec => []LostOnlyToOverlap
<1>1. ReductionInv => LostOnlyToOverlap
  <2> SUFFICES ASSUME ReductionInv, NEW c \in Calls, at[c] = "save", missed[c] = {},
                      NEW d \in Entries(history) \ Entries(seen[c])
               PROVE  /\ Len(seen[c]) = Cap
                      /\ \A e \in Entries(seen[c]) : stamp[d] <= stamp[e]
    BY DEF LostOnlyToOverlap
  <2> DEFINE t == Trimmed(Append(history, c))
             k == IF Len(history) = Cap THEN 1 ELSE 0
  <2>1. PICK i \in 1..Len(history) : history[i] = d
    BY DEF Entries, ToSet, ReductionInv, ListsTypeOK
  <2>2. seen[c] = t
    BY <2>1 DEF ReductionInv, UntouchedInv
  <2>3. /\ t \in Seq(Calls) /\ Len(t) = Len(history) + 1 - k /\ Len(history) \in Nat
        /\ t[Len(t)] = c
        /\ \A j \in 1..(Len(t) - 1) : j + k \in 1..Len(history) /\ t[j] = history[j + k]
    <3>1. history \in Seq(Calls) /\ Len(history) <= Cap
      BY DEF ReductionInv, ListsTypeOK, ListsInv
    <3>2. QED
      BY <3>1, TrimmedList
  <2> HIDE DEF t
  <2>4. Entries(seen[c]) = {t[j] : j \in 1..Len(t)}
    <3>1. DOMAIN t = 1..Len(t)
      BY <2>3
    <3>2. Entries(seen[c]) = {t[j] : j \in DOMAIN t}
      BY <2>2, Zenon DEF Entries, ToSet
    <3>3. QED
      BY <3>1, <3>2, Zenon
  <2>5. k = 1 /\ i = 1
    <3>1. CASE ~ (k = 1 /\ i = 1)
      <4>1. i - k \in 1..(Len(t) - 1) /\ (i - k) + k = i /\ i - k \in 1..Len(t)
        BY <2>3, <3>1
      <4>2. t[i - k] = d
        BY <2>1, <2>3, <4>1
      <4>3. QED
        BY <2>4, <4>1, <4>2
    <3>2. QED
      BY <3>1
  <2>6. Len(t) = Cap
    BY <2>3, <2>5
  <2>7. ASSUME NEW j \in 1..Len(t)
        PROVE  stamp[d] <= stamp[t[j]]
    <3>1. CASE j = Len(t)
      <4>1. stamp[history[i]] <= stamp[c]
        BY <2>1 DEF ReductionInv, UntouchedInv
      <4>2. QED
        BY <2>1, <2>3, <3>1, <4>1
    <3>2. CASE j # Len(t)
      <4>1. j + k \in 1..Len(history) /\ t[j] = history[j + k] /\ i <= j + k
        BY <2>3, <2>5, <3>2
      <4>2. QED
        BY <2>1, <4>1 DEF ReductionInv, ListsInv, HistorySorted
    <3>3. QED
      BY <3>1, <3>2
  <2>8. QED
    BY <2>2, <2>4, <2>6, <2>7
<1>2. QED
  BY <1>1, ReductionInvariant, PTL

\* The larger of two numbers.
LEMMA MaxOfTwo ==
    ASSUME NEW a \in Int, NEW b \in Int
    PROVE  Max({a, b}) = IF a >= b THEN a ELSE b
<1>1. \E x \in {a, b} : \A y \in {a, b} : x >= y
  <2>1. a >= b \/ b >= a
    OBVIOUS
  <2>2. QED
    BY <2>1
<1>2. Max({a, b}) \in {a, b} /\ \A y \in {a, b} : Max({a, b}) >= y
  BY <1>1 DEF Max
<1>3. QED
  BY <1>2

\* Alone for the length of the window a bid is answered between half of the time and
\* all of it, on a clock below zero with zero (game.time.service.ts:87-112, 145).
THEOREM AloneTakesHalf == ReductionSpec => AloneTakesAtMostHalf
<1> DEFINE Half(c) ==
        at[c] = "last" /\ at'[c] = "all"
        /\ (\A d \in Entries(history) : stamp[d] <= now - Window)
            => Answer(c)' \in (asked[c].time \div 2)..Max({asked[c].time, 0})
<1>1. ASSUME ReductionInv, [ReductionNext]_reductionVars, NEW c \in Calls,
             at[c] = "last", at'[c] = "all",
             \A d \in Entries(history) : stamp[d] <= now - Window
      PROVE  Answer(c)' \in (asked[c].time \div 2)..Max({asked[c].time, 0})
  <2> DEFINE time == asked[c].time
             rate == Rate[asked[c].increase]
  <2>1. GetLast(c)
    <3>1. \A d \in Calls, t \in Times, i \in Increases : ~Ask(d, t, i)
      <4>1. \A d \in Calls : at' = [at EXCEPT ![d] = "last"] => at'[c] = "last"
        BY <1>1 DEF ReductionInv, ListsTypeOK
      <4>2. QED
        BY <1>1, <4>1 DEF Ask
    <3>2. \A d \in Calls : ~GetAll(d) /\ ~Save(d)
      <4>1. \A d \in Calls : at' = [at EXCEPT ![d] = "save"] => at'[c] \in {"save", "last"}
        BY <1>1 DEF ReductionInv, ListsTypeOK
      <4>2. \A d \in Calls : at' = [at EXCEPT ![d] = "answered"] => at'[c] \in {"answered", "last"}
        BY <1>1 DEF ReductionInv, ListsTypeOK
      <4>3. QED
        BY <1>1, <4>1, <4>2 DEF GetAll, Save
    <3>3. ~PassTime /\ ~Expire /\ ~UNCHANGED reductionVars
      BY <1>1 DEF PassTime, Expire, reductionVars
    <3>4. ~ProcessEnds
      BY <1>1 DEF ProcessEnds, UnderWay
    <3>5. PICK d \in Calls : GetLast(d)
      BY <1>1, <3>1, <3>2, <3>3, <3>4 DEF ReductionNext, Redis
    <3>6. d = c
      BY <1>1, <3>5 DEF GetLast, ReductionInv, ListsTypeOK
    <3>7. QED
      BY <3>5, <3>6
  <2>2. asked[c] \in Question
    BY <1>1 DEF ReductionInv, AskedInv, Idle
  <2>3. time \in Int /\ rate \in 0..50
    BY <2>2, TimesAssumption, RateAssumption DEF Question
  <2>4. taken'[c] = Share(time, rate)
    <3>1. taken'[c] = ActualReduction(c)
      <4>1. taken' = [taken EXCEPT ![c] = ActualReduction(c)]
        BY <2>1 DEF GetLast
      <4>2. DOMAIN taken = Calls
        BY <1>1 DEF ReductionInv, ListsTypeOK
      <4>3. QED
        BY <4>1, <4>2
    <3>2. now \in Nat /\ Window \in Nat
      BY <1>1, ReductionBounds DEF ReductionInv, ListsTypeOK
    <3>3. \A d \in Entries(history) : stamp[d] \in Nat
      BY <1>1 DEF ReductionInv, ListsTypeOK, Entries, ToSet
    <3>4. Recent = {}
      BY <1>1, <3>2, <3>3 DEF Recent
    <3>5. QED
      BY <3>1, <3>4 DEF ActualReduction
  <2> HIDE DEF time, rate
  <2>5. time * rate \in Int /\ (time >= 0 => time * rate \in 0..(time * 50))
        /\ (time < 0 => time * rate \in (time * 50)..0)
    BY <2>3
  <2> DEFINE x == time * rate
             share == (x + 99) \div 100
  <2>6. /\ share \in Int
        /\ time >= 0 => 0 <= share /\ 2 * share <= time + 1
        /\ time < 0 => share <= 0 /\ time <= 2 * share
    <3>1. x \in Int /\ (time >= 0 => x \in 0..(time * 50)) /\ (time < 0 => x \in (time * 50)..0)
      BY <2>5
    <3> HIDE DEF x
    <3>2. share \in Int /\ 100 * share <= x + 99 /\ x + 99 < 100 * share + 100
      BY <3>1
    <3> HIDE DEF share
    <3>3. QED
      BY <2>3, <3>1, <3>2
  <2>7. taken'[c] = share
    BY <2>4 DEF Share
  <2> HIDE DEF share, x
  <2>8. asked'[c].time = time
    BY <2>1 DEF GetLast, time
  <2>9. Answer(c)' = Max({time - share, 0})
    BY <2>7, <2>8 DEF Answer
  <2>10. Answer(c)' = IF time - share >= 0 THEN time - share ELSE 0
    <3>1. time - share \in Int
      BY <2>3, <2>6
    <3>2. QED
      BY <2>9, <3>1, MaxOfTwo
  <2>11. Max({time, 0}) = IF time >= 0 THEN time ELSE 0
    BY <2>3, MaxOfTwo
  <2>12. /\ time \div 2 \in Int
         /\ time >= 0 => time \div 2 <= time - share
         /\ time < 0 => time \div 2 <= 0
    <3>1. time \div 2 \in Int /\ 2 * (time \div 2) <= time
      BY <2>3
    <3>2. QED
      BY <2>3, <2>6, <3>1
  <2>13. Answer(c)' \in (time \div 2)..Max({time, 0})
    <3>1. CASE time >= 0
      BY <2>3, <2>6, <2>10, <2>11, <2>12, <3>1
    <3>2. CASE time < 0
      BY <2>3, <2>6, <2>10, <2>11, <2>12, <3>2
    <3>3. QED
      BY <2>3, <3>1, <3>2
  <2>14. QED
    BY <2>13 DEF time
<1>2. ReductionInv /\ [ReductionNext]_reductionVars => \A c \in Calls : Half(c)
  BY <1>1
<1>3. QED
  BY <1>2, ReductionInvariant, PTL DEF ReductionSpec, AloneTakesAtMostHalf

\* The types, with what a call takes: it is a number only because the last reduction
\* has been asked for.
THEOREM ReductionTypes == ReductionSpec => []ReductionTypeOK
<1>1. ReductionInit => ReductionTypeOK
  <2> SUFFICES ASSUME ReductionInit PROVE ReductionTypeOK
    OBVIOUS
  <2>1. Idle \in Points /\ 0 \in 0..MaxNow /\ 0 <= Cap
    BY ReductionBounds DEF Points
  <2>2. QED
    BY <2>1 DEF ReductionInit, ReductionTypeOK
<1>2. ASSUME ReductionInv, ReductionTypeOK, [ReductionNext]_reductionVars, ReductionInv'
      PROVE  ReductionTypeOK'
  <2>1. ASSUME NEW time \in Int, NEW rate \in 0..50
        PROVE  Share(time, rate) \in Int
    <3>1. time * rate \in Int
      BY <2>1
    <3>2. \A x \in Int : (x + 99) \div 100 \in Int
      OBVIOUS
    <3>3. QED
      BY <3>1, <3>2 DEF Share
  <2>2. \A q \in Question : q.time \in Int /\ Rate[q.increase] \in 0..50
    BY TimesAssumption, RateAssumption DEF Question
  <2>3. ASSUME NEW c \in Calls, asked[c] \in Question
        PROVE  ActualReduction(c) \in Int
    <3>1. Recent # {} => asked[LastReduction] \in Question
      BY <1>2, LastHasAsked
    <3>2. QED
      BY <2>1, <2>2, <2>3, <3>1 DEF ActualReduction
  <2>4. taken' \in [Calls -> Int]
    <3>1. taken \in [Calls -> Int]
      BY <1>2 DEF ReductionTypeOK
    <3>2. ASSUME NEW c \in Calls, GetLast(c)
          PROVE  taken' \in [Calls -> Int]
      <4>1. asked[c] \in Question
        BY <1>2, <3>2 DEF GetLast, Serves, ReductionInv, AskedInv, Idle
      <4>2. taken' = [taken EXCEPT ![c] = ActualReduction(c)]
        BY <3>2 DEF GetLast
      <4>3. QED
        BY <2>3, <3>1, <4>1, <4>2
    <3>3. CASE UNCHANGED taken
      BY <3>1, <3>3
    <3>4. QED
      BY <1>2, <3>2, <3>3
      DEF ReductionNext, reductionVars, Redis, Ask, GetAll, Save, PassTime, Expire, ProcessEnds
  <2>5. now' \in 0..MaxNow
    <3>1. now \in 0..MaxNow /\ MaxNow \in Nat
      BY <1>2, ReductionBounds DEF ReductionTypeOK
    <3>2. CASE PassTime
      BY <3>1, <3>2 DEF PassTime
    <3>3. CASE UNCHANGED now
      BY <3>1, <3>3
    <3>4. QED
      BY <1>2, <3>2, <3>3
      DEF ReductionNext, reductionVars, Redis, Ask, GetLast, GetAll, Save, Expire, ProcessEnds
  <2>6. stamp' \in [Calls -> 0..MaxNow]
    <3>1. stamp' \in [Calls -> Nat] /\ \A c \in Calls : stamp'[c] <= now'
      BY <1>2 DEF ReductionInv, ListsTypeOK, ListsInv
    <3>2. \A c \in Calls : stamp'[c] \in 0..MaxNow
      BY <2>5, <3>1, ReductionBounds
    <3>3. QED
      BY <3>1, <3>2
  <2>7. QED
    BY <1>2, <2>4, <2>5, <2>6 DEF ReductionInv, ListsTypeOK, ListsInv, ReductionTypeOK
<1>3. QED
  BY <1>1, <1>2, ReductionInvariant, PTL DEF ReductionSpec

-----------------------------------------------------------------------------
(* The turns on the connection *)

\* The commands that a call at point p waits for, this one included.
CommandsLeft(p) ==
    CASE p = "last" -> 3
      [] p = "all" -> 2
      [] p = "save" -> 1
      [] OTHER -> 0

\* The place of call c among the commands of q.
TurnIn(q, c) == CHOOSE i \in 1..Len(q) : q[i] = c

\* What Redis answers brings every call on that waits: it has a command less to wait for,
\* or moves up.  Nothing else moves it back: later calls queue behind it, and so do the
\* next commands of the others.  So it waits for at most three rounds.
AnswersBringCallsOn ==
    [][\A c \in Calls : at[c] \in UnderWay =>
          /\ Redis => \/ CommandsLeft(at'[c]) < CommandsLeft(at[c])
                      \/ at'[c] = at[c] /\ TurnIn(pipe', c) < TurnIn(pipe, c)
          /\ \/ Redis
             \/ at'[c] = "lost"
             \/ at'[c] = at[c] /\ TurnIn(pipe', c) = TurnIn(pipe, c)]_reductionVars

\* While a call waits there is a command that Redis can serve.
SomeCommandIsServed ==
    (\E c \in Calls : at[c] \in UnderWay) => \E c \in Calls, p \in UnderWay : Serves(c, p)

\* No call has two commands: the place of a command is its turn.
LEMMA TurnIs ==
    ASSUME NEW q, NEW i \in 1..Len(q), \A j, k \in 1..Len(q) : q[j] = q[k] => j = k
    PROVE  TurnIn(q, q[i]) = i
BY DEF TurnIn

\* The others move up when the head is served, whether it sends a next command or not.
LEMMA ServedMovesUp ==
    ASSUME ReductionInv, OneCommandEach', NEW d \in Calls, NEW p \in UnderWay, Serves(d, p),
           pipe' \in Seq(Calls), pipe' = Sends(d) \/ pipe' = Tail(pipe),
           NEW c \in Calls \ {d}, at[c] \in UnderWay
    PROVE  TurnIn(pipe', c) < TurnIn(pipe, c)
<1>1. /\ Tail(pipe) \in Seq(Calls) /\ Len(Tail(pipe)) = Len(pipe) - 1
      /\ Len(pipe) \in Nat \ {0} /\ pipe[1] = d
      /\ \A i \in 1..(Len(pipe) - 1) : Tail(pipe)[i] = pipe[i + 1]
  BY PipeServed DEF ReductionInv, ConnectionInv, Serves
<1>2. PICK i \in 1..Len(pipe) : pipe[i] = c
  BY DEF ReductionInv, ConnectionInv, OneCommandEach
<1>3. i \in Int /\ i - 1 \in 1..(Len(pipe) - 1) /\ (i - 1) + 1 = i
  BY <1>1, <1>2
<1>4. Tail(pipe)[i - 1] = c
  BY <1>1, <1>2, <1>3
<1>5. i - 1 \in 1..Len(pipe') /\ pipe'[i - 1] = c
  <2>1. CASE pipe' = Tail(pipe)
    <3>1. Len(pipe') = Len(pipe) - 1 /\ pipe'[i - 1] = Tail(pipe)[i - 1]
      BY <1>1, <2>1
    <3>2. QED
      BY <1>3, <1>4, <3>1
  <2>2. CASE pipe' = Append(Tail(pipe), d)
    <3> DEFINE t == Tail(pipe)
               j == i - 1
    <3>1. t \in Seq(Calls) /\ j \in 1..Len(t) /\ t[j] = c
      BY <1>1, <1>3, <1>4
    <3> HIDE DEF t, j
    <3>2. Len(Append(t, d)) = Len(t) + 1 /\ Append(t, d)[j] = t[j] /\ Len(t) \in Nat
      BY <3>1, AppendProperties, LenProperties
    <3>3. j \in 1..Len(Append(t, d)) /\ Append(t, d)[j] = c
      BY <3>1, <3>2
    <3>4. QED
      BY <2>2, <3>3 DEF t, j
  <2>3. QED
    BY <2>1, <2>2 DEF Sends
<1>6. \A j, k \in 1..Len(pipe') : pipe'[j] = pipe'[k] => j = k
  BY DEF OneCommandEach
<1>7. TurnIn(pipe', c) = i - 1
  BY <1>5, <1>6, TurnIs
<1>8. TurnIn(pipe, c) = i
  BY <1>2, TurnIs DEF ReductionInv, ConnectionInv, OneCommandEach
<1>9. QED
  BY <1>3, <1>7, <1>8

\* Every answer of Redis brings every waiting call on.
LEMMA RedisBringsOn ==
    ASSUME ReductionInv, ReductionInv', Redis, NEW c \in Calls, at[c] \in UnderWay
    PROVE  \/ CommandsLeft(at'[c]) < CommandsLeft(at[c])
           \/ at'[c] = at[c] /\ TurnIn(pipe', c) < TurnIn(pipe, c)
<1>1. PICK d \in Calls : GetLast(d) \/ GetAll(d) \/ Save(d)
  BY DEF Redis
<1>2. at \in [Calls -> Points]
  BY DEF ReductionInv, ListsTypeOK
<1>3. CASE c = d
  <2>1. \/ at[c] = "last" /\ at'[c] = "all"
        \/ at[c] = "all" /\ at'[c] = "save"
        \/ at[c] = "save" /\ at'[c] = "answered"
    BY <1>1, <1>2, <1>3 DEF GetLast, GetAll, Save, Serves
  <2>2. QED
    BY <2>1 DEF CommandsLeft
<1>4. CASE c # d
  <2>1. at'[c] = at[c]
    BY <1>1, <1>2, <1>4 DEF GetLast, GetAll, Save
  <2>2. PICK p \in UnderWay : Serves(d, p)
    BY <1>1 DEF GetLast, GetAll, Save, UnderWay
  <2>3. pipe' = Sends(d) \/ pipe' = Tail(pipe)
    BY <1>1 DEF GetLast, GetAll, Save
  <2>4. pipe' \in Seq(Calls) /\ OneCommandEach'
    BY DEF ReductionInv, ListsTypeOK, ConnectionInv
  <2>5. QED
    BY <1>4, <2>1, <2>2, <2>3, <2>4, ServedMovesUp
<1>5. QED
  BY <1>3, <1>4

\* What is not an answer leaves a waiting call where it is, or ends the process.
LEMMA OthersQueueBehind ==
    ASSUME ReductionInv, ReductionInv', [ReductionNext]_reductionVars, ~Redis,
           NEW c \in Calls, at[c] \in UnderWay
    PROVE  \/ at'[c] = "lost"
           \/ at'[c] = at[c] /\ TurnIn(pipe', c) = TurnIn(pipe, c)
<1>1. CASE UNCHANGED <<at, pipe>>
  BY <1>1 DEF TurnIn
<1>2. CASE ProcessEnds
  BY <1>2 DEF ProcessEnds
<1>3. ASSUME NEW d \in Calls, NEW t \in Times, NEW i \in Increases, Ask(d, t, i)
      PROVE  at'[c] = at[c] /\ TurnIn(pipe', c) = TurnIn(pipe, c)
  <2>1. d # c /\ at'[c] = at[c]
    BY <1>3 DEF Ask, UnderWay, Idle, ReductionInv, ListsTypeOK
  <2>2. PICK k \in 1..Len(pipe) : pipe[k] = c
    BY DEF ReductionInv, ConnectionInv, OneCommandEach
  <2>3. pipe \in Seq(Calls) /\ pipe' = Append(pipe, d)
    BY <1>3 DEF Ask, ReductionInv, ListsTypeOK
  <2>4. k \in 1..Len(pipe') /\ pipe'[k] = c
    BY <2>2, <2>3, AppendProperties
  <2>5. TurnIn(pipe, c) = k
    BY <2>2, TurnIs DEF ReductionInv, ConnectionInv, OneCommandEach
  <2>6. \A j, l \in 1..Len(pipe') : pipe'[j] = pipe'[l] => j = l
    BY DEF ReductionInv, ConnectionInv, OneCommandEach
  <2>7. TurnIn(pipe', c) = k
    BY <2>4, <2>6, TurnIs
  <2>8. QED
    BY <2>1, <2>5, <2>7
<1>4. QED
  BY <1>1, <1>2, <1>3 DEF ReductionNext, PassTime, Expire, reductionVars

\* No call starves behind the others, and Redis always has a command to serve while one
\* waits: a listener that waits for the history gets it after three rounds of answers,
\* unless the process ends (game.time.service.ts:78-143).
THEOREM NoCallStarves == ReductionSpec => AnswersBringCallsOn /\ []SomeCommandIsServed
<1>1. ReductionInv /\ [ReductionNext]_reductionVars => ReductionInv'
  BY ReductionStepKeeps
<1>2. ReductionInv /\ ReductionInv' /\ [ReductionNext]_reductionVars =>
        \A c \in Calls : at[c] \in UnderWay =>
          /\ Redis => \/ CommandsLeft(at'[c]) < CommandsLeft(at[c])
                      \/ at'[c] = at[c] /\ TurnIn(pipe', c) < TurnIn(pipe, c)
          /\ \/ Redis
             \/ at'[c] = "lost"
             \/ at'[c] = at[c] /\ TurnIn(pipe', c) = TurnIn(pipe, c)
  BY RedisBringsOn, OthersQueueBehind
<1>3. ReductionInv => SomeCommandIsServed
  <2> SUFFICES ASSUME ReductionInv, NEW c \in Calls, at[c] \in UnderWay
               PROVE  \E d \in Calls, p \in UnderWay : Serves(d, p)
    BY DEF SomeCommandIsServed
  <2>1. pipe \in Seq(Calls) /\ \A i \in 1..Len(pipe) : at[pipe[i]] \in UnderWay
    BY DEF ReductionInv, ListsTypeOK, ConnectionInv, OneCommandEach
  <2>2. PICK i \in 1..Len(pipe) : pipe[i] = c
    BY DEF ReductionInv, ConnectionInv, OneCommandEach
  <2>3. pipe # <<>> /\ 1 \in 1..Len(pipe) /\ Head(pipe) = pipe[1] /\ pipe[1] \in Calls
    BY <2>1, <2>2
  <2>4. QED
    BY <2>1, <2>3 DEF Serves
<1>4. QED
  BY <1>1, <1>2, <1>3, ReductionInvariant, PTL DEF AnswersBringCallsOn, ReductionSpec
=============================================================================
