--------------------------- MODULE PrivateAuctions --------------------------
(***************************************************************************)
(* Who may see a private auction: the endorsedAuctions column of the users, *)
(* AuctionService.enterPrivate and getAuctionDetail, and the two PATCHes.    *)
(*                                                                         *)
(* It is composed with Accounts: a request is made with a token, and a       *)
(* person with two rows has two lists.  Each request is two or three         *)
(* queries, and others come in between.                                     *)
(***************************************************************************)
EXTENDS Accounts, FiniteSets

CONSTANTS
    Auctions,
    Host,         \* auction |-> the row of its owner
    Codes,
    FirstCode,
    MaxEntries,   \* BOUND on the calls of enterPrivate
    MaxReads,     \* BOUND on the calls of getAuctionDetail
    MaxPatches,   \* BOUND on the PATCHes of auctions and of users
    MaxRequests   \* BOUND on the requests of all kinds, logins included

Entries == 1..MaxEntries
Reads == 1..MaxReads

ASSUME PrivateInputs ==
    /\ Host \in [Auctions -> 1..Len(Registered)]
    /\ FirstCode \in Codes

ASSUME PrivateBounds ==
    /\ MaxEntries \in Nat /\ MaxReads \in Nat /\ MaxPatches \in Nat
    /\ MaxRequests \in Nat

VARIABLES
    isPrivate,   \* auction |-> is it private?
    code,        \* auction |-> its privateCode
    endorsed,    \* row |-> endorsedAuctions
    patches,     \* how many PATCHes there were
    entry,       \* entry |-> its row, auction, code, the list it read, where it is:
                 \* "checking", "reading", "saving", "entered" or "refused"
    read,        \* read |-> its row, auction, whether it read that it is hidden, where
                 \* it is: "auction", "user", "full", "short" or "failed"
    had,         \* HISTORY: auction |-> the codes it has had
    beside,      \* HISTORY: entry |-> the entries about to save when it was done
    before,      \* HISTORY: read |-> the entries done when it began
    allowed,     \* HISTORY: read |-> was it allowed at one of its queries?
    edited       \* HISTORY: the rows whose list was patched

auctionVars == <<isPrivate, code, patches, had, edited>>
entryVars == <<entry, beside>>
readVars == <<read, before, allowed>>
privateVars == <<accountVars, auctionVars, endorsed, entryVars, readVars>>

-----------------------------------------------------------------------------
(* Data *)

NoEntry == [at |-> "idle"]
NoRead == [at |-> "idle"]

PrivateInit ==
    /\ AccountInit
    /\ isPrivate = [a \in Auctions |-> TRUE]
    /\ code = [a \in Auctions |-> FirstCode]
    /\ endorsed = [r \in Rows |-> {}]
    /\ patches = 0
    /\ entry = [e \in Entries |-> NoEntry]
    /\ read = [d \in Reads |-> NoRead]
    /\ had = [a \in Auctions |-> {FirstCode}]
    /\ beside = [e \in Entries |-> {}]
    /\ before = [d \in Reads |-> {}]
    /\ allowed = [d \in Reads |-> FALSE]
    /\ edited = {}

\* The bound on the requests is not reached.
MoreRequests ==
    MaxRequests > seeds + patches
                  + Cardinality({c \in Logins : step[c] # "idle"})
                  + Cardinality({e \in Entries : entry[e] # NoEntry})
                  + Cardinality({d \in Reads : read[d] # NoRead})

-----------------------------------------------------------------------------
(* enterPrivate *)

\* Login c sends the code k for auction a.
Enter(e, c, a, k) ==
    /\ token[c] # NoRow
    /\ entry[e] = NoEntry /\ \A f \in Entries : f < e => entry[f] # NoEntry
    /\ entry' = [entry EXCEPT ![e] = [row |-> token[c], auction |-> a, code |-> k,
                                      list |-> {}, at |-> "checking"]]
    /\ UNCHANGED <<accountVars, auctionVars, endorsed, beside, readVars>>

\* Mutant: any code will do.
AnyCode(e) == TRUE

\* validatePrivateCode
RightCode(e) == entry[e].code = code[entry[e].auction]

\* getAuctionById: the code is compared with the one in the row.
CheckCode(e) ==
    /\ entry[e].at = "checking"
    /\ entry' = [entry EXCEPT ![e].at = IF RightCode(e) THEN "reading" ELSE "refused"]
    /\ UNCHANGED <<accountVars, auctionVars, endorsed, beside, readVars>>

\* The entries of the user of e that have read its list and not saved theirs yet.
AboutToSave(e) ==
    {f \in Entries \ {e} : entry[f].at = "saving" /\ entry[f].row = entry[e].row}

\* updateEndorsedAuction: the list is read; who is on it already is done.
ReadList(e) ==
    LET list == endorsed[entry[e].row]
        done == entry[e].auction \in list IN
    /\ entry[e].at = "reading"
    /\ entry' = [entry EXCEPT ![e].list = IF done THEN {} ELSE list,
                              ![e].at = IF done THEN "entered" ELSE "saving"]
    /\ beside' = [beside EXCEPT ![e] = IF done THEN AboutToSave(e) ELSE {}]
    /\ UNCHANGED <<accountVars, auctionVars, endorsed, readVars>>

\* Mutant: the list is the new auction.
MergedAlone(e) == {entry[e].auction}

\* newEndorsedAuctions
Merged(e) == entry[e].list \cup {entry[e].auction}

\* update: the whole list is written.
SaveList(e) ==
    /\ entry[e].at = "saving"
    /\ endorsed' = [endorsed EXCEPT ![entry[e].row] = Merged(e)]
    /\ entry' = [entry EXCEPT ![e].at = "entered", ![e].list = {}]
    /\ beside' = [beside EXCEPT ![e] = AboutToSave(e)]
    /\ UNCHANGED <<accountVars, auctionVars, readVars>>

\* A query fails; the list is written perhaps.
EntryFails(e) ==
    /\ entry[e].at \in {"checking", "reading", "saving"}
    /\ entry' = [entry EXCEPT ![e].at = "refused", ![e].list = {}]
    /\ \/ /\ entry[e].at = "saving"
          /\ endorsed' = [endorsed EXCEPT ![entry[e].row] = Merged(e)]
       \/ UNCHANGED endorsed
    /\ UNCHANGED <<accountVars, auctionVars, beside, readVars>>

-----------------------------------------------------------------------------
(* getAuctionDetail *)

\* HISTORY: the user of row r has sent a code that auction a has had.
KnewTheCode(r, a) ==
    \E e \in Entries :
        entry[e] # NoEntry /\ entry[e].row = r /\ entry[e].auction = a
        /\ entry[e].code \in had[a]

\* HISTORY: the row of a read may see all of its auction at this moment.
Allowed(d) ==
    LET r == read[d].row
        a == read[d].auction IN
    \/ ~isPrivate[a] \/ Host[a] = r
    \/ a \in endorsed[r] /\ (KnewTheCode(r, a) \/ r \in edited)

\* Login c asks for auction a.
AskDetail(d, c, a) ==
    /\ token[c] # NoRow
    /\ read[d] = NoRead /\ \A f \in Reads : f < d => read[f] # NoRead
    /\ read' = [read EXCEPT ![d] = [row |-> token[c], auction |-> a, hidden |-> FALSE,
                                    at |-> "auction"]]
    /\ before' = [before EXCEPT ![d] = {e \in Entries : entry[e].at = "entered"}]
    /\ UNCHANGED <<accountVars, auctionVars, endorsed, entryVars, allowed>>

\* auction.isPrivate && isNotOwner
HiddenFrom(d) == isPrivate[read[d].auction] /\ Host[read[d].auction] # read[d].row

\* getAuctionById
ReadAuction(d) ==
    /\ read[d].at = "auction"
    /\ read' = [read EXCEPT ![d].hidden = HiddenFrom(d), ![d].at = "user"]
    /\ allowed' = [allowed EXCEPT ![d] = Allowed(d)]
    /\ UNCHANGED <<accountVars, auctionVars, endorsed, entryVars, before>>

\* Mutant: it is asked with the id of the owner of the auction.
IsOwnerEndorsed(d) == read[d].auction \in endorsed[Host[read[d].auction]]

\* checkUserEndorsedInAuction
IsEndorsed(d) == read[d].auction \in endorsed[read[d].row]

\* isUnEndorsed: the items and the description, or the short form.
ReadUser(d) ==
    /\ read[d].at = "user"
    /\ read' = [read EXCEPT ![d].hidden = FALSE,
                             ![d].at = IF ~IsEndorsed(d) /\ read[d].hidden THEN "short" ELSE "full"]
    /\ allowed' = [allowed EXCEPT ![d] = @ \/ Allowed(d)]
    /\ UNCHANGED <<accountVars, auctionVars, endorsed, entryVars, before>>

\* A query fails.
ReadFails(d) ==
    /\ read[d].at \in {"auction", "user"}
    /\ read' = [read EXCEPT ![d].hidden = FALSE, ![d].at = "failed"]
    /\ UNCHANGED <<accountVars, auctionVars, endorsed, entryVars, before, allowed>>

-----------------------------------------------------------------------------
(* The PATCHes *)

\* PATCH of an auction: it becomes public or private, or its code changes.
PatchAuction(a, p, k) ==
    /\ patches < MaxPatches /\ <<p, k>> # <<isPrivate[a], code[a]>>
    /\ patches' = patches + 1
    /\ isPrivate' = [isPrivate EXCEPT ![a] = p]
    /\ code' = [code EXCEPT ![a] = k]
    /\ had' = [had EXCEPT ![a] = @ \cup {k}]
    /\ UNCHANGED <<accountVars, endorsed, edited, entryVars, readVars>>

\* PATCH of a user: the list is what the body says.
PatchUser(r, list) ==
    /\ patches < MaxPatches /\ list # endorsed[r]
    /\ patches' = patches + 1
    /\ endorsed' = [endorsed EXCEPT ![r] = list]
    /\ edited' = edited \cup {r}
    /\ UNCHANGED <<accountVars, isPrivate, code, had, entryVars, readVars>>

\* A login changes the accounts alone; a row it inserts has no list.
OnlyLogins ==
    /\ endorsed' = [r \in Rows' |-> IF r \in Rows THEN endorsed[r] ELSE {}]
    /\ UNCHANGED <<auctionVars, entryVars, readVars>>

EntryProgress ==
    \E e \in Entries : CheckCode(e) \/ ReadList(e) \/ SaveList(e) \/ EntryFails(e)

ReadProgress == \E d \in Reads : ReadAuction(d) \/ ReadUser(d) \/ ReadFails(d)

Request ==
    \/ LoginRequest /\ OnlyLogins
    \/ \E e \in Entries, c \in Logins, a \in Auctions, k \in Codes : Enter(e, c, a, k)
    \/ \E d \in Reads, c \in Logins, a \in Auctions : AskDetail(d, c, a)
    \/ \E a \in Auctions, p \in BOOLEAN, k \in Codes : PatchAuction(a, p, k)
    \/ \E r \in Rows, list \in SUBSET Auctions : PatchUser(r, list)

\* The process ends with all its calls.
Ends ==
    /\ ProcessEnds
    /\ entry' = [e \in Entries |->
                    IF entry[e].at \in {"checking", "reading", "saving"}
                    THEN [entry[e] EXCEPT !.at = "refused", !.list = {}] ELSE entry[e]]
    /\ read' = [d \in Reads |->
                    IF read[d].at \in {"auction", "user"}
                    THEN [read[d] EXCEPT !.at = "failed", !.hidden = FALSE] ELSE read[d]]
    /\ UNCHANGED <<auctionVars, endorsed, beside, before, allowed>>

PrivateNext ==
    \/ MoreRequests /\ Request
    \/ LoginProgress /\ OnlyLogins
    \/ EntryProgress \/ ReadProgress \/ Ends

PrivateSpec == PrivateInit /\ [][PrivateNext]_privateVars

-----------------------------------------------------------------------------
(* Properties *)

\* Whoever was told to be in stays in, unless another entry of the same user was
\* about to save at that moment (users.service.ts:72-97).
LostOnlyToOverlappingEntry ==
    \A e \in Entries :
        entry[e].at = "entered" /\ entry[e].auction \notin endorsed[entry[e].row]
            => beside[e] # {} \/ entry[e].row \in edited

\* getAuctionDetail shows all of a private auction only to a request that was allowed
\* to see it at one of its queries: its owner's, or that of a user endorsed by a code
\* the auction has had; the lists and the items' own routes do not ask.  The auction and the list are read one after the other, and both change
\* (auction.service.ts:51-60,81-90,122-130).
ShownOnlyIfAllowed == \A d \in Reads : read[d].at = "full" => allowed[d]

\* Whoever has entered an auction is never shown its short form again, whichever
\* login it asks with, unless requests overlapped: two first logins that made two
\* rows, or two entries of which one was lost (auth.service.ts:94,
\* users.service.ts:72).
EnteredSeesAll ==
    \A d \in Reads : read[d].at = "short" =>
        \A e \in before[d] :
            LET r == entry[e].row
                s == read[d].row IN
            entry[e].auction = read[d].auction /\ owner[r] = owner[s] =>
                \/ beside[e] # {} \/ s \in edited
                \/ r < s /\ BehindTheBack(r, s)
                \/ s < r /\ BehindTheBack(s, r)
=============================================================================
