------------------------------ MODULE Accounts ------------------------------
(***************************************************************************)
(* Who is who: the users table, the logins of Kakao and of the test users,  *)
(* and the tokens they end in (domain/auth, domain/users).                   *)
(*                                                                         *)
(* A login looks its social account up and creates it when there is none;   *)
(* nothing in the table forbids a second row.  The token names a row and is *)
(* never looked up again.  Test users are handed out from a pool that lives *)
(* in the process.  The profile columns (names, pictures) are left out: a   *)
(* login rewrites them without waiting, and that can only end the process.   *)
(***************************************************************************)
EXTENDS Integers, Sequences

CONSTANTS
    People,       \* the social ids of Kakao
    Registered,   \* the people who have a row to begin with
    TestUsers,    \* how many test users there are (2000)
    MaxLogins,    \* BOUND on the logins
    MaxSeeds      \* BOUND on the calls of createTestUser

Slots == 1..TestUsers
Logins == 1..MaxLogins
SocialIds == People \cup Slots
Nobody == 0
NoRow == 0

ASSUME AccountInputs ==
    /\ TestUsers \in Nat
    /\ Registered \in Seq(People)
    /\ Nobody \notin SocialIds

ASSUME AccountBounds == MaxLogins \in Nat /\ MaxSeeds \in Nat

VARIABLES
    owner,    \* the users table: row |-> its social id
    free,     \* loginedUser: the test users nobody has been given
    saving,   \* test user |-> the inserts of createTestUser under way
    seeds,    \* how often createTestUser was called
    who,      \* login |-> its social id
    step,     \* login |-> what it waits for
    token,    \* login |-> the row its token names
    looked,   \* HISTORY: login |-> the rows there were when it looked
    by,       \* HISTORY: row |-> the login that inserted it, 0 for another
    lent      \* HISTORY: the test logins since the pool was last filled

accountVars == <<owner, free, saving, seeds, who, step, token, looked, by, lent>>

-----------------------------------------------------------------------------
(* Data *)

Steps == {"idle", "finding", "inserting", "answered", "failed"}
Rows == 1..Len(owner)

\* The bounds on logins and seeds bound the table; nothing here depends on them.
AccountTypeOK ==
    /\ owner \in Seq(SocialIds)
    /\ by \in Seq(Logins \cup {0}) /\ Len(by) = Len(owner)
    /\ free \subseteq Slots
    /\ saving \in [Slots -> Nat] /\ seeds \in Nat
    /\ who \in [Logins -> SocialIds \cup {Nobody}]
    /\ step \in [Logins -> Steps]
    /\ token \in [Logins -> Nat] /\ looked \in [Logins -> Nat]
    /\ lent \subseteq Logins

AccountInit ==
    /\ owner = Registered
    /\ free = Slots
    /\ saving = [s \in Slots |-> 0]
    /\ seeds = 0
    /\ who = [c \in Logins |-> Nobody]
    /\ step = [c \in Logins |-> "idle"]
    /\ token = [c \in Logins |-> NoRow]
    /\ looked = [c \in Logins |-> 0]
    /\ by = [r \in 1..Len(Registered) |-> 0]
    /\ lent = {}

\* Mutant: the users are read once, when the process starts.
AccountsCached(id) == {r \in 1..Len(Registered) : owner[r] = id}

\* The rows that findBySocialId may return: those with this social id and type.
AccountsOf(id) == {r \in Rows : owner[r] = id}

\* The next unused login.
Fresh(c) == step[c] = "idle" /\ \A d \in Logins : d < c => step[d] # "idle"

-----------------------------------------------------------------------------
(* Logging in *)

\* kakaoLoginCallback, KakaoStrategy.validate: the lookup is sent.
KakaoCallback(c, p) ==
    /\ Fresh(c)
    /\ who' = [who EXCEPT ![c] = p]
    /\ step' = [step EXCEPT ![c] = "finding"]
    /\ UNCHANGED <<owner, free, saving, seeds, token, looked, by, lent>>

\* Mutant: a test user is marked when its login is answered.
GivenLater(s) == free

\* findReachableTestUser: it is marked before the lookup is sent.
Given(s) == free \ {s}

\* testLogin: the first test user nobody has.
TestLogin(c) ==
    /\ Fresh(c) /\ free # {}
    /\ \E s \in free :
        /\ \A t \in free : s <= t
        /\ who' = [who EXCEPT ![c] = s]
        /\ free' = Given(s)
    /\ step' = [step EXCEPT ![c] = "finding"]
    /\ lent' = lent \cup {c}
    /\ UNCHANGED <<owner, saving, seeds, token, looked, by>>

\* A row was found: the token names it.  The profile is rewritten meanwhile.
UserFound(c) ==
    /\ step[c] = "finding"
    /\ \E r \in AccountsOf(who[c]) : token' = [token EXCEPT ![c] = r]
    /\ step' = [step EXCEPT ![c] = "answered"]
    /\ UNCHANGED <<owner, free, saving, seeds, who, looked, by, lent>>

\* No row was found: createSocialUser sends the insert, testLogin throws and the
\* test user stays taken.
UserMissing(c) ==
    /\ step[c] = "finding" /\ AccountsOf(who[c]) = {}
    /\ \/ /\ who[c] \in Slots
          /\ step' = [step EXCEPT ![c] = "failed"]
          /\ UNCHANGED looked
       \/ /\ who[c] \notin Slots
          /\ step' = [step EXCEPT ![c] = "inserting"]
          /\ looked' = [looked EXCEPT ![c] = Len(owner)]
    /\ UNCHANGED <<owner, free, saving, seeds, who, token, by, lent>>

\* Table and history with the row that login c inserts.
Inserted(c) ==
    /\ owner' = Append(owner, who[c])
    /\ by' = Append(by, c)

\* usersRepository.save: the table has a row more, the token names it.
UserInserted(c) ==
    /\ step[c] = "inserting"
    /\ Inserted(c)
    /\ token' = [token EXCEPT ![c] = Len(owner) + 1]
    /\ step' = [step EXCEPT ![c] = "answered"]
    /\ UNCHANGED <<free, saving, seeds, who, looked, lent>>

\* A query fails, an insert perhaps after it was done: LoginFilter answers 400.
QueryFails(c) ==
    /\ step[c] \in {"finding", "inserting"}
    /\ step' = [step EXCEPT ![c] = "failed"]
    /\ \/ step[c] = "inserting" /\ Inserted(c)
       \/ UNCHANGED <<owner, by>>
    /\ UNCHANGED <<free, saving, seeds, who, token, looked, lent>>

\* logout, or the token expires after a day: the client has none.
Logout(c) ==
    /\ token[c] # NoRow
    /\ token' = [token EXCEPT ![c] = NoRow]
    /\ UNCHANGED <<owner, free, saving, seeds, who, step, looked, by, lent>>

-----------------------------------------------------------------------------
(* The test users *)

\* createTestUser: an insert for each of them, none awaited, whoever is there.
CreateTestUsers ==
    /\ seeds < MaxSeeds
    /\ seeds' = seeds + 1
    /\ saving' = [s \in Slots |-> saving[s] + 1]
    /\ UNCHANGED <<owner, free, who, step, token, looked, by, lent>>

TestUserSaved(s) ==
    /\ saving[s] > 0
    /\ saving' = [saving EXCEPT ![s] = @ - 1]
    /\ owner' = Append(owner, s)
    /\ by' = Append(by, 0)
    /\ UNCHANGED <<free, seeds, who, step, token, looked, lent>>

\* testLogout: every test user can be given out again.
TestLogout ==
    /\ free' = Slots
    /\ lent' = {}
    /\ UNCHANGED <<owner, saving, seeds, who, step, token, looked, by>>

\* The process ends, for one when an insert of createTestUser or the rewriting of a
\* profile is rejected: its logins fail and its pool is new.  An insert that is done
\* all the same is one that QueryFails or TestUserSaved did before.
ProcessEnds ==
    /\ free' = Slots
    /\ lent' = {}
    /\ saving' = [s \in Slots |-> 0]
    /\ step' = [c \in Logins |->
                    IF step[c] \in {"finding", "inserting"} THEN "failed" ELSE step[c]]
    /\ UNCHANGED <<owner, seeds, who, token, looked, by>>

LoginRequest ==
    \/ \E c \in Logins : TestLogin(c) \/ \E p \in People : KakaoCallback(c, p)
    \/ CreateTestUsers

LoginProgress ==
    \/ \E c \in Logins : UserFound(c) \/ UserMissing(c) \/ UserInserted(c) \/ QueryFails(c)
    \/ \E s \in Slots : TestUserSaved(s)
    \/ \E c \in Logins : Logout(c)
    \/ TestLogout

AccountNext == LoginRequest \/ LoginProgress \/ ProcessEnds

AccountSpec == AccountInit /\ [][AccountNext]_accountVars

-----------------------------------------------------------------------------
(* Properties *)

\* Row s was inserted by createTestUser, or by a login that had looked before row r
\* was there.
BehindTheBack(r, s) == by[s] = 0 \/ looked[by[s]] < r

\* A second row for one account comes only from createTestUser, which looks nowhere,
\* or from a login that had looked before the first one was there: without an overlap
\* every login finds it (auth.service.ts:94; no unique column in user.entity.ts).
TwinsOnlyFromOverlap ==
    \A r, s \in Rows : r < s /\ owner[r] = owner[s] => BehindTheBack(r, s)

\* Between two fillings of the pool no test user is given to two logins, however
\* their lookups overlap (test-auth.service.ts:31-43).
TestAccountsApart ==
    \A c, d \in lent : c # d /\ token[c] # NoRow => token[c] # token[d]
=============================================================================
