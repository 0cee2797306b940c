------------------------ MODULE PrivateAuctionsProofs -----------------------
(***************************************************************************)
(* Proofs about Accounts and PrivateAuctions, for any number of people,      *)
(* test users, logins, auctions, entries, reads and PATCHes.                 *)
(***************************************************************************)
EXTENDS PrivateAuctions, SequenceTheorems, TLAPS

-----------------------------------------------------------------------------
(* Accounts: the inductive invariant *)

\* A login that waits has a social account; one that has not begun has no token.
LoginsInOrder ==
    /\ \A c \in Logins : step[c] # "idle" => who[c] \in SocialIds
    /\ \A c \in Logins : step[c] = "idle" => token[c] = NoRow

\* A login that inserts has looked at rows of others only.
InsertersLooked ==
    \A c \in Logins : step[c] = "inserting" =>
        /\ looked[c] <= Len(owner)
        /\ \A r \in Rows : r <= looked[c] => owner[r] # who[c]

\* Whoever inserted a row is done, so what it had looked at stays.
InsertersAreDone ==
    \A r \in Rows : by[r] # 0 => step[by[r]] \in {"answered", "failed"}

\* A token names a row of the social account that logged in.
TokensAreTheirs ==
    \A c \in Logins : token[c] # NoRow => token[c] \in Rows /\ owner[token[c]] = who[c]

\* The test users that are lent out are taken, and each is lent to one login.
LentApart ==
    /\ \A c \in lent : step[c] # "idle" /\ who[c] \notin free
    /\ \A c, d \in lent : c # d => who[c] # who[d]

AccountInv ==
    /\ AccountTypeOK
    /\ LoginsInOrder
    /\ InsertersLooked
    /\ InsertersAreDone
    /\ TokensAreTheirs
    /\ LentApart
    /\ TwinsOnlyFromOverlap

\* The accounts begin in the invariant.
LEMMA AccountStarts == AccountInit => AccountInv
<1> SUFFICES ASSUME AccountInit PROVE AccountInv
  OBVIOUS
<1> USE AccountInputs, AccountBounds DEF AccountInit
<1>1. Len(Registered) \in Nat /\ Registered \in [1..Len(Registered) -> People]
  BY LenProperties
<1>2. by \in Seq(Logins \cup {0}) /\ Len(by) = Len(owner)
  BY <1>1 DEF Logins
<1>3. owner \in Seq(SocialIds)
  BY SeqMonotonic DEF SocialIds
<1>4. AccountTypeOK
  BY <1>2, <1>3 DEF AccountTypeOK, Steps, Slots, NoRow, Nobody
<1>5. LoginsInOrder /\ InsertersLooked /\ TokensAreTheirs /\ LentApart
  BY DEF LoginsInOrder, InsertersLooked, TokensAreTheirs, LentApart
<1>6. \A r \in Rows : by[r] = 0
  BY DEF Rows
<1>7. InsertersAreDone /\ TwinsOnlyFromOverlap
  BY <1>6 DEF InsertersAreDone, TwinsOnlyFromOverlap, BehindTheBack
<1>8. QED
  BY <1>4, <1>5, <1>7 DEF AccountInv

\* The table grows at its end only.
LEMMA RowsAppended ==
    ASSUME AccountTypeOK, NEW id \in SocialIds, NEW c \in Logins \cup {0},
           owner' = Append(owner, id), by' = Append(by, c)
    PROVE  /\ owner' \in Seq(SocialIds) /\ by' \in Seq(Logins \cup {0}) /\ Len(by') = Len(owner')
           /\ Len(owner) \in Nat /\ Len(owner') = Len(owner) + 1
           /\ Rows' = Rows \cup {Len(owner) + 1} /\ Len(owner) + 1 \notin Rows
           /\ \A r \in Rows : owner'[r] = owner[r] /\ by'[r] = by[r]
           /\ owner'[Len(owner) + 1] = id /\ by'[Len(owner) + 1] = c
<1>1. owner \in Seq(SocialIds) /\ by \in Seq(Logins \cup {0}) /\ Len(by) = Len(owner)
  BY DEF AccountTypeOK
<1>2. Len(owner) \in Nat
  BY <1>1, LenProperties
<1>3. /\ owner' \in Seq(SocialIds) /\ Len(owner') = Len(owner) + 1
      /\ \A r \in 1..Len(owner) : owner'[r] = owner[r]
      /\ owner'[Len(owner) + 1] = id
  BY <1>1, AppendProperties
<1>4. /\ by' \in Seq(Logins \cup {0}) /\ Len(by') = Len(by) + 1
      /\ \A r \in 1..Len(by) : by'[r] = by[r]
      /\ by'[Len(by) + 1] = c
  BY <1>1, AppendProperties
<1>5. Rows' = Rows \cup {Len(owner) + 1} /\ Len(owner) + 1 \notin Rows
  BY <1>2, <1>3 DEF Rows
<1>6. QED
  BY <1>1, <1>2, <1>3, <1>4, <1>5 DEF Rows


\* Logging in with an account of one's own.
LEMMA KakaoKeeps ==
    ASSUME AccountInv, NEW c \in Logins, NEW p \in People, KakaoCallback(c, p)
    PROVE  AccountInv'
<1> USE DEF KakaoCallback, Fresh
<1>1. UNCHANGED <<owner, by, Rows>>
  BY DEF Rows
<1>2. AccountTypeOK'
  BY DEF AccountInv, AccountTypeOK, Steps, SocialIds
<1>3. c \notin lent /\ token[c] = NoRow
  BY DEF AccountInv, LentApart, LoginsInOrder
<1>4. \A d \in Logins : d # c => who'[d] = who[d] /\ step'[d] = step[d]
  BY DEF AccountInv, AccountTypeOK
<1>5. step'[c] = "finding" /\ who'[c] = p
  BY DEF AccountInv, AccountTypeOK
<1>6. LoginsInOrder' /\ TokensAreTheirs'
  BY <1>1, <1>3, <1>4, <1>5 DEF AccountInv, LoginsInOrder, TokensAreTheirs, SocialIds
<1>7. InsertersLooked'
  BY <1>1, <1>4, <1>5 DEF AccountInv, InsertersLooked
<1>8. InsertersAreDone'
  BY <1>1, <1>4, <1>5 DEF AccountInv, InsertersAreDone, AccountTypeOK, Rows
<1>9. LentApart'
  BY <1>3, <1>4 DEF AccountInv, LentApart, AccountTypeOK
<1>10. TwinsOnlyFromOverlap'
  BY <1>1 DEF AccountInv, TwinsOnlyFromOverlap, BehindTheBack
<1>11. QED
  BY <1>2, <1>6, <1>7, <1>8, <1>9, <1>10 DEF AccountInv

\* A test user is lent: nobody has it, and nobody else gets it.
LEMMA TestLoginKeeps ==
    ASSUME AccountInv, NEW c \in Logins, TestLogin(c)
    PROVE  AccountInv'
<1> USE DEF TestLogin, Fresh
<1>1. PICK s \in free : who' = [who EXCEPT ![c] = s] /\ free' = free \ {s}
  BY DEF Given
<1>2. UNCHANGED <<owner, by, Rows>>
  BY DEF Rows
<1>3. AccountTypeOK'
  BY <1>1 DEF AccountInv, AccountTypeOK, Steps, SocialIds
<1>4. c \notin lent /\ token[c] = NoRow /\ s \in SocialIds
  BY DEF AccountInv, LentApart, LoginsInOrder, AccountTypeOK, SocialIds
<1>5. \A d \in Logins : d # c => who'[d] = who[d] /\ step'[d] = step[d]
  BY <1>1 DEF AccountInv, AccountTypeOK
<1>6. step'[c] = "finding" /\ who'[c] = s
  BY <1>1 DEF AccountInv, AccountTypeOK
<1>7. LoginsInOrder' /\ TokensAreTheirs'
  BY <1>2, <1>4, <1>5, <1>6 DEF AccountInv, LoginsInOrder, TokensAreTheirs
<1>8. InsertersLooked'
  BY <1>2, <1>5, <1>6 DEF AccountInv, InsertersLooked
<1>9. InsertersAreDone'
  BY <1>2, <1>5, <1>6 DEF AccountInv, InsertersAreDone, AccountTypeOK, Rows
<1>10. \A d \in lent : d \in Logins /\ d # c /\ who[d] # s
  BY <1>1, <1>4 DEF AccountInv, LentApart, AccountTypeOK
<1>11. LentApart'
  BY <1>1, <1>5, <1>6, <1>10 DEF AccountInv, LentApart
<1>12. TwinsOnlyFromOverlap'
  BY <1>2 DEF AccountInv, TwinsOnlyFromOverlap, BehindTheBack
<1>13. QED
  BY <1>3, <1>7, <1>8, <1>9, <1>11, <1>12 DEF AccountInv

\* The lookup is answered, or the login fails without an insert.
LEMMA LookupKeeps ==
    ASSUME AccountInv, NEW c \in Logins,
           UserFound(c) \/ UserMissing(c)
    PROVE  AccountInv'
<1> USE DEF AccountsOf
<1>1. UNCHANGED <<owner, by, Rows, who, free, saving, seeds, lent>> /\ step[c] = "finding"
  BY DEF UserFound, UserMissing, Rows
<1>2. step' \in [Logins -> Steps] /\ step'[c] \in {"answered", "failed", "inserting"}
  BY DEF AccountInv, AccountTypeOK, UserFound, UserMissing, Steps
<1>3. \A d \in Logins : d # c => step'[d] = step[d] /\ token'[d] = token[d] /\ looked'[d] = looked[d]
  BY DEF AccountInv, AccountTypeOK, UserFound, UserMissing
<1>4. token'[c] = token[c] \/ (token'[c] \in Rows /\ owner[token'[c]] = who[c])
  BY DEF AccountInv, AccountTypeOK, UserFound, UserMissing
<1>5. token' \in [Logins -> Nat]
  BY DEF AccountInv, AccountTypeOK, UserFound, UserMissing, Rows
<1>6. looked' \in [Logins -> Nat]
  BY LenProperties DEF AccountInv, AccountTypeOK, UserFound, UserMissing
<1>7. AccountTypeOK'
  BY <1>1, <1>2, <1>5, <1>6 DEF AccountInv, AccountTypeOK
<1>8. step'[c] = "inserting" => looked'[c] = Len(owner) /\ \A r \in Rows : owner[r] # who[c]
  BY DEF AccountInv, AccountTypeOK, UserFound, UserMissing
<1>9. LoginsInOrder'
  BY <1>1, <1>2, <1>3 DEF AccountInv, LoginsInOrder
<1>10. InsertersLooked'
  <2>1. Len(owner) \in Nat
    BY LenProperties DEF AccountInv, AccountTypeOK
  <2>2. QED
    BY <1>1, <1>3, <1>8, <2>1 DEF AccountInv, InsertersLooked
<1>11. InsertersAreDone'
  BY <1>1, <1>3 DEF AccountInv, InsertersAreDone, AccountTypeOK, Rows
<1>12. TokensAreTheirs'
  BY <1>1, <1>3, <1>4 DEF AccountInv, TokensAreTheirs
<1>13. LentApart'
  BY <1>1, <1>2, <1>3 DEF AccountInv, LentApart, AccountTypeOK
<1>14. \A r \in Rows : by[r] # 0 => by[r] # c
  BY <1>1 DEF AccountInv, InsertersAreDone
<1>15. TwinsOnlyFromOverlap'
  BY <1>1, <1>3, <1>14 DEF AccountInv, TwinsOnlyFromOverlap, BehindTheBack, AccountTypeOK, Rows
<1>16. QED
  BY <1>7, <1>9, <1>10, <1>11, <1>12, <1>13, <1>15 DEF AccountInv


\* A row is inserted, by a login that has looked or by createTestUser.
LEMMA InsertKeeps ==
    ASSUME AccountInv, NEW id \in SocialIds, NEW c \in Logins \cup {0},
           owner' = Append(owner, id), by' = Append(by, c),
           c # 0 => step[c] = "inserting" /\ id = who[c]
    PROVE  /\ \A r, s \in Rows' : r < s /\ owner'[r] = owner'[s] =>
                  by'[s] = 0 \/ looked[by'[s]] < r
           /\ \A d \in Logins : step[d] = "inserting" =>
                  /\ looked[d] <= Len(owner')
                  /\ \A r \in Rows' : r <= looked[d] => owner'[r] # who[d]
           /\ \A d \in Logins : token[d] # NoRow =>
                  token[d] \in Rows' /\ owner'[token[d]] = who[d]
<1>1. /\ Len(owner) \in Nat /\ Len(owner') = Len(owner) + 1
      /\ Rows' = Rows \cup {Len(owner) + 1} /\ Len(owner) + 1 \notin Rows
      /\ \A r \in Rows : owner'[r] = owner[r] /\ by'[r] = by[r]
      /\ owner'[Len(owner) + 1] = id /\ by'[Len(owner) + 1] = c
  BY RowsAppended DEF AccountInv
<1>2. ASSUME NEW r \in Rows', NEW s \in Rows', r < s, owner'[r] = owner'[s]
      PROVE  by'[s] = 0 \/ looked[by'[s]] < r
  <2>1. r \in Rows /\ r \in Nat
    BY <1>1, <1>2 DEF Rows
  <2>2. CASE s \in Rows
    BY <1>1, <1>2, <2>1, <2>2 DEF AccountInv, TwinsOnlyFromOverlap, BehindTheBack
  <2>3. CASE s = Len(owner) + 1 /\ c # 0
    <3>1. owner[r] = who[c] /\ by'[s] = c /\ c \in Logins
      BY <1>1, <1>2, <2>1, <2>3
    <3>2. looked[c] \in Nat
      BY <3>1 DEF AccountInv, AccountTypeOK
    <3>3. ~ r <= looked[c]
      BY <2>1, <2>3, <3>1 DEF AccountInv, InsertersLooked
    <3>4. QED
      BY <2>1, <3>1, <3>2, <3>3
  <2>4. CASE s = Len(owner) + 1 /\ c = 0
    BY <1>1, <2>4
  <2>5. QED
    BY <1>1, <2>2, <2>3, <2>4
<1>3. ASSUME NEW d \in Logins, step[d] = "inserting"
      PROVE  /\ looked[d] <= Len(owner')
             /\ \A r \in Rows' : r <= looked[d] => owner'[r] # who[d]
  <2>1. looked[d] \in Nat /\ looked[d] <= Len(owner)
    BY <1>3 DEF AccountInv, AccountTypeOK, InsertersLooked
  <2>2. \A r \in Rows : r <= looked[d] => owner[r] # who[d]
    BY <1>3 DEF AccountInv, InsertersLooked
  <2>3. looked[d] <= Len(owner')
    BY <1>1, <2>1
  <2>4. ASSUME NEW r \in Rows', r <= looked[d]
        PROVE  owner'[r] # who[d]
    <3>1. r \in Rows
      BY <1>1, <2>1, <2>4
    <3>2. QED
      BY <1>1, <2>2, <2>4, <3>1
  <2>5. QED
    BY <2>3, <2>4
<1>4. \A d \in Logins : token[d] # NoRow => token[d] \in Rows' /\ owner'[token[d]] = who[d]
  BY <1>1 DEF AccountInv, TokensAreTheirs
<1>5. QED
  BY <1>2, <1>3, <1>4

\* A login inserts its row, and is answered or not.
LEMMA LoginInsertKeeps ==
    ASSUME AccountInv, NEW c \in Logins,
           UserInserted(c) \/ (QueryFails(c) /\ Inserted(c))
    PROVE  AccountInv'
<1> USE DEF Inserted
<1>1. /\ owner' = Append(owner, who[c]) /\ by' = Append(by, c)
      /\ UNCHANGED <<free, saving, seeds, who, looked, lent>>
  BY DEF UserInserted, QueryFails
<1>2. who[c] \in SocialIds /\ step[c] = "inserting"
  <2>1. Len(owner) \in Nat /\ Len(by) = Len(owner)
    BY LenProperties DEF AccountInv, AccountTypeOK
  <2>2. Len(by') = Len(by) + 1
    BY <1>1, AppendProperties DEF AccountInv, AccountTypeOK
  <2>3. step[c] = "inserting"
    BY <2>1, <2>2 DEF UserInserted, QueryFails
  <2>4. QED
    BY <2>3 DEF AccountInv, LoginsInOrder
<1>3. /\ Len(owner) \in Nat /\ Rows' = Rows \cup {Len(owner) + 1}
      /\ owner' \in Seq(SocialIds) /\ by' \in Seq(Logins \cup {0}) /\ Len(by') = Len(owner')
      /\ \A r \in Rows : by'[r] = by[r]
      /\ owner'[Len(owner) + 1] = who[c] /\ by'[Len(owner) + 1] = c
  BY <1>1, <1>2, RowsAppended DEF AccountInv
<1>4. /\ \A r, s \in Rows' : r < s /\ owner'[r] = owner'[s] => by'[s] = 0 \/ looked[by'[s]] < r
      /\ \A d \in Logins : step[d] = "inserting" =>
             /\ looked[d] <= Len(owner')
             /\ \A r \in Rows' : r <= looked[d] => owner'[r] # who[d]
      /\ \A d \in Logins : token[d] # NoRow => token[d] \in Rows' /\ owner'[token[d]] = who[d]
  BY <1>1, <1>2, InsertKeeps
<1>5. step' \in [Logins -> Steps] /\ step'[c] \in {"answered", "failed"}
  BY DEF AccountInv, AccountTypeOK, UserInserted, QueryFails, Steps
<1>6. \A d \in Logins : d # c => step'[d] = step[d] /\ token'[d] = token[d]
  BY DEF AccountInv, AccountTypeOK, UserInserted, QueryFails
<1>7. token' \in [Logins -> Nat] /\ token'[c] \in {token[c], Len(owner) + 1}
  <2>1. token \in [Logins -> Nat] /\ Len(owner) + 1 \in Nat
    BY <1>3 DEF AccountInv, AccountTypeOK
  <2>2. token' = token \/ token' = [token EXCEPT ![c] = Len(owner) + 1]
    BY DEF UserInserted, QueryFails
  <2>3. QED
    BY <2>1, <2>2
<1>8. AccountTypeOK'
  BY <1>1, <1>3, <1>5, <1>7 DEF AccountInv, AccountTypeOK
<1>9. LoginsInOrder'
  BY <1>1, <1>2, <1>5, <1>6 DEF AccountInv, LoginsInOrder
<1>10. InsertersLooked'
  BY <1>1, <1>4, <1>5, <1>6 DEF InsertersLooked
<1>11. InsertersAreDone'
  <2>1. by \in [Rows -> Logins \cup {0}]
    BY LenProperties DEF AccountInv, AccountTypeOK, Rows
  <2>2. ASSUME NEW r \in Rows', by'[r] # 0
        PROVE  step'[by'[r]] \in {"answered", "failed"}
    <3>1. CASE r \in Rows
      BY <1>2, <1>3, <1>5, <1>6, <2>1, <2>2, <3>1 DEF AccountInv, InsertersAreDone
    <3>2. CASE r = Len(owner) + 1
      BY <1>3, <1>5, <3>2
    <3>3. QED
      BY <1>3, <2>2, <3>1, <3>2
  <2>3. QED
    BY <2>2 DEF InsertersAreDone
<1>12. ASSUME NEW d \in Logins, token'[d] # NoRow
       PROVE  token'[d] \in Rows' /\ owner'[token'[d]] = who'[d]
  <2>1. CASE token'[d] = token[d]
    BY <1>1, <1>4, <1>12, <2>1
  <2>2. CASE d = c /\ token'[d] = Len(owner) + 1
    BY <1>1, <1>3, <2>2
  <2>3. QED
    BY <1>6, <1>7, <2>1, <2>2
<1>13. TokensAreTheirs'
  BY <1>12 DEF TokensAreTheirs
<1>14. LentApart'
  <2>1. lent \subseteq Logins /\ step[c] # "idle"
    BY <1>2 DEF AccountInv, AccountTypeOK
  <2>2. \A d \in lent : step'[d] # "idle"
    BY <1>5, <1>6, <2>1 DEF AccountInv, LentApart
  <2>3. QED
    BY <1>1, <2>2 DEF AccountInv, LentApart
<1>15. TwinsOnlyFromOverlap'
  BY <1>1, <1>4 DEF TwinsOnlyFromOverlap, BehindTheBack
<1>16. QED
  BY <1>8, <1>9, <1>10, <1>11, <1>13, <1>14, <1>15 DEF AccountInv

\* createTestUser inserts a row.
LEMMA SeedKeeps ==
    ASSUME AccountInv, NEW s \in Slots, TestUserSaved(s)
    PROVE  AccountInv'
<1> USE DEF TestUserSaved
<1>1. s \in SocialIds /\ owner' = Append(owner, s) /\ by' = Append(by, 0)
  BY DEF SocialIds
<1>2. /\ Len(owner) \in Nat /\ Rows' = Rows \cup {Len(owner) + 1}
      /\ owner' \in Seq(SocialIds) /\ by' \in Seq(Logins \cup {0}) /\ Len(by') = Len(owner')
      /\ \A r \in Rows : by'[r] = by[r]
      /\ by'[Len(owner) + 1] = 0
  BY <1>1, RowsAppended DEF AccountInv
<1>3. /\ \A r, t \in Rows' : r < t /\ owner'[r] = owner'[t] => by'[t] = 0 \/ looked[by'[t]] < r
      /\ \A d \in Logins : step[d] = "inserting" =>
             /\ looked[d] <= Len(owner')
             /\ \A r \in Rows' : r <= looked[d] => owner'[r] # who[d]
      /\ \A d \in Logins : token[d] # NoRow => token[d] \in Rows' /\ owner'[token[d]] = who[d]
  BY <1>1, InsertKeeps
<1>4. saving' \in [Slots -> Nat]
  BY DEF AccountInv, AccountTypeOK
<1>5. AccountTypeOK'
  BY <1>2, <1>4 DEF AccountInv, AccountTypeOK
<1>6. InsertersAreDone'
  BY <1>2 DEF AccountInv, InsertersAreDone
<1>7. LoginsInOrder' /\ LentApart'
  BY DEF AccountInv, LoginsInOrder, LentApart
<1>8. InsertersLooked' /\ TokensAreTheirs'
  BY <1>3 DEF InsertersLooked, TokensAreTheirs
<1>9. TwinsOnlyFromOverlap'
  BY <1>3 DEF TwinsOnlyFromOverlap, BehindTheBack
<1>10. QED
  BY <1>5, <1>6, <1>7, <1>8, <1>9 DEF AccountInv

\* Whatever leaves the table alone and only ends logins, forgets tokens or fills the
\* pool anew.
LEMMA QuietKeeps ==
    ASSUME AccountInv,
           \/ \E c \in Logins : Logout(c) \/ (QueryFails(c) /\ UNCHANGED <<owner, by>>)
           \/ CreateTestUsers \/ TestLogout \/ ProcessEnds
    PROVE  AccountInv'
<1> USE DEF Logout, QueryFails, CreateTestUsers, TestLogout, ProcessEnds
<1>1. UNCHANGED <<owner, by, Rows, who, looked>>
  BY DEF Rows
<1>2. step' \in [Logins -> Steps]
  BY DEF AccountInv, AccountTypeOK, Steps
<1>3. \A d \in Logins :
          step'[d] = step[d] \/ (step[d] \in {"finding", "inserting"} /\ step'[d] = "failed")
  BY DEF AccountInv, AccountTypeOK
<1>4. token' \in [Logins -> Nat] /\ \A d \in Logins : token'[d] \in {token[d], NoRow}
  <2>1. token \in [Logins -> Nat]
    BY DEF AccountInv, AccountTypeOK
  <2>2. token' = token \/ \E c \in Logins : token' = [token EXCEPT ![c] = NoRow]
    OBVIOUS
  <2>3. QED
    BY <2>1, <2>2 DEF NoRow
<1>5. (UNCHANGED <<free, lent>>) \/ (free' = Slots /\ lent' = {})
  OBVIOUS
<1>6. saving' \in [Slots -> Nat] /\ seeds' \in Nat
  BY DEF AccountInv, AccountTypeOK
<1>7. AccountTypeOK'
  BY <1>1, <1>2, <1>4, <1>5, <1>6 DEF AccountInv, AccountTypeOK
<1>8. LoginsInOrder'
  BY <1>1, <1>3, <1>4 DEF AccountInv, LoginsInOrder
<1>9. InsertersLooked' /\ TokensAreTheirs'
  BY <1>1, <1>3, <1>4 DEF AccountInv, InsertersLooked, TokensAreTheirs
<1>10. InsertersAreDone'
  BY <1>1, <1>3 DEF AccountInv, InsertersAreDone, AccountTypeOK, Rows
<1>11. LentApart'
  BY <1>1, <1>3, <1>5 DEF AccountInv, LentApart, AccountTypeOK
<1>12. TwinsOnlyFromOverlap'
  BY <1>1 DEF AccountInv, TwinsOnlyFromOverlap, BehindTheBack
<1>13. QED
  BY <1>7, <1>8, <1>9, <1>10, <1>11, <1>12 DEF AccountInv

\* Every step keeps the invariant.
LEMMA AccountStepKeeps ==
    ASSUME AccountInv, [AccountNext]_accountVars
    PROVE  AccountInv'
<1>1. CASE UNCHANGED accountVars
  BY <1>1 DEF accountVars, AccountInv, AccountTypeOK, LoginsInOrder, InsertersLooked,
              InsertersAreDone, TokensAreTheirs, LentApart, TwinsOnlyFromOverlap,
              BehindTheBack, Rows
<1>2. CASE LoginRequest
  BY <1>2, KakaoKeeps, TestLoginKeeps, QuietKeeps DEF LoginRequest
<1>3. ASSUME NEW c \in Logins, QueryFails(c)
      PROVE  AccountInv'
  BY <1>3, LoginInsertKeeps, QuietKeeps DEF QueryFails
<1>4. CASE LoginProgress
  BY <1>3, <1>4, LookupKeeps, LoginInsertKeeps, SeedKeeps, QuietKeeps DEF LoginProgress
<1>5. CASE ProcessEnds
  BY <1>5, QuietKeeps
<1>6. QED
  BY <1>1, <1>2, <1>4, <1>5 DEF AccountNext

\* The invariant of the accounts.
LEMMA AccountInvariant == AccountSpec => []AccountInv
<1>1. AccountInit => AccountInv
  BY AccountStarts
<1>2. AccountInv /\ [AccountNext]_accountVars => AccountInv'
  BY AccountStepKeeps
<1>3. QED
  BY <1>1, <1>2, PTL DEF AccountSpec

\* Whatever the logins overlap with, a second row for one account comes only from an
\* overlap or from createTestUser.
THEOREM AccountsAreOne == AccountSpec => []TwinsOnlyFromOverlap
<1>1. AccountInv => TwinsOnlyFromOverlap
  BY DEF AccountInv
<1>2. QED
  BY <1>1, AccountInvariant, PTL

\* No test user is given to two logins between two fillings of the pool.
THEOREM TestUsersAreLentOnce == AccountSpec => []TestAccountsApart
<1>1. AccountInv => TestAccountsApart
  BY DEF AccountInv, AccountTypeOK, TokensAreTheirs, LentApart, TestAccountsApart
<1>2. QED
  BY <1>1, AccountInvariant, PTL

-----------------------------------------------------------------------------
(* PrivateAuctions: the inductive invariant *)

EntryPoints == {"checking", "reading", "saving", "entered", "refused"}
EntryCall ==
    [row : Rows, auction : Auctions, code : Codes, list : SUBSET Auctions, at : EntryPoints]

ReadPoints == {"auction", "user", "full", "short", "failed"}
ReadCall == [row : Rows, auction : Auctions, hidden : BOOLEAN, at : ReadPoints]

PrivateTypeOK ==
    /\ code \in [Auctions -> Codes]
    /\ had \in [Auctions -> SUBSET Codes]
    /\ endorsed \in [Rows -> SUBSET Auctions]
    /\ entry \in [Entries -> EntryCall \cup {NoEntry}]
    /\ read \in [Reads -> ReadCall \cup {NoRead}]
    /\ beside \in [Entries -> SUBSET Entries]
    /\ before \in [Reads -> SUBSET Entries]
    /\ allowed \in [Reads -> BOOLEAN]
    /\ edited \subseteq Rows

\* A code is one the auction has had, and so is one that was let through.
CodesKnown ==
    /\ \A a \in Auctions : code[a] \in had[a]
    /\ \A e \in Entries : entry[e].at \in {"reading", "saving", "entered"} =>
           entry[e].code \in had[entry[e].auction]

\* Entry e may have been undone: another one was about to save, or a PATCH came.
Undone(e) == beside[e] # {} \/ entry[e].row \in edited

\* A list that is about to be saved has the auctions its user has entered.
ListsHoldEntered ==
    \A e, f \in Entries :
        entry[e].at = "entered" /\ entry[f].at = "saving" /\ entry[e].row = entry[f].row
            => entry[e].auction \in entry[f].list \/ Undone(e)

\* A user is endorsed by a code, or by a PATCH.
ByCode(r, a) == KnewTheCode(r, a) \/ r \in edited

ListsByCode ==
    /\ \A r \in Rows : \A a \in endorsed[r] : ByCode(r, a)
    /\ \A e \in Entries : entry[e].at = "saving" =>
           \A a \in entry[e].list : ByCode(entry[e].row, a)

\* What a read was told, and what a read that is under way will be told.
ReadsAllowed ==
    /\ \A d \in Reads : read[d].at = "user" => read[d].hidden \/ allowed[d]
    /\ ShownOnlyIfAllowed

\* The entries before a read stay entered.
EnteredBefore ==
    /\ \A d \in Reads : \A e \in before[d] : entry[e].at = "entered"
    /\ \A d \in Reads : read[d].at = "short" =>
           \A e \in before[d] :
               entry[e].row = read[d].row /\ entry[e].auction = read[d].auction => Undone(e)

PrivateInv ==
    /\ AccountInv
    /\ PrivateTypeOK
    /\ CodesKnown
    /\ LostOnlyToOverlappingEntry
    /\ ListsHoldEntered
    /\ ListsByCode
    /\ ReadsAllowed
    /\ EnteredBefore

\* A login is a step of Accounts, every other step leaves the accounts alone.
LEMMA PrivateStepsAccounts == [PrivateNext]_privateVars => [AccountNext]_accountVars
<1>1. Request => [AccountNext]_accountVars
  BY DEF Request, Enter, AskDetail, PatchAuction, PatchUser, AccountNext
<1>2. EntryProgress => UNCHANGED accountVars
  BY DEF EntryProgress, CheckCode, ReadList, SaveList, EntryFails
<1>3. ReadProgress => UNCHANGED accountVars
  BY DEF ReadProgress, ReadAuction, ReadUser, ReadFails
<1>4. Ends => AccountNext
  BY DEF Ends, AccountNext
<1>5. UNCHANGED privateVars => UNCHANGED accountVars
  BY DEF privateVars
<1>6. QED
  BY <1>1, <1>2, <1>3, <1>4, <1>5 DEF PrivateNext, AccountNext

\* Everything begins in the invariant.
LEMMA PrivateStarts == PrivateInit => PrivateInv
<1> SUFFICES ASSUME PrivateInit PROVE PrivateInv
  OBVIOUS
<1> USE PrivateInputs DEF PrivateInit, NoEntry, NoRead
<1>1. AccountInv
  BY AccountStarts
<1>2. PrivateTypeOK
  BY DEF PrivateTypeOK
<1>3. \A e \in Entries : entry[e].at = "idle"
  OBVIOUS
<1>4. \A d \in Reads : read[d].at = "idle"
  OBVIOUS
<1>5. CodesKnown /\ LostOnlyToOverlappingEntry /\ ListsHoldEntered
  BY <1>3 DEF CodesKnown, LostOnlyToOverlappingEntry, ListsHoldEntered
<1>6. ListsByCode
  BY <1>3 DEF ListsByCode
<1>7. ReadsAllowed /\ EnteredBefore
  BY <1>4 DEF ReadsAllowed, ShownOnlyIfAllowed, EnteredBefore
<1>8. QED
  BY <1>1, <1>2, <1>5, <1>6, <1>7 DEF PrivateInv


\* A call that has begun has all its columns.
LEMMA CallsBegun ==
    ASSUME PrivateTypeOK
    PROVE  /\ \A e \in Entries : entry[e].at # "idle" => entry[e] \in EntryCall
           /\ \A e \in Entries : entry[e] \in EntryCall => entry[e].at # "idle" /\ entry[e] # NoEntry
           /\ \A d \in Reads : read[d].at # "idle" => read[d] \in ReadCall
           /\ \A d \in Reads : read[d] \in ReadCall => read[d].at # "idle"
  BY DEF PrivateTypeOK, NoEntry, NoRead, EntryCall, EntryPoints, ReadCall, ReadPoints

\* What is known of a code is not forgotten.
LEMMA KnowledgeKept ==
    ASSUME PrivateTypeOK,
           \A e \in Entries : entry[e] \in EntryCall =>
               /\ entry'[e] # NoEntry
               /\ entry'[e].row = entry[e].row /\ entry'[e].auction = entry[e].auction
               /\ entry'[e].code = entry[e].code,
           \A a \in Auctions : had[a] \subseteq had'[a],
           edited \subseteq edited'
    PROVE  \A r \in Rows, a \in Auctions : ByCode(r, a) => ByCode(r, a)'
<1>1. ASSUME NEW r \in Rows, NEW a \in Auctions, NEW e \in Entries,
             entry[e] # NoEntry, entry[e].row = r, entry[e].auction = a, entry[e].code \in had[a]
      PROVE  KnewTheCode(r, a)'
  <2>1. entry[e] \in EntryCall
    BY <1>1 DEF PrivateTypeOK
  <2>2. QED
    BY <1>1, <2>1 DEF KnewTheCode
<1>2. QED
  BY <1>1 DEF ByCode, KnewTheCode

\* A call of enterPrivate goes on to point p with list l.
LEMMA EntryMoveKeeps ==
    ASSUME PrivateInv, NEW e \in Entries, NEW p \in EntryPoints, NEW l \in SUBSET Auctions,
           entry[e].at \in {"checking", "reading", "saving"},
           entry' = [entry EXCEPT ![e] = [entry[e] EXCEPT !.list = l, !.at = p]],
           p \in {"reading", "saving", "entered"} => entry[e].code \in had[entry[e].auction],
           p = "saving" => l = endorsed[entry[e].row],
           \/ UNCHANGED endorsed
           \/ /\ entry[e].at = "saving"
              /\ endorsed' = [endorsed EXCEPT ![entry[e].row] = Merged(e)],
           p = "entered" => /\ beside'[e] = AboutToSave(e)
                            /\ entry[e].auction \in endorsed'[entry[e].row],
           beside' \in [Entries -> SUBSET Entries],
           \A f \in Entries : f # e => beside'[f] = beside[f],
           UNCHANGED <<accountVars, auctionVars, readVars>>
    PROVE  PrivateInv'
<1> USE DEF auctionVars, readVars
<1>1. AccountInv' /\ UNCHANGED Rows
  BY AccountStepKeeps DEF PrivateInv, accountVars, Rows
<1>2. entry[e] \in EntryCall
  BY CallsBegun DEF PrivateInv
<1>3. /\ entry'[e] \in EntryCall
      /\ entry'[e].row = entry[e].row /\ entry'[e].auction = entry[e].auction
      /\ entry'[e].code = entry[e].code /\ entry'[e].list = l /\ entry'[e].at = p
  BY <1>2 DEF PrivateInv, PrivateTypeOK, EntryCall
<1>4. \A f \in Entries : f # e => entry'[f] = entry[f]
  BY DEF PrivateInv, PrivateTypeOK
<1>5. entry' \in [Entries -> EntryCall \cup {NoEntry}]
  BY <1>2, <1>3 DEF PrivateInv, PrivateTypeOK
<1>6. entry[e].row \in Rows /\ entry[e].auction \in Auctions /\ entry[e].list \subseteq Auctions
  BY <1>2 DEF EntryCall
<1>7. /\ endorsed' \in [Rows -> SUBSET Auctions]
      /\ \A r \in Rows : endorsed'[r] = endorsed[r]
                         \/ (r = entry[e].row /\ entry[e].at = "saving" /\ endorsed'[r] = Merged(e))
  BY <1>6 DEF PrivateInv, PrivateTypeOK, Merged
<1>8. PrivateTypeOK'
  <2>1. EntryCall' = EntryCall /\ ReadCall' = ReadCall
    BY <1>1 DEF EntryCall, ReadCall
  <2>2. QED
    BY <1>1, <1>5, <1>7, <2>1 DEF PrivateInv, PrivateTypeOK
<1>9. CodesKnown'
  BY <1>3, <1>4 DEF PrivateInv, CodesKnown
<1>10. \A r \in Rows, a \in Auctions : ByCode(r, a) => ByCode(r, a)'
  <2>1. entry'[e] # NoEntry
    <3>1. NoEntry.at = "idle"
      BY DEF NoEntry
    <3>2. entry'[e].at # "idle"
      BY <1>3 DEF EntryPoints
    <3>3. QED
      BY <3>1, <3>2
  <2>2. \A f \in Entries : entry[f] \in EntryCall =>
            /\ entry'[f] # NoEntry
            /\ entry'[f].row = entry[f].row /\ entry'[f].auction = entry[f].auction
            /\ entry'[f].code = entry[f].code
    <3> SUFFICES ASSUME NEW f \in Entries, entry[f] \in EntryCall
                 PROVE  /\ entry'[f] # NoEntry
                        /\ entry'[f].row = entry[f].row /\ entry'[f].auction = entry[f].auction
                        /\ entry'[f].code = entry[f].code
      OBVIOUS
    <3>1. CASE f = e
      BY <1>3, <2>1, <3>1
    <3>2. CASE f # e
      BY <1>4, <3>2, CallsBegun DEF PrivateInv
    <3>3. QED
      BY <3>1, <3>2
  <2>3. QED
    BY <2>2, KnowledgeKept DEF PrivateInv
<1>11. LostOnlyToOverlappingEntry'
  <2> SUFFICES ASSUME NEW f \in Entries, entry'[f].at = "entered",
                      entry'[f].auction \notin endorsed'[entry'[f].row]
               PROVE  beside'[f] # {} \/ entry'[f].row \in edited'
    BY DEF LostOnlyToOverlappingEntry
  <2>1. f # e /\ entry'[f] = entry[f] /\ beside'[f] = beside[f] /\ entry[f].row \in Rows
    BY <1>3, <1>4, CallsBegun DEF PrivateInv, EntryCall
  <2>2. CASE endorsed'[entry[f].row] = endorsed[entry[f].row]
    BY <2>1, <2>2 DEF PrivateInv, LostOnlyToOverlappingEntry
  <2>3. CASE /\ entry[f].row = entry[e].row /\ entry[e].at = "saving"
             /\ endorsed'[entry[f].row] = Merged(e)
    BY <2>1, <2>3 DEF PrivateInv, ListsHoldEntered, Undone, Merged
  <2>4. QED
    BY <1>7, <2>1, <2>2, <2>3
<1>12. ListsHoldEntered'
  <2> SUFFICES ASSUME NEW x \in Entries, NEW f \in Entries, entry'[x].at = "entered",
                      entry'[f].at = "saving", entry'[x].row = entry'[f].row
               PROVE  entry'[x].auction \in entry'[f].list
                      \/ beside'[x] # {} \/ entry'[x].row \in edited'
    BY DEF ListsHoldEntered, Undone
  <2>1. CASE x = e
    <3>1. f # e /\ entry'[f] = entry[f]
      BY <1>4, <2>1
    <3>2. f \in AboutToSave(e)
      BY <1>3, <2>1, <3>1 DEF AboutToSave
    <3>3. QED
      BY <1>3, <2>1, <3>2
  <2>2. CASE x # e /\ f = e
    BY <1>3, <1>4, <2>2 DEF PrivateInv, LostOnlyToOverlappingEntry
  <2>3. CASE x # e /\ f # e
    BY <1>4, <2>3 DEF PrivateInv, ListsHoldEntered, Undone
  <2>4. QED
    BY <2>1, <2>2, <2>3
<1>13. ListsByCode'
  <2>1. ASSUME entry[e].at = "saving"
        PROVE  \A a \in Merged(e) : ByCode(entry[e].row, a)
    <3>1. KnewTheCode(entry[e].row, entry[e].auction)
      BY <1>2, <2>1, CallsBegun DEF PrivateInv, CodesKnown, KnewTheCode
    <3>2. QED
      BY <2>1, <3>1 DEF PrivateInv, ListsByCode, Merged, ByCode
  <2>2. ASSUME NEW r \in Rows, NEW a \in endorsed'[r]
        PROVE  ByCode(r, a)'
    <3>1. ByCode(r, a) /\ a \in Auctions
      BY <1>7, <2>1, <2>2 DEF PrivateInv, PrivateTypeOK, ListsByCode
    <3>2. QED
      BY <1>10, <3>1
  <2>3. ASSUME NEW f \in Entries, entry'[f].at = "saving", NEW a \in entry'[f].list,
               NEW r \in Rows, r = entry'[f].row
        PROVE  ByCode(r, a)'
    <3>1. CASE f = e
      <4>1. a \in endorsed[r] /\ a \in Auctions
        BY <1>3, <2>3, <3>1
      <4>2. QED
        BY <1>10, <4>1 DEF PrivateInv, ListsByCode
    <3>2. CASE f # e
      <4>1. entry[f] \in EntryCall /\ entry[f].at = "saving" /\ r = entry[f].row
            /\ a \in entry[f].list
        BY <1>4, <2>3, <3>2, CallsBegun DEF PrivateInv
      <4>2. ByCode(r, a) /\ a \in Auctions
        BY <4>1 DEF PrivateInv, ListsByCode, EntryCall
      <4>3. QED
        BY <1>10, <4>2
    <3>3. QED
      BY <3>1, <3>2
  <2>4. \A f \in Entries : entry'[f].at = "saving" => entry'[f].row \in Rows
    BY <1>3, <1>4, <1>6, CallsBegun DEF PrivateInv, EntryCall
  <2>5. QED
    BY <1>1, <2>2, <2>3, <2>4 DEF ListsByCode, ByCode, KnewTheCode
<1>14. ReadsAllowed'
  BY DEF PrivateInv, ReadsAllowed, ShownOnlyIfAllowed
<1>15. EnteredBefore'
  <2>1. \A d \in Reads : \A f \in before[d] :
            f # e /\ entry'[f] = entry[f] /\ beside'[f] = beside[f]
    BY <1>4 DEF PrivateInv, PrivateTypeOK, EnteredBefore
  <2>2. QED
    BY <2>1 DEF PrivateInv, EnteredBefore, Undone
<1>16. QED
  BY <1>1, <1>8, <1>9, <1>11, <1>12, <1>13, <1>14, <1>15 DEF PrivateInv

\* Every step of enterPrivate after its first.
LEMMA EntryProgressKeeps == ASSUME PrivateInv, EntryProgress PROVE PrivateInv'
<1> PICK e \in Entries : CheckCode(e) \/ ReadList(e) \/ SaveList(e) \/ EntryFails(e)
  BY DEF EntryProgress
<1>1. /\ entry[e].at \in {"checking", "reading", "saving"}
      /\ UNCHANGED <<accountVars, auctionVars, readVars>>
  BY DEF CheckCode, ReadList, SaveList, EntryFails
<1>2. entry[e] \in EntryCall
  BY <1>1, CallsBegun DEF PrivateInv
<1>3. /\ entry[e].row \in Rows /\ entry[e].auction \in Auctions /\ entry[e].list \subseteq Auctions
      /\ endorsed[entry[e].row] \subseteq Auctions
  BY <1>2 DEF EntryCall, PrivateInv, PrivateTypeOK
<1>4. \A p \in EntryPoints, l \in SUBSET Auctions :
          [entry EXCEPT ![e].list = l, ![e].at = p]
              = [entry EXCEPT ![e] = [entry[e] EXCEPT !.list = l, !.at = p]]
  BY <1>2 DEF PrivateInv, PrivateTypeOK, EntryCall
<1>5. AboutToSave(e) \in SUBSET Entries /\ beside \in [Entries -> SUBSET Entries]
  BY DEF AboutToSave, PrivateInv, PrivateTypeOK
<1>6. {} \in SUBSET Auctions /\ {"entered", "refused", "saving"} \subseteq EntryPoints
  BY DEF EntryPoints
<1>7. CASE CheckCode(e)
  <2> DEFINE p == IF RightCode(e) THEN "reading" ELSE "refused"
  <2>1. p \in EntryPoints /\ entry' = [entry EXCEPT ![e].at = p]
    BY <1>7 DEF CheckCode, EntryPoints
  <2>2. entry' = [entry EXCEPT ![e] = [entry[e] EXCEPT !.list = entry[e].list, !.at = p]]
    BY <1>2, <2>1 DEF PrivateInv, PrivateTypeOK, EntryCall
  <2>3. p = "reading" => entry[e].code \in had[entry[e].auction]
    BY <1>3 DEF RightCode, PrivateInv, CodesKnown
  <2>4. UNCHANGED <<endorsed, beside>> /\ p \in {"reading", "refused"}
    BY <1>7 DEF CheckCode
  <2> HIDE DEF p
  <2>5. QED
    BY <1>1, <1>3, <1>5, <2>1, <2>2, <2>3, <2>4, EntryMoveKeeps
<1>8. entry[e].at \in {"reading", "saving"} => entry[e].code \in had[entry[e].auction]
  BY DEF PrivateInv, CodesKnown
<1>9. CASE ReadList(e) /\ entry[e].auction \in endorsed[entry[e].row]
  <2>1. /\ entry' = [entry EXCEPT ![e] = [entry[e] EXCEPT !.list = {}, !.at = "entered"]]
        /\ entry[e].at = "reading"
    BY <1>4, <1>9 DEF ReadList, EntryPoints
  <2>2. beside' = [beside EXCEPT ![e] = AboutToSave(e)] /\ UNCHANGED endorsed
    BY <1>9 DEF ReadList
  <2>3. QED
    BY <1>1, <1>5, <1>6, <1>8, <1>9, <2>1, <2>2, EntryMoveKeeps
<1>10. CASE ReadList(e) /\ entry[e].auction \notin endorsed[entry[e].row]
  <2>1. /\ entry' = [entry EXCEPT ![e] = [entry[e] EXCEPT !.list = endorsed[entry[e].row],
                                                          !.at = "saving"]]
        /\ entry[e].at = "reading"
    BY <1>3, <1>4, <1>10 DEF ReadList, EntryPoints
  <2>2. beside' = [beside EXCEPT ![e] = {}] /\ UNCHANGED endorsed
    BY <1>10 DEF ReadList
  <2>3. QED
    BY <1>1, <1>3, <1>5, <1>6, <1>8, <2>1, <2>2, EntryMoveKeeps
<1>11. CASE SaveList(e)
  <2>1. /\ entry' = [entry EXCEPT ![e] = [entry[e] EXCEPT !.list = {}, !.at = "entered"]]
        /\ entry[e].at = "saving"
    BY <1>4, <1>11 DEF SaveList, EntryPoints
  <2>2. /\ beside' = [beside EXCEPT ![e] = AboutToSave(e)]
        /\ endorsed' = [endorsed EXCEPT ![entry[e].row] = Merged(e)]
    BY <1>11 DEF SaveList
  <2>3. entry[e].auction \in endorsed'[entry[e].row]
    BY <1>3, <2>2 DEF Merged, PrivateInv, PrivateTypeOK
  <2>4. QED
    BY <1>1, <1>5, <1>6, <1>8, <2>1, <2>2, <2>3, EntryMoveKeeps
<1>12. CASE EntryFails(e)
  <2>1. entry' = [entry EXCEPT ![e] = [entry[e] EXCEPT !.list = {}, !.at = "refused"]]
    BY <1>4, <1>12 DEF EntryFails, EntryPoints
  <2>2. /\ UNCHANGED beside
        /\ \/ UNCHANGED endorsed
           \/ /\ entry[e].at = "saving"
              /\ endorsed' = [endorsed EXCEPT ![entry[e].row] = Merged(e)]
    BY <1>12 DEF EntryFails
  <2>3. /\ beside' \in [Entries -> SUBSET Entries]
        /\ \A f \in Entries : f # e => beside'[f] = beside[f]
    BY <1>5, <2>2
  <2>4. "refused" \in EntryPoints /\ "refused" \notin {"reading", "saving", "entered"}
    BY <1>6
  <2>5. QED
    BY <1>1, <1>6, <2>1, <2>2, <2>3, <2>4, EntryMoveKeeps
<1>13. QED
  BY <1>7, <1>9, <1>10, <1>11, <1>12

\* Whoever logs in or out, the lists of the rows that were there stay.
LEMMA LoginsKeep ==
    ASSUME PrivateInv, LoginRequest \/ LoginProgress, OnlyLogins
    PROVE  PrivateInv'
<1> USE DEF OnlyLogins, auctionVars, entryVars, readVars
<1>1. AccountInv'
  BY AccountStepKeeps DEF PrivateInv, AccountNext
<1>2. Rows \subseteq Rows'
  <2>1. owner \in Seq(SocialIds)
    BY DEF PrivateInv, AccountInv, AccountTypeOK
  <2>2. \A id : owner' = Append(owner, id) => Len(owner') = Len(owner) + 1
    BY <2>1
  <2>3. owner' = owner \/ \E id : owner' = Append(owner, id)
    BY DEF LoginRequest, LoginProgress, TestLogin, KakaoCallback, CreateTestUsers, UserFound,
           UserMissing, UserInserted, QueryFails, Inserted, TestUserSaved, Logout, TestLogout
  <2>4. Len(owner) \in Nat
    BY <2>1, LenProperties
  <2>5. QED
    BY <2>2, <2>3, <2>4 DEF Rows
<1>3. /\ endorsed' \in [Rows' -> SUBSET Auctions]
      /\ \A r \in Rows : endorsed'[r] = endorsed[r]
      /\ \A r \in Rows' : endorsed'[r] # {} => r \in Rows
  BY <1>2 DEF PrivateInv, PrivateTypeOK
<1>4. PrivateTypeOK'
  <2>1. EntryCall \subseteq EntryCall' /\ ReadCall \subseteq ReadCall'
    BY <1>2 DEF EntryCall, ReadCall
  <2>2. QED
    BY <1>2, <1>3, <2>1 DEF PrivateInv, PrivateTypeOK
<1>5. \A e \in Entries : entry[e].at = "entered" => entry[e].row \in Rows
  BY CallsBegun DEF PrivateInv, EntryCall
<1>6. LostOnlyToOverlappingEntry'
  BY <1>3, <1>5 DEF PrivateInv, LostOnlyToOverlappingEntry
<1>7. CodesKnown' /\ ListsHoldEntered'
  BY DEF PrivateInv, CodesKnown, ListsHoldEntered, Undone
<1>8. ListsByCode'
  <2>1. ASSUME NEW r \in Rows', NEW a \in endorsed'[r]
        PROVE  ByCode(r, a)
    BY <1>3, <2>1 DEF PrivateInv, ListsByCode
  <2>2. QED
    BY <2>1 DEF PrivateInv, ListsByCode, ByCode, KnewTheCode
<1>9. ReadsAllowed' /\ EnteredBefore'
  BY DEF PrivateInv, ReadsAllowed, ShownOnlyIfAllowed, EnteredBefore, Undone
<1>10. QED
  BY <1>1, <1>4, <1>6, <1>7, <1>8, <1>9 DEF PrivateInv

\* A call of enterPrivate begins.
LEMMA EnterKeeps ==
    ASSUME PrivateInv, NEW e \in Entries, NEW c \in Logins, NEW a \in Auctions, NEW k \in Codes,
           Enter(e, c, a, k)
    PROVE  PrivateInv'
<1> USE DEF Enter, auctionVars, readVars
<1>1. AccountInv' /\ UNCHANGED <<Rows, endorsed, beside>>
  BY AccountStepKeeps DEF PrivateInv, accountVars, Rows
<1> DEFINE call == [row |-> token[c], auction |-> a, code |-> k, list |-> {}, at |-> "checking"]
<1>2. token[c] \in Rows
  BY DEF PrivateInv, AccountInv, TokensAreTheirs
<1>3. call \in EntryCall /\ entry' = [entry EXCEPT ![e] = call]
  BY <1>2 DEF EntryCall, EntryPoints
<1>4. call.at = "checking"
  OBVIOUS
<1> HIDE DEF call
<1>5. entry'[e].at = "checking" /\ \A f \in Entries : f # e => entry'[f] = entry[f]
  BY <1>3, <1>4 DEF PrivateInv, PrivateTypeOK
<1>6. entry[e] = NoEntry /\ entry[e].at = "idle" /\ entry[e] \notin EntryCall
  BY CallsBegun DEF PrivateInv, NoEntry
<1>7. PrivateTypeOK'
  <2>1. EntryCall' = EntryCall /\ ReadCall' = ReadCall
    BY <1>1 DEF EntryCall, ReadCall
  <2>2. entry' \in [Entries -> EntryCall \cup {NoEntry}]
    BY <1>3 DEF PrivateInv, PrivateTypeOK
  <2>3. QED
    BY <1>1, <2>1, <2>2 DEF PrivateInv, PrivateTypeOK
<1>8. CodesKnown' /\ LostOnlyToOverlappingEntry' /\ ListsHoldEntered'
  BY <1>1, <1>5 DEF PrivateInv, CodesKnown, LostOnlyToOverlappingEntry, ListsHoldEntered, Undone
<1>9. \A r \in Rows, b \in Auctions : ByCode(r, b) => ByCode(r, b)'
  <2>1. \A f \in Entries : entry[f] \in EntryCall => entry'[f] = entry[f] /\ entry[f] # NoEntry
    BY <1>5, <1>6, CallsBegun DEF PrivateInv
  <2>2. QED
    BY <2>1, KnowledgeKept DEF PrivateInv
<1>10. ListsByCode'
  <2>1. ASSUME NEW r \in Rows, NEW b \in endorsed[r]
        PROVE  ByCode(r, b)'
    BY <1>9, <2>1 DEF PrivateInv, PrivateTypeOK, ListsByCode
  <2>2. ASSUME NEW f \in Entries, entry'[f].at = "saving", NEW b \in entry'[f].list,
               NEW r \in Rows, r = entry'[f].row
        PROVE  ByCode(r, b)'
    <3>1. entry[f] \in EntryCall /\ entry[f].at = "saving" /\ r = entry[f].row
          /\ b \in entry[f].list
      BY <1>5, <2>2, CallsBegun DEF PrivateInv
    <3>2. ByCode(r, b) /\ b \in Auctions
      BY <3>1 DEF PrivateInv, ListsByCode, EntryCall
    <3>3. QED
      BY <1>9, <3>2
  <2>3. \A f \in Entries : entry'[f].at = "saving" => entry'[f].row \in Rows
    BY <1>5, CallsBegun DEF PrivateInv, EntryCall
  <2>4. QED
    BY <1>1, <2>1, <2>2, <2>3 DEF ListsByCode, ByCode, KnewTheCode
<1>11. ReadsAllowed' /\ EnteredBefore'
  <2>1. \A d \in Reads : \A f \in before[d] : f \in Entries /\ f # e
    BY <1>6 DEF PrivateInv, PrivateTypeOK, EnteredBefore
  <2>2. QED
    BY <1>1, <1>5, <2>1 DEF PrivateInv, ReadsAllowed, ShownOnlyIfAllowed, EnteredBefore, Undone
<1>12. QED
  BY <1>1, <1>7, <1>8, <1>10, <1>11 DEF PrivateInv

\* What only reads changes nothing for the entries.
LEMMA ReadsLeave ==
    ASSUME PrivateInv, UNCHANGED <<accountVars, auctionVars, endorsed, entryVars>>
    PROVE  /\ AccountInv' /\ UNCHANGED <<Rows, EntryCall, ReadCall>>
           /\ CodesKnown' /\ LostOnlyToOverlappingEntry' /\ ListsHoldEntered' /\ ListsByCode'
<1> USE DEF auctionVars, entryVars
<1>1. AccountInv' /\ UNCHANGED Rows
  BY AccountStepKeeps DEF PrivateInv, accountVars, Rows
<1>2. UNCHANGED <<EntryCall, ReadCall>>
  BY <1>1 DEF EntryCall, ReadCall
<1>3. CodesKnown' /\ LostOnlyToOverlappingEntry' /\ ListsHoldEntered'
  BY DEF PrivateInv, CodesKnown, LostOnlyToOverlappingEntry, ListsHoldEntered, Undone
<1>4. ListsByCode'
  BY <1>1 DEF PrivateInv, ListsByCode, ByCode, KnewTheCode
<1>5. QED
  BY <1>1, <1>2, <1>3, <1>4

\* A read begins.
LEMMA AskKeeps ==
    ASSUME PrivateInv, NEW d \in Reads, NEW c \in Logins, NEW a \in Auctions,
           AskDetail(d, c, a)
    PROVE  PrivateInv'
<1> USE DEF AskDetail
<1>1. /\ AccountInv' /\ UNCHANGED <<Rows, EntryCall, ReadCall>>
      /\ CodesKnown' /\ LostOnlyToOverlappingEntry' /\ ListsHoldEntered' /\ ListsByCode'
  BY ReadsLeave
<1>2. UNCHANGED <<entry, beside, edited, endorsed, code, had, allowed>>
  BY DEF entryVars, auctionVars
<1> DEFINE call == [row |-> token[c], auction |-> a, hidden |-> FALSE, at |-> "auction"]
<1>3. token[c] \in Rows
  BY DEF PrivateInv, AccountInv, TokensAreTheirs
<1>4. call \in ReadCall /\ read' = [read EXCEPT ![d] = call]
  BY <1>3 DEF ReadCall, ReadPoints
<1>5. call.at = "auction"
  OBVIOUS
<1> HIDE DEF call
<1>6. read'[d].at = "auction" /\ \A f \in Reads : f # d => read'[f] = read[f]
  BY <1>4, <1>5 DEF PrivateInv, PrivateTypeOK
<1>7. PrivateTypeOK'
  <2>1. read' \in [Reads -> ReadCall \cup {NoRead}]
    BY <1>4 DEF PrivateInv, PrivateTypeOK
  <2>2. before' \in [Reads -> SUBSET Entries]
    BY DEF PrivateInv, PrivateTypeOK
  <2>3. QED
    BY <1>1, <1>2, <2>1, <2>2 DEF PrivateInv, PrivateTypeOK
<1>8. ReadsAllowed'
  BY <1>2, <1>6 DEF PrivateInv, ReadsAllowed, ShownOnlyIfAllowed
<1>9. EnteredBefore'
  <2>1. \A f \in Reads : f # d => before'[f] = before[f]
    BY DEF PrivateInv, PrivateTypeOK
  <2>2. \A e \in before'[d] : entry[e].at = "entered"
    BY DEF PrivateInv, PrivateTypeOK
  <2>3. QED
    BY <1>2, <1>6, <2>1, <2>2 DEF PrivateInv, EnteredBefore, Undone
<1>10. QED
  BY <1>1, <1>7, <1>8, <1>9 DEF PrivateInv

\* Every step of getAuctionDetail after its first.
LEMMA ReadProgressKeeps == ASSUME PrivateInv, ReadProgress PROVE PrivateInv'
<1> PICK d \in Reads : ReadAuction(d) \/ ReadUser(d) \/ ReadFails(d)
  BY DEF ReadProgress
<1>1. UNCHANGED <<accountVars, auctionVars, endorsed, entryVars, before>>
  BY DEF ReadAuction, ReadUser, ReadFails
<1>2. /\ AccountInv' /\ UNCHANGED <<Rows, EntryCall, ReadCall>>
      /\ CodesKnown' /\ LostOnlyToOverlappingEntry' /\ ListsHoldEntered' /\ ListsByCode'
  BY <1>1, ReadsLeave
<1>3. UNCHANGED <<entry, beside, edited, endorsed, code, had>>
  BY <1>1 DEF entryVars, auctionVars
<1>4. read[d] \in ReadCall
  BY CallsBegun DEF PrivateInv, ReadAuction, ReadUser, ReadFails
<1>5. read[d].row \in Rows /\ read[d].auction \in Auctions
  BY <1>4 DEF ReadCall
<1>6. /\ read' \in [Reads -> ReadCall \cup {NoRead}]
      /\ read'[d].row = read[d].row /\ read'[d].auction = read[d].auction
      /\ \A f \in Reads : f # d => read'[f] = read[f]
  <2>1. read \in [Reads -> ReadCall \cup {NoRead}]
    BY DEF PrivateInv, PrivateTypeOK
  <2>2. PICK h \in BOOLEAN, p \in ReadPoints :
            read' = [read EXCEPT ![d].hidden = h, ![d].at = p]
    <3>1. CASE ReadAuction(d)
      BY <3>1 DEF ReadAuction, HiddenFrom, ReadPoints
    <3>2. CASE ReadUser(d) \/ ReadFails(d)
      BY <3>2 DEF ReadUser, ReadFails, ReadPoints
    <3>3. QED
      BY <3>1, <3>2
  <2>3. read' = [read EXCEPT ![d] = [read[d] EXCEPT !.hidden = h, !.at = p]]
    BY <1>4, <2>1, <2>2 DEF ReadCall
  <2>4. /\ [read[d] EXCEPT !.hidden = h, !.at = p] \in ReadCall
        /\ [read[d] EXCEPT !.hidden = h, !.at = p].row = read[d].row
        /\ [read[d] EXCEPT !.hidden = h, !.at = p].auction = read[d].auction
    BY <1>4 DEF ReadCall
  <2>5. QED
    BY <2>1, <2>3, <2>4
<1>7. allowed' \in [Reads -> BOOLEAN] /\ \A f \in Reads : f # d => allowed'[f] = allowed[f]
  BY DEF PrivateInv, PrivateTypeOK, ReadAuction, ReadUser, ReadFails, Allowed
<1>8. PrivateTypeOK'
  BY <1>1, <1>2, <1>3, <1>6, <1>7 DEF PrivateInv, PrivateTypeOK
<1>9. ASSUME read'[d].at = "user", ~read'[d].hidden
      PROVE  allowed'[d]
  <2>1. ReadAuction(d) /\ ~HiddenFrom(d)
    <3>1. ~ReadUser(d) /\ ~ReadFails(d)
      BY <1>4, <1>9 DEF ReadUser, ReadFails, PrivateInv, PrivateTypeOK, ReadCall
    <3>2. read'[d].hidden = HiddenFrom(d)
      BY <1>4, <3>1 DEF ReadAuction, PrivateInv, PrivateTypeOK, ReadCall
    <3>3. QED
      BY <1>9, <3>1, <3>2
  <2>2. Allowed(d)
    BY <2>1 DEF HiddenFrom, Allowed
  <2>3. QED
    BY <2>1, <2>2 DEF ReadAuction, PrivateInv, PrivateTypeOK
<1>10. ASSUME read'[d].at \in {"full", "short"}
       PROVE  /\ ReadUser(d) /\ read[d].at = "user"
              /\ read'[d].at = "full" => IsEndorsed(d) \/ ~read[d].hidden
              /\ read'[d].at = "short" => ~IsEndorsed(d)
              /\ allowed'[d] = (allowed[d] \/ Allowed(d))
  <2>1. ~ReadAuction(d) /\ ~ReadFails(d)
    BY <1>4, <1>10 DEF ReadAuction, ReadFails, PrivateInv, PrivateTypeOK, ReadCall
  <2>2. ReadUser(d) /\ read[d].at = "user"
    BY <2>1 DEF ReadUser
  <2>3. read'[d].at = IF ~IsEndorsed(d) /\ read[d].hidden THEN "short" ELSE "full"
    BY <1>4, <2>2 DEF ReadUser, PrivateInv, PrivateTypeOK, ReadCall
  <2>4. allowed'[d] = (allowed[d] \/ Allowed(d))
    BY <2>2 DEF ReadUser, PrivateInv, PrivateTypeOK
  <2>5. QED
    BY <2>2, <2>3, <2>4
<1>11. read'[d].at = "full" => allowed'[d]
  <2> SUFFICES ASSUME read'[d].at = "full" PROVE allowed'[d]
    OBVIOUS
  <2>1. /\ read[d].at = "user" /\ allowed'[d] = (allowed[d] \/ Allowed(d))
        /\ IsEndorsed(d) \/ ~read[d].hidden
    BY <1>10
  <2>2. CASE ~read[d].hidden
    BY <2>1, <2>2 DEF PrivateInv, ReadsAllowed
  <2>3. CASE IsEndorsed(d)
    <3>1. ByCode(read[d].row, read[d].auction)
      BY <1>5, <2>3 DEF IsEndorsed, PrivateInv, ListsByCode
    <3>2. Allowed(d)
      BY <2>3, <3>1 DEF IsEndorsed, ByCode, Allowed
    <3>3. QED
      BY <2>1, <3>2
  <2>4. QED
    BY <2>1, <2>2, <2>3
<1>12. ReadsAllowed'
  BY <1>6, <1>7, <1>9, <1>11 DEF PrivateInv, ReadsAllowed, ShownOnlyIfAllowed
<1>13. EnteredBefore'
  <2>1. ASSUME read'[d].at = "short", NEW e \in before[d],
               entry[e].row = read[d].row, entry[e].auction = read[d].auction
        PROVE  Undone(e)
    <3>1. entry[e].auction \notin endorsed[entry[e].row]
      BY <1>10, <2>1 DEF IsEndorsed
    <3>2. e \in Entries /\ entry[e].at = "entered"
      BY DEF PrivateInv, PrivateTypeOK, EnteredBefore
    <3>3. QED
      BY <3>1, <3>2 DEF PrivateInv, LostOnlyToOverlappingEntry, Undone
  <2>2. QED
    BY <1>1, <1>3, <1>6, <2>1 DEF PrivateInv, EnteredBefore, Undone
<1>14. QED
  BY <1>2, <1>8, <1>12, <1>13 DEF PrivateInv

\* An auction is changed: the codes it has had are kept.
LEMMA PatchAuctionKeeps ==
    ASSUME PrivateInv, NEW a \in Auctions, NEW p \in BOOLEAN, NEW k \in Codes,
           PatchAuction(a, p, k)
    PROVE  PrivateInv'
<1> USE DEF PatchAuction, entryVars, readVars
<1>1. AccountInv' /\ UNCHANGED <<Rows, EntryCall, ReadCall>>
  BY AccountStepKeeps DEF PrivateInv, accountVars, Rows, EntryCall, ReadCall
<1>2. had' \in [Auctions -> SUBSET Codes] /\ \A b \in Auctions : had[b] \subseteq had'[b]
  BY DEF PrivateInv, PrivateTypeOK
<1>3. PrivateTypeOK'
  BY <1>1, <1>2 DEF PrivateInv, PrivateTypeOK
<1>4. \A b \in Auctions : code'[b] \in had'[b]
  BY DEF PrivateInv, PrivateTypeOK, CodesKnown
<1>5. CodesKnown'
  <2>1. \A e \in Entries : entry[e].at # "idle" => entry[e].auction \in Auctions
    BY CallsBegun DEF PrivateInv, EntryCall
  <2>2. QED
    BY <1>2, <1>4, <2>1 DEF PrivateInv, CodesKnown
<1>6. \A r \in Rows, b \in Auctions : ByCode(r, b) => ByCode(r, b)'
  <2>1. \A e \in Entries : entry[e] \in EntryCall => entry[e] # NoEntry
    BY CallsBegun DEF PrivateInv
  <2>2. QED
    BY <1>2, <2>1, KnowledgeKept DEF PrivateInv
<1>7. ListsByCode'
  <2>1. ASSUME NEW r \in Rows, NEW b \in endorsed[r]
        PROVE  ByCode(r, b)'
    BY <1>6, <2>1 DEF PrivateInv, PrivateTypeOK, ListsByCode
  <2>2. ASSUME NEW f \in Entries, entry[f].at = "saving", NEW b \in entry[f].list,
               NEW r \in Rows, r = entry[f].row
        PROVE  ByCode(r, b)'
    BY <1>6, <2>2, CallsBegun DEF PrivateInv, ListsByCode, EntryCall
  <2>3. \A f \in Entries : entry[f].at = "saving" => entry[f].row \in Rows
    BY CallsBegun DEF PrivateInv, EntryCall
  <2>4. QED
    BY <1>1, <2>1, <2>2, <2>3 DEF ListsByCode, ByCode, KnewTheCode
<1>8. LostOnlyToOverlappingEntry' /\ ListsHoldEntered'
  BY DEF PrivateInv, LostOnlyToOverlappingEntry, ListsHoldEntered, Undone
<1>9. ReadsAllowed' /\ EnteredBefore'
  BY DEF PrivateInv, ReadsAllowed, ShownOnlyIfAllowed, EnteredBefore, Undone
<1>10. QED
  BY <1>1, <1>3, <1>5, <1>7, <1>8, <1>9 DEF PrivateInv

\* A list is replaced: it counts as edited from now on.
LEMMA PatchUserKeeps ==
    ASSUME PrivateInv, NEW r \in Rows, NEW list \in SUBSET Auctions, PatchUser(r, list)
    PROVE  PrivateInv'
<1> USE DEF PatchUser, entryVars, readVars
<1>1. AccountInv' /\ UNCHANGED <<Rows, EntryCall, ReadCall>>
  BY AccountStepKeeps DEF PrivateInv, accountVars, Rows, EntryCall, ReadCall
<1>2. /\ endorsed' \in [Rows -> SUBSET Auctions]
      /\ \A q \in Rows : q # r => endorsed'[q] = endorsed[q]
      /\ edited' = edited \cup {r}
  BY DEF PrivateInv, PrivateTypeOK
<1>3. PrivateTypeOK'
  BY <1>1, <1>2 DEF PrivateInv, PrivateTypeOK
<1>4. CodesKnown' /\ ListsHoldEntered' /\ EnteredBefore' /\ ReadsAllowed'
  BY DEF PrivateInv, CodesKnown, ListsHoldEntered, EnteredBefore, ReadsAllowed,
         ShownOnlyIfAllowed, Undone
<1>5. LostOnlyToOverlappingEntry'
  <2>1. \A e \in Entries : entry[e].at = "entered" => entry[e].row \in Rows
    BY CallsBegun DEF PrivateInv, EntryCall
  <2>2. QED
    BY <1>2, <2>1 DEF PrivateInv, LostOnlyToOverlappingEntry
<1>6. \A q, b : ByCode(q, b) => ByCode(q, b)'
  BY DEF ByCode, KnewTheCode
<1>7. ListsByCode'
  <2>1. ASSUME NEW q \in Rows, NEW b \in endorsed'[q]
        PROVE  ByCode(q, b)'
    <3>1. CASE q = r
      BY <1>2, <3>1 DEF ByCode
    <3>2. CASE q # r
      BY <1>2, <1>6, <2>1, <3>2 DEF PrivateInv, ListsByCode
    <3>3. QED
      BY <3>1, <3>2
  <2>2. ASSUME NEW f \in Entries, entry[f].at = "saving", NEW b \in entry[f].list,
               NEW q \in Rows, q = entry[f].row
        PROVE  ByCode(q, b)'
    BY <1>6, <2>2 DEF PrivateInv, ListsByCode
  <2>3. \A f \in Entries : entry[f].at = "saving" => entry[f].row \in Rows
    BY CallsBegun DEF PrivateInv, EntryCall
  <2>4. QED
    BY <1>1, <2>1, <2>2, <2>3 DEF ListsByCode, ByCode, KnewTheCode
<1>8. QED
  BY <1>1, <1>3, <1>4, <1>5, <1>7 DEF PrivateInv

\* The process ends: whoever has entered is in, whoever was shown an auction has seen it.
LEMMA EndsKeeps == ASSUME PrivateInv, Ends PROVE PrivateInv'
<1>1. /\ \A e \in Entries : entry[e].at \in {"checking", "reading", "saving"} =>
             entry'[e] = [entry[e] EXCEPT !.at = "refused", !.list = {}]
      /\ \A e \in Entries : entry[e].at \notin {"checking", "reading", "saving"} =>
             entry'[e] = entry[e]
  BY DEF Ends
<1>2. /\ \A d \in Reads : read[d].at \in {"auction", "user"} =>
             read'[d] = [read[d] EXCEPT !.at = "failed", !.hidden = FALSE]
      /\ \A d \in Reads : read[d].at \notin {"auction", "user"} => read'[d] = read[d]
  BY DEF Ends
<1>3. AccountInv'
  BY AccountStepKeeps DEF PrivateInv, AccountNext, Ends
<1>4. UNCHANGED <<Rows, EntryCall, ReadCall>>
  BY DEF Ends, ProcessEnds, Rows, EntryCall, ReadCall
<1>5. ASSUME NEW e \in Entries
      PROVE  /\ entry'[e] \in EntryCall \cup {NoEntry}
             /\ entry[e] = NoEntry => entry'[e] = NoEntry
             /\ entry[e] \in EntryCall =>
                    /\ entry'[e] \in EntryCall
                    /\ entry'[e].row = entry[e].row /\ entry'[e].auction = entry[e].auction
                    /\ entry'[e].code = entry[e].code
             /\ entry'[e].at \in {"entered", "refused", "idle"}
             /\ entry'[e].at = "entered" <=> entry[e].at = "entered"
  <2>1. CASE entry[e].at \in {"checking", "reading", "saving"}
    <3>1. entry[e] \in EntryCall
      BY <2>1, CallsBegun DEF PrivateInv
    <3>2. entry'[e] = [entry[e] EXCEPT !.at = "refused", !.list = {}]
      BY <1>1, <2>1
    <3>3. entry'[e] = [row |-> entry[e].row, auction |-> entry[e].auction,
                       code |-> entry[e].code, list |-> {}, at |-> "refused"]
      BY <3>1, <3>2 DEF EntryCall
    <3>4. entry[e].row \in Rows /\ entry[e].auction \in Auctions /\ entry[e].code \in Codes
      BY <3>1 DEF EntryCall
    <3>5. entry'[e] \in EntryCall
      BY <3>3, <3>4 DEF EntryCall, EntryPoints
    <3>6. /\ entry'[e].row = entry[e].row /\ entry'[e].auction = entry[e].auction
          /\ entry'[e].code = entry[e].code /\ entry'[e].at = "refused"
      BY <3>3
    <3>7. entry[e] # NoEntry
      BY <3>1, CallsBegun DEF PrivateInv
    <3>8. QED
      BY <2>1, <3>5, <3>6, <3>7
  <2>2. CASE entry[e].at \notin {"checking", "reading", "saving"}
    <3>1. entry'[e] = entry[e] /\ entry[e] \in EntryCall \cup {NoEntry}
      BY <1>1, <2>2 DEF PrivateInv, PrivateTypeOK
    <3>2. entry[e].at \in EntryPoints \cup {"idle"}
      BY <3>1 DEF EntryCall, NoEntry
    <3>3. entry'[e].at \in {"entered", "refused", "idle"}
      BY <2>2, <3>1, <3>2 DEF EntryPoints
    <3>4. QED
      BY <3>1, <3>3
  <2>3. QED
    BY <2>1, <2>2
<1>6. ASSUME NEW d \in Reads
      PROVE  /\ read'[d] \in ReadCall \cup {NoRead}
             /\ read'[d].at \in {"full", "short"} => read'[d] = read[d]
             /\ read'[d].at # "user"
  <2>1. CASE read[d].at \in {"auction", "user"}
    <3>1. read[d] \in ReadCall
      BY <2>1, CallsBegun DEF PrivateInv
    <3>2. read'[d] = [read[d] EXCEPT !.at = "failed", !.hidden = FALSE]
      BY <1>2, <2>1
    <3>3. read'[d] = [row |-> read[d].row, auction |-> read[d].auction,
                      hidden |-> FALSE, at |-> "failed"]
      BY <3>1, <3>2 DEF ReadCall
    <3>4. read[d].row \in Rows /\ read[d].auction \in Auctions
      BY <3>1 DEF ReadCall
    <3>5. read'[d] \in ReadCall
      BY <3>3, <3>4 DEF ReadCall, ReadPoints
    <3>6. read'[d].at = "failed"
      BY <3>3, <3>4
    <3>7. QED
      BY <3>5, <3>6
  <2>2. CASE read[d].at \notin {"auction", "user"}
    BY <1>2, <2>2 DEF PrivateInv, PrivateTypeOK
  <2>3. QED
    BY <2>1, <2>2
<1>7. UNCHANGED <<code, had, endorsed, beside, before, allowed, edited>>
  BY DEF Ends, auctionVars
<1>8. PrivateTypeOK'
  <2>1. entry' \in [Entries -> EntryCall \cup {NoEntry}]
    BY <1>5 DEF Ends
  <2>2. read' \in [Reads -> ReadCall \cup {NoRead}]
    BY <1>6 DEF Ends
  <2>3. QED
    BY <1>4, <1>7, <2>1, <2>2 DEF PrivateInv, PrivateTypeOK
<1>9. \A e \in Entries : entry'[e].at = "entered" =>
          /\ entry[e].at = "entered" /\ entry'[e].row = entry[e].row
          /\ entry'[e].auction = entry[e].auction /\ entry'[e].code = entry[e].code
  BY <1>5, CallsBegun DEF PrivateInv
<1>10. CodesKnown' /\ LostOnlyToOverlappingEntry' /\ ListsHoldEntered'
  BY <1>5, <1>7, <1>9 DEF PrivateInv, CodesKnown, LostOnlyToOverlappingEntry, ListsHoldEntered
<1>11. \A r \in Rows, b \in Auctions : ByCode(r, b) => ByCode(r, b)'
  <2>1. \A e \in Entries : entry[e] \in EntryCall =>
            /\ entry'[e] # NoEntry
            /\ entry'[e].row = entry[e].row /\ entry'[e].auction = entry[e].auction
            /\ entry'[e].code = entry[e].code
    <3>1. NoEntry \notin EntryCall
      BY DEF NoEntry, EntryCall, EntryPoints
    <3>2. QED
      BY <1>5, <3>1
  <2>2. QED
    BY <1>7, <2>1, KnowledgeKept DEF PrivateInv
<1>12. ListsByCode'
  <2>1. ASSUME NEW r \in Rows, NEW b \in endorsed[r]
        PROVE  ByCode(r, b)'
    BY <1>11, <2>1 DEF PrivateInv, PrivateTypeOK, ListsByCode
  <2>2. \A e \in Entries : entry'[e].at # "saving"
    BY <1>5
  <2>3. QED
    BY <1>4, <1>7, <2>1, <2>2 DEF ListsByCode
<1>13. ReadsAllowed'
  BY <1>6, <1>7 DEF PrivateInv, ReadsAllowed, ShownOnlyIfAllowed
<1>14. EnteredBefore'
  <2>1. \A d \in Reads : \A e \in before[d] :
            /\ entry[e].at = "entered" /\ entry'[e].at = "entered"
            /\ entry'[e].row = entry[e].row /\ entry'[e].auction = entry[e].auction
    BY <1>5, <1>9 DEF PrivateInv, PrivateTypeOK, EnteredBefore
  <2>2. ASSUME NEW d \in Reads, read'[d].at = "short", NEW e \in before[d],
               entry'[e].row = read'[d].row, entry'[e].auction = read'[d].auction
        PROVE  Undone(e)'
    <3>1. read'[d] = read[d]
      BY <1>6, <2>2
    <3>2. Undone(e)
      BY <2>1, <2>2, <3>1 DEF PrivateInv, EnteredBefore
    <3>3. QED
      BY <1>7, <2>1, <3>2 DEF Undone
  <2>3. QED
    BY <1>7, <2>1, <2>2 DEF EnteredBefore
<1>15. QED
  BY <1>3, <1>8, <1>10, <1>12, <1>13, <1>14 DEF PrivateInv

\* Every step keeps the invariant.
LEMMA PrivateStepKeeps ==
    ASSUME PrivateInv, [PrivateNext]_privateVars
    PROVE  PrivateInv'
<1>1. CASE UNCHANGED privateVars
  <2>1. UNCHANGED <<accountVars, auctionVars, endorsed, entryVars, read, before, allowed>>
    BY <1>1 DEF privateVars, readVars
  <2>2. /\ AccountInv' /\ UNCHANGED <<Rows, EntryCall, ReadCall>>
        /\ CodesKnown' /\ LostOnlyToOverlappingEntry' /\ ListsHoldEntered' /\ ListsByCode'
    BY <2>1, ReadsLeave
  <2>3. PrivateTypeOK' /\ ReadsAllowed' /\ EnteredBefore'
    BY <2>1, <2>2 DEF PrivateInv, PrivateTypeOK, ReadsAllowed, ShownOnlyIfAllowed,
                      EnteredBefore, Undone, auctionVars, entryVars
  <2>4. QED
    BY <2>2, <2>3 DEF PrivateInv
<1>2. CASE Request
  BY <1>2, LoginsKeep, EnterKeeps, AskKeeps, PatchAuctionKeeps, PatchUserKeeps DEF Request
<1>3. CASE LoginProgress /\ OnlyLogins
  BY <1>3, LoginsKeep
<1>4. CASE EntryProgress \/ ReadProgress \/ Ends
  BY <1>4, EntryProgressKeeps, ReadProgressKeeps, EndsKeeps
<1>5. QED
  BY <1>1, <1>2, <1>3, <1>4 DEF PrivateNext

\* The invariant of the private auctions, from which the theorems below follow.
LEMMA PrivateInvariant == PrivateSpec => []PrivateInv
<1>1. PrivateInit => PrivateInv
  BY PrivateStarts
<1>2. PrivateInv /\ [PrivateNext]_privateVars => PrivateInv'
  BY PrivateStepKeeps
<1>3. QED
  BY <1>1, <1>2, PTL DEF PrivateSpec

\* Whatever else goes on, the logins are those of Accounts.
THEOREM PrivateImplementsAccounts == PrivateSpec => AccountSpec
<1>1. PrivateInit => AccountInit
  BY DEF PrivateInit
<1>2. [PrivateNext]_privateVars => [AccountNext]_accountVars
  BY PrivateStepsAccounts
<1>3. QED
  BY <1>1, <1>2, PTL DEF PrivateSpec, AccountSpec

\* A user who was told to be in stays in, but for an entry that overlapped or a PATCH.
THEOREM EntriesAreKept == PrivateSpec => []LostOnlyToOverlappingEntry
<1>1. PrivateInv => LostOnlyToOverlappingEntry
  BY DEF PrivateInv
<1>2. QED
  BY <1>1, PrivateInvariant, PTL

\* getAuctionDetail shows all of a private auction only to a request that was allowed.
THEOREM PrivateStaysPrivate == PrivateSpec => []ShownOnlyIfAllowed
<1>1. PrivateInv => ShownOnlyIfAllowed
  BY DEF PrivateInv, ReadsAllowed
<1>2. QED
  BY <1>1, PrivateInvariant, PTL

\* Whoever has entered sees all, with whichever login, but for an overlap or a PATCH.
THEOREM EnteredStaysIn == PrivateSpec => []EnteredSeesAll
<1>1. ASSUME PrivateInv, NEW d \in Reads, read[d].at = "short", NEW e \in before[d],
             entry[e].auction = read[d].auction, owner[entry[e].row] = owner[read[d].row]
      PROVE  \/ beside[e] # {} \/ read[d].row \in edited
             \/ entry[e].row < read[d].row /\ BehindTheBack(entry[e].row, read[d].row)
             \/ read[d].row < entry[e].row /\ BehindTheBack(read[d].row, entry[e].row)
  <2>1. e \in Entries /\ entry[e].at = "entered"
    BY <1>1 DEF PrivateInv, PrivateTypeOK, EnteredBefore
  <2>2. entry[e].row \in Rows /\ read[d].row \in Rows
    BY <1>1, <2>1, CallsBegun DEF PrivateInv, EntryCall, ReadCall
  <2>3. CASE entry[e].row = read[d].row
    BY <1>1, <2>3 DEF PrivateInv, EnteredBefore, Undone
  <2>4. CASE entry[e].row # read[d].row
    <3>1. entry[e].row < read[d].row \/ read[d].row < entry[e].row
      BY <2>2, <2>4 DEF Rows
    <3>2. QED
      BY <1>1, <2>2, <3>1 DEF PrivateInv, AccountInv, TwinsOnlyFromOverlap
  <2>5. QED
    BY <2>3, <2>4
<1>2. PrivateInv => EnteredSeesAll
  BY <1>1 DEF EnteredSeesAll
<1>3. QED
  BY <1>2, PrivateInvariant, PTL
=============================================================================
