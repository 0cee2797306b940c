--------------------------- MODULE CatalogueProofs ---------------------------
(***************************************************************************)
(* Proofs about Catalogue, for any number of auctions, items, users and      *)
(* requests: what the rows of the items have to do with the runs that sold   *)
(* them, and what a client sees that pages through a list while it changes.  *)
(***************************************************************************)
EXTENDS Catalogue, FiniteSetTheorems, SequenceTheorems, TLAPS

-----------------------------------------------------------------------------
(* The inductive invariant *)

Sales == [sold : BOOLEAN, buyer : Buyers, price : Nat]
Lots == [item : Items, sold : BOOLEAN, buyer : Buyers, price : Nat]
Rows == [auction : Auctions, seller : Users, sold : BOOLEAN, buyer : Buyers, price : Nat]

RowsTypeOK ==
    /\ opened \in 0..MaxAuctions
    /\ added \in 0..MaxItems
    /\ item \in [Items -> Rows \cup {NoItem}]
    /\ DOMAIN call = Calls
    /\ lots \in [Auctions -> Seq(Lots)]
    /\ writes \in [Items -> SUBSET Sales]
    /\ won \in [Items -> SUBSET Users]
    /\ last \in [Items -> Sales \cup {NoSale}]

\* A request names an auction or item that was created when it was checked.
RequestsOK ==
    \A c \in Calls :
        /\ call[c].kind = "createItem" => call[c].id \in Auctions /\ call[c].user \in Users
        /\ call[c].kind \in {"updateItem", "removeItem"} => call[c].id \in Items

\* Nothing is known of an item that is yet to be created.
CreatedInv ==
    /\ \A x \in Items : x > added => ~Exists(x) /\ last[x] = NoSale
    /\ \A a \in Auctions : \A i \in 1..Len(lots[a]) : lots[a][i].item <= added

\* Row or save r says what sale s says.
Says(r, s) == r.sold = s.sold /\ r.buyer = s.buyer /\ r.price = s.price

\* The last sale of an item whose saves were in order is on its way alone, or in the row.
KeptInv ==
    \A x \in Items : last[x] # NoSale /\ x \notin blurred =>
        \/ writes[x] = {last[x]}
        \/ writes[x] = {} /\ (Exists(x) => Says(item[x], last[x]))

\* Whoever a row says has bought an item has won it, and so has whoever will be said to.
RowsWereWon ==
    \A x \in Items : Exists(x) /\ item[x].buyer # Nobody => item[x].buyer \in won[x]

WonInv ==
    /\ RowsWereWon
    /\ \A x \in Items : \A w \in writes[x] : w.buyer # Nobody => w.buyer \in won[x]
    /\ \A a \in Auctions : \A i \in 1..Len(lots[a]) :
           lots[a][i].buyer # Nobody => lots[a][i].buyer \in won[lots[a][i].item]

CatalogueInv ==
    /\ RowsTypeOK
    /\ RequestsOK
    /\ CreatedInv
    /\ KeptInv
    /\ WonInv

\* The shape of a new row.
LEMMA NewRow ==
    ASSUME NEW a \in Auctions, NEW u \in Users
    PROVE  /\ NewItem(a, u) \in Rows
           /\ NewItem(a, u).buyer = Nobody
<1>1. 0 \in Nat /\ FALSE \in BOOLEAN /\ Nobody \in Buyers /\ u \in Buyers
  BY DEF Buyers
<1>2. QED
  BY <1>1 DEF NewItem, Rows

\* No row is missing.
LEMMA RowsExist == \A r \in Rows : r # NoItem
  BY DEF Rows, NoItem

\* The catalogue begins in the invariant.
LEMMA CatalogueStarts == CatalogueInit => CatalogueInv
<1> SUFFICES ASSUME CatalogueInit PROVE CatalogueInv
  OBVIOUS
<1> USE CatalogueInputs DEF CatalogueInit
<1>1. 1 \in Auctions /\ Seller \in Users /\ Listings \in 0..MaxAuctions /\ Stock \in 0..MaxItems
  BY DEF Auctions
<1>2. NewItem(1, Seller) \in Rows /\ NewItem(1, Seller).buyer = Nobody
  BY <1>1, NewRow
<1>3. RowsTypeOK
  <2>1. item \in [Items -> Rows \cup {NoItem}]
    BY <1>2
  <2>2. \A a \in Auctions : lots[a] \in Seq(Lots)
    OBVIOUS
  <2>3. QED
    BY <1>1, <2>1, <2>2 DEF RowsTypeOK
<1>4. RequestsOK
  BY DEF RequestsOK, NoCall
<1>5. \A x \in Items : x > added => ~Exists(x)
  BY <1>1 DEF Exists, Items
<1>6. CreatedInv
  BY <1>5 DEF CreatedInv
<1>7. KeptInv
  BY DEF KeptInv
<1>8. WonInv
  <2>1. RowsWereWon
    BY <1>2 DEF RowsWereWon, Exists
  <2>2. QED
    BY <2>1 DEF WonInv
<1>9. QED
  BY <1>3, <1>4, <1>6, <1>7, <1>8 DEF CatalogueInv

-----------------------------------------------------------------------------
(* The requests *)

\* A request is checked, or an auction is created.
LEMMA CheckKeeps ==
    ASSUME CatalogueInv, NEW c \in Calls, NEW u \in Users,
           CreateAuction(c, u) \/ CheckRequest(c, u)
    PROVE  CatalogueInv'
<1>1. /\ UNCHANGED <<item, added, lots, writes, won, last, blurred>>
      /\ opened' \in {opened, opened + 1} /\ (opened' = opened \/ opened < MaxAuctions)
  BY DEF CreateAuction, CheckRequest, runVars, rowVars
<1>2. PICK r : /\ call' = [call EXCEPT ![c] = r]
               /\ \/ r.kind = "done"
                  \/ r \in [kind : {"createItem", "remove"}, id : 1..opened, user : {u}]
                  \/ r \in [kind : {"updateItem", "removeItem"}, id : 1..added, user : {u}]
  <2>1. CASE CreateAuction(c, u)
    <3> DEFINE done == [kind |-> "done"]
    <3>1. call' = [call EXCEPT ![c] = done] /\ done.kind = "done"
      BY <2>1 DEF CreateAuction, Ask
    <3> HIDE DEF done
    <3>2. QED
      BY <3>1
  <2>2. CASE CheckRequest(c, u)
    BY <2>2 DEF CheckRequest, Ask
  <2>3. QED
    BY <2>1, <2>2
<1>3. 1..opened \subseteq Auctions /\ 1..added \subseteq Items
  BY CatalogueInputs DEF CatalogueInv, RowsTypeOK, Auctions, Items
<1>4. RowsTypeOK'
  <2>1. opened' \in 0..MaxAuctions
    BY <1>1, CatalogueInputs DEF CatalogueInv, RowsTypeOK
  <2>2. DOMAIN call' = Calls
    BY <1>2 DEF CatalogueInv, RowsTypeOK
  <2>3. QED
    BY <1>1, <2>1, <2>2 DEF CatalogueInv, RowsTypeOK
<1>5. RequestsOK'
  <2>1. /\ r.kind = "createItem" => r.id \in Auctions /\ r.user \in Users
        /\ r.kind \in {"updateItem", "removeItem"} => r.id \in Items
    BY <1>2, <1>3
  <2>2. call'[c] = r /\ \A d \in Calls : d # c => call'[d] = call[d]
    BY <1>2 DEF CatalogueInv, RowsTypeOK
  <2>3. QED
    BY <2>1, <2>2 DEF CatalogueInv, RequestsOK
<1>6. CreatedInv' /\ KeptInv'
  BY <1>1 DEF CatalogueInv, CreatedInv, KeptInv, Exists
<1>7. WonInv'
  BY <1>1 DEF CatalogueInv, WonInv, RowsWereWon, Exists
<1>8. QED
  BY <1>4, <1>5, <1>6, <1>7 DEF CatalogueInv

\* A request that is done names nothing.
LEMMA DoneKeeps ==
    ASSUME RowsTypeOK, RequestsOK, NEW c \in Calls, Done(c)
    PROVE  RequestsOK' /\ DOMAIN call' = Calls
<1>1. /\ DOMAIN call' = Calls /\ call'[c].kind = "done"
      /\ \A d \in Calls : d # c => call'[d] = call[d]
  BY DEF Done, RowsTypeOK
<1>2. QED
  BY <1>1 DEF RequestsOK

\* An item is created.
LEMMA CreateItemKeeps ==
    ASSUME CatalogueInv, NEW c \in Calls, CreateItem(c)
    PROVE  CatalogueInv'
<1> DEFINE row == NewItem(call[c].id, call[c].user)
<1>1. /\ Changing(c, "createItem") /\ added < MaxItems /\ added' = added + 1
      /\ item' = [item EXCEPT ![added + 1] = row]
      /\ UNCHANGED <<opened, lots, writes, won, last, blurred>>
  BY DEF CreateItem, runVars
<1>2. row \in Rows /\ row.buyer = Nobody
  BY <1>1, NewRow DEF Changing, CatalogueInv, RequestsOK
<1> HIDE DEF row
<1>3. added \in Nat /\ added + 1 \in Items /\ added' \in 0..MaxItems
  BY <1>1, CatalogueInputs DEF CatalogueInv, RowsTypeOK, Items
<1>4. /\ item'[added + 1] = row /\ \A x \in Items : x # added + 1 => item'[x] = item[x]
      /\ item' \in [Items -> Rows \cup {NoItem}]
  BY <1>1, <1>2, <1>3 DEF CatalogueInv, RowsTypeOK
<1>5. RequestsOK' /\ DOMAIN call' = Calls
  BY <1>1, DoneKeeps DEF Changing, CatalogueInv
<1>6. RowsTypeOK'
  BY <1>1, <1>3, <1>4, <1>5 DEF CatalogueInv, RowsTypeOK
<1>7. CreatedInv'
  <2>1. \A x \in Items : x > added' => x > added /\ x # added + 1
    BY <1>1, <1>3 DEF Items
  <2>2. \A a \in Auctions : \A i \in 1..Len(lots[a]) : lots[a][i].item <= added'
    <3>1. \A a \in Auctions : \A i \in 1..Len(lots[a]) : lots[a][i].item \in Items
      <4>1. \A a \in Auctions : \A i \in 1..Len(lots[a]) : lots[a][i] \in Lots
        BY ElementOfSeq DEF CatalogueInv, RowsTypeOK
      <4>2. QED
        BY <4>1 DEF Lots
    <3>2. QED
      BY <1>1, <1>3, <3>1 DEF CatalogueInv, CreatedInv, Items
  <2>3. QED
    BY <1>1, <1>4, <2>1, <2>2 DEF CatalogueInv, CreatedInv, Exists
<1>8. last[added + 1] = NoSale
  BY <1>3 DEF CatalogueInv, CreatedInv
<1>9. KeptInv'
  BY <1>1, <1>4, <1>8 DEF CatalogueInv, KeptInv, Exists
<1>10. WonInv'
  <2>1. RowsWereWon'
    BY <1>1, <1>2, <1>4 DEF CatalogueInv, WonInv, RowsWereWon, Exists
  <2>2. QED
    BY <1>1, <2>1 DEF CatalogueInv, WonInv
<1>11. QED
  BY <1>5, <1>6, <1>7, <1>9, <1>10 DEF CatalogueInv

\* An owner changes an item, and may say who bought it.
LEMMA UpdateItemKeeps ==
    ASSUME CatalogueInv, NEW c \in Calls, UpdateItem(c)
    PROVE  CatalogueInv'
<1> DEFINE x == call[c].id
<1>1. /\ Changing(c, "updateItem")
      /\ UNCHANGED <<opened, added, lots, writes, last>>
  BY DEF UpdateItem
<1>2. x \in Items
  BY <1>1 DEF Changing, CatalogueInv, RequestsOK
<1>3. CASE ~Exists(x)
  <2>1. UNCHANGED <<item, won, blurred>>
    BY <1>3 DEF UpdateItem
  <2>2. RequestsOK' /\ DOMAIN call' = Calls
    BY <1>1, DoneKeeps DEF Changing, CatalogueInv
  <2>3. RowsTypeOK' /\ CreatedInv' /\ KeptInv'
    BY <1>1, <2>1, <2>2 DEF CatalogueInv, RowsTypeOK, CreatedInv, KeptInv, Exists
  <2>4. WonInv'
    BY <1>1, <2>1 DEF CatalogueInv, WonInv, RowsWereWon, Exists
  <2>5. QED
    BY <2>2, <2>3, <2>4 DEF CatalogueInv
<1>4. CASE Exists(x)
  <2>1. PICK s \in BOOLEAN, b \in Buyers, p \in Prices \cup {item[x].price} :
            /\ item' = [item EXCEPT ![x].sold = s, ![x].buyer = b, ![x].price = p]
            /\ won' = [won EXCEPT ![x] = won[x] \cup ({b} \cap Users)]
            /\ blurred' = blurred \cup {x}
    BY <1>4 DEF UpdateItem
  <2> HIDE DEF x
  <2>2. /\ won' \in [Items -> SUBSET Users] /\ won'[x] = won[x] \cup ({b} \cap Users)
        /\ \A y \in Items : y # x => won'[y] = won[y]
    BY <1>2, <2>1 DEF CatalogueInv, RowsTypeOK
  <2>3. \A y \in Items : won[y] \subseteq won'[y]
    BY <2>2
  <2>4. \A y \in Items : y # x => item'[y] = item[y]
    BY <1>2, <2>1 DEF CatalogueInv, RowsTypeOK
  <2>5. item'[x] \in Rows /\ item'[x].buyer = b
    <3> DEFINE r == item[x]
    <3>1. r \in Rows
      BY <1>2, <1>4 DEF CatalogueInv, RowsTypeOK, Exists
    <3>2. item'[x] = [r EXCEPT !.sold = s, !.buyer = b, !.price = p]
      BY <1>2, <2>1 DEF CatalogueInv, RowsTypeOK
    <3>3. p \in Nat
      BY <2>1, <3>1, CatalogueInputs DEF Rows
    <3> HIDE DEF r
    <3>4. item'[x] = [auction |-> r.auction, seller |-> r.seller, sold |-> s, buyer |-> b,
                      price |-> p]
      BY <3>1, <3>2 DEF Rows
    <3>5. item'[x] \in Rows
      BY <3>1, <3>3, <3>4 DEF Rows
    <3>6. item'[x].buyer = b
      BY <3>4
    <3>7. QED
      BY <3>5, <3>6
  <2>6. item' \in [Items -> Rows \cup {NoItem}]
    <3>1. \A y \in Items : item'[y] \in Rows \cup {NoItem}
      BY <2>4, <2>5 DEF CatalogueInv, RowsTypeOK
    <3>2. item' = [y \in Items |-> item'[y]]
      BY <2>1 DEF CatalogueInv, RowsTypeOK
    <3>3. QED
      BY <3>1, <3>2
  <2>7. RequestsOK' /\ DOMAIN call' = Calls
    BY <1>1, DoneKeeps DEF Changing, CatalogueInv
  <2>8. RowsTypeOK'
    BY <1>1, <2>1, <2>2, <2>6, <2>7 DEF CatalogueInv, RowsTypeOK
  <2>9. \A y \in Items : Exists(y)' => Exists(y)
    BY <1>4, <2>4 DEF Exists
  <2>10. CreatedInv'
    BY <1>1, <2>9 DEF CatalogueInv, CreatedInv
  <2>11. KeptInv'
    BY <1>1, <2>1, <2>4, <2>9 DEF CatalogueInv, KeptInv, Exists, Says
  <2>12. RowsWereWon'
    <3> SUFFICES ASSUME NEW y \in Items, Exists(y)', item'[y].buyer # Nobody
                 PROVE  item'[y].buyer \in won'[y]
      BY DEF RowsWereWon
    <3>1. CASE y = x
      BY <2>2, <2>5, <3>1 DEF Buyers
    <3>2. CASE y # x
      BY <2>3, <2>4, <2>9, <3>2 DEF CatalogueInv, WonInv, RowsWereWon
    <3>3. QED
      BY <3>1, <3>2
  <2>13. \A y \in Items : \A w \in writes[y] : w.buyer # Nobody => w.buyer \in won'[y]
    BY <2>3 DEF CatalogueInv, WonInv
  <2>14. \A a \in Auctions : \A i \in 1..Len(lots[a]) :
             lots[a][i].buyer # Nobody => lots[a][i].buyer \in won'[lots[a][i].item]
    <3>1. \A a \in Auctions : \A i \in 1..Len(lots[a]) : lots[a][i] \in Lots
      BY ElementOfSeq DEF CatalogueInv, RowsTypeOK
    <3>2. \A a \in Auctions : \A i \in 1..Len(lots[a]) : lots[a][i].item \in Items
      BY <3>1 DEF Lots
    <3>3. QED
      BY <2>3, <3>2 DEF CatalogueInv, WonInv
  <2>15. WonInv'
    BY <1>1, <2>12, <2>13, <2>14 DEF WonInv
  <2>16. QED
    BY <2>7, <2>8, <2>10, <2>11, <2>15 DEF CatalogueInv
<1>5. QED
  BY <1>3, <1>4

\* An item or an auction is removed.
LEMMA RemoveKeeps ==
    ASSUME CatalogueInv, NEW c \in Calls, RemoveItem(c) \/ RemoveAuction(c)
    PROVE  CatalogueInv'
<1>1. /\ Done(c) /\ UNCHANGED <<opened, added, lots, writes, won, last, blurred>>
      /\ item' = item \/ item' = [item EXCEPT ![call[c].id] = NoItem]
  BY DEF RemoveItem, RemoveAuction, Changing, runVars
<1>2. /\ item' \in [Items -> Rows \cup {NoItem}]
      /\ \A x \in Items : item'[x] = item[x] \/ item'[x] = NoItem
  BY <1>1 DEF CatalogueInv, RowsTypeOK
<1>3. RequestsOK' /\ DOMAIN call' = Calls
  BY <1>1, DoneKeeps DEF CatalogueInv
<1>4. RowsTypeOK'
  BY <1>1, <1>2, <1>3 DEF CatalogueInv, RowsTypeOK
<1>5. CreatedInv'
  BY <1>1, <1>2 DEF CatalogueInv, CreatedInv, Exists
<1>6. KeptInv'
  BY <1>1, <1>2 DEF CatalogueInv, KeptInv, Exists, Says
<1>7. WonInv'
  <2>1. RowsWereWon'
    BY <1>1, <1>2 DEF CatalogueInv, WonInv, RowsWereWon, Exists
  <2>2. QED
    BY <1>1, <2>1 DEF CatalogueInv, WonInv
<1>8. QED
  BY <1>3, <1>4, <1>5, <1>6, <1>7 DEF CatalogueInv

-----------------------------------------------------------------------------
(* The runs *)

\* A run loads the items of its auction, with what the rows say of them.
LEMMA StartRunKeeps ==
    ASSUME CatalogueInv, NEW a \in Auctions, StartRun(a)
    PROVE  CatalogueInv'
<1>1. UNCHANGED <<opened, item, added, call, writes, won, last, blurred>>
  BY DEF StartRun, rowVars
<1> DEFINE n == Cardinality(ItemsOf(a))
<1>2. /\ n \in Nat
      /\ \E order \in [1..n -> ItemsOf(a)] :
             lots' = [lots EXCEPT ![a] = [i \in 1..n |-> LotOf(order[i])]]
  <2>1. PICK order \in [1..Cardinality(ItemsOf(a)) -> ItemsOf(a)] :
            lots' = [lots EXCEPT ![a] = [i \in DOMAIN order |-> LotOf(order[i])]]
    BY DEF StartRun
  <2>2. n \in Nat
    <3>1. IsFiniteSet(Items)
      BY CatalogueInputs, FS_Interval DEF Items
    <3>2. ItemsOf(a) \subseteq Items
      BY DEF ItemsOf
    <3>3. QED
      BY <3>1, <3>2, FS_Subset, FS_CardinalityType
  <2>3. QED
    BY <2>1, <2>2
<1> HIDE DEF n
<1>3. PICK order \in [1..n -> ItemsOf(a)] :
          lots' = [lots EXCEPT ![a] = [i \in 1..n |-> LotOf(order[i])]]
  BY <1>2
<1> DEFINE new == [i \in 1..n |-> LotOf(order[i])]
<1>4. \A i \in 1..n : order[i] \in Items /\ Exists(order[i])
  BY <1>3 DEF ItemsOf
<1>5. ASSUME NEW x \in Items, Exists(x)
      PROVE  /\ LotOf(x) \in Lots /\ LotOf(x).item <= added
             /\ LotOf(x).buyer # Nobody => LotOf(x).buyer \in won[LotOf(x).item]
  <2>1. item[x] \in Rows
    BY <1>5 DEF CatalogueInv, RowsTypeOK, Exists
  <2>2. item[x].sold \in BOOLEAN /\ item[x].buyer \in Buyers
    BY <2>1 DEF Rows
  <2>3. LotOf(x) \in Lots
    BY <2>2, CatalogueInputs DEF LotOf, Lots
  <2>4. /\ LotOf(x).item = x /\ LotOf(x).sold = item[x].sold
        /\ LotOf(x).buyer = item[x].buyer
    BY DEF LotOf
  <2>5. x <= added
    BY <1>5, CatalogueInputs DEF CatalogueInv, CreatedInv, RowsTypeOK, Items
  <2>6. QED
    BY <1>5, <2>3, <2>4, <2>5 DEF CatalogueInv, WonInv, RowsWereWon
<1>6. /\ new \in Seq(Lots) /\ Len(new) = n
      /\ \A i \in 1..n : new[i].item <= added
      /\ \A i \in 1..n : new[i].buyer # Nobody => new[i].buyer \in won[new[i].item]
  <2>1. \A i \in 1..n : new[i] = LotOf(order[i])
    OBVIOUS
  <2>2. \A i \in 1..n : new[i] \in Lots
    BY <1>4, <1>5, <2>1
  <2>3. new \in [1..n -> Lots]
    BY <2>2
  <2>4. new \in Seq(Lots) /\ Len(new) = n
    BY <1>2, <2>3
  <2>5. QED
    BY <1>4, <1>5, <2>1, <2>4
<1> HIDE DEF new
<1>7. lots' = [lots EXCEPT ![a] = new]
  BY <1>3 DEF new
<1>8. lots'[a] = new /\ \A b \in Auctions : b # a => lots'[b] = lots[b]
  BY <1>7 DEF CatalogueInv, RowsTypeOK
<1>9. RowsTypeOK' /\ RequestsOK'
  BY <1>1, <1>6, <1>7 DEF CatalogueInv, RowsTypeOK, RequestsOK
<1>10. CreatedInv' /\ KeptInv'
  BY <1>1, <1>6, <1>8 DEF CatalogueInv, CreatedInv, KeptInv, Exists
<1>11. WonInv'
  BY <1>1, <1>6, <1>8 DEF CatalogueInv, WonInv, RowsWereWon, Exists
<1>12. QED
  BY <1>9, <1>10, <1>11 DEF CatalogueInv

\* The first lot of a run is settled, by somebody who wins it or as it was.
LEMMA SettleKeeps ==
    ASSUME CatalogueInv, NEW a \in Auctions, NEW lot \in Lots, lots[a] # <<>>,
           lot.item = Head(lots[a]).item, SettleAs(a, lot),
           won' \in [Items -> SUBSET Users], \A x \in Items : won[x] \subseteq won'[x],
           lot.buyer # Nobody => lot.buyer \in won'[lot.item]
    PROVE  CatalogueInv'
<1> DEFINE x == lot.item
           sale == SaleOf(lot)
<1>1. /\ lots' = [lots EXCEPT ![a] = Tail(lots[a])]
      /\ writes' = [writes EXCEPT ![x] = writes[x] \cup {sale}]
      /\ last' = [last EXCEPT ![x] = sale]
      /\ blurred' = IF writes[x] = {} THEN blurred \ {x} ELSE blurred \cup {x}
      /\ UNCHANGED <<opened, item, added, call>>
  BY DEF SettleAs, rowVars
<1>2. sale \in Sales /\ sale.sold = lot.sold /\ sale.buyer = lot.buyer
  BY DEF SaleOf, Sales, Lots
<1>3. /\ lots[a] \in Seq(Lots) /\ Len(lots[a]) \in Nat \ {0}
      /\ Tail(lots[a]) \in Seq(Lots) /\ Len(Tail(lots[a])) = Len(lots[a]) - 1
      /\ \A i \in 1..(Len(lots[a]) - 1) :
             i + 1 \in 1..Len(lots[a]) /\ Tail(lots[a])[i] = lots[a][i + 1]
      /\ 1 \in 1..Len(lots[a]) /\ lots[a][1].item = x
  <2>1. lots[a] \in Seq(Lots) /\ Len(lots[a]) \in Nat \ {0}
    BY EmptySeq, LenProperties DEF CatalogueInv, RowsTypeOK
  <2>2. QED
    BY <2>1, HeadTailProperties
<1>4. x \in Items /\ x <= added
  BY <1>3 DEF Lots, CatalogueInv, CreatedInv
<1> HIDE DEF x, sale
<1>5. /\ lots'[a] = Tail(lots[a]) /\ \A b \in Auctions : b # a => lots'[b] = lots[b]
      /\ writes'[x] = writes[x] \cup {sale} /\ last'[x] = sale
      /\ \A y \in Items : y # x => writes'[y] = writes[y] /\ last'[y] = last[y]
  BY <1>1, <1>4 DEF CatalogueInv, RowsTypeOK
<1>6. RowsTypeOK' /\ RequestsOK'
  <2>1. /\ writes' \in [Items -> SUBSET Sales] /\ last' \in [Items -> Sales \cup {NoSale}]
        /\ lots' \in [Auctions -> Seq(Lots)]
    BY <1>1, <1>2, <1>3, <1>4 DEF CatalogueInv, RowsTypeOK
  <2>2. QED
    BY <1>1, <2>1 DEF CatalogueInv, RowsTypeOK, RequestsOK
<1>7. \A b \in Auctions : \A i \in 1..Len(lots'[b]) :
          \E j \in 1..Len(lots[b]) : lots'[b][i] = lots[b][j]
  <2>1. \A i \in 1..Len(lots'[a]) : \E j \in 1..Len(lots[a]) : lots'[a][i] = lots[a][j]
    BY <1>3, <1>5
  <2>2. ASSUME NEW b \in Auctions, b # a
        PROVE  lots'[b] = lots[b]
    BY <1>5, <2>2
  <2>3. QED
    BY <2>1, <2>2
<1>8. CreatedInv'
  <2>1. ~ x > added
    BY <1>4, CatalogueInputs DEF CatalogueInv, RowsTypeOK, Items
  <2>2. \A b \in Auctions : \A i \in 1..Len(lots'[b]) : lots'[b][i].item <= added
    BY <1>7 DEF CatalogueInv, CreatedInv
  <2>3. QED
    BY <1>1, <1>5, <2>1, <2>2 DEF CatalogueInv, CreatedInv, Exists
<1>9. KeptInv'
  BY <1>1, <1>5 DEF CatalogueInv, KeptInv, Exists, Says
<1>10. WonInv'
  <2>1. RowsWereWon'
    BY <1>1 DEF CatalogueInv, WonInv, RowsWereWon, Exists
  <2>2. \A y \in Items : \A w \in writes'[y] : w.buyer # Nobody => w.buyer \in won'[y]
    <3>1. \A y \in Items : \A w \in writes[y] : w.buyer # Nobody => w.buyer \in won'[y]
      BY DEF CatalogueInv, WonInv
    <3>2. sale.buyer # Nobody => sale.buyer \in won'[x]
      BY <1>2 DEF x
    <3>3. QED
      BY <1>5, <3>1, <3>2
  <2>3. \A b \in Auctions : \A i \in 1..Len(lots'[b]) :
            lots'[b][i].buyer # Nobody => lots'[b][i].buyer \in won'[lots'[b][i].item]
    <3>1. \A b \in Auctions : \A i \in 1..Len(lots[b]) : lots[b][i] \in Lots
      BY ElementOfSeq DEF CatalogueInv, RowsTypeOK
    <3>2. \A b \in Auctions : \A i \in 1..Len(lots[b]) : lots[b][i].item \in Items
      BY <3>1 DEF Lots
    <3>3. \A b \in Auctions : \A i \in 1..Len(lots[b]) :
              lots[b][i].buyer # Nobody => lots[b][i].buyer \in won'[lots[b][i].item]
      BY <3>2 DEF CatalogueInv, WonInv
    <3>4. QED
      BY <1>7, <3>3
  <2>4. QED
    BY <2>1, <2>2, <2>3 DEF WonInv
<1>11. QED
  BY <1>6, <1>8, <1>9, <1>10 DEF CatalogueInv

\* An item is sold or passed in.
LEMMA BidsEndKeeps ==
    ASSUME CatalogueInv, NEW a \in Auctions,
           PassIn(a) \/ \E u \in Users, p \in Prices : Sell(a, u, p)
    PROVE  CatalogueInv'
<1> DEFINE old == Head(lots[a])
<1>1. /\ lots[a] # <<>> /\ old \in Lots
      /\ old.buyer # Nobody => old.buyer \in won[old.item]
  <2>1. lots[a] # <<>>
    BY DEF PassIn, Sell
  <2>2. lots[a] \in Seq(Lots) /\ 1 \in 1..Len(lots[a]) /\ old = lots[a][1]
    BY <2>1, EmptySeq, LenProperties DEF CatalogueInv, RowsTypeOK
  <2>3. QED
    BY <2>1, <2>2, ElementOfSeq DEF CatalogueInv, WonInv
<1>2. won \in [Items -> SUBSET Users]
  BY DEF CatalogueInv, RowsTypeOK
<1> HIDE DEF old
<1>3. CASE PassIn(a)
  <2>1. SettleAs(a, old) /\ won' = won
    BY <1>3 DEF PassIn, old
  <2>2. QED
    BY <1>1, <1>2, <2>1, SettleKeeps DEF old
<1>4. ASSUME NEW u \in Users, NEW p \in Prices, Sell(a, u, p)
      PROVE  CatalogueInv'
  <2> DEFINE yes == TRUE
  <2>1. PICK new : /\ new = [old EXCEPT !.sold = yes, !.buyer = u, !.price = p]
                   /\ SettleAs(a, new)
                   /\ won' = [won EXCEPT ![old.item] = won[old.item] \cup {u}]
    BY <1>4 DEF Sell, old
  <2>2. yes \in BOOLEAN /\ old \in Lots
    BY <1>1
  <2> HIDE DEF yes
  <2>3. new = [item |-> old.item, sold |-> yes, buyer |-> u, price |-> p]
    BY <2>1, <2>2 DEF Lots
  <2>4. new \in Lots /\ new.item = old.item /\ new.buyer = u
    <3>1. old.item \in Items /\ u \in Buyers /\ p \in Nat
      BY <2>2, CatalogueInputs DEF Buyers, Lots
    <3>2. QED
      BY <2>2, <2>3, <3>1 DEF Lots
  <2>5. /\ won' \in [Items -> SUBSET Users] /\ u \in won'[old.item]
        /\ \A x \in Items : won[x] \subseteq won'[x]
    BY <1>2, <2>1, <2>4 DEF Lots
  <2>6. QED
    BY <1>1, <2>1, <2>4, <2>5, SettleKeeps DEF old
<1>5. QED
  BY <1>3, <1>4

\* A save lands.
LEMMA SaveEachKeeps ==
    ASSUME CatalogueInv, NEW x \in Items, SaveEach(x)
    PROVE  CatalogueInv'
<1>1. PICK w \in writes[x] :
          /\ writes' = [writes EXCEPT ![x] = writes[x] \ {w}]
          /\ item' = IF Exists(x) THEN [item EXCEPT ![x] = Written(x, w)] ELSE item
          /\ UNCHANGED <<opened, added, call, lots, won, last, blurred>>
  BY DEF SaveEach
<1>2. w \in Sales
  BY DEF CatalogueInv, RowsTypeOK
<1>3. /\ writes'[x] = writes[x] \ {w} /\ writes' \in [Items -> SUBSET Sales]
      /\ \A y \in Items : y # x => writes'[y] = writes[y] /\ item'[y] = item[y]
      /\ ~Exists(x) => item'[x] = item[x]
      /\ Exists(x) => item'[x] = Written(x, w)
  BY <1>1 DEF CatalogueInv, RowsTypeOK
<1>4. ASSUME Exists(x)
      PROVE  Written(x, w) \in Rows /\ Says(Written(x, w), w)
  <2> DEFINE r == item[x]
             s == w.sold
             b == w.buyer
             p == w.price
             new == [auction |-> r.auction, seller |-> r.seller, sold |-> s, buyer |-> b,
                     price |-> p]
  <2>1. r \in Rows /\ s \in BOOLEAN /\ b \in Buyers /\ p \in Nat
    BY <1>2, <1>4 DEF CatalogueInv, RowsTypeOK, Exists, Sales
  <2>2. Written(x, w) = [r EXCEPT !.sold = s, !.buyer = b, !.price = p]
    BY DEF Written
  <2>3. new.sold = w.sold /\ new.buyer = w.buyer /\ new.price = w.price
    OBVIOUS
  <2> HIDE DEF r, s, b, p
  <2>4. Written(x, w) = new
    BY <2>1, <2>2 DEF Rows
  <2>5. new \in Rows
    BY <2>1 DEF Rows
  <2>6. QED
    BY <2>3, <2>4, <2>5 DEF Says
<1>5. item' \in [Items -> Rows \cup {NoItem}]
  BY <1>1, <1>4 DEF CatalogueInv, RowsTypeOK
<1>6. RowsTypeOK' /\ RequestsOK'
  BY <1>1, <1>3, <1>5 DEF CatalogueInv, RowsTypeOK, RequestsOK
<1>7. \A y \in Items : Exists(y)' => Exists(y)
  BY <1>3 DEF Exists
<1>8. CreatedInv'
  BY <1>1, <1>7 DEF CatalogueInv, CreatedInv
<1>9. KeptInv'
  <2> SUFFICES ASSUME NEW y \in Items, last[y] # NoSale, y \notin blurred
               PROVE  \/ writes'[y] = {last[y]}
                      \/ writes'[y] = {} /\ (Exists(y)' => Says(item'[y], last[y]))
    BY <1>1 DEF KeptInv
  <2>1. CASE y # x
    BY <1>3, <1>7, <2>1 DEF CatalogueInv, KeptInv, Exists
  <2>2. CASE y = x
    <3>1. writes[x] = {last[x]} /\ w = last[x]
      BY <1>1, <2>2 DEF CatalogueInv, KeptInv
    <3>2. writes'[x] = {}
      BY <1>3, <3>1
    <3>3. Exists(x)' => Says(item'[x], last[x])
      BY <1>3, <1>4, <1>7, <3>1
    <3>4. QED
      BY <2>2, <3>2, <3>3
  <2>3. QED
    BY <2>1, <2>2
<1>10. WonInv'
  <2>1. w.buyer # Nobody => w.buyer \in won[x]
    BY DEF CatalogueInv, WonInv
  <2>2. RowsWereWon'
    <3> SUFFICES ASSUME NEW y \in Items, Exists(y)', item'[y].buyer # Nobody
                 PROVE  item'[y].buyer \in won[y]
      BY <1>1 DEF RowsWereWon
    <3>1. CASE y = x
      <4>1. Says(item'[x], w)
        BY <1>3, <1>4, <1>7, <3>1
      <4>2. QED
        BY <2>1, <3>1, <4>1 DEF Says
    <3>2. CASE y # x
      BY <1>3, <1>7, <3>2 DEF CatalogueInv, WonInv, RowsWereWon
    <3>3. QED
      BY <3>1, <3>2
  <2>3. QED
    BY <1>1, <1>3, <2>2 DEF CatalogueInv, WonInv
<1>11. QED
  BY <1>6, <1>8, <1>9, <1>10 DEF CatalogueInv

\* The process ends: the items whose saves are lost are blurred.
LEMMA EndKeeps ==
    ASSUME CatalogueInv, ProcessEnds
    PROVE  CatalogueInv'
<1>1. /\ lots' = [a \in Auctions |-> <<>>]
      /\ writes' = [x \in Items |-> {}]
      /\ blurred' = blurred \cup {x \in Items : writes[x] # {}}
      /\ call' = [c \in Calls |-> IF call[c] = NoCall THEN NoCall ELSE [kind |-> "done"]]
      /\ UNCHANGED <<opened, item, added, won, last>>
  BY DEF ProcessEnds, rowVars
<1>2. \A a \in Auctions : lots'[a] = <<>> /\ lots'[a] \in Seq(Lots)
  BY <1>1
<1>3. RowsTypeOK'
  <2>1. lots' \in [Auctions -> Seq(Lots)]
    BY <1>1, <1>2
  <2>2. QED
    BY <1>1, <2>1 DEF CatalogueInv, RowsTypeOK
<1>4. RequestsOK'
  BY <1>1 DEF RequestsOK, NoCall
<1>5. CreatedInv' /\ KeptInv'
  BY <1>1, <1>2 DEF CatalogueInv, CreatedInv, KeptInv, Exists, Says
<1>6. WonInv'
  BY <1>1, <1>2 DEF CatalogueInv, WonInv, RowsWereWon, Exists
<1>7. QED
  BY <1>3, <1>4, <1>5, <1>6 DEF CatalogueInv

\* Every step keeps the invariant.
LEMMA CatalogueStepKeeps ==
    ASSUME CatalogueInv, [CatalogueNext]_catalogueVars
    PROVE  CatalogueInv'
<1>1. CASE Change
  BY <1>1, CheckKeeps, CreateItemKeeps, UpdateItemKeeps, RemoveKeeps DEF Change
<1>2. CASE Running
  BY <1>2, StartRunKeeps, BidsEndKeeps, SaveEachKeeps, EndKeeps DEF Running
<1>3. CASE Paging \/ UNCHANGED catalogueVars
  <2>1. UNCHANGED <<opened, item, added, call, lots, writes, won, last, blurred>>
    BY <1>3 DEF Paging, catalogueVars, rowVars, runVars
  <2>2. RowsTypeOK' /\ RequestsOK'
    BY <2>1 DEF CatalogueInv, RowsTypeOK, RequestsOK
  <2>3. CreatedInv' /\ KeptInv'
    BY <2>1 DEF CatalogueInv, CreatedInv, KeptInv, Exists
  <2>4. WonInv'
    BY <2>1 DEF CatalogueInv, WonInv, RowsWereWon, Exists
  <2>5. QED
    BY <2>2, <2>3, <2>4 DEF CatalogueInv
<1>4. QED
  BY <1>1, <1>2, <1>3 DEF CatalogueNext

-----------------------------------------------------------------------------
(* The pages of a list *)

Readers ==
    [at : {"rows", "count", "done"}, page : Nat \ {0}, list : {"auctions", "purchases"},
     user : Buyers, take : Nat \ {0}]

ReaderTypeOK ==
    reader = NoReader \/ (reader \in Readers /\ shown \in [Items \cup Auctions -> Nat])

\* A list of purchases is somebody's, and an auction is never bought.
ShownAreItems ==
    reader.list = "purchases" =>
        /\ reader.user # Nobody
        /\ \A x \in DOMAIN shown : shown[x] > 0 => x \in Items

\* The list that the reader pages through, and how many of its rows are on the pages
\* read.
TheList == Listed(reader.list, reader.user)
RowsRead == Skip(IF reader.at = "rows" THEN reader.page ELSE reader.page + 1, reader.take)

\* While a client pages, what was in the list all the time is in it; unless a row came,
\* what was shown is among the rows read; unless one left, what was not shown is not.
PagesInv ==
    reader.at \in {"rows", "count"} =>
        /\ stayed \subseteq TheList
        /\ ~joined => \A x \in TheList : shown[x] > 0 => Position(TheList, x) < RowsRead
        /\ ~left => \A x \in stayed : shown[x] = 0 => Position(TheList, x) >= RowsRead

ReaderInv ==
    /\ ReaderTypeOK
    /\ PagesInv
    /\ ShownAreItems
    /\ PurchasesWereWon
    /\ PagesMissOnlyIfRemoved
    /\ PagesRepeatOnlyIfAdded

\* A list holds ids.
LEMMA ListsHoldIds ==
    ASSUME NEW list, NEW u
    PROVE  Listed(list, u) \subseteq Items \cup Auctions
BY DEF Listed

\* A list is finite, and so is every part of it.
LEMMA ListsAreFinite ==
    ASSUME NEW ids, ids \subseteq Items \cup Auctions
    PROVE  IsFiniteSet(ids) /\ Cardinality(ids) \in Nat
<1>1. IsFiniteSet(Items) /\ IsFiniteSet(Auctions)
  BY CatalogueInputs, FS_Interval DEF Items, Auctions
<1>2. QED
  BY <1>1, FS_Union, FS_Subset, FS_CardinalityType

\* The position of a row is below the number of rows, and grows with the rows.
LEMMA PositionFacts ==
    ASSUME NEW ids, ids \subseteq Items \cup Auctions, NEW x \in ids
    PROVE  /\ Position(ids, x) \in Nat
           /\ Position(ids, x) < Cardinality(ids)
           /\ \A more \in SUBSET (Items \cup Auctions) :
                  ids \subseteq more => Position(ids, x) <= Position(more, x)
<1> DEFINE Before(s) == {y \in s : y > x}
<1>1. /\ IsFiniteSet(ids) /\ IsFiniteSet(Before(ids))
      /\ Cardinality(ids) \in Nat /\ Cardinality(Before(ids)) \in Nat
  BY ListsAreFinite
<1>2. Position(ids, x) = Cardinality(Before(ids))
  BY DEF Position
<1>3. Cardinality(Before(ids)) < Cardinality(ids)
  <2>1. x \in Nat
    BY CatalogueInputs DEF Items, Auctions
  <2>2. Before(ids) \subseteq ids /\ Before(ids) # ids
    BY <2>1
  <2>3. QED
    BY <1>1, <2>2, FS_Subset
<1>4. ASSUME NEW more \in SUBSET (Items \cup Auctions), ids \subseteq more
      PROVE  Position(ids, x) <= Position(more, x)
  <2>1. Before(ids) \subseteq Before(more) /\ IsFiniteSet(Before(more))
    BY <1>4, ListsAreFinite
  <2>2. Cardinality(Before(ids)) <= Cardinality(Before(more))
    BY <2>1, FS_Subset
  <2>3. QED
    BY <1>2, <2>2 DEF Position
<1>5. QED
  BY <1>1, <1>2, <1>3, <1>4

\* What a page skips, and what it skips with the page before it.
LEMMA SkipFacts ==
    ASSUME NEW page \in Nat \ {0}, NEW take \in Nat \ {0}
    PROVE  /\ Skip(page, take) \in Nat
           /\ Skip(1, take) = 0
           /\ Skip(page + 1, take) = Skip(page, take) + take
BY DEF Skip

\* A list whose last page was read has no more rows than the pages read.
LEMMA LastPage ==
    ASSUME NEW page \in Nat \ {0}, NEW take \in Nat \ {0}, NEW total \in Nat,
           ~ page < TotalPage(total, take)
    PROVE  total <= Skip(page + 1, take)
<1> DEFINE q == TotalPage(total, take)
           n == total + take - 1
<1>1. n \in Nat /\ q = n \div take
  BY DEF TotalPage
<1>2. q \in Nat /\ n < (q + 1) * take
  BY <1>1
<1> HIDE DEF q
<1>3. q <= page
  BY <1>2 DEF q
<1>4. (q + 1) * take <= (page + 1) * take
  BY <1>2, <1>3
<1>5. (page + 1) * take = page * take + take /\ page * take \in Nat
  OBVIOUS
<1>6. Skip(page + 1, take) = page * take
  BY DEF Skip
<1>7. n < page * take + take
  BY <1>1, <1>2, <1>4, <1>5
<1>8. QED
  BY <1>5, <1>6, <1>7

\* Winners stay winners.
LEMMA WonGrows ==
    ASSUME CatalogueInv, [CatalogueNext]_catalogueVars
    PROVE  \A x \in Items : won[x] \subseteq won'[x]
<1>1. won \in [Items -> SUBSET Users]
  BY DEF CatalogueInv, RowsTypeOK
<1>2. ASSUME NEW c \in Calls, UpdateItem(c)
      PROVE  \A x \in Items : won[x] \subseteq won'[x]
  BY <1>1, <1>2 DEF UpdateItem
<1>3. ASSUME NEW a \in Auctions, NEW u \in Users, NEW p \in Prices, Sell(a, u, p)
      PROVE  \A x \in Items : won[x] \subseteq won'[x]
  BY <1>1, <1>3 DEF Sell
<1>4. CASE Change
  BY <1>2, <1>4 DEF Change, CreateAuction, CheckRequest, CreateItem, RemoveItem,
                    RemoveAuction, runVars
<1>5. CASE Running
  BY <1>3, <1>5 DEF Running, StartRun, PassIn, SaveEach, ProcessEnds
<1>6. CASE Paging \/ UNCHANGED catalogueVars
  BY <1>6 DEF Paging, runVars, catalogueVars
<1>7. QED
  BY <1>4, <1>5, <1>6 DEF CatalogueNext

\* A client begins with no row.
LEMMA OpenKeeps ==
    ASSUME NEW l \in Lists, OpenList(l), UNCHANGED <<host, item>>
    PROVE  ReaderInv'
<1> DEFINE ids == Items \cup Auctions
           start == [at |-> "rows", page |-> 1, list |-> l.list, user |-> l.user,
                     take |-> l.take]
<1>1. /\ reader' = start
      /\ shown' = [x \in ids |-> 0]
      /\ stayed' = Listed(l.list, l.user)
  BY DEF OpenList
<1>2. /\ l \in [list : {"auctions", "purchases"}, user : Buyers, take : Nat \ {0}]
      /\ l.list = "purchases" => l.user # Nobody
  BY CatalogueInputs DEF Buyers
<1>3. start \in Readers
  BY <1>2 DEF Readers
<1>4. shown' \in [ids -> Nat] /\ \A x \in ids : shown'[x] = 0
  BY <1>1
<1>5. ReaderTypeOK'
  BY <1>1, <1>3, <1>4 DEF ReaderTypeOK
<1>6. PagesInv'
  <2>1. TheList' = stayed'
    BY <1>1 DEF TheList, Listed, Exists, IsBoughtBy
  <2>2. RowsRead' = 0
    <3>1. RowsRead' = Skip(1, l.take)
      BY <1>1 DEF RowsRead
    <3>2. QED
      BY <1>2, <3>1, SkipFacts
  <2>3. stayed' \subseteq ids
    BY <1>1, ListsHoldIds
  <2>4. \A x \in stayed' : Position(stayed', x) \in Nat
    BY <2>3, PositionFacts
  <2>5. QED
    BY <1>4, <2>1, <2>2, <2>3, <2>4 DEF PagesInv
<1>7. ShownAreItems' /\ PurchasesWereWon'
  BY <1>1, <1>2, <1>4 DEF ShownAreItems, PurchasesWereWon
<1>8. PagesMissOnlyIfRemoved' /\ PagesRepeatOnlyIfAdded'
  BY <1>1, <1>4 DEF PagesMissOnlyIfRemoved, PagesRepeatOnlyIfAdded
<1>9. QED
  BY <1>5, <1>6, <1>7, <1>8 DEF ReaderInv

\* The rows of a page are read: they come after all that was shown and before all that
\* is not.
LEMMA ReadKeeps ==
    ASSUME CatalogueInv, ReaderInv, ReadRows, UNCHANGED <<host, item, won>>
    PROVE  ReaderInv'
<1> DEFINE ids == Items \cup Auctions
           page == reader.page
           take == reader.take
           rows == Page(TheList, page, take)
           next == [reader EXCEPT !.at = "count"]
<1>1. /\ reader.at = "rows"
      /\ shown' = [x \in DOMAIN shown |-> IF x \in rows THEN shown[x] + 1 ELSE shown[x]]
      /\ reader' = next
      /\ UNCHANGED <<stayed, joined, left>>
  BY DEF ReadRows, TheList
<1>2. reader \in Readers /\ shown \in [ids -> Nat]
  BY <1>1 DEF ReaderInv, ReaderTypeOK, NoReader
<1>3. /\ next \in Readers /\ next.at = "count" /\ next.page = page /\ next.take = take
      /\ next.list = reader.list /\ next.user = reader.user
      /\ page \in Nat \ {0} /\ take \in Nat \ {0}
  BY <1>2 DEF Readers
<1> HIDE DEF next
<1>4. /\ shown' \in [ids -> Nat]
      /\ \A x \in ids : shown'[x] = IF x \in rows THEN shown[x] + 1 ELSE shown[x]
  BY <1>1, <1>2
<1>5. ReaderTypeOK'
  BY <1>1, <1>3, <1>4 DEF ReaderTypeOK
<1>6. TheList' = TheList /\ TheList \subseteq ids
  BY <1>1, <1>3, ListsHoldIds DEF TheList, Listed, Exists, IsBoughtBy
<1>7. /\ RowsRead = Skip(page, take) /\ RowsRead \in Nat
      /\ RowsRead' = RowsRead + take
  <2>1. RowsRead = Skip(page, take) /\ RowsRead' = Skip(page + 1, take)
    BY <1>1, <1>3 DEF RowsRead
  <2>2. QED
    BY <1>3, <2>1, SkipFacts
<1>8. \A x \in TheList : /\ Position(TheList, x) \in Nat
                         /\ x \in rows <=> /\ Position(TheList, x) >= RowsRead
                                           /\ Position(TheList, x) < RowsRead + take
  <2>1. \A x \in TheList : Position(TheList, x) \in Nat
    BY <1>6, PositionFacts
  <2>2. QED
    BY <1>3, <1>7, <2>1 DEF Page
<1>9. rows \subseteq TheList
  BY DEF Page
<1> HIDE DEF rows, page, take
<1>10. /\ stayed \subseteq TheList
       /\ ~joined => \A x \in TheList : shown[x] > 0 => Position(TheList, x) < RowsRead
       /\ ~left => \A x \in stayed : shown[x] = 0 => Position(TheList, x) >= RowsRead
       /\ ~joined => \A x \in ids : shown[x] <= 1
  BY <1>1, <1>2 DEF ReaderInv, PagesInv, PagesRepeatOnlyIfAdded
<1>11. PagesInv'
  <2>1. ASSUME ~joined, NEW x \in TheList, shown'[x] > 0
        PROVE  Position(TheList, x) < RowsRead + take
    BY <1>2, <1>3, <1>4, <1>6, <1>7, <1>8, <1>10, <2>1 DEF take
  <2>2. ASSUME ~left, NEW x \in stayed, shown'[x] = 0
        PROVE  Position(TheList, x) >= RowsRead + take
    <3>1. x \in TheList /\ x \in ids
      BY <1>6, <1>10
    <3>2. x \notin rows /\ shown[x] = 0
      BY <1>2, <1>4, <2>2, <3>1
    <3>3. QED
      BY <1>3, <1>7, <1>8, <1>10, <2>2, <3>1, <3>2 DEF take
  <2>3. QED
    BY <1>1, <1>6, <1>7, <1>10, <2>1, <2>2 DEF PagesInv
<1>12. PagesRepeatOnlyIfAdded'
  <2> SUFFICES ASSUME ~joined, NEW x \in ids
               PROVE  shown'[x] <= 1
    BY <1>1, <1>4 DEF PagesRepeatOnlyIfAdded
  <2>1. CASE x \in rows
    <3>1. x \in TheList /\ Position(TheList, x) >= RowsRead
      BY <1>8, <1>9, <2>1
    <3>2. ~ shown[x] > 0
      BY <1>7, <1>8, <1>10, <3>1
    <3>3. QED
      BY <1>2, <1>4, <3>2
  <2>2. CASE x \notin rows
    BY <1>4, <1>10, <2>2
  <2>3. QED
    BY <2>1, <2>2
<1>13. ShownAreItems' /\ PurchasesWereWon'
  <2> SUFFICES ASSUME reader.list = "purchases", NEW x \in ids, shown'[x] > 0
               PROVE  x \in Items /\ reader.user \in won[x]
    BY <1>1, <1>3, <1>4 DEF ReaderInv, ShownAreItems, PurchasesWereWon
  <2>1. CASE x \in rows
    <3>1. x \in Items /\ Exists(x) /\ item[x].sold /\ item[x].buyer = reader.user
      BY <1>9, <2>1 DEF TheList, Listed, IsBoughtBy
    <3>2. reader.user # Nobody
      BY DEF ReaderInv, ShownAreItems
    <3>3. QED
      BY <3>1, <3>2 DEF CatalogueInv, WonInv, RowsWereWon
  <2>2. CASE x \notin rows
    BY <1>2, <1>4, <2>2 DEF ReaderInv, ShownAreItems, PurchasesWereWon
  <2>3. QED
    BY <2>1, <2>2
<1>14. PagesMissOnlyIfRemoved'
  BY <1>1, <1>3 DEF PagesMissOnlyIfRemoved
<1>15. QED
  BY <1>5, <1>11, <1>12, <1>13, <1>14 DEF ReaderInv

\* The rows are counted: the client asks for another page, or the page was the last.
LEMMA CountKeeps ==
    ASSUME ReaderInv, CountRows, UNCHANGED <<host, item, won>>
    PROVE  ReaderInv'
<1> DEFINE ids == Items \cup Auctions
           total == Cardinality(TheList)
           more == [reader EXCEPT !.at = "rows", !.page = reader.page + 1]
           over == [reader EXCEPT !.at = "done"]
<1>1. /\ reader.at = "count"
      /\ \/ reader' = more
         \/ reader' = over /\ ~ reader.page < TotalPage(total, reader.take)
      /\ UNCHANGED <<shown, stayed, joined, left>>
  BY DEF CountRows, TheList
<1>2. reader \in Readers /\ shown \in [ids -> Nat]
  BY <1>1 DEF ReaderInv, ReaderTypeOK, NoReader
<1>3. /\ more \in Readers /\ more.at = "rows" /\ more.page = reader.page + 1
      /\ more.list = reader.list /\ more.user = reader.user /\ more.take = reader.take
  <2> DEFINE n == reader.page + 1
  <2>1. n \in Nat \ {0} /\ more = [reader EXCEPT !.at = "rows", !.page = n]
    BY <1>2 DEF Readers
  <2> HIDE DEF n, more
  <2>2. more = [at |-> "rows", page |-> n, list |-> reader.list, user |-> reader.user,
                take |-> reader.take]
    BY <1>2, <2>1 DEF Readers
  <2>3. more \in Readers
    BY <1>2, <2>1, <2>2 DEF Readers
  <2>4. QED
    BY <2>2, <2>3 DEF n
<1>4. /\ over \in Readers /\ over.at = "done"
      /\ over.list = reader.list /\ over.user = reader.user
  BY <1>2 DEF Readers
<1>5. reader.page \in Nat \ {0} /\ reader.take \in Nat \ {0}
  BY <1>2 DEF Readers
<1> HIDE DEF more, over
<1>6. ReaderTypeOK'
  BY <1>1, <1>2, <1>3, <1>4 DEF ReaderTypeOK
<1>7. ShownAreItems' /\ PurchasesWereWon' /\ PagesRepeatOnlyIfAdded'
  BY <1>1, <1>3, <1>4
  DEF ReaderInv, ShownAreItems, PurchasesWereWon, PagesRepeatOnlyIfAdded
<1>8. CASE reader' = more
  <2>1. TheList' = TheList
    BY <1>3, <1>8 DEF TheList, Listed, Exists, IsBoughtBy
  <2>2. RowsRead' = RowsRead
    BY <1>1, <1>3, <1>8 DEF RowsRead
  <2>3. PagesInv'
    BY <1>1, <1>3, <1>8, <2>1, <2>2 DEF ReaderInv, PagesInv
  <2>4. PagesMissOnlyIfRemoved'
    BY <1>3, <1>8 DEF PagesMissOnlyIfRemoved
  <2>5. QED
    BY <1>6, <1>7, <2>3, <2>4 DEF ReaderInv
<1>9. CASE reader' = over /\ ~ reader.page < TotalPage(total, reader.take)
  <2>1. PagesInv'
    BY <1>4, <1>9 DEF PagesInv
  <2>2. ASSUME ~left, NEW x \in stayed
        PROVE  shown[x] > 0
    <3>1. x \in TheList /\ (shown[x] = 0 => Position(TheList, x) >= RowsRead)
      BY <1>1, <2>2 DEF ReaderInv, PagesInv
    <3>2. TheList \subseteq ids
      BY ListsHoldIds DEF TheList
    <3>3. total \in Nat /\ Position(TheList, x) \in Nat /\ Position(TheList, x) < total
      BY <3>1, <3>2, ListsAreFinite, PositionFacts
    <3>4. RowsRead = Skip(reader.page + 1, reader.take)
      BY <1>1 DEF RowsRead
    <3>5. RowsRead \in Nat
      <4>1. reader.page + 1 \in Nat \ {0}
        BY <1>5
      <4>2. QED
        BY <1>5, <3>4, <4>1, SkipFacts
    <3> HIDE DEF total
    <3>6. total <= RowsRead
      BY <1>5, <1>9, <3>3, <3>4, LastPage
    <3>7. shown[x] \in Nat
      BY <1>2, <3>1, <3>2
    <3>8. QED
      BY <3>1, <3>3, <3>5, <3>6, <3>7
  <2>3. PagesMissOnlyIfRemoved'
    BY <1>1, <2>2 DEF PagesMissOnlyIfRemoved
  <2>4. QED
    BY <1>6, <1>7, <2>1, <2>3 DEF ReaderInv
<1>10. QED
  BY <1>1, <1>8, <1>9

\* The database changes under a client that pages: unless rows come, none moves to a
\* later page; unless rows leave, none moves to an earlier one.
LEMMA WatchedKeeps ==
    ASSUME ReaderInv, Watched, \A x \in Items : won[x] \subseteq won'[x]
    PROVE  ReaderInv'
<1> DEFINE ids == Items \cup Auctions
<1>1. UNCHANGED <<reader, shown>>
  BY DEF Watched, readerVars
<1>2. ReaderTypeOK'
  BY <1>1 DEF ReaderInv, ReaderTypeOK
<1>3. ShownAreItems' /\ PurchasesWereWon'
  <2> SUFFICES ASSUME reader.list = "purchases", NEW x \in DOMAIN shown, shown[x] > 0
               PROVE  x \in Items /\ reader.user \in won'[x]
    BY <1>1 DEF ReaderInv, ShownAreItems, PurchasesWereWon
  <2>1. x \in Items /\ reader.user \in won[x]
    BY DEF ReaderInv, ShownAreItems, PurchasesWereWon
  <2>2. QED
    BY <2>1
<1>4. CASE reader.at \notin {"rows", "count"}
  <2>1. UNCHANGED readerVars
    BY <1>4 DEF Watched
  <2>2. PagesInv'
    BY <1>1, <1>4 DEF PagesInv
  <2>3. PagesMissOnlyIfRemoved' /\ PagesRepeatOnlyIfAdded'
    BY <2>1 DEF ReaderInv, PagesMissOnlyIfRemoved, PagesRepeatOnlyIfAdded, readerVars
  <2>4. QED
    BY <1>2, <1>3, <2>2, <2>3 DEF ReaderInv
<1>5. CASE reader.at \in {"rows", "count"}
  <2>1. /\ stayed' = stayed \cap TheList'
        /\ joined' = (joined \/ ~ TheList' \subseteq TheList)
        /\ left' = (left \/ ~ TheList \subseteq TheList')
    BY <1>1, <1>5 DEF Watched, TheList
  <2>2. TheList \subseteq ids /\ TheList' \subseteq ids
    BY DEF TheList, Listed
  <2>3. RowsRead' = RowsRead
    BY <1>1 DEF RowsRead
  <2>4. reader \in Readers /\ shown \in [ids -> Nat]
    BY <1>5 DEF ReaderInv, ReaderTypeOK, NoReader
  <2>5. RowsRead \in Nat
    <3>1. reader.page \in Nat \ {0} /\ reader.take \in Nat \ {0}
      BY <2>4 DEF Readers
    <3>2. reader.page + 1 \in Nat \ {0}
      BY <3>1
    <3>3. QED
      BY <3>1, <3>2, SkipFacts DEF RowsRead
  <2>6. /\ \A x \in TheList : Position(TheList, x) \in Nat
        /\ \A x \in TheList' : Position(TheList', x) \in Nat
    BY <2>2, PositionFacts
  <2>7. ASSUME ~joined', NEW x \in TheList', shown[x] > 0
        PROVE  Position(TheList', x) < RowsRead
    <3>1. ~joined /\ TheList' \subseteq TheList
      BY <2>1, <2>7
    <3>2. Position(TheList, x) < RowsRead
      BY <1>5, <2>7, <3>1 DEF ReaderInv, PagesInv
    <3>3. Position(TheList', x) <= Position(TheList, x)
      BY <2>2, <3>1, PositionFacts
    <3>4. QED
      BY <2>5, <2>6, <3>1, <3>2, <3>3
  <2>8. ASSUME ~left', NEW x \in stayed', shown[x] = 0
        PROVE  Position(TheList', x) >= RowsRead
    <3>1. ~left /\ TheList \subseteq TheList' /\ x \in stayed /\ x \in TheList'
      BY <2>1, <2>8
    <3>2. x \in TheList /\ Position(TheList, x) >= RowsRead
      BY <1>5, <2>8, <3>1 DEF ReaderInv, PagesInv
    <3>3. Position(TheList, x) <= Position(TheList', x)
      BY <2>2, <3>1, <3>2, PositionFacts
    <3>4. QED
      BY <2>5, <2>6, <3>1, <3>2, <3>3
  <2>9. PagesInv'
    BY <1>1, <2>1, <2>3, <2>7, <2>8 DEF PagesInv
  <2>10. PagesMissOnlyIfRemoved'
    BY <1>1, <1>5 DEF PagesMissOnlyIfRemoved
  <2>11. PagesRepeatOnlyIfAdded'
    BY <1>1, <2>1 DEF ReaderInv, PagesRepeatOnlyIfAdded
  <2>12. QED
    BY <1>2, <1>3, <2>9, <2>10, <2>11 DEF ReaderInv
<1>6. QED
  BY <1>4, <1>5

\* Every step keeps what is known of the reader.
LEMMA ReaderStepKeeps ==
    ASSUME CatalogueInv, ReaderInv, [CatalogueNext]_catalogueVars
    PROVE  ReaderInv'
<1>1. CASE (Change /\ Watched) \/ (Running /\ Watched)
  BY <1>1, WonGrows, WatchedKeeps
<1>2. CASE Paging
  <2>1. UNCHANGED <<host, item, won>>
    BY <1>2 DEF Paging, rowVars, runVars
  <2>2. QED
    BY <1>2, <2>1, OpenKeeps, ReadKeeps, CountKeeps DEF Paging
<1>3. CASE UNCHANGED catalogueVars
  <2>1. UNCHANGED <<host, item, won, readerVars>>
    BY <1>3 DEF catalogueVars, rowVars, runVars
  <2>2. UNCHANGED <<reader, shown, stayed, joined, left>>
    BY <2>1 DEF readerVars
  <2>3. TheList' = TheList /\ RowsRead' = RowsRead
    BY <2>1, <2>2 DEF TheList, Listed, Exists, IsBoughtBy, RowsRead
  <2>4. ReaderTypeOK' /\ PagesInv'
    BY <2>2, <2>3 DEF ReaderInv, ReaderTypeOK, PagesInv
  <2>5. /\ ShownAreItems' /\ PurchasesWereWon'
        /\ PagesMissOnlyIfRemoved' /\ PagesRepeatOnlyIfAdded'
    BY <2>1, <2>2
    DEF ReaderInv, ShownAreItems, PurchasesWereWon, PagesMissOnlyIfRemoved,
        PagesRepeatOnlyIfAdded
  <2>6. QED
    BY <2>4, <2>5 DEF ReaderInv
<1>4. QED
  BY <1>1, <1>2, <1>3 DEF CatalogueNext

-----------------------------------------------------------------------------
(* The theorems *)

\* The invariant of the rows and the runs.
THEOREM CatalogueInvariant == CatalogueSpec => []CatalogueInv
<1>1. QED
  BY CatalogueStarts, CatalogueStepKeeps, PTL DEF CatalogueSpec

\* When no save is under way, the row of an item says what its last run settled, unless
\* the save was lost with the process or raced another one, or the item was patched
\* since that run settled it
\* (game.service.ts:343-345, auction-item.repository.ts:82-92).
THEOREM SalesAreKept == CatalogueSpec => []RowKeepsTheSale
<1>1. CatalogueInv => RowKeepsTheSale
  BY DEF CatalogueInv, KeptInv, Says, RowKeepsTheSale
<1>2. QED
  BY <1>1, CatalogueInvariant, PTL

\* No row ever names a buyer, sold or not, who neither won the item in some run nor was
\* named by its seller, however saves, PATCHes of single columns, runs that begin with
\* an old buyer and crashes follow one another: what a list of purchases shows comes
\* from such rows (auction.service.ts:132-165, game.service.ts:311-312).
THEOREM BuyersHaveWon == CatalogueSpec => []RowsWereWon
<1>1. CatalogueInv => RowsWereWon
  BY DEF CatalogueInv, WonInv
<1>2. QED
  BY <1>1, CatalogueInvariant, PTL

\* What is known of a client that pages, and of its list.
THEOREM ReaderInvariant == CatalogueSpec => []ReaderInv
<1>1. CatalogueInit => ReaderInv
  BY DEF CatalogueInit, ReaderInv, ReaderTypeOK, PagesInv, ShownAreItems, PurchasesWereWon,
         PagesMissOnlyIfRemoved, PagesRepeatOnlyIfAdded, NoReader
<1>2. CatalogueInv /\ ReaderInv /\ [CatalogueNext]_catalogueVars => ReaderInv'
  BY ReaderStepKeeps
<1>3. QED
  BY <1>1, <1>2, CatalogueInvariant, PTL DEF CatalogueSpec

\* Whatever a list of purchases shows, on whichever page and however rows change between
\* the pages, is an item its user has won in some run or whose seller named that user as
\* the buyer (auction.service.ts:132-143).
THEOREM PurchasesShowWhatWasWon == CatalogueSpec => []PurchasesWereWon
<1>1. ReaderInv => PurchasesWereWon
  BY DEF ReaderInv
<1>2. QED
  BY <1>1, ReaderInvariant, PTL

\* A client misses a row that is in its list all the time only if a row left the list
\* meanwhile, for every length of a page and of a list
\* (auction.service.ts:219-231, pagination.response.ts:26-32).
THEOREM NoRowIsMissed == CatalogueSpec => []PagesMissOnlyIfRemoved
<1>1. ReaderInv => PagesMissOnlyIfRemoved
  BY DEF ReaderInv
<1>2. QED
  BY <1>1, ReaderInvariant, PTL

\* A client is shown a row twice only if a row came into its list meanwhile
\* (pagination.request.ts:16-18).
THEOREM NoRowIsRepeated == CatalogueSpec => []PagesRepeatOnlyIfAdded
<1>1. ReaderInv => PagesRepeatOnlyIfAdded
  BY DEF ReaderInv
<1>2. QED
  BY <1>1, ReaderInvariant, PTL
=============================================================================
