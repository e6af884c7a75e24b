--------------------------- MODULE ItemFeedProofs ----------------------------
(***************************************************************************)
(* Theorems about ItemFeed for any number of accounts, devices and items,  *)
(* any retention limits and any page limits.                               *)
(***************************************************************************)
EXTENDS ItemFeed, ItemStoreProofs

(* The inductive invariant *)

LEMMA InitFeedInv == Init => FeedInv
  BY FS_EmptySet
     DEF Init, StoreInit, FeedInv, TypeOK, NothingSkipped, OnlyOwnAccount

LEMMA JoinKeepsInv ==
  ASSUME FeedInv, NEW d \in Devices, JoinLatest(d)
  PROVE  FeedInv'
<1>. USE DEF FeedInv, TypeOK
<1>1. AccountOf[d] \in Accounts
  BY StoreAssumption DEF StoreAssumption
<1>2. /\ LatestCursor(AccountOf[d]) \in Nat
      /\ LatestCursor(AccountOf[d]) <= lastSeq
  BY <1>1, LatestIsLast
<1>3. /\ UNCHANGED <<items, lastSeq, now, got, posted>>
      /\ joined' = joined \cup {d}
      /\ cursor' = [cursor EXCEPT ![d] = LatestCursor(AccountOf[d])]
      /\ start' = [start EXCEPT ![d] = LatestCursor(AccountOf[d])]
      /\ d \notin joined
  BY DEF JoinLatest, storeVars
<1>4. TypeOK'
  BY <1>2, <1>3
<1>5. \A e \in Devices : start'[e] <= cursor'[e] /\ cursor'[e] <= lastSeq'
  BY <1>2, <1>3
<1>6. \A e \in Devices : \A i \in got'[e] : i.seq <= cursor'[e]
  BY <1>3
<1>7. NothingSkipped'
  <2>. SUFFICES ASSUME NEW e \in joined', NEW i \in items,
                       i.account = AccountOf[e], i.device # e,
                       start'[e] < i.seq, i.seq <= cursor'[e]
                PROVE  i \in got[e]
    BY <1>3 DEF NothingSkipped
  <2>1. i.seq \in Nat
    BY DEF Item
  <2>2. e # d
    BY <1>2, <1>3, <2>1
  <2>. QED BY <1>3, <2>2 DEF NothingSkipped
<1>8. OnlyOwnAccount'
  BY <1>3 DEF OnlyOwnAccount
<1>9. \A e \in Devices \ joined' : got'[e] = {}
  BY <1>3
<1>. QED BY <1>3, <1>4, <1>5, <1>6, <1>7, <1>8, <1>9

LEMMA PostKeepsInv ==
  ASSUME FeedInv, NEW d \in Devices, NEW id \in Ids, NEW data \in Payloads,
         PostItem(d, id, data)
  PROVE  FeedInv'
<1>. USE DEF FeedInv, TypeOK
<1>1. /\ UNCHANGED <<now, cursor, joined, start, got>>
      /\ AddItem(AccountOf[d], d, id, data)
      /\ posted' \subseteq posted \cup items'
  BY DEF PostItem, readerVars
<1>2. /\ items' \subseteq Item
      /\ IsFiniteSet(items')
      /\ lastSeq' \in Nat /\ lastSeq <= lastSeq'
      /\ \A i \in items' : i \in items \/ i.seq = lastSeq'
      /\ lastSeq' = lastSeq => items' = items
  BY <1>1, AddItemRows
<1>3. TypeOK'
  BY <1>1, <1>2
<1>4. \A i \in items' : i.seq <= lastSeq'
  BY <1>2 DEF Item
<1>5. \A e \in Devices : cursor[e] <= lastSeq'
  BY <1>2
<1>6. NothingSkipped'
  <2>. SUFFICES ASSUME NEW e \in joined, NEW i \in items',
                       i.account = AccountOf[e], i.device # e,
                       start[e] < i.seq, i.seq <= cursor[e]
                PROVE  i \in got[e]
    BY <1>1 DEF NothingSkipped
  <2>1. i \in items
    BY <1>1, <1>2 DEF Item
  <2>. QED BY <2>1 DEF NothingSkipped
<1>7. OnlyOwnAccount'
  BY <1>1 DEF OnlyOwnAccount
<1>. QED BY <1>1, <1>2, <1>3, <1>4, <1>5, <1>6, <1>7

LEMMA DeleteKeepsInv ==
  ASSUME FeedInv, NEW d \in Devices, DeleteItems(d)
  PROVE  FeedInv'
<1>. USE DEF FeedInv, TypeOK
<1>1. /\ UNCHANGED <<lastSeq, now, cursor, joined, start, got, posted>>
      /\ items' \subseteq items
  BY DEF DeleteItems, DeleteAll, readerVars
<1>2. IsFiniteSet(items')
  BY <1>1, FS_Subset
<1>. QED BY <1>1, <1>2 DEF NothingSkipped, OnlyOwnAccount

LEMMA GetKeepsInv ==
  ASSUME FeedInv, NEW d \in Devices, GetItems(d)
  PROVE  FeedInv'
<1>. USE DEF FeedInv, TypeOK
<1>. DEFINE m == PageCursor(d, cursor[d])
<1>1. /\ UNCHANGED <<items, lastSeq, now, joined, start, posted>>
      /\ got' = [got EXCEPT ![d] = @ \cup Page(d, cursor[d])]
      /\ cursor' = [cursor EXCEPT ![d] = m]
      /\ d \in joined
      /\ Passed(d, cursor[d]) # {}
  BY DEF GetItems, storeVars
<1>2. /\ m \in Nat /\ cursor[d] < m /\ m <= lastSeq
      /\ Passed(d, cursor[d]) =
           {i \in After(AccountOf[d], cursor[d]) : i.seq <= m}
  <2>1. cursor[d] \in Nat /\ cursor[d] <= lastSeq
    OBVIOUS
  <2>. QED BY <1>1, <2>1, PageIsInterval
<1>. HIDE DEF m
<1>3. Page(d, cursor[d]) =
        {i \in items : /\ i.account = AccountOf[d] /\ i.device # d
                       /\ cursor[d] < i.seq /\ i.seq <= m}
  BY <1>2 DEF Page, After, Item
<1>4. TypeOK'
  BY <1>1, <1>2, <1>3
<1>5. \A e \in Devices : start'[e] <= cursor'[e] /\ cursor'[e] <= lastSeq'
  BY <1>1, <1>2
<1>6. \A e \in Devices : \A i \in got'[e] : i.seq <= cursor'[e]
  BY <1>1, <1>2, <1>3 DEF Item
<1>7. NothingSkipped'
  <2>. SUFFICES ASSUME NEW e \in joined, NEW i \in items,
                       i.account = AccountOf[e], i.device # e,
                       start[e] < i.seq, i.seq <= cursor'[e]
                PROVE  i \in got'[e]
    BY <1>1 DEF NothingSkipped
  <2>1. CASE e # d
    BY <1>1, <2>1 DEF NothingSkipped
  <2>2. CASE e = d /\ i.seq <= cursor[d]
    BY <1>1, <2>2 DEF NothingSkipped
  <2>3. CASE e = d /\ cursor[d] < i.seq
    BY <1>1, <1>3, <2>3
  <2>. QED BY <2>1, <2>2, <2>3 DEF Item
<1>8. OnlyOwnAccount'
  BY <1>1, <1>3 DEF OnlyOwnAccount, Item
<1>9. \A e \in Devices \ joined' : got'[e] = {}
  BY <1>1
<1>. QED BY <1>1, <1>4, <1>5, <1>6, <1>7, <1>8, <1>9

LEMMA NextKeepsInv == FeedInv /\ [Next]_vars => FeedInv'
<1>. SUFFICES ASSUME FeedInv, [Next]_vars PROVE FeedInv'
  OBVIOUS
<1>1. CASE Tick
  BY <1>1 DEF Tick, readerVars, FeedInv, TypeOK, NothingSkipped, OnlyOwnAccount
<1>2. CASE UNCHANGED vars
  BY <1>2 DEF vars, FeedInv, TypeOK, NothingSkipped, OnlyOwnAccount
<1>. QED
  BY <1>1, <1>2, JoinKeepsInv, PostKeepsInv, DeleteKeepsInv, GetKeepsInv
     DEF Next

THEOREM FeedInvariant == Spec => []FeedInv
  BY InitFeedInv, NextKeepsInv, PTL DEF Spec
-----------------------------------------------------------------------------
(* The properties *)

\* A device's cursor never passes another device's item without the item
\* having been on one of its pages, for any page and retention limits.
THEOREM FeedSkipsNothing == Spec => []NothingSkipped
  BY FeedInvariant, PTL DEF FeedInv

\* Pages carry only other devices' items of the device's own account, from
\* after it joined.
THEOREM FeedIsolatesAccounts == Spec => []OnlyOwnAccount
  BY FeedInvariant, PTL DEF FeedInv

\* No page repeats an item or goes back before one already handed out.
THEOREM FeedMovesForward == Spec => []PagesMoveForward
<1>1. FeedInv => PagesMoveForward
  BY DEF FeedInv, TypeOK, PagesMoveForward, Page, Passed, ItemsAfter, After, Item
<1>. QED BY <1>1, FeedInvariant, PTL
-----------------------------------------------------------------------------
(* Retention *)

\* Why the store keeps the newest rows, and each upload once: numbers and ids
\* name rows, and a row with a larger number came no earlier, so both limits
\* cut an account's rows off at the old end.
RetentionInv ==
  /\ \A i, j \in items : i.seq = j.seq => i = j
  /\ \A i, j \in items : i.account = j.account /\ i.id = j.id => i = j
  /\ \A i, j \in items : i.seq < j.seq => i.at <= j.at
  /\ \A i \in items : i.at <= now
  /\ \A i \in posted : i.seq <= lastSeq
  /\ KeepsTheNewest

LEMMA InitRetentionInv == Init => RetentionInv
<1>. SUFFICES ASSUME Init PROVE RetentionInv
  OBVIOUS
<1>1. items = {} /\ posted = {}
  BY DEF Init, StoreInit
<1>2. \A a \in Accounts : {i \in items : i.account = a} = {}
  BY <1>1
<1>3. KeepsTheNewest
  BY <1>1, <1>2, FS_EmptySet, StoreAssumption DEF KeepsTheNewest, StoreAssumption
<1>. QED BY <1>1, <1>3 DEF RetentionInv

\* A new row is the newest of all, whatever the clock says; so pruning applies
\* to a table in the order that PrunedIsNewestPart asks for.
LEMMA PostKeepsRetention ==
  ASSUME FeedInv, RetentionInv,
         NEW d \in Devices, NEW id \in Ids, NEW data \in Payloads,
         PostItem(d, id, data)
  PROVE  RetentionInv'
<1>. DEFINE a == AccountOf[d]
            row == [seq |-> NextSeq, account |-> a, id |-> id,
                    device |-> d, data |-> data, at |-> now]
            rows == items \cup {row}
<1>1. /\ items \subseteq Item /\ IsFiniteSet(items) /\ posted \subseteq Item
      /\ lastSeq \in Nat /\ now \in Nat /\ now' = now
      /\ \A i \in items : i.seq <= lastSeq
      /\ a \in Accounts
      /\ posted' = posted \cup {i \in items' : i.seq = lastSeq + 1}
      /\ AddItem(a, d, id, data)
  BY StoreAssumption DEF FeedInv, TypeOK, PostItem, StoreAssumption
<1>2. CASE Stored(a, id) # {}
  <2>1. UNCHANGED <<items, lastSeq>>
    BY <1>1, <1>2 DEF AddItem
  <2>2. posted' = posted
    BY <1>1, <2>1 DEF Item
  <2>. QED BY <1>1, <2>1, <2>2 DEF RetentionInv, KeepsTheNewest
<1>3. CASE Stored(a, id) = {}
  <2>1. items' = Pruned(rows, a) /\ lastSeq' = lastSeq + 1
    BY <1>1, <1>3 DEF AddItem, NextSeq
  <2>2. /\ row \in Item /\ row.seq = lastSeq + 1 /\ row.account = a
        /\ row.id = id /\ row.at = now
    BY <1>1 DEF Item, NextSeq
  <2>3. \A i \in items : ~(i.account = a /\ i.id = id)
    BY <1>3 DEF Stored
  <2>. HIDE DEF row
  <2>4. rows \subseteq Item /\ IsFiniteSet(rows)
    BY <1>1, <2>2, FS_AddElement
  <2>5. /\ \A i, j \in rows : i.seq = j.seq => i = j
        /\ \A i, j \in rows : i.account = j.account /\ i.id = j.id => i = j
        /\ \A i, j \in rows : i.seq < j.seq => i.at <= j.at
        /\ \A i \in rows : i.at <= now /\ i.seq <= lastSeq + 1
    BY <1>1, <2>2, <2>3 DEF RetentionInv, Item
  <2>6. items' \subseteq rows
    BY <2>1 DEF Pruned
  <2>7. \A j \in posted' : j \in posted \/ j \in items'
    BY <1>1
  <2>8. \A j \in posted' : j.seq <= lastSeq'
    BY <1>1, <2>1, <2>5, <2>6 DEF RetentionInv, Item
  <2>9. /\ \A i \in items', j \in rows :
             j.account = i.account /\ j.seq > i.seq => j \in items'
        /\ Cardinality({i \in items' : i.account = a}) <= MaxItems
    <3>. HIDE DEF a, rows
    <3>1. /\ \A i \in Pruned(rows, a), j \in rows :
               j.account = i.account /\ j.seq > i.seq => j \in Pruned(rows, a)
          /\ Cardinality({i \in Pruned(rows, a) : i.account = a}) <= MaxItems
      BY <1>1, <2>4, <2>5, PrunedIsNewestPart
    <3>. QED BY <2>1, <3>1
  <2>10. ASSUME NEW i \in items', NEW j \in posted',
                j.account = i.account, j.seq > i.seq
         PROVE  j \in items'
    <3>1. CASE j \in items'
      BY <3>1
    <3>2. CASE j \in posted /\ i \in items
      BY <2>9, <2>10, <3>2 DEF RetentionInv, KeepsTheNewest
    <3>3. CASE j \in posted /\ i = row
      BY <1>1, <2>2, <2>10, <3>3 DEF RetentionInv, Item
    <3>. QED BY <2>6, <2>7, <3>1, <3>2, <3>3
  <2>11. ASSUME NEW b \in Accounts
         PROVE  Cardinality({i \in items' : i.account = b}) <= MaxItems
    <3>1. CASE b = a
      BY <2>9, <3>1
    <3>2. CASE b # a
      <4>1. {i \in items' : i.account = b} = {i \in items : i.account = b}
        BY <2>1, <2>2, <3>2 DEF Pruned
      <4>. QED BY <4>1 DEF RetentionInv, KeepsTheNewest
    <3>. QED BY <3>1, <3>2
  <2>12. KeepsTheNewest'
    BY <2>10, <2>11 DEF KeepsTheNewest
  <2>. QED BY <1>1, <2>5, <2>6, <2>8, <2>12 DEF RetentionInv
<1>. QED BY <1>2, <1>3

LEMMA DeleteKeepsRetention ==
  ASSUME FeedInv, RetentionInv, NEW d \in Devices, DeleteItems(d)
  PROVE  RetentionInv'
<1>. DEFINE a == AccountOf[d]
<1>1. /\ items' = {i \in items : i.account # a}
      /\ UNCHANGED <<lastSeq, now, posted>>
  BY DEF DeleteItems, DeleteAll
<1>2. ASSUME NEW b \in Accounts
      PROVE  Cardinality({i \in items' : i.account = b}) <= MaxItems
  <2>1. CASE b = a
    <3>1. {i \in items' : i.account = b} = {}
      BY <1>1, <2>1
    <3>2. Cardinality({i \in items' : i.account = b}) = 0
      BY <3>1, FS_EmptySet, Zenon
    <3>. QED BY <3>2, StoreAssumption DEF StoreAssumption
  <2>2. CASE b # a
    <3>1. {i \in items' : i.account = b} = {i \in items : i.account = b}
      BY <1>1, <2>2
    <3>. QED BY <3>1 DEF RetentionInv, KeepsTheNewest
  <2>. QED BY <2>1, <2>2
<1>3. KeepsTheNewest'
  BY <1>1, <1>2 DEF RetentionInv, KeepsTheNewest
<1>. QED BY <1>1, <1>3 DEF RetentionInv

LEMMA NextKeepsRetention ==
  FeedInv /\ RetentionInv /\ [Next]_vars => RetentionInv'
<1>. SUFFICES ASSUME FeedInv, RetentionInv, [Next]_vars PROVE RetentionInv'
  OBVIOUS
<1>1. CASE Tick
  <2>1. UNCHANGED <<items, lastSeq, posted>> /\ now' = now + 1
    BY <1>1 DEF Tick
  <2>2. now \in Nat /\ \A i \in items : i.at \in Nat
    BY DEF FeedInv, TypeOK, Item
  <2>. QED BY <2>1, <2>2 DEF RetentionInv, KeepsTheNewest
<1>2. CASE UNCHANGED <<items, lastSeq, now, posted>>
  BY <1>2 DEF RetentionInv, KeepsTheNewest
<1>3. ASSUME NEW d \in Devices, JoinLatest(d) \/ GetItems(d)
      PROVE  RetentionInv'
  BY <1>2, <1>3 DEF JoinLatest, GetItems, storeVars
<1>. QED
  BY <1>1, <1>2, <1>3, PostKeepsRetention, DeleteKeepsRetention DEF Next, vars

\* Retention drops old items, never new ones, and keeps no account's table
\* longer than the limit, whatever the limits, the clock and the other
\* accounts.
THEOREM NewestAreKept == Spec => []KeepsTheNewest
<1>1. RetentionInv => KeepsTheNewest
  BY DEF RetentionInv
<1>. QED
  BY <1>1, FeedInvariant, InitRetentionInv, NextKeepsRetention, PTL DEF Spec

\* A retried upload is stored once and as it was: an insert only happens where
\* the table has no row of that id, and nothing else adds or changes rows.
THEOREM UploadsAreStoredOnce == Spec => StoredOnce
<1>. DEFINE Once == \A i \in items, j \in items' :
                      i.account = j.account /\ i.id = j.id => i = j
<1>1. ASSUME RetentionInv, NEW d \in Devices, NEW id \in Ids, NEW data \in Payloads,
             PostItem(d, id, data)
      PROVE  Once
  <2>. DEFINE a == AccountOf[d]
              row == [seq |-> NextSeq, account |-> a, id |-> id,
                      device |-> d, data |-> data, at |-> now]
  <2>1. \/ items' = items
        \/ Stored(a, id) = {} /\ items' = Pruned(items \cup {row}, a)
    BY <1>1 DEF PostItem, AddItem
  <2>2. row.account = a /\ row.id = id
    OBVIOUS
  <2>. HIDE DEF row
  <2>3. items' = items \/ (Stored(a, id) = {} /\ items' \subseteq items \cup {row})
    BY <2>1 DEF Pruned
  <2>. QED BY <1>1, <2>2, <2>3 DEF RetentionInv, Stored
<1>2. ASSUME RetentionInv, items' \subseteq items PROVE Once
  BY <1>2 DEF RetentionInv
<1>3. ASSUME NEW d \in Devices, JoinLatest(d) \/ DeleteItems(d) \/ GetItems(d)
      PROVE  items' \subseteq items
  BY <1>3 DEF JoinLatest, DeleteItems, DeleteAll, GetItems, storeVars
<1>4. Tick \/ UNCHANGED vars => items' \subseteq items
  BY DEF Tick, vars
<1>5. RetentionInv /\ [Next]_vars => Once
  BY <1>1, <1>2, <1>3, <1>4 DEF Next
<1>. QED
  BY <1>5, FeedInvariant, InitRetentionInv, NextKeepsRetention, PTL
     DEF Spec, StoredOnce
-----------------------------------------------------------------------------
(* Refinement *)

LEMMA JoinRefines ==
  ASSUME FeedInv, NEW d \in Devices, JoinLatest(d)
  PROVE  Feed!Join(d)
<1>1. AccountOf[d] \in Accounts
  BY StoreAssumption DEF StoreAssumption
<1>2. /\ LatestCursor(AccountOf[d]) \in Nat
      /\ LatestCursor(AccountOf[d]) <= lastSeq
      /\ \A i \in items : i.account = AccountOf[d] =>
           i.seq <= LatestCursor(AccountOf[d])
  BY <1>1, LatestIsLast DEF FeedInv, TypeOK
<1>. QED
  BY <1>2 DEF FeedInv, TypeOK, JoinLatest, storeVars, Feed!Join

LEMMA PostRefines ==
  ASSUME FeedInv, NEW d \in Devices, NEW id \in Ids, NEW data \in Payloads,
         PostItem(d, id, data)
  PROVE  Feed!Publish \/ UNCHANGED Feed!vars
<1>1. /\ lastSeq' \in Nat /\ lastSeq <= lastSeq'
      /\ \A i \in items' : i \in items \/ i.seq = lastSeq'
      /\ lastSeq' = lastSeq => items' = items
  BY AddItemRows DEF FeedInv, TypeOK, PostItem
<1>2. UNCHANGED <<cursor, joined, start, got>>
  BY DEF PostItem, readerVars
<1>3. CASE lastSeq' = lastSeq
  BY <1>1, <1>2, <1>3 DEF Feed!vars
<1>4. CASE lastSeq' > lastSeq
  BY <1>1, <1>2, <1>4 DEF Feed!Publish
<1>. QED BY <1>1, <1>3, <1>4 DEF FeedInv, TypeOK

LEMMA GetRefines ==
  ASSUME FeedInv, NEW d \in Devices, GetItems(d)
  PROVE  Feed!Deliver(d)
<1>. DEFINE m == PageCursor(d, cursor[d])
<1>1. /\ UNCHANGED <<items, lastSeq, joined, start>>
      /\ got' = [got EXCEPT ![d] = @ \cup Page(d, cursor[d])]
      /\ cursor' = [cursor EXCEPT ![d] = m]
      /\ d \in joined
      /\ Passed(d, cursor[d]) # {}
  BY DEF GetItems, storeVars, FeedInv, TypeOK
<1>2. /\ \E i \in Passed(d, cursor[d]) : i.seq = m
      /\ Passed(d, cursor[d]) =
           {i \in After(AccountOf[d], cursor[d]) : i.seq <= m}
  <2>1. cursor[d] \in Nat /\ cursor[d] <= lastSeq
    BY DEF FeedInv, TypeOK
  <2>. QED BY <1>1, <2>1, PageIsInterval DEF FeedInv, TypeOK
<1>. HIDE DEF m
<1>3. PICK r \in items : /\ r.account = AccountOf[d]
                         /\ r.seq > cursor[d] /\ r.seq = m
  BY <1>2 DEF After
<1>4. Page(d, cursor[d]) = Feed!Between(d, cursor[d], r.seq)
  BY <1>2, <1>3 DEF Page, After, Feed!Between, Item, FeedInv, TypeOK
<1>. QED BY <1>1, <1>3, <1>4 DEF Feed!Deliver

\* The whole feed, pages and limits included, implements a subscription that
\* hands out exact intervals of what was published.
THEOREM FeedRefinesSubscription == Spec => ImplementsSubscription
<1>1. Init => Feed!Init
  BY DEF Init, StoreInit, Feed!Init
<1>2. FeedInv /\ [Next]_vars => [Feed!Next]_(Feed!vars)
  <2>. SUFFICES ASSUME FeedInv, [Next]_vars
                PROVE  Feed!Next \/ UNCHANGED Feed!vars
    OBVIOUS
  <2>1. ASSUME NEW d \in Devices, DeleteItems(d) PROVE Feed!Drop
    BY <2>1 DEF DeleteItems, DeleteAll, readerVars, Feed!Drop
  <2>2. CASE Tick \/ UNCHANGED vars
    BY <2>2 DEF Tick, readerVars, vars, Feed!vars
  <2>. QED BY <2>1, <2>2, JoinRefines, PostRefines, GetRefines DEF Next, Feed!Next
<1>. QED BY <1>1, <1>2, FeedInvariant, PTL
            DEF Spec, ImplementsSubscription, Feed!Spec
=============================================================================
