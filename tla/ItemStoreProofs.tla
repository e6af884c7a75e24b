-------------------------- MODULE ItemStoreProofs ---------------------------
(***************************************************************************)
(* What the store's operations promise to everything built on them, for   *)
(* any limits: an answer is an interval, `latest` is the end, an upload    *)
(* adds at most one row and numbers it past every other.                   *)
(***************************************************************************)
EXTENDS ItemStore, FiniteSetTheorems, WellFoundedInduction, TLAPS

(* Least and greatest elements of sets of naturals *)

\* Every non-empty set of naturals has a least element.
LEMMA LeastNatural ==
  ASSUME NEW T \in SUBSET Nat, T # {}
  PROVE  \E x \in T : \A y \in T : x <= y
<1>1. IsWellFoundedOn(OpToRel(<, Nat), Nat)
  BY NatLessThanWellFounded
<1>2. PICK x \in T : \A y \in T : ~ (<<y, x>> \in OpToRel(<, Nat))
  BY <1>1, WFMin, Zenon
<1>3. OpToRel(<, Nat) = {ss \in Nat \X Nat : ss[1] < ss[2]}
  BY DEF OpToRel
<1>4. ASSUME NEW y \in T PROVE x <= y
  <2>1. <<y, x>> \notin {ss \in Nat \X Nat : ss[1] < ss[2]}
    BY <1>2, <1>3
  <2>. QED BY <2>1
<1>. QED BY <1>2, <1>4

\* Every non-empty set of naturals with an upper bound has a greatest element,
\* and Max is it.
LEMMA MaxOfBounded ==
  ASSUME NEW T \in SUBSET Nat, T # {}, NEW b \in Nat, \A x \in T : x <= b
  PROVE  Max(T) \in T /\ \A y \in T : Max(T) >= y
<1>. DEFINE D == {b - x : x \in T}
<1>1. \A x \in T : x \in Nat /\ b - x \in Nat
  OBVIOUS
<1>2. D \in SUBSET Nat /\ D # {}
  BY <1>1
<1>3. PICK e \in D : \A y \in D : e <= y
  <2>. HIDE DEF D
  <2>. QED BY <1>2, LeastNatural
<1>4. PICK x \in T : e = b - x
  OBVIOUS
<1>5. \A y \in T : x >= y
  <2>. SUFFICES ASSUME NEW y \in T PROVE x >= y
    OBVIOUS
  <2>1. b - y \in D
    OBVIOUS
  <2>2. b - x <= b - y
    BY <2>1, <1>3, <1>4
  <2>. QED BY <2>2, <1>1
<1>. QED BY <1>5 DEF Max
-----------------------------------------------------------------------------
\* The key fact about get_items: an answer that gets past any row gets past
\* exactly the account's rows up to the cursor it returns. A row before the
\* last one passed has no more rows before it, so the row limit keeps it, and
\* the break that would have stopped at it would have stopped earlier.
LEMMA PageIsInterval ==
  ASSUME NEW d \in Devices, NEW c \in Nat,
         items \subseteq Item, IsFiniteSet(items), lastSeq \in Nat,
         \A i \in items : i.seq <= lastSeq, c <= lastSeq,
         Passed(d, c) # {}
  PROVE  /\ PageCursor(d, c) \in Nat
         /\ c < PageCursor(d, c) /\ PageCursor(d, c) <= lastSeq
         /\ \E i \in Passed(d, c) : i.seq = PageCursor(d, c)
         /\ Passed(d, c) =
              {i \in After(AccountOf[d], c) : i.seq <= PageCursor(d, c)}
<1>. DEFINE a == AccountOf[d]
            rows == After(a, c)
            batch == ItemsAfter(a, c)
            foreign == {i \in batch : i.device # d}
            m == PageCursor(d, c)
            S == {c} \cup {i.seq : i \in Passed(d, c)}
<1>1. /\ Passed(d, c) \subseteq batch
      /\ batch \subseteq rows
      /\ rows \subseteq items
      /\ \A i \in rows : i.seq \in Nat /\ i.seq > c /\ i.seq <= lastSeq
  BY DEF Passed, ItemsAfter, After, Item
<1>2. IsFiniteSet(rows)
  BY <1>1, FS_Subset
<1>3. m \in S /\ \A y \in S : m >= y
  <2>1. S \in SUBSET Nat /\ S # {} /\ \A y \in S : y <= lastSeq
    BY <1>1
  <2>. QED BY <2>1, MaxOfBounded DEF PageCursor
<1>4. \E i \in Passed(d, c) : i.seq = m
  BY <1>1, <1>3
<1>5. PICK last \in Passed(d, c) : last.seq = m
  BY <1>4
<1>6. ASSUME NEW i \in rows, i.seq <= m
      PROVE  i \in Passed(d, c)
  <2>1. Earlier(rows, i) \subseteq Earlier(rows, last)
    BY <1>1, <1>5, <1>6 DEF Earlier
  <2>2. IsFiniteSet(Earlier(rows, last))
    BY <1>2, FS_Subset DEF Earlier
  <2>3. /\ Cardinality(Earlier(rows, i)) \in Nat
        /\ Cardinality(Earlier(rows, last)) \in Nat
        /\ Cardinality(Earlier(rows, i)) <= Cardinality(Earlier(rows, last))
    BY <2>1, <2>2, FS_Subset, FS_CardinalityType
  <2>4. Cardinality(Earlier(rows, last)) < MaxPageItems
    BY <1>1, <1>5 DEF ItemsAfter
  <2>5. i \in batch
    BY <2>3, <2>4, StoreAssumption DEF ItemsAfter, StoreAssumption
  <2>6. ASSUME NEW j \in foreign, j.seq <= i.seq
        PROVE  Fits(foreign, j)
    <3>1. j.seq <= last.seq
      BY <1>1, <1>5, <1>6, <2>6
    <3>. QED BY <3>1, <1>5 DEF Passed
  <2>. QED BY <2>5, <2>6 DEF Passed
<1>7. \A i \in Passed(d, c) : i.seq <= m
  BY <1>3, <1>1
<1>. QED BY <1>1, <1>3, <1>4, <1>5, <1>6, <1>7

\* The cursor of a device that joins: no row of its account is after it.
LEMMA LatestIsLast ==
  ASSUME NEW a \in Accounts, items \subseteq Item, lastSeq \in Nat,
         \A i \in items : i.seq <= lastSeq
  PROVE  /\ LatestCursor(a) \in Nat
         /\ LatestCursor(a) <= lastSeq
         /\ \A i \in items : i.account = a => i.seq <= LatestCursor(a)
<1>. DEFINE S == {0} \cup {i.seq : i \in {j \in items : j.account = a}}
<1>1. S \in SUBSET Nat /\ S # {} /\ \A y \in S : y <= lastSeq
  BY DEF Item
<1>2. Max(S) \in S /\ \A y \in S : Max(S) >= y
  BY <1>1, MaxOfBounded
<1>. QED BY <1>1, <1>2 DEF LatestCursor

\* What an upload leaves in the table: old rows and at most one new row, whose
\* number no row ever had.
LEMMA AddItemRows ==
  ASSUME NEW d \in Devices, NEW id \in Ids, NEW data \in Payloads,
         items \subseteq Item, IsFiniteSet(items), lastSeq \in Nat, now \in Nat,
         AddItem(AccountOf[d], d, id, data)
  PROVE  /\ items' \subseteq Item
         /\ IsFiniteSet(items')
         /\ lastSeq' \in Nat /\ lastSeq <= lastSeq'
         /\ \A i \in items' : i \notin items =>
              i.seq = lastSeq' /\ i.id = id /\ i.device = d
         /\ lastSeq' = lastSeq => items' = items
<1>. DEFINE row == [seq |-> NextSeq, account |-> AccountOf[d], id |-> id,
                    device |-> d, data |-> data, at |-> now]
<1>1. CASE Stored(AccountOf[d], id) # {}
  <2>1. items' = items /\ lastSeq' = lastSeq
    BY <1>1 DEF AddItem
  <2>. QED BY <2>1
<1>2. CASE Stored(AccountOf[d], id) = {}
  <2>1. items' = Pruned(items \cup {row}, AccountOf[d]) /\ lastSeq' = lastSeq + 1
    BY <1>2 DEF AddItem, NextSeq
  <2>2. items' \subseteq items \cup {row}
    BY <2>1 DEF Pruned
  <2>3. row \in Item /\ row.seq = lastSeq + 1 /\ row.id = id /\ row.device = d
    BY StoreAssumption DEF StoreAssumption, Item, NextSeq
  <2>4. IsFiniteSet(items')
    <3>1. IsFiniteSet(items \cup {row})
      BY FS_AddElement
    <3>. QED BY <2>2, <3>1, FS_Subset
  <2>. HIDE DEF row
  <2>5. \A i \in items' : i \in items \/ i = row
    BY <2>2
  <2>6. items' \subseteq Item
    BY <2>3, <2>5
  <2>7. lastSeq' \in Nat /\ lastSeq < lastSeq'
    BY <2>1
  <2>8. \A i \in items' : i \notin items =>
          i.seq = lastSeq' /\ i.id = id /\ i.device = d
    BY <2>1, <2>3, <2>5
  <2>. QED BY <2>4, <2>6, <2>7, <2>8
<1>. QED BY <1>1, <1>2

\* What the DELETE after an upload leaves of one account is the newest part of
\* it, and at most MaxItems rows: the oldest row left has fewer than MaxItems
\* after it. Rows that came later are no older, so the age limit cuts off a
\* beginning too.
LEMMA PrunedIsNewestPart ==
  ASSUME NEW rows \in SUBSET Item, IsFiniteSet(rows), NEW a, now \in Nat,
         \A i, j \in rows : i.seq = j.seq => i = j,
         \A i, j \in rows : i.seq < j.seq => i.at <= j.at
  PROVE  /\ \A i \in Pruned(rows, a), j \in rows :
              j.account = i.account /\ j.seq > i.seq => j \in Pruned(rows, a)
         /\ Cardinality({i \in Pruned(rows, a) : i.account = a}) <= MaxItems
<1>. DEFINE left == {i \in Pruned(rows, a) : i.account = a}
<1>1. /\ \A i \in rows : i.seq \in Nat /\ i.at \in Nat
      /\ MaxItems \in Nat \ {0} /\ ItemTtl \in Nat
      /\ \A i \in rows : /\ NewerThan(rows, i) \in SUBSET rows
                         /\ IsFiniteSet(NewerThan(rows, i))
                         /\ Cardinality(NewerThan(rows, i)) \in Nat
  BY FS_Subset, FS_CardinalityType, StoreAssumption DEF NewerThan, Item, StoreAssumption
<1>2. ASSUME NEW i \in Pruned(rows, a), NEW j \in rows,
             j.account = i.account, j.seq > i.seq
      PROVE  j \in Pruned(rows, a)
  <2>1. CASE i.account # a
    BY <1>2, <2>1 DEF Pruned
  <2>2. CASE i.account = a
    <3>1. i \in rows /\ i.at + ItemTtl >= now /\ Cardinality(NewerThan(rows, i)) < MaxItems
      BY <2>2 DEF Pruned
    <3>2. NewerThan(rows, j) \subseteq NewerThan(rows, i)
      BY <1>1, <1>2, <3>1 DEF NewerThan
    <3>3. Cardinality(NewerThan(rows, j)) <= Cardinality(NewerThan(rows, i))
      BY <1>1, <3>1, <3>2, FS_Subset
    <3>4. j.at + ItemTtl >= now
      BY <1>1, <1>2, <3>1
    <3>. QED BY <1>1, <3>1, <3>3, <3>4 DEF Pruned
  <2>. QED BY <2>1, <2>2
<1>3. Cardinality(left) <= MaxItems
  <2>1. CASE left = {}
    BY <2>1, <1>1, FS_EmptySet
  <2>2. CASE left # {}
    <3>. DEFINE T == {i.seq : i \in left}
    <3>1. \A i \in left : i \in rows /\ i.account = a
                          /\ Cardinality(NewerThan(rows, i)) < MaxItems
      BY DEF Pruned
    <3>2. T \in SUBSET Nat /\ T # {}
      BY <1>1, <3>1, <2>2
    <3>3. PICK x \in T : \A y \in T : x <= y
      <4>. HIDE DEF T
      <4>. QED BY <3>2, LeastNatural
    <3>4. PICK first \in left : first.seq = x
      BY <3>3
    <3>. DEFINE newer == NewerThan(rows, first)
    <3>5. left \subseteq newer \cup {first}
      <4>. SUFFICES ASSUME NEW i \in left, i # first PROVE i \in newer
        OBVIOUS
      <4>1. i \in rows /\ first \in rows /\ i.account = first.account
        BY <3>1
      <4>2. first.seq <= i.seq /\ i.seq # first.seq
        BY <3>3, <3>4, <4>1
      <4>. QED BY <1>1, <4>1, <4>2 DEF NewerThan
    <3>6. /\ IsFiniteSet(newer) /\ Cardinality(newer) \in Nat
          /\ Cardinality(newer) < MaxItems
      BY <1>1, <3>1
    <3>. HIDE DEF newer, left
    <3>7. IsFiniteSet(newer \cup {first}) /\ Cardinality(newer \cup {first}) <= MaxItems
      <4>1. /\ IsFiniteSet(newer \cup {first})
            /\ Cardinality(newer \cup {first}) = Cardinality(newer)
               \/ Cardinality(newer \cup {first}) = Cardinality(newer) + 1
        BY <3>6, FS_AddElement
      <4>. QED BY <1>1, <3>6, <4>1
    <3>8. Cardinality(left) <= Cardinality(newer \cup {first})
          /\ Cardinality(left) \in Nat /\ Cardinality(newer \cup {first}) \in Nat
      BY <3>5, <3>7, FS_Subset, FS_CardinalityType
    <3>. QED BY <1>1, <3>7, <3>8
  <2>. QED BY <2>1, <2>2
<1>. QED BY <1>2, <1>3
=============================================================================
