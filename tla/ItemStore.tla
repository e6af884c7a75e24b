------------------------------ MODULE ItemStore ------------------------------
(***************************************************************************)
(* The server's item table (crates/pastazzo-server/src/store.rs) and the   *)
(* page of items get_items builds from it (app.rs). Every operation of the *)
(* store runs under one mutex around one SQLite connection, so each is one *)
(* atomic change here. This module holds no behaviour of its own: ItemFeed *)
(* and Sync compose it with the devices that call it.                      *)
(***************************************************************************)
EXTENDS Naturals, FiniteSetsExt

CONSTANTS
  Accounts,     \* account ids
  Devices,      \* device ids
  Ids,          \* item ids, random and chosen by the sender
  Payloads,     \* sealed items as opaque byte strings
  AccountOf,    \* the account a device belongs to
  SizeOf,       \* the length in bytes of a payload
  MaxItems,     \* MAX_ITEMS_PER_ACCOUNT: items kept per account
  ItemTtl,      \* ITEM_TTL_MS, in ticks of the clock
  MaxPageItems, \* MAX_PAGE_ITEMS: rows read for one page
  MaxPageBytes  \* MAX_PAGE_BYTES: a page stops growing past this

ASSUME StoreAssumption ==
  /\ AccountOf \in [Devices -> Accounts]
  /\ SizeOf \in [Payloads -> Nat]
  /\ MaxItems \in Nat \ {0}
  /\ MaxPageItems \in Nat \ {0}
  /\ ItemTtl \in Nat
  /\ MaxPageBytes \in Nat

VARIABLES
  items,        \* the rows of the items table
  lastSeq,      \* sqlite_sequence: the highest seq AUTOINCREMENT gave out
  now           \* the server's clock

storeVars == <<items, lastSeq, now>>

Item ==
  [seq: Nat \ {0}, account: Accounts, id: Ids, device: Devices,
   data: Payloads, at: Nat]

StoreInit ==
  /\ items = {}
  /\ lastSeq = 0
  /\ now = 0
-----------------------------------------------------------------------------
(* Writing *)

\* Mutant: no UNIQUE constraint.
StoredNever(account, id) == {}

\* The row UNIQUE (account, item_id) lets INSERT OR IGNORE find. Whether the
\* answer is its cursor or 409 depends on whose row it is; nothing changes.
Stored(account, id) == {i \in items : i.account = account /\ i.id = id}

\* Mutant: INTEGER PRIMARY KEY without AUTOINCREMENT.
ReusedSeq == 1 + Max({0} \cup {i.seq : i \in items})

NextSeq == lastSeq + 1

NewerThan(rows, i) == {j \in rows : j.account = i.account /\ j.seq > i.seq}

\* Mutant: one row too many is kept.
PrunedLate(rows, account) ==
  {i \in rows : i.account # account \/
     /\ i.at + ItemTtl >= now
     /\ Cardinality(NewerThan(rows, i)) <= MaxItems}

\* The DELETE after an insert: rows received before the time limit and rows
\* behind the newest MaxItems go, in this account only.
Pruned(rows, account) ==
  {i \in rows : i.account # account \/
     /\ i.at + ItemTtl >= now
     /\ Cardinality(NewerThan(rows, i)) < MaxItems}

AddItem(account, device, id, data) ==
  IF Stored(account, id) # {}
  THEN UNCHANGED <<items, lastSeq>>
  ELSE LET row == [seq |-> NextSeq, account |-> account, id |-> id,
                   device |-> device, data |-> data, at |-> now]
       IN /\ items' = Pruned(items \cup {row}, account)
          /\ lastSeq' = row.seq

DeleteAll(account) ==
  /\ items' = {i \in items : i.account # account}
  /\ UNCHANGED lastSeq
-----------------------------------------------------------------------------
(* Reading *)

\* Mutant: the cursor a next item would get.
UpcomingCursor(account) ==
  1 + Max({0} \cup {i.seq : i \in {j \in items : j.account = account}})

\* What `after=latest` answers: COALESCE(MAX(seq), 0).
LatestCursor(account) ==
  Max({0} \cup {i.seq : i \in {j \in items : j.account = account}})

\* Mutant: rows of every account.
AfterInAll(account, cursor) == {i \in items : i.seq > cursor}

After(account, cursor) == {i \in items : i.account = account /\ i.seq > cursor}

Earlier(rows, i) == {j \in rows : j.seq < i.seq}

\* items_after: the oldest MaxPageItems rows after the cursor.
ItemsAfter(account, cursor) ==
  LET rows == After(account, cursor)
  IN {i \in rows : Cardinality(Earlier(rows, i)) < MaxPageItems}

Bytes(rows) == MapThenSumSet(LAMBDA i : SizeOf[i.data], rows)

\* Mutant: a row larger than a whole page never fits.
FitsStrictly(foreign, i) ==
  Bytes(Earlier(foreign, i)) + SizeOf[i.data] <= MaxPageBytes

\* The page loop takes another device's row when it is the page's first one or
\* when the page, with it, stays within MaxPageBytes.
Fits(foreign, i) ==
  \/ Earlier(foreign, i) = {}
  \/ Bytes(Earlier(foreign, i)) + SizeOf[i.data] <= MaxPageBytes

\* The rows the page loop gets past before it breaks: the device's own ones,
\* which only move its cursor along, and the ones put on the page.
Passed(device, cursor) ==
  LET rows    == ItemsAfter(AccountOf[device], cursor)
      foreign == {i \in rows : i.device # device}
  IN {i \in rows : \A j \in foreign : j.seq <= i.seq => Fits(foreign, j)}

Page(device, cursor) == {i \in Passed(device, cursor) : i.device # device}

\* Mutant: the last row read, not the last one the loop got past.
LastRowRead(device, cursor) ==
  Max({cursor} \cup {i.seq : i \in ItemsAfter(AccountOf[device], cursor)})

PageCursor(device, cursor) ==
  Max({cursor} \cup {i.seq : i \in Passed(device, cursor)})
=============================================================================
