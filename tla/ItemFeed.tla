------------------------------ MODULE ItemFeed -------------------------------
(***************************************************************************)
(* The item feed as devices see it: POST, GET and DELETE /v1/items over    *)
(* ItemStore. A device keeps one number, its cursor, and trusts the server *)
(* that everything up to it has been handed out. The module asks whether   *)
(* paging, pruning, deletion and the device's own items keep that promise. *)
(***************************************************************************)
EXTENDS ItemStore

CONSTANTS
  MaxSeq,       \* bound: rows ever inserted
  MaxNow        \* bound: ticks of the clock

ASSUME BoundAssumption == MaxSeq \in Nat /\ MaxNow \in Nat

VARIABLES
  cursor,       \* what each device sends as `after`
  joined,       \* devices that have asked for the latest cursor
  start,        \* history: the cursor each device joined at
  got,          \* history: the rows on the pages each device received
  posted        \* history: every row ever inserted

readerVars == <<cursor, joined, start, got>>
vars == <<items, lastSeq, now, cursor, joined, start, got, posted>>

TypeOK ==
  /\ items \subseteq Item
  /\ lastSeq \in Nat
  /\ now \in Nat
  /\ cursor \in [Devices -> Nat]
  /\ joined \subseteq Devices
  /\ start \in [Devices -> Nat]
  /\ got \in [Devices -> SUBSET Item]
  /\ posted \subseteq Item

Init ==
  /\ StoreInit
  /\ cursor = [d \in Devices |-> 0]
  /\ joined = {}
  /\ start = [d \in Devices |-> 0]
  /\ got = [d \in Devices |-> {}]
  /\ posted = {}
-----------------------------------------------------------------------------
\* A device that logs in only wants what comes next.
JoinLatest(d) ==
  /\ d \notin joined
  /\ joined' = joined \cup {d}
  /\ cursor' = [cursor EXCEPT ![d] = LatestCursor(AccountOf[d])]
  /\ start' = [start EXCEPT ![d] = cursor'[d]]
  /\ UNCHANGED <<storeVars, got, posted>>

PostItem(d, id, data) ==
  /\ d \in joined
  /\ lastSeq < MaxSeq
  /\ AddItem(AccountOf[d], d, id, data)
  /\ posted' = posted \cup {i \in items' : i.seq = lastSeq + 1}
  /\ UNCHANGED <<now, readerVars>>

DeleteItems(d) ==
  /\ d \in joined
  /\ DeleteAll(AccountOf[d])
  /\ UNCHANGED <<now, readerVars, posted>>

\* One answer to GET /v1/items, and the device taking it.
GetItems(d) ==
  /\ d \in joined
  /\ Passed(d, cursor[d]) # {}
  /\ got' = [got EXCEPT ![d] = @ \cup Page(d, cursor[d])]
  /\ cursor' = [cursor EXCEPT ![d] = PageCursor(d, @)]
  /\ UNCHANGED <<storeVars, joined, start, posted>>

Tick ==
  /\ now < MaxNow
  /\ now' = now + 1
  /\ UNCHANGED <<items, lastSeq, readerVars, posted>>

Next ==
  \/ \E d \in Devices : JoinLatest(d)
  \/ \E d \in Devices, id \in Ids, data \in Payloads : PostItem(d, id, data)
  \/ \E d \in Devices : DeleteItems(d)
  \/ \E d \in Devices : GetItems(d)
  \/ Tick

Spec == Init /\ [][Next]_vars
-----------------------------------------------------------------------------
(* Properties *)

\* A device's cursor never passes another device's item without the item
\* having been on a page: the page's break, its row limit, the device's own
\* rows in between, pruning and "delete everything" leave no gap.
NothingSkipped ==
  \A d \in joined : \A i \in items :
    /\ i.account = AccountOf[d]
    /\ i.device # d
    /\ start[d] < i.seq
    /\ i.seq <= cursor[d]
    => i \in got[d]

\* What the next answer holds is new to the device and newer than all it has:
\* no item comes twice or after a later one.
PagesMoveForward ==
  \A d \in joined : \A i \in Page(d, cursor[d]), j \in got[d] : i.seq > j.seq

\* Pages carry other devices' items of the device's own account, and nothing
\* from before the device joined.
OnlyOwnAccount ==
  \A d \in Devices : \A i \in got[d] :
    i.account = AccountOf[d] /\ i.device # d /\ i.seq > start[d]

\* Why it holds: rows get ever larger numbers, so one inserted after an answer
\* is after every cursor; and what a device has is never after its cursor.
FeedInv ==
  /\ TypeOK
  /\ IsFiniteSet(items)
  /\ \A i \in items : i.seq <= lastSeq
  /\ \A d \in Devices \ joined : got[d] = {}
  /\ \A d \in Devices : start[d] <= cursor[d] /\ cursor[d] <= lastSeq
  /\ \A d \in Devices : \A i \in got[d] : i.seq <= cursor[d]
  /\ NothingSkipped
  /\ OnlyOwnAccount

\* Retention drops old items, never new ones: an account keeps a suffix of
\* what was posted since it was last emptied, at most MaxItems long.
KeepsTheNewest ==
  /\ \A i \in items : \A j \in posted :
       j.account = i.account /\ j.seq > i.seq => j \in items
  /\ \A a \in Accounts : Cardinality({i \in items : i.account = a}) <= MaxItems

\* A retried upload is stored once and as it was: no step puts another row, with
\* other bytes or another number, beside one of its id or in its place.
StoredOnce ==
  [][\A i \in items, j \in items' :
       i.account = j.account /\ i.id = j.id => i = j]_vars

\* The feed is a subscription: each answer is an exact interval of it.
Feed == INSTANCE Subscription WITH retained <- items, horizon <- lastSeq
ImplementsSubscription == Feed!Spec
=============================================================================
