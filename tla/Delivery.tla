------------------------------ MODULE Delivery -------------------------------
(***************************************************************************)
(* Delivery confirmations (crates/pastazzo-sync/src/delivery.rs): a device *)
(* that keeps another device's item queues a sealed receipt for it, and    *)
(* every device reads the account's receipts from a feed of their own into *)
(* its ledger, which says who has what.                                    *)
(*                                                                         *)
(* ledger.json is read, changed and written as a whole. The daemon's       *)
(* threads do so under one lock; `pastazzo-sync clear` removes the files   *)
(* from another process, under none. Which items there are, and in what    *)
(* order, is a given: module Sync has how they get to the server.          *)
(***************************************************************************)
EXTENDS Naturals, Sequences, FiniteSetsExt, SequencesExt

CONSTANTS
  Devices,      \* device ids
  Ids,          \* ids of items
  Clears,       \* the ones of "clear history" items
  Author,       \* the device that makes an item
  Created,      \* created_at of an item
  MaxLedger,    \* 2500: entries the ledger keeps
  ReceiptPage,  \* 100: receipts in one answer
  MaxReceipts,  \* 10000: receipts kept per account
  MaxSerial,    \* bound: receipts drawn for one item on one device
  MaxRestarts,  \* bound: restarts of daemons
  MaxFaults     \* bound: calls that fail, answers that are lost

ASSUME DeliveryAssumption ==
  /\ IsFiniteSet(Ids) /\ Clears \subseteq Ids
  /\ Author \in [Ids -> Devices]
  /\ Created \in [Ids -> Nat]
  /\ \A i, j \in Ids : Created[i] = Created[j] => i = j
  /\ MaxLedger \in Nat \ {0} /\ ReceiptPage \in Nat \ {0}
  /\ MaxReceipts \in Nat \ {0} /\ MaxSerial \in Nat
  /\ MaxRestarts \in Nat /\ MaxFaults \in Nat

VARIABLES
  feed,         \* server: the items, in their order
  gone,         \* server: how many of them "delete everything" took away
  receipts,     \* server: the rows of the receipts table
  lastSeq,      \* server: the highest seq that table gave out
  ledger,       \* disk: ledger.json
  queue,        \* disk: the receipts in outbox/, one file per item
  saved,        \* disk: the item cursor in sync.json
  at,           \* memory: the item cursor
  step,         \* memory: what the receiving thread is at
  snap,         \* memory: the ledger as it was read
  answer,       \* memory: the page of receipts being read
  drafted,      \* items sealed for upload
  cli,          \* how far `pastazzo-sync clear --everywhere` is
  kept,         \* history: items of other devices ever saved on a device
  drawn,        \* history: receipts ever sealed
  posted,       \* history: receipts ever stored by the server
  cancelled,    \* history: receipts a clear removed from an outbox
  wiped,        \* history: devices whose ledger was ever cleared
  restarts,
  faults

serverVars == <<feed, gone, receipts, lastSeq, posted>>
diskVars == <<ledger, queue, saved>>
memoryVars == <<at, step, snap, answer>>
userVars == <<drafted, cli>>
pastVars == <<kept, drawn, cancelled, wiped>>
budget == <<restarts, faults>>
vars == <<serverVars, diskVars, memoryVars, userVars, pastVars, budget>>

\* A receipt gets a random id when it is sealed: here a serial number.
Receipt == [from: Devices, item: Ids, serial: Nat]
Row == [seq: Nat \ {0}, receipt: Receipt]
Ledger ==
  [tracked: SUBSET Ids, confirmed: SUBSET (Ids \X Devices), cursor: Nat]

Steps == {"ask", "kept", "tracked", "queued", "emptied", "done", "moved",
          "sync", "asked", "posting"}

TypeOK ==
  /\ feed \in Seq(Ids) /\ gone \in 0..Len(feed)
  /\ receipts \subseteq Row /\ lastSeq \in Nat
  /\ ledger \in [Devices -> Ledger] /\ snap \in [Devices -> Ledger]
  /\ queue \in [Devices -> SUBSET Receipt]
  /\ saved \in [Devices -> Nat] /\ at \in [Devices -> Nat]
  /\ step \in [Devices -> Steps]
  /\ answer \in [Devices -> SUBSET Row]
  /\ drafted \subseteq Ids
  /\ cli \in [Devices -> {"idle", "wiped", "deleted"}]
  /\ kept \in [Devices -> SUBSET Ids]
  /\ drawn \subseteq Receipt /\ IsFiniteSet(drawn)
  /\ posted \subseteq Receipt /\ cancelled \subseteq Receipt
  /\ wiped \subseteq Devices
  /\ restarts \in Nat /\ faults \in Nat

NoLedger == [tracked |-> {}, confirmed |-> {}, cursor |-> 0]

Init ==
  /\ feed = <<>> /\ gone = 0 /\ receipts = {} /\ lastSeq = 0
  /\ ledger = [d \in Devices |-> NoLedger]
  /\ queue = [d \in Devices |-> {}]
  /\ saved = [d \in Devices |-> 0] /\ at = [d \in Devices |-> 0]
  /\ step = [d \in Devices |-> "ask"]
  /\ snap = [d \in Devices |-> NoLedger]
  /\ answer = [d \in Devices |-> {}]
  /\ drafted = {} /\ cli = [d \in Devices |-> "idle"]
  /\ kept = [d \in Devices |-> {}]
  /\ drawn = {} /\ posted = {} /\ cancelled = {} /\ wiped = {}
  /\ restarts = 0 /\ faults = 0

OneFault == faults < MaxFaults /\ faults' = faults + 1

Goes(d, to) == step' = [step EXCEPT ![d] = to]
-----------------------------------------------------------------------------
(* The ledger *)

\* `excess`: only the newest MaxLedger entries stay.
Newest(ids) ==
  {i \in ids : Cardinality({j \in ids : Created[j] > Created[i]}) < MaxLedger}

Track(l, id) ==
  IF id \in Clears \cup l.tracked
  THEN l
  ELSE LET rest == Newest(l.tracked \cup {id})
       IN [tracked |-> rest,
           confirmed |-> {c \in l.confirmed : c[1] \in rest},
           cursor |-> l.cursor]

Confirm(l, pairs, cursor) ==
  [tracked |-> l.tracked, confirmed |-> l.confirmed \cup pairs, cursor |-> cursor]

\* accept_receipt: the item is in the ledger, and the receiver is not the one
\* who made it.
Accepts(l, r) == r.item \in l.tracked /\ r.from # Author[r.item]

Confirmations(l, rows) ==
  {<<row.receipt.item, row.receipt.from>> :
     row \in {x \in rows : Accepts(l, x.receipt)}}
-----------------------------------------------------------------------------
(* The sending thread, the command line and the server *)

\* The daemon's lock on the ledger is not the receiving thread's.
LockFree(d) == step[d] \notin {"tracked", "queued", "emptied", "asked", "posting"}

\* send and flush_outbox: an item is in the ledger before it is uploaded. A
\* clear is not tracked; it is sent once the server's items are deleted.
TrackOwn(d, id) ==
  /\ Author[id] = d /\ id \notin Range(feed)
  /\ id \in Clears => cli[d] = "deleted"
  /\ LockFree(d)
  /\ ledger' = [ledger EXCEPT ![d] = Track(@, id)]
  /\ drafted' = drafted \cup {id}
  /\ UNCHANGED <<serverVars, queue, saved, memoryVars, cli, pastVars, budget>>

PostItem(id) ==
  /\ id \in drafted /\ id \notin Range(feed)
  /\ feed' = Append(feed, id)
  /\ UNCHANGED <<gone, receipts, lastSeq, posted, diskVars, memoryVars, userVars,
                 pastVars, budget>>

\* The whole directory goes, the cursor in the ledger with it.
CliWipes(d) ==
  /\ cli[d] = "idle"
  /\ \E x \in Clears : Author[x] = d
  /\ cli' = [cli EXCEPT ![d] = "wiped"]
  /\ ledger' = [ledger EXCEPT ![d] = NoLedger]
  /\ queue' = [queue EXCEPT ![d] = {}]
  /\ cancelled' = cancelled \cup queue[d]
  /\ wiped' = wiped \cup {d}
  /\ UNCHANGED <<serverVars, saved, memoryVars, drafted, kept, drawn, budget>>

\* DELETE /v1/items takes the receipts, then the items.
CliDeletes(d) ==
  /\ cli[d] = "wiped"
  /\ cli' = [cli EXCEPT ![d] = "deleted"]
  /\ gone' = Len(feed)
  /\ receipts' = {}
  /\ UNCHANGED <<feed, lastSeq, posted, diskVars, memoryVars, drafted, pastVars, budget>>
-----------------------------------------------------------------------------
(* The receiving thread: an item *)

Current(d) == feed[at[d] + 1]

AtItem(d) == step[d] = "ask" /\ at[d] < Len(feed)

Offered(d) == at[d] >= gone /\ Author[Current(d)] # d

\* Rows that are gone and the device's own ones only move the cursor.
Skip(d) ==
  /\ AtItem(d) /\ ~ Offered(d)
  /\ at' = [at EXCEPT ![d] = @ + 1]
  /\ Goes(d, "moved")
  /\ UNCHANGED <<serverVars, diskVars, snap, answer, userVars, pastVars, budget>>

\* Mutant: the receipt is made out before the copy is saved.
NotKeptYet(d) ==
  /\ AtItem(d) /\ Offered(d) /\ Current(d) \notin Clears
  /\ Goes(d, "kept")
  /\ UNCHANGED <<serverVars, diskVars, at, snap, answer, userVars, pastVars, budget>>

\* apply or remember, and link_sync.
Keep(d) ==
  /\ AtItem(d) /\ Offered(d) /\ Current(d) \notin Clears
  /\ kept' = [kept EXCEPT ![d] = @ \cup {Current(d)}]
  /\ Goes(d, "kept")
  /\ UNCHANGED <<serverVars, diskVars, at, snap, answer, userVars, drawn, cancelled,
                 wiped, budget>>

\* received: the item is tracked, and the ledger is read again.
TrackReceived(d) ==
  /\ step[d] = "kept"
  /\ ledger' = [ledger EXCEPT ![d] = Track(@, Current(d))]
  /\ snap' = [snap EXCEPT ![d] = ledger'[d]]
  /\ Goes(d, "tracked")
  /\ UNCHANGED <<serverVars, queue, saved, at, answer, userVars, pastVars, budget>>

Queued(d, id) == {r \in queue[d] : r.item = id}

Sealed(d, id) ==
  [from |-> d, item |-> id,
   serial |-> 1 + Cardinality({r \in drawn : r.from = d /\ r.item = id})]

\* Mutant: a new receipt every time.
DrawAgain(d) ==
  /\ drawn' = drawn \cup {Sealed(d, Current(d))}
  /\ queue' = [queue EXCEPT ![d] =
                 (@ \ Queued(d, Current(d))) \cup {Sealed(d, Current(d))}]

\* The file of an earlier attempt is used again.
Draw(d) ==
  IF Queued(d, Current(d)) # {}
  THEN UNCHANGED <<drawn, queue>>
  ELSE /\ Cardinality({r \in drawn : r.from = d /\ r.item = Current(d)}) < MaxSerial
       /\ drawn' = drawn \cup {Sealed(d, Current(d))}
       /\ queue' = [queue EXCEPT ![d] = @ \cup {Sealed(d, Current(d))}]

QueueReceipt(d) ==
  /\ step[d] = "tracked"
  /\ Current(d) \in snap[d].tracked
  /\ <<Current(d), d>> \notin snap[d].confirmed
  /\ Draw(d)
  /\ Goes(d, "queued")
  /\ UNCHANGED <<serverVars, ledger, saved, at, snap, answer, userVars, kept, cancelled,
                 wiped, budget>>

AlreadyNoted(d) ==
  /\ step[d] = "tracked"
  /\ <<Current(d), d>> \in snap[d].confirmed
  /\ Goes(d, "done")
  /\ UNCHANGED <<serverVars, diskVars, at, snap, answer, userVars, pastVars, budget>>

NoteReceived(d) ==
  /\ step[d] = "queued"
  /\ ledger' = [ledger EXCEPT ![d] =
                  Confirm(snap[d], {<<Current(d), d>>}, snap[d].cursor)]
  /\ Goes(d, "done")
  /\ UNCHANGED <<serverVars, queue, saved, at, snap, answer, userVars, pastVars, budget>>

\* A clear: the outbox goes, then the ledger's entries; its cursor stays.
DropReceipts(d) ==
  /\ AtItem(d) /\ Offered(d) /\ Current(d) \in Clears
  /\ snap' = [snap EXCEPT ![d] = ledger[d]]
  /\ queue' = [queue EXCEPT ![d] = {}]
  /\ cancelled' = cancelled \cup queue[d]
  /\ wiped' = wiped \cup {d}
  /\ Goes(d, "emptied")
  /\ UNCHANGED <<serverVars, ledger, saved, at, answer, userVars, kept, drawn, budget>>

ClearLedger(d) ==
  /\ step[d] = "emptied"
  /\ ledger' = [ledger EXCEPT ![d] =
                  [tracked |-> {}, confirmed |-> {}, cursor |-> snap[d].cursor]]
  /\ Goes(d, "done")
  /\ UNCHANGED <<serverVars, queue, saved, at, snap, answer, userVars, pastVars, budget>>

MoveOn(d) ==
  /\ step[d] = "done"
  /\ at' = [at EXCEPT ![d] = @ + 1]
  /\ Goes(d, "moved")
  /\ UNCHANGED <<serverVars, diskVars, snap, answer, userVars, pastVars, budget>>

SaveCursor(d) ==
  /\ step[d] = "moved"
  /\ saved' = [saved EXCEPT ![d] = at[d]]
  /\ Goes(d, "sync")
  /\ UNCHANGED <<serverVars, ledger, queue, at, snap, answer, userVars, pastVars, budget>>

\* Any error in handle or in saving the cursor ends receive_once, before the
\* receipts. An item that its own tracking dropped is an error every time.
\* Nothing fails between first_sight and the cursor, which is why `seen` needs
\* no variable: with an item to a page, no item it holds comes again.
ItemFails(d) ==
  /\ step[d] \in {"kept", "tracked", "queued", "emptied", "moved"}
  /\ IF step[d] = "tracked" /\ Current(d) \notin snap[d].tracked
     THEN UNCHANGED faults
     ELSE OneFault
  /\ Goes(d, "ask")
  /\ UNCHANGED <<serverVars, diskVars, at, snap, answer, userVars, pastVars, restarts>>
-----------------------------------------------------------------------------
(* The receiving thread: the receipts, after every answer about items *)

Following(cursor) == {row \in receipts : row.seq > cursor}

\* Mutant: a receipt at the end of a full page is skipped.
PageShort(cursor) ==
  {row \in Following(cursor) :
     Cardinality({x \in Following(cursor) : x.seq < row.seq}) + 1 < ReceiptPage}

Page(cursor) ==
  {row \in Following(cursor) :
     Cardinality({x \in Following(cursor) : x.seq < row.seq}) < ReceiptPage}

Ask(d) ==
  /\ step[d] = "sync" \/ (step[d] = "ask" /\ at[d] = Len(feed))
  /\ snap' = [snap EXCEPT ![d] = ledger[d]]
  /\ answer' = [answer EXCEPT ![d] = Page(ledger[d].cursor)]
  /\ Goes(d, "asked")
  /\ UNCHANGED <<serverVars, diskVars, at, userVars, pastVars, budget>>

Accept(d) ==
  /\ step[d] = "asked"
  /\ ledger' = [ledger EXCEPT ![d] =
       Confirm(snap[d], Confirmations(snap[d], answer[d]),
               Max({snap[d].cursor} \cup {row.seq : row \in answer[d]}))]
  /\ Goes(d, "posting")
  /\ UNCHANGED <<serverVars, queue, saved, at, snap, answer, userVars, pastVars, budget>>

NewerThan(rows, row) == {x \in rows : x.seq > row.seq}

\* add_receipt: INSERT OR IGNORE, then the DELETE of what is over the limit.
AddReceipt(r) ==
  IF \E row \in receipts : row.receipt = r
  THEN UNCHANGED <<receipts, lastSeq>>
  ELSE LET rows == receipts \cup {[seq |-> lastSeq + 1, receipt |-> r]}
       IN /\ lastSeq' = lastSeq + 1
          /\ receipts' = {row \in rows : Cardinality(NewerThan(rows, row)) < MaxReceipts}

\* Mutant: the file goes whatever came of the request.
AfterAnyPost(d, r, heard) == queue[d] \ {r}

AfterPost(d, r, heard) == IF heard THEN queue[d] \ {r} ELSE queue[d]

\* One file is posted, and removed once the server has answered.
PostReceipt(d, r) ==
  /\ step[d] = "posting" /\ r \in queue[d]
  /\ AddReceipt(r)
  /\ posted' = posted \cup {r}
  /\ queue' = [queue EXCEPT ![d] = AfterPost(d, r, TRUE)]
  /\ UNCHANGED <<feed, gone, ledger, saved, memoryVars, userVars, pastVars, budget>>

\* The request or its answer is lost: the rest waits for the next time.
PostFails(d, r) ==
  /\ step[d] = "posting" /\ r \in queue[d]
  /\ OneFault
  /\ \/ UNCHANGED <<receipts, lastSeq, posted>>
     \/ AddReceipt(r) /\ posted' = posted \cup {r}
  /\ queue' = [queue EXCEPT ![d] = AfterPost(d, r, FALSE)]
  /\ Goes(d, "ask")
  /\ UNCHANGED <<feed, gone, ledger, saved, at, snap, answer, userVars, pastVars, restarts>>

PostsDone(d) ==
  /\ step[d] = "posting" /\ queue[d] = {}
  /\ Goes(d, "ask")
  /\ UNCHANGED <<serverVars, diskVars, at, snap, answer, userVars, pastVars, budget>>

\* The receipts cannot be had, the devices' records cannot, or the ledger
\* cannot be written.
SyncFails(d) ==
  /\ step[d] \in {"sync", "asked"}
  /\ OneFault
  /\ Goes(d, "ask")
  /\ UNCHANGED <<serverVars, diskVars, at, snap, answer, userVars, pastVars, restarts>>
-----------------------------------------------------------------------------
Restart(d) ==
  /\ restarts < MaxRestarts
  /\ restarts' = restarts + 1
  /\ at' = [at EXCEPT ![d] = saved[d]]
  /\ snap' = [snap EXCEPT ![d] = NoLedger]
  /\ answer' = [answer EXCEPT ![d] = {}]
  /\ Goes(d, "ask")
  /\ UNCHANGED <<serverVars, diskVars, userVars, pastVars, faults>>

Receives(d) ==
  \/ Skip(d) \/ Keep(d) \/ TrackReceived(d) \/ QueueReceipt(d) \/ AlreadyNoted(d)
  \/ NoteReceived(d) \/ DropReceipts(d) \/ ClearLedger(d) \/ MoveOn(d)
  \/ SaveCursor(d)

Syncs(d) ==
  \/ Ask(d) \/ Accept(d) \/ PostsDone(d)
  \/ \E r \in queue[d] : PostReceipt(d, r)

Next ==
  \/ \E d \in Devices, id \in Ids : TrackOwn(d, id)
  \/ \E id \in Ids : PostItem(id)
  \/ \E d \in Devices :
       \/ CliWipes(d) \/ CliDeletes(d)
       \/ Receives(d) \/ Syncs(d)
       \/ ItemFails(d) \/ SyncFails(d) \/ Restart(d)
       \/ \E r \in queue[d] : PostFails(d, r)

Spec == Init /\ [][Next]_vars

\* receive_forever asks for items, then for receipts, for as long as it runs.
\* Copies, clears, failures and restarts need not happen.
FairSpec ==
  /\ Spec
  /\ \A d \in Devices : /\ WF_vars(Receives(d) \/ Syncs(d))
                        /\ WF_vars(ItemFails(d) /\ UNCHANGED faults)
-----------------------------------------------------------------------------
(* Properties *)

Receipted(d, id) == \E r \in drawn : r.from = d /\ r.item = id

\* The n-th item is one this device has to confirm.
Owed(d, n) == n > gone /\ Author[feed[n]] # d /\ feed[n] \notin Clears

\* A device is only listed as having an item that it saved, on any device's
\* ledger and in any copy of it, whatever failed or was repeated: "a
\* successful server upload alone does not confirm their receipt".
ConfirmedWasKept ==
  \A d \in Devices : \A c \in ledger[d].confirmed \cup snap[d].confirmed :
    c[1] \in kept[c[2]]

\* A receipt is queued before the cursor moves past its item, and leaves the
\* queue for the server only, or because of a clear: the cursor on disk never
\* covers an item whose confirmation is lost.
ReceiptBeforeCursor ==
  \A d \in Devices : \A n \in 1..saved[d] : Owed(d, n) =>
    \E r \in drawn : /\ r.from = d /\ r.item = feed[n]
                     /\ r \in queue[d] \cup posted \cup cancelled

\* Why they hold: what the receiving thread is at is saved and receipted in
\* that order, every receipt is somewhere, and no step takes one from nowhere.
ItemInv(d) ==
  /\ saved[d] <= at[d] /\ at[d] <= Len(feed)
  /\ \A n \in 1..at[d] : Owed(d, n) => Receipted(d, feed[n])
  /\ step[d] \in {"kept", "tracked", "queued", "emptied", "done"} =>
       at[d] < Len(feed)
  /\ step[d] \in {"kept", "tracked", "queued"} => Current(d) \in kept[d]
  /\ step[d] = "emptied" => Current(d) \in Clears
  /\ step[d] = "queued" => Receipted(d, Current(d))
  /\ step[d] = "done" => Current(d) \in Clears \/ Receipted(d, Current(d))

ReceiptInv ==
  /\ \A r \in drawn : /\ r.item \in kept[r.from]
                      /\ r \in queue[r.from] \cup posted \cup cancelled
  /\ \A d \in Devices : \A r \in queue[d] : r \in drawn /\ r.from = d
  /\ posted \subseteq drawn
  /\ \A d \in Devices : \A row \in receipts \cup answer[d] :
       row.receipt \in posted /\ row.seq <= lastSeq

LedgerInv ==
  \A d \in Devices : \A c \in ledger[d].confirmed \cup snap[d].confirmed :
    c[1] \in kept[c[2]] /\ Receipted(c[2], c[1])

DeliveryInv ==
  /\ TypeOK /\ ReceiptInv /\ LedgerInv
  /\ \A d \in Devices : ItemInv(d)

\* "Receipt retries preserve their original sealed bytes": a device makes out
\* one receipt for an item, wherever the daemon stops, unless a clear takes its
\* ledger away, the ledger is full or a call fails. (A cursor that could not be
\* saved lets a receipt be posted that the ledger has not noted.)
OneReceiptEach ==
  \A r, s \in drawn :
    r.from = s.from /\ r.item = s.item
    => r = s \/ r.from \in wiped \/ Cardinality(Ids) > MaxLedger \/ faults > 0

\* A saved item is confirmed in its author's ledger in the end, unless a clear
\* comes in between.
ConfirmationArrives ==
  \A d \in Devices, id \in Ids :
    id \in kept[d] ~> \/ <<id, d>> \in ledger[Author[id]].confirmed
                      \/ wiped # {}

\* Every item the server has reaches the end of handle: "other unseen items
\* only go to the history", and do not stand in the way of the next ones.  Not
\* so when the ledger is full: see section 4 of the README.
ItemsGetHandled == \A d \in Devices : []<>(at[d] = Len(feed))
=============================================================================
