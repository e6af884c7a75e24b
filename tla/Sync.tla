-------------------------------- MODULE Sync ---------------------------------
(***************************************************************************)
(* One account's devices keeping their histories together: the daemon      *)
(* (crates/pastazzo-sync/src/daemon.rs) with its two threads, the one-off  *)
(* `pastazzo-sync clear --everywhere` process, the outbox, and the server. *)
(* A copy is named by the id of the item it travels in. What a daemon does *)
(* with the system clipboard, and which of its own history files it takes  *)
(* for copies, is module Clipboard; the delivery ledger is module Delivery.*)
(*                                                                         *)
(* Requests get lost, answers get lost, a request the client gave up on    *)
(* reaches the server later, and a daemon stops between any two steps.     *)
(***************************************************************************)
EXTENDS ItemStore

CONSTANTS
  Clears,       \* ids that "clear history" items use; the others are copies
  Author,       \* the device that draws an id: ids are random, 16 bytes
  NoId,         \* no item
  Attempts,     \* tries `upload` makes: 3
  MaxTroubles   \* bound: restarts, lost requests and answers, calls that fail

ASSUME SyncAssumption ==
  /\ IsFiniteSet(Ids) /\ Clears \subseteq Ids
  /\ Author \in [Ids -> Devices]
  /\ Ids \subseteq Payloads
  /\ NoId \notin Ids
  /\ Attempts \in Nat \ {0}
  /\ MaxTroubles \in Nat

VARIABLES
  wire,         \* upload requests on their way to the server
  outbox,       \* disk: sealed items waiting in outbox/
  history,      \* disk: the clipboard history
  saved,        \* disk: the cursor in sync.json
  fresh,        \* history files the daemon's next poll takes for new copies
  seen,         \* memory: Shared::seen
  cursor,       \* memory: the receive cursor
  phase,        \* memory: what send_new_copies is at
  work,         \* memory: the files or copies it still goes through
  upload,       \* memory: the upload a process is in
  step,         \* memory: what receive_once is at
  page,         \* memory: the items of the answer it still goes through
  next,         \* memory: the cursor that answer came with
  cli,          \* where `clear --everywhere` is
  made,         \* created_at of an item, 0 before it exists
  firstSeq,     \* history: the seq an id was first stored under, 0 before
  storedAt,     \* history: the seq it was last stored under, 0 before
  queued,       \* history: ids ever put in an outbox
  cancelled,    \* history: ids a clear removed from an outbox
  taken,        \* history: copies a clear took from a device's history since
                \*   they were last put there
  applied,      \* history: ids that ever took effect on a device's history
  receipted,    \* history: ids a receipt was ever queued for
  restarts,
  faults

serverVars == <<items, lastSeq, now, wire, firstSeq, storedAt>>
senderVars == <<outbox, fresh, phase, work, upload, made, queued, cancelled>>
pageVars == <<step, page, next>>
historyVars == <<history, taken>>
receiverVars == <<historyVars, saved, cursor, pageVars, applied, receipted>>
budget == <<restarts, faults>>
vars == <<serverVars, senderVars, receiverVars, seen, cli, budget>>

\* Two processes upload: the daemon and the command line.
Workers == Devices \X {"daemon", "cli"}

Idle == [id |-> NoId, try |-> 0, answered |-> FALSE]

ServerType ==
  /\ items \subseteq Item
  /\ lastSeq \in Nat /\ now \in Nat
  /\ wire \subseteq [from: Workers, id: Ids, try: 1..Attempts]
  /\ firstSeq \in [Ids -> Nat] /\ storedAt \in [Ids -> Nat]

UploadType ==
  upload \in [Workers -> [id: Ids \cup {NoId}, try: 0..Attempts, answered: BOOLEAN]]

SenderType ==
  /\ outbox \in [Devices -> SUBSET Ids]
  /\ fresh \in [Devices -> SUBSET Ids]
  /\ phase \in [Devices -> {"loop", "flushing", "sending"}]
  /\ work \in [Devices -> SUBSET Ids]
  /\ made \in [Ids -> Nat]
  /\ queued \subseteq Ids /\ cancelled \subseteq Ids

ReceiverType ==
  /\ history \in [Devices -> SUBSET Ids] /\ taken \in [Devices -> SUBSET Ids]
  /\ saved \in [Devices -> Nat]
  /\ cursor \in [Devices -> Nat]
  /\ seen \in [Devices -> SUBSET Ids]
  /\ step \in [Devices -> {"ask", "page", "kept", "emptied", "wiped", "moved"}]
  /\ page \in [Devices -> SUBSET Item]
  /\ next \in [Devices -> Nat]
  /\ applied \in [Devices -> SUBSET Ids]
  /\ receipted \in [Devices -> SUBSET Ids]

ProcessType ==
  /\ cli \in [Devices -> {"idle", "wiping", "deleting", "announcing",
                          "sending", "done", "failed"}]
  /\ restarts \in Nat /\ faults \in Nat

TypeOK ==
  ServerType /\ UploadType /\ SenderType /\ ReceiverType /\ ProcessType

\* Devices that have logged in, before anything is copied.
Init ==
  /\ StoreInit
  /\ wire = {} /\ queued = {} /\ cancelled = {}
  /\ firstSeq = [id \in Ids |-> 0] /\ storedAt = [id \in Ids |-> 0]
  /\ outbox = [d \in Devices |-> {}]
  /\ history = [d \in Devices |-> {}] /\ taken = [d \in Devices |-> {}]
  /\ saved = [d \in Devices |-> 0]
  /\ fresh = [d \in Devices |-> {}]
  /\ seen = [d \in Devices |-> {}]
  /\ cursor = [d \in Devices |-> 0]
  /\ phase = [d \in Devices |-> "loop"]
  /\ work = [d \in Devices |-> {}]
  /\ upload = [w \in Workers |-> Idle]
  /\ step = [d \in Devices |-> "ask"]
  /\ page = [d \in Devices |-> {}]
  /\ next = [d \in Devices |-> 0]
  /\ cli = [d \in Devices |-> "idle"]
  /\ made = [id \in Ids |-> 0]
  /\ applied = [d \in Devices |-> {}]
  /\ receipted = [d \in Devices |-> {}]
  /\ restarts = 0 /\ faults = 0

OneFault == restarts + faults < MaxTroubles /\ faults' = faults + 1

\* Later than everything that exists.
Stamp(id) ==
  made' = [made EXCEPT ![id] = 1 + Cardinality({i \in Ids : made[i] # 0})]

\* File names in the history and the outbox start with a timestamp.
Earliest(ids) == CHOOSE i \in ids : \A j \in ids : made[i] <= made[j]
-----------------------------------------------------------------------------
(* Uploading *)

Request(w, id, try) == [from |-> w, id |-> id, try |-> try]

StartUpload(w, id) ==
  /\ upload' = [upload EXCEPT ![w] = [id |-> id, try |-> 1, answered |-> FALSE]]
  /\ wire' = wire \cup {Request(w, id, 1)}

Waiting(w) == upload[w].id # NoId /\ ~ upload[w].answered

Awaits(w, r) == Waiting(w) /\ upload[w].id = r.id /\ upload[w].try = r.try

\* The server stores the item of a request. The client hears of it unless the
\* answer is lost or it no longer waits for that request.
ServerTakes(r, heard) ==
  /\ r \in wire
  /\ wire' = wire \ {r}
  /\ AddItem(AccountOf[r.from[1]], r.from[1], r.id, r.id)
  /\ firstSeq' = [firstSeq EXCEPT ![r.id] = IF @ = 0 THEN lastSeq' ELSE @]
  /\ storedAt' = [storedAt EXCEPT ![r.id] = IF lastSeq' # lastSeq THEN lastSeq' ELSE @]
  /\ IF heard
     THEN /\ Awaits(r.from, r)
          /\ upload' = [upload EXCEPT ![r.from] =
                         [id |-> r.id, try |-> r.try, answered |-> TRUE]]
          /\ UNCHANGED faults
     ELSE /\ IF Awaits(r.from, r) THEN OneFault ELSE UNCHANGED faults
          /\ UNCHANGED upload
  /\ UNCHANGED <<now, outbox, fresh, phase, work, made, queued, cancelled,
                 receiverVars, seen, cli, restarts>>

\* The item stays in the outbox, and a flush does not go on to the next file.
UploadFails(w) ==
  /\ upload' = [upload EXCEPT ![w] = Idle]
  /\ work' = [work EXCEPT ![w[1]] =
                IF w[2] = "daemon" /\ phase[w[1]] = "flushing" THEN {} ELSE @]
  /\ cli' = [cli EXCEPT ![w[1]] = IF w[2] = "cli" THEN "failed" ELSE @]

\* An attempt fails or times out. The last one ends the upload.
GivesUp(w) ==
  /\ Waiting(w)
  /\ IF Request(w, upload[w].id, upload[w].try) \in wire
     THEN OneFault ELSE UNCHANGED faults
  /\ \/ /\ upload[w].try < Attempts
        /\ upload' = [upload EXCEPT ![w] = [id |-> @.id, try |-> @.try + 1,
                                           answered |-> FALSE]]
        /\ wire' = wire \cup {Request(w, upload[w].id, upload[w].try + 1)}
        /\ UNCHANGED <<work, cli>>
     \/ /\ upload[w].try = Attempts
        /\ UploadFails(w)
        /\ UNCHANGED wire
  /\ UNCHANGED <<storeVars, firstSeq, storedAt, outbox, fresh, phase, made, queued,
                 cancelled, receiverVars, seen, restarts>>

\* Mutant: the file goes once the request is out.
SentOut(w) == upload[w].id # NoId

Answered(w) == upload[w].answered

\* `uploaded` in the ledger, then remove_sent.
RemoveSent(w) ==
  /\ Answered(w)
  /\ outbox' = [outbox EXCEPT ![w[1]] = @ \ {upload[w].id}]
  /\ upload' = [upload EXCEPT ![w] = Idle]
  /\ cli' = [cli EXCEPT ![w[1]] = IF w[2] = "cli" THEN "done" ELSE @]
  /\ UNCHANGED <<serverVars, fresh, phase, work, made, queued, cancelled,
                 receiverVars, seen, budget>>

\* One of the two fails: the item is uploaded again by a later flush.
RemoveFails(w) ==
  /\ Answered(w)
  /\ OneFault
  /\ UploadFails(w)
  /\ UNCHANGED <<serverVars, outbox, fresh, phase, made, queued, cancelled,
                 receiverVars, seen, restarts>>
-----------------------------------------------------------------------------
(* The sending thread: run, send_new_copies, send, flush_outbox *)

PutInHistory(d, id) ==
  /\ history' = [history EXCEPT ![d] = @ \cup {id}]
  /\ taken' = [taken EXCEPT ![d] = @ \ {id}]

\* The user copies something: the desktop writes it to the history.
Copy(d, id) ==
  /\ id \notin Clears /\ Author[id] = d /\ made[id] = 0
  /\ Stamp(id)
  /\ PutInHistory(d, id)
  /\ fresh' = [fresh EXCEPT ![d] = @ \cup {id}]
  /\ applied' = [applied EXCEPT ![d] = @ \cup {id}]
  /\ UNCHANGED <<serverVars, outbox, phase, work, upload, queued, cancelled, saved,
                 cursor, pageVars, receipted, seen, cli, budget>>

Free(d, p) == phase[d] = p /\ upload[<<d, "daemon">>] = Idle

\* Every 30 s the outbox is listed, before the poll.
Flush(d) ==
  /\ Free(d, "loop") /\ outbox[d] # {}
  /\ phase' = [phase EXCEPT ![d] = "flushing"]
  /\ work' = [work EXCEPT ![d] = outbox[d]]
  /\ UNCHANGED <<serverVars, outbox, fresh, upload, made, queued, cancelled,
                 receiverVars, seen, cli, budget>>

\* Each listed file is read again: one that is gone is skipped.
FlushNext(d) ==
  /\ Free(d, "flushing") /\ work[d] # {}
  /\ LET id == Earliest(work[d])
     IN /\ work' = [work EXCEPT ![d] = @ \ {id}]
        /\ IF id \in outbox[d]
           THEN StartUpload(<<d, "daemon">>, id)
           ELSE UNCHANGED <<upload, wire>>
  /\ UNCHANGED <<storeVars, firstSeq, storedAt, outbox, fresh, phase, made, queued,
                 cancelled, receiverVars, seen, cli, budget>>

Poll(d) ==
  /\ \/ Free(d, "loop") /\ fresh[d] # {}
     \/ Free(d, "flushing") /\ work[d] = {}
  /\ phase' = [phase EXCEPT ![d] = "sending"]
  /\ work' = [work EXCEPT ![d] = fresh[d]]
  /\ fresh' = [fresh EXCEPT ![d] = {}]
  /\ UNCHANGED <<serverVars, outbox, upload, made, queued, cancelled,
                 receiverVars, seen, cli, budget>>

Enqueue(d, id) ==
  /\ outbox' = [outbox EXCEPT ![d] = @ \cup {id}]
  /\ queued' = queued \cup {id}

\* send: the sealed item is on disk before the first request.
SendNext(d) ==
  /\ Free(d, "sending") /\ work[d] # {}
  /\ LET id == Earliest(work[d])
     IN /\ work' = [work EXCEPT ![d] = @ \ {id}]
        /\ seen' = [seen EXCEPT ![d] = @ \cup {id}]
        /\ Enqueue(d, id)
        /\ StartUpload(<<d, "daemon">>, id)
  /\ UNCHANGED <<storeVars, firstSeq, storedAt, fresh, phase, made, cancelled,
                 receiverVars, cli, budget>>

\* queue_item fails, or the ledger does once the item is queued: send_new_copies
\* logs it and goes on to the next copy.
SendFails(d) ==
  /\ Free(d, "sending") /\ work[d] # {}
  /\ OneFault
  /\ LET id == Earliest(work[d])
     IN /\ work' = [work EXCEPT ![d] = @ \ {id}]
        /\ seen' = [seen EXCEPT ![d] = @ \cup {id}]
        /\ Enqueue(d, id) \/ UNCHANGED <<outbox, queued>>
  /\ UNCHANGED <<serverVars, fresh, phase, upload, made, cancelled,
                 receiverVars, cli, restarts>>

SendsDone(d) ==
  /\ Free(d, "sending") /\ work[d] = {}
  /\ phase' = [phase EXCEPT ![d] = "loop"]
  /\ UNCHANGED <<serverVars, outbox, fresh, work, upload, made, queued, cancelled,
                 receiverVars, seen, cli, budget>>
-----------------------------------------------------------------------------
(* The receiving thread: receive_once, handle *)

Fetch(d) ==
  /\ step[d] = "ask"
  /\ Passed(d, cursor[d]) # {}
  /\ step' = [step EXCEPT ![d] = "page"]
  /\ page' = [page EXCEPT ![d] = Page(d, cursor[d])]
  /\ next' = [next EXCEPT ![d] = PageCursor(d, cursor[d])]
  /\ UNCHANGED <<serverVars, senderVars, historyVars, saved, cursor, applied,
                 receipted, seen, cli, budget>>

\* Mutant: newest first.
Latest(d) == CHOOSE i \in page[d] : \A j \in page[d] : i.seq >= j.seq

\* The page's items are handled oldest first.
First(d) == CHOOSE i \in page[d] : \A j \in page[d] : i.seq <= j.seq

AtItem(d) == step[d] = "page" /\ page[d] # {}

Handled(d) ==
  /\ step' = [step EXCEPT ![d] = "page"]
  /\ page' = [page EXCEPT ![d] = @ \ {First(d)}]
  /\ UNCHANGED next

Skip(d) ==
  /\ AtItem(d) /\ First(d).id \in seen[d]
  /\ Handled(d)
  /\ UNCHANGED <<serverVars, senderVars, historyVars, saved, cursor, applied,
                 receipted, seen, cli, budget>>

\* Mutant: first_sight before the copy is confirmed.
SaveAndNote(d) ==
  /\ AtItem(d) /\ First(d).id \notin seen[d] \cup Clears
  /\ PutInHistory(d, First(d).id)
  /\ applied' = [applied EXCEPT ![d] = @ \cup {First(d).id}]
  /\ seen' = [seen EXCEPT ![d] = @ \cup {First(d).id}]
  /\ step' = [step EXCEPT ![d] = "kept"]
  /\ UNCHANGED <<page, next, serverVars, senderVars, saved, cursor, receipted, cli,
                 budget>>

\* apply or remember, then link_sync: either way the copy is in the history.
Save(d) ==
  /\ AtItem(d) /\ First(d).id \notin seen[d] \cup Clears
  /\ PutInHistory(d, First(d).id)
  /\ applied' = [applied EXCEPT ![d] = @ \cup {First(d).id}]
  /\ step' = [step EXCEPT ![d] = "kept"]
  /\ UNCHANGED <<page, next, serverVars, senderVars, saved, cursor, receipted, seen, cli,
                 budget>>

\* delivery.received, then first_sight.
Acknowledge(d) ==
  /\ step[d] = "kept"
  /\ receipted' = [receipted EXCEPT ![d] = @ \cup {First(d).id}]
  /\ seen' = [seen EXCEPT ![d] = @ \cup {First(d).id}]
  /\ Handled(d)
  /\ UNCHANGED <<serverVars, senderVars, historyVars, saved, cursor, applied, cli,
                 budget>>

\* Mutant: first_sight as soon as a clear is looked at.
NoteAndCancel(d) ==
  /\ AtItem(d) /\ First(d).id \in Clears \ seen[d]
  /\ outbox' = [outbox EXCEPT ![d] = {}]
  /\ cancelled' = cancelled \cup outbox[d]
  /\ seen' = [seen EXCEPT ![d] = @ \cup {First(d).id}]
  /\ step' = [step EXCEPT ![d] = "emptied"]
  /\ UNCHANGED <<page, next, serverVars, fresh, phase, work, upload, made, queued,
                 historyVars, saved, cursor, applied, receipted, cli, budget>>

\* A clear: remove_outbox comes first.
CancelQueued(d) ==
  /\ AtItem(d) /\ First(d).id \in Clears \ seen[d]
  /\ outbox' = [outbox EXCEPT ![d] = {}]
  /\ cancelled' = cancelled \cup outbox[d]
  /\ step' = [step EXCEPT ![d] = "emptied"]
  /\ UNCHANGED <<page, next, serverVars, fresh, phase, work, upload, made, queued,
                 historyVars, saved, cursor, applied, receipted, seen, cli, budget>>

\* Of another device's copies a clear takes those stored before it.
Takes(d, r, id) == Author[id] = d \/ firstSeq[id] <= r.seq

\* Then clear_history empties the history.
Wipe(d) ==
  /\ step[d] = "emptied"
  /\ history' = [history EXCEPT ![d] = {}]
  /\ taken' = [taken EXCEPT ![d] =
                @ \cup {id \in history[d] : Takes(d, First(d), id)}]
  /\ fresh' = [fresh EXCEPT ![d] = {}]
  /\ applied' = [applied EXCEPT ![d] = @ \cup {First(d).id}]
  /\ step' = [step EXCEPT ![d] = "wiped"]
  /\ UNCHANGED <<page, next, serverVars, outbox, phase, work, upload, made, queued,
                 cancelled, saved, cursor, receipted, seen, cli, budget>>

\* Then the ledger is cleared, then first_sight. What is copied before that is
\* wiped too when one of them fails and the clear is carried out again.
NoteClear(d) ==
  /\ step[d] = "wiped"
  /\ seen' = [seen EXCEPT ![d] = @ \cup {First(d).id}]
  /\ Handled(d)
  /\ UNCHANGED <<serverVars, senderVars, historyVars, saved, cursor, applied,
                 receipted, cli, budget>>

\* Mutant: the cursor moves before the page is handled.
MoveCursorEarly(d) ==
  /\ step[d] = "page"
  /\ cursor' = [cursor EXCEPT ![d] = next[d]]
  /\ step' = [step EXCEPT ![d] = "moved"]
  /\ UNCHANGED <<page, next, serverVars, senderVars, historyVars, saved, applied, receipted,
                 seen, cli, budget>>

MoveCursor(d) ==
  /\ step[d] = "page" /\ page[d] = {}
  /\ cursor' = [cursor EXCEPT ![d] = next[d]]
  /\ step' = [step EXCEPT ![d] = "moved"]
  /\ UNCHANGED <<page, next, serverVars, senderVars, historyVars, saved, applied, receipted,
                 seen, cli, budget>>

NextPoll(d) ==
  /\ step' = [step EXCEPT ![d] = "ask"]
  /\ page' = [page EXCEPT ![d] = {}]
  /\ next' = [next EXCEPT ![d] = 0]

SaveCursor(d) ==
  /\ step[d] = "moved"
  /\ saved' = [saved EXCEPT ![d] = next[d]]
  /\ NextPoll(d)
  /\ UNCHANGED <<serverVars, senderVars, historyVars, cursor, applied, receipted,
                 seen, cli, budget>>

\* Any error ends the page where it is: the next poll asks again.
PageFails(d) ==
  /\ step[d] = "moved" \/ page[d] # {}
  /\ OneFault
  /\ NextPoll(d)
  /\ UNCHANGED <<serverVars, senderVars, historyVars, saved, cursor, applied,
                 receipted, seen, cli, restarts>>
-----------------------------------------------------------------------------
(* `pastazzo-sync clear --everywhere`, a process of its own *)

CliCancels(d) ==
  /\ cli[d] = "idle"
  /\ \E x \in Clears : Author[x] = d /\ made[x] = 0
  /\ outbox' = [outbox EXCEPT ![d] = {}]
  /\ cancelled' = cancelled \cup outbox[d]
  /\ cli' = [cli EXCEPT ![d] = "wiping"]
  /\ UNCHANGED <<serverVars, fresh, phase, work, upload, made, queued, receiverVars,
                 seen, budget>>

CliWipes(d) ==
  /\ cli[d] = "wiping"
  /\ history' = [history EXCEPT ![d] = {}]
  /\ taken' = [taken EXCEPT ![d] = @ \cup history[d]]
  /\ fresh' = [fresh EXCEPT ![d] = {}]
  /\ cli' = [cli EXCEPT ![d] = "deleting"]
  /\ UNCHANGED <<serverVars, outbox, phase, work, upload, made, queued, cancelled,
                 saved, cursor, pageVars, applied, receipted, seen, budget>>

CliDeletes(d) ==
  /\ cli[d] = "deleting"
  /\ DeleteAll(AccountOf[d])
  /\ cli' = [cli EXCEPT ![d] = "announcing"]
  /\ UNCHANGED <<now, wire, firstSeq, storedAt, senderVars, receiverVars, seen, budget>>

\* The clear itself is an item, queued and uploaded like a copy.
CliSends(d, x) ==
  /\ cli[d] = "announcing"
  /\ x \in Clears /\ Author[x] = d /\ made[x] = 0
  /\ Stamp(x)
  /\ Enqueue(d, x)
  /\ StartUpload(<<d, "cli">>, x)
  /\ cli' = [cli EXCEPT ![d] = "sending"]
  /\ UNCHANGED <<storeVars, firstSeq, storedAt, fresh, phase, work, cancelled,
                 receiverVars, seen, budget>>

CliFails(d) ==
  /\ cli[d] \in {"wiping", "deleting", "announcing"}
  /\ OneFault
  /\ cli' = [cli EXCEPT ![d] = "failed"]
  /\ UNCHANGED <<serverVars, senderVars, receiverVars, seen, restarts>>
-----------------------------------------------------------------------------
\* The daemon stops and starts again: only the disk is left. What was copied
\* and not yet polled is taken for old.
Restart(d) ==
  /\ restarts + faults < MaxTroubles
  /\ restarts' = restarts + 1
  /\ fresh' = [fresh EXCEPT ![d] = {}]
  /\ seen' = [seen EXCEPT ![d] = {}]
  /\ cursor' = [cursor EXCEPT ![d] = saved[d]]
  /\ phase' = [phase EXCEPT ![d] = "loop"]
  /\ work' = [work EXCEPT ![d] = {}]
  /\ upload' = [upload EXCEPT ![<<d, "daemon">>] = Idle]
  /\ NextPoll(d)
  /\ UNCHANGED <<serverVars, outbox, made, queued, cancelled, historyVars, saved,
                 applied, receipted, cli, faults>>

Next ==
  \/ \E r \in wire, heard \in BOOLEAN : ServerTakes(r, heard)
  \/ \E w \in Workers : GivesUp(w) \/ RemoveSent(w) \/ RemoveFails(w)
  \/ \E d \in Devices, id \in Ids : Copy(d, id) \/ CliSends(d, id)
  \/ \E d \in Devices :
       \/ Flush(d) \/ FlushNext(d) \/ Poll(d)
       \/ SendNext(d) \/ SendFails(d) \/ SendsDone(d)
       \/ Fetch(d) \/ Skip(d) \/ Save(d) \/ Acknowledge(d)
       \/ CancelQueued(d) \/ Wipe(d) \/ NoteClear(d)
       \/ MoveCursor(d) \/ SaveCursor(d) \/ PageFails(d)
       \/ CliCancels(d) \/ CliWipes(d) \/ CliDeletes(d) \/ CliFails(d)
       \/ Restart(d)

Spec == Init /\ [][Next]_vars

\* A daemon's threads never stop by themselves, and every pause in them ends.
\* Requests and calls fail only MaxTroubles times, so a request that is waited
\* for is answered in the end.
Fairness ==
  /\ \A w \in Workers :
       /\ WF_vars(\E r \in wire : r.from = w /\ ServerTakes(r, TRUE))
       /\ WF_vars(GivesUp(w) /\ UNCHANGED faults)
       /\ WF_vars(RemoveSent(w))
  /\ \A d \in Devices :
       /\ WF_vars(Flush(d)) /\ WF_vars(FlushNext(d)) /\ WF_vars(Poll(d))
       /\ WF_vars(SendNext(d)) /\ WF_vars(SendsDone(d))
       /\ WF_vars(Fetch(d)) /\ WF_vars(Skip(d)) /\ WF_vars(Save(d))
       /\ WF_vars(Acknowledge(d)) /\ WF_vars(CancelQueued(d))
       /\ WF_vars(Wipe(d)) /\ WF_vars(NoteClear(d))
       /\ WF_vars(MoveCursor(d)) /\ WF_vars(SaveCursor(d))

FairSpec == Spec /\ Fairness
-----------------------------------------------------------------------------
(* Properties *)

Foreign(d) == {i \in items : i.account = AccountOf[d] /\ i.device # d}

\* The item took effect on this device: a copy is saved and its receipt is
\* queued, a clear has emptied the history.
Done(d, id) ==
  /\ id \in applied[d]
  /\ id \notin Clears => id \in receipted[d]

\* The cursor on disk never passes another device's item before the item is
\* in the history (or has cleared it) and its receipt is queued, whatever is
\* interrupted: receive_once handles the page, then saves the cursor.
DurableBeforeCursor ==
  \A d \in Devices : \A i \in Foreign(d) : i.seq <= saved[d] => Done(d, i.id)

\* A device only handles its own work: what it queues, retries and uploads it
\* sealed itself, so the server's rows name the right sender.
OwnWork ==
  /\ \A d \in Devices : \A id \in fresh[d] \cup outbox[d] \cup work[d] :
       Author[id] = d
  /\ \A w \in Workers : upload[w].id # NoId => Author[upload[w].id] = w[1]
  /\ \A r \in wire : Author[r.id] = r.from[1]
  /\ \A i \in items : Author[i.id] = i.device

\* What a page in progress knows: up to its cursor, every item is done or is
\* still on it.
PageInv(d) ==
  /\ \A i \in page[d] : Author[i.id] # d
  /\ step[d] # "ask" =>
       /\ cursor[d] <= next[d] /\ next[d] <= lastSeq
       /\ \A i \in Foreign(d) : i.seq <= next[d] => i \in page[d] \/ Done(d, i.id)
  /\ step[d] \in {"kept", "emptied", "wiped"} => page[d] # {}
  /\ step[d] = "kept" => First(d).id \in applied[d] \ Clears
  /\ step[d] = "emptied" => First(d).id \in Clears
  /\ step[d] = "wiped" => First(d).id \in applied[d] \cap Clears
  /\ step[d] = "moved" => page[d] = {} /\ cursor[d] = next[d]

\* Why DurableBeforeCursor holds: everything behind the cursor in memory is
\* done, the page in progress accounts for what it will move past, and only
\* what is done is remembered as seen.
DeviceInv(d) ==
  /\ saved[d] <= cursor[d] /\ cursor[d] <= lastSeq
  /\ \A i \in Foreign(d) : i.seq <= cursor[d] => Done(d, i.id)
  /\ \A id \in seen[d] : Author[id] = d \/ Done(d, id)
  /\ PageInv(d)

RowsInv == IsFiniteSet(items) /\ \A i \in items : i.seq <= lastSeq

SyncInv ==
  TypeOK /\ RowsInv /\ OwnWork /\ \A d \in Devices : DeviceInv(d)

Posted == {id \in Ids : firstSeq[id] # 0}

\* An item once queued is in its outbox until the server has it, unless a
\* clear took it away: no failed upload, skipped file or restart drops it.
QueuedIsSafe ==
  queued \subseteq Posted \cup cancelled \cup UNION {outbox[d] : d \in Devices}

\* A device past another device's clear has nothing left in its history that
\* was stored before the server first stored that clear, whether the server
\* still has it or, as is usual, has deleted it.  An item stored again after
\* the clear, because its uploader never heard that it was stored before,
\* counts as stored after it: what that leads to is ClearedEverywhere.  (A clear
\* stored again is only carried out by a device that has not seen it.)
ClearedStaysCleared ==
  \A d \in Devices : \A x \in Foreign(d), id \in Ids :
    /\ x.id \in Clears /\ x.seq <= saved[d]
    /\ 0 < storedAt[id] /\ storedAt[id] < firstSeq[x.id]
    => id \notin history[d]

\* A clear takes nothing that came after it, even when it is carried out again
\* because a step of it or of its page failed, or the daemon stopped: another
\* device's copy that the saved cursor has passed is in the history, unless a
\* clear stored after it, or this device's own, took it from there.
OnlyClearsTake ==
  \A d \in Devices : \A i \in Foreign(d) :
    i.id \notin Clears /\ i.seq <= saved[d] => i.id \in history[d] \cup taken[d]

\* Every queued copy reaches the history of every other device of the account,
\* unless a clear or the server's limits take it away first.
CopiesArrive ==
  \A d \in Devices, id \in Ids \ Clears :
    id \in queued ~> \/ id \in applied[d]
                     \/ id \in cancelled
                     \/ id \in Posted /\ \A i \in items : i.id # id

\* main.rs, once a clear succeeded: "history cleared here and on the server;
\* the other devices clear theirs as they sync". So a copy the command took
\* away is gone from every device that has gone past everything on the server.
ClearedEverywhere ==
  \A c, d \in Devices :
    /\ cli[c] = "done"
    /\ step[d] = "ask" /\ saved[d] = lastSeq
    => history[d] \cap cancelled = {}
=============================================================================
