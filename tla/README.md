# Pastazzo in TLA+

Pastazzo keeps the clipboard histories of a person's devices together through a
server that only sees sealed items. These modules model the parts of it whose
correctness depends on the order in which things happen: the server's item feed
and its long polls, the sync daemon with its outbox and its two threads, what the
daemon takes for a copy and puts on the clipboard, the confirmations that tell a
device who has what, who gets into an account and who stays out, what the server
remembers of requests, registrations and logins, and what a client keeps on its
disk. TLC checks them on small instances; TLAPS proves every one of their safety
properties, and that three modules implement an abstract specification, for any
devices, items and limits.

## 1. Inventory

| Component | Code | State | Operations | Status |
|---|---|---|---|---|
| Item feed | `pastazzo-server/src/store.rs`, `app.rs` | `items` table, `AUTOINCREMENT` sequence, clock; a cursor on each device | post, page, `after=latest`, delete all, prune | modelled: `ItemStore`, `ItemFeed`, `Subscription` |
| Sync daemon | `pastazzo-sync/src/daemon.rs`, `state.rs`, `main.rs` (clear) | outbox and cursor on disk; `seen`, cursor, upload in memory | copy, send, flush, retry, receive a page, handle, save the cursor, `clear --everywhere` | partly: `Sync` |
| Desktop clipboard | `pastazzo-sync/src/clipboard.rs`, `daemon.rs`, `pastazzo/src/main.rs` (add) | history directory; `known`, `received`, `last_applied` | poll, echo suppression, apply, remember, `link_sync`, `clear_history` | partly: `Clipboard` |
| Delivery receipts | `pastazzo-sync/src/delivery.rs`, server `receipts` table | `ledger.json`, receipt outbox, receipt cursor | track, received, sync, clear; add, page, prune, delete | partly: `Delivery` |
| Long poll, transfers | `app.rs` 205-280, 725-948; the daemons' polls and announcements | waiters, announced transfers, their version | wait, notify, announce, progress, evict, finish | modelled: `LongPoll` |
| Requests and nonces | `core/request.rs`, `remote.rs`, `app.rs` 339-394 | nonce table, in memory | sign, authenticate, forget nonces, restart | modelled: `Requests` |
| Approval and access | `app.rs`, `store.rs`, `account.rs`, `core/approval.rs` | devices with grant or without, records, revocations | first device, wait, publish, grant, revoke, `authenticate_approved` | partly: `Access`, `Register` |
| Pairing | `app/pairing.rs`, `sync/pairing.rs`, `core/pairing.rs` | one offer per account with request and grant | create, scan, request, grant, status, cancel, expire | modelled: `Access` |
| Registration, invites, login | `app.rs` 435-613, `store.rs`, `account.rs`, server `main.rs` | invites, accounts, pending registrations and logins, attempts per username and in all | start, finish, rate limit, delete a user | modelled: `Enrol` |
| State file and keychain | `state.rs`, `secrets.rs`, `main.rs` | `sync.json`, keychain entry | load, save new, save with cursor, move the keys, forget | modelled: `StateFile` |
| History command line | `pastazzo/src/main.rs` | history directory, replay marker | add, touch, replay, prune, clear | partly: `History`; `Clipboard` has `add` as the daemon sees it |
| Mobile engine | `pastazzo-mobile` | outbox, history file, cursor | share, save, refresh, clear | partly: `Mobile`, `Outbox` |
| Padding, wire formats | `core/pad.rs`, `wire.rs`, `item.rs`, `api.rs` | none | padmé, encode, decode | not modelled: pure functions on bytes with test vectors of their own |
| HTTP client | `remote.rs` | none | requests | partly: what answers, refusals and lost calls lead to |
| Server process | server `main.rs` | none | command line, TLS | partly: `invite` and `delete-user` in `Enrol` |
| Cryptography | `core/account.rs`, `device.rs`, `opaque.rs`, ... | keys | seal, open, sign, OPAQUE | not modelled: a sealed item is an opaque payload, a signature what it binds, a login what it decides |
| Desktop and mobile apps | `extension/`, `apple/`, `android/`, `omarchy/` | mostly presentation | show, paste | not modelled; the extension appears in `Clipboard` as the one who writes to the history |

How they interact. The desktop writes every copy to the history through
`pastazzo add`. The daemon's sending thread polls the history twice a second,
seals what is new, puts it in the outbox and in the ledger, and uploads it. The
server gives each item a sequence number and wakes the long polls. The receiving
thread of another device gets a page of items after its cursor, puts each one in
its history and perhaps on its clipboard, queues a sealed receipt, saves the
cursor, and then exchanges receipts. The two threads share `Shared`
(`seen`, `received`, `last_applied`), the clipboard and the ledger, each under a
lock of its own. `pastazzo-sync clear --everywhere` is another process on the
same files, under no lock; so are `status`, `logout` and `revoke` on `sync.json`,
and the clipboard's watcher and the menu on the history.

A device gets there by a registration or a login, each a start and a finish with
a pending entry in the server's memory between them. The login that finds the
account empty is approved; every other device waits until one that is in has
compared its code and granted it the sealed account secret, or until the owner of
a QR code does so through a pairing. From then on every request is signed, with a
timestamp and a nonce that the server remembers.

Hard behaviours, with the properties that make each component correct:

- *Feed.* The page loop stops at 50 rows, at a byte limit, or never sends a
  device its own rows; rows are pruned and deleted under the cursors. Right when
  no cursor passes an item that was not handed out, none comes twice, and
  retention takes the oldest of the right account.
- *Daemon.* Requests and answers get lost, a request that was given up reaches
  the server later, the process stops between any two steps, a second process
  empties the outbox. Right when the saved cursor covers only what is durable, a
  queued copy is never lost but to a clear, a clear takes what came before it and
  nothing that came after, and copies arrive.
- *Clipboard.* A received item must not look like a copy, while uploads, of new
  copies and again of those in the outbox, keep the thread from looking for longer
  than the window in which it is recognised; the history changes under `poll`;
  `apply` fails half-way. Right when nothing bounces, no file is a copy twice, the
  clipboard never goes back, and every item is kept.
- *Long poll.* A handler looks at the items, then at the transfers, then waits,
  without a lock over the three; stale transfers change no version, and a restart
  counts versions from zero. Right when no wake-up is lost, an item is answered
  before the deadline, and nothing stays shown.
- *Requests.* Clocks differ both ways, deliveries repeat, and nonces are forgotten
  after a while. Right when a request is served once.
- *Access.* A handler authenticates under one lock and acts under another, so a
  caller may be revoked in between; two devices log in, or scan one QR code, at
  once. Right when one device lets itself in, only compared codes are granted,
  the secret goes from hand to hand, and a revoked device stays out.
- *Enrolment.* Two clients hold one invite or want one name, the user is deleted
  between a login's two requests, strangers fill the memory. Right when an invite
  makes one account, memory is bounded, and a client ends up in its own account.
- *Disk.* A save is a temporary file and a rename, moving keys to the keychain
  overwrites the old file with zeros first, the keychain may be locked; history
  commands interleave; a phone's call is killed between two writes. Right when
  keys are never in neither place, what was reported is there, and what was
  queued is sent.
- *Receipts.* Save, queue, note, post, remove and cursor are separate steps on a
  ledger that two processes rewrite. Right when only what was kept is confirmed,
  no confirmation is lost behind the cursor, and one receipt is drawn per item.

`PROJECT.json` lists the hazards line by line, with the properties that cover
them, and for those that no property covers, or only in part, why.

## 2. Plan

| Stage | Modules | Question | Proof |
|---|---|---|---|
| 1, done | `ItemStore`, `ItemFeed`, refining `Subscription` | does the feed leave gaps? | all safety properties, refinement |
| 2, done | `Sync`, over `ItemStore` | is anything lost between copy and history? | all safety properties |
| 3, done | `Clipboard` | echo, order, what is kept | all safety properties |
| 4, done | `Delivery` | are confirmations right and none lost? | all safety properties |
| 5, done | `LongPoll` | no lost wake-up; does every transfer end? | `PollInv`, `NoLostWakeUp` |
| 6, done | `Access`: approval, grants, revocation, pairing; refining `Register` | one first device; nothing after a revocation | all safety properties, refinement |
| 7, done | `Requests`: clock skew and nonces | is a request taken twice? | `AcceptedOnce` |
| 8, done | `Enrol`: invites, attempts, pending logins | single use, limits, own account | all safety properties |
| 9, done | `StateFile`: crash steps of save, move, forget | are keys ever in neither place? | all safety properties |
| 10, done | `History`; `Mobile`, refining `Outbox` | concurrent commands; killed calls | all safety properties, refinement |

Stages 7 and 8 share a run, and so do 9 and 10: each is a disjoint sum of modules
that share no state (section 3). What would come next: abstract specifications
for `Enrol` (a ledger of invites) and for `Delivery` (who is known to have what).

## 3. Modules and code

**`ItemStore`** has the server's table and the page that `get_items` builds. Every
store operation holds one mutex around one SQLite connection, so each is one
atomic change. `AddItem` is `INSERT OR IGNORE` and the `DELETE` after it
(`Stored`, `NextSeq`, `Pruned`); `ItemsAfter`, `Fits`, `Passed`, `Page` and
`PageCursor` are the query and the loop with its break. It is parameterised by
the limits of the code (`MaxItems`, `MaxPageItems`, `MaxPageBytes`, `ItemTtl`).

**`ItemFeed`** puts devices on it: `JoinLatest` (a login asks for the latest
cursor), `PostItem`, `DeleteItems`, `GetItems`, `Tick`. **`Subscription`** is what
a device may rely on: rows in one order, dropped at any time, and each answer an
exact interval of what other devices sent.

**`Sync`** has, for each device, the sending thread (`Flush`, `FlushNext`, `Poll`,
`SendNext`, `SendFails`, `SendsDone`), the receiving thread (`Fetch`, `Skip`,
`Save`, `Acknowledge`, `CancelQueued`, `Wipe`, `NoteClear`, `MoveCursor`,
`SaveCursor`, `PageFails`), the clearing process (`CliCancels` ... `CliFails`),
`Restart`, and uploads as requests on a wire: `ServerTakes` may come after the
client gave up (`GivesUp`), its answer may get lost, and what follows an answer may
fail (`RemoveFails`). A received clear is three steps, the outbox, the history, and
the ledger with `first_sight`, any of which may fail; the clear is then carried out
again. A copy is named by the id of its item, so `history` is a set of ids; `fresh`
is what the next poll will find.

Some variables only remember. `firstSeq` and `storedAt` are the numbers under which
the server first and last stored an id, whether or not it still has the row: an
item whose answer was lost may be stored again, under a later number, once a clear
has deleted its row. `ClearedStaysCleared` compares the last number of a copy with
the first of a clear, because a device that has seen a clear rightly skips it when
it comes again. `taken` is what a clear took from a device's history, and rightly
so: the device's own copies, and those first stored before the clear.

**`Clipboard`** is one device, with the feed as a constant. A history file has a
timestamp, a content and whether it is written yet. `Poll` reads what is not in
`known`; `NextCopy` drops echoes and seals, queues and uploads the rest (`Send`).
Before a poll, `Flush` and `FlushNext` upload everything in the outbox again, that
is, what failed before. An upload blocks the thread while the clock runs (`Tick`),
up to `SendTicks` with its attempts, and `SendEnds` either way. `queued` counts the
files in the outbox: which they are makes no difference to how long a flush takes.
`Note`, `Add`, `Show`, `Keep` are `handle` between its
locks; `HandleFails` ends it anywhere; `HandleClear` is `clear_history` and its
three failures: `pastazzo clear` cannot be started, and nothing changes; it ran and
failed, and `known` is emptied though files may be left; or it went well and the
ledger's clear failed. The desktop's `pastazzo add` is `UserCopies` and `Written`.

**`Delivery`** has the ledger of each device, its queue of receipts and the
server's receipts table. `Keep`, `TrackReceived`, `QueueReceipt`, `NoteReceived`
and `MoveOn`, `SaveCursor` are `handle` and `received` step by step;
`DropReceipts` and `ClearLedger` are `clear`; `Ask`, `Accept`, `PostReceipt` and
`PostsDone` are `sync`. `snap` is the ledger as a step read it, which is what it
writes back, whatever the clearing process did in between. Items come from
`feed`, one to a page (module `Sync` has pages of several).

**`LongPoll`** has the server's transfers and version, and per device a poll, an
announcement and an upload. A poll goes through `get_items` step by step:
`Subscribe` before it looks, `LookAtItems`, `StartToWait` or `Answer`,
`LookAtTransfers`, `Wake` or `Deadline`. `Announce` evicts stale and oldest
transfers; `Chunk`, `AddItem` and `DropGuard` are an upload that arrives, is
stored, or ends with its guard, and each owes a wake-up that a later step gives
(`ProgressWakes`, `ItemWakes`, `DropWakes`). A transfer keeps its age, not the
time it changed.

**`Access`** has a row for each device on the server, the offers, and the clients.
A device is one pair of keys: every login and every pairing makes new ones. A
signed call is two steps, `Authenticate` and the action (`PutGrant`, `Revoke`,
`PairingCreate`, `PairingCancel`, `Complete`), with anything in between.
`ApproveIfFirst`, `Collect`, `PublishStart` and `Publish` are the way in;
`confirmed` is the set of devices whose code a person has compared.

**`Register`** is the account without the handlers: each device is a stranger,
waits, is in, or is out for good, and the secret goes only to whom it was granted.
`Standing` reads that off a row of the server, and its holders are the creator and
the clients that have the secret. `PutGrant` and the `Complete` that finds its
peer are a `Grant`; a revocation is a `Leave`, and so is the listing that drops
who has waited for more than a day. A grant
may come from a device that has just been taken out: the handler authenticated it before.

**`Requests`** signs a request with a client's clock, keeps it on the wire for
ever, and lets the server take it any number of times (`Authenticate`: clock,
signature, approval, nonce).

**`Enrol`** has the handlers of registration and login with a step for each lock
they take (`RegisterStart`, `RegisterPending`, `RegisterTake`, `CreateAccount`;
`LoginStart`, `LoginPending`, `LoginTake`, `AddDevice`), the attempts allowed in a
window, the clients, and `DeleteUser`, a process of its own on the same store. It
stops where `Access` goes on, at the answer to the login. `attempts` is the set of
attempts still counted, each with its time; the assumption that a pending entry
lives no longer than the window (`PendingTtl <= Window`: 120 seconds and ten
minutes in `app.rs`) is what bounds the entries by the attempts.

**`StateFile`** has the daemon and one command at a time, each with its own loaded
copy. `MoveSet`, `MoveVerify`, `Scrub` move the keys; `SaveClears`, `SaveCreates`,
`SaveWrites`, `SaveRenames` are a save, system call by system call; `Crash` may
come anywhere; `Lock` and `Unlock` are the user's keychain.

**`History`** has any number of commands at work on one directory, each look and
each change a step: `add` is `IgnoreReplay`, `RemoveExistingHash`, `WriteItem`,
`PruneHistory`; `touch` is `Touch`, `Rename`, `MarkReplay`.

**`Mobile`** has one call at a time, killed between any two writes. `Seal`, `Note`,
`Share`, `SaveItem` put an item; `Flush`, `Post`, `MarkSent`, `RemoveQueued` send
the queue; `FetchPage`, `ReceiveItem`, `SaveCursor` receive. `ClearOutbox` and
`ClearHistory` remove one file at a time, the second for a clear that was received
too. Sealing again makes another version, and the server refuses a second version
under one id.

**`Outbox`** is a phone without entries, versions or kills: an item waits until it
is sent, stays sent, and only a clear takes one that waits. An item is sent once
the server has stored it, whatever the phone knows of that, and waits while its
file is in the outbox (`Place` in `Device`).

**`Server`** and **`Device`** are disjoint sums: `Requests` or `Enrol`, and
`StateFile`, `History` or `Mobile`. A variable `part` says which of them a
behaviour is of, and only that one moves.

Modules named `...Proofs` hold the theorems, modules named `MC...` the constants of
the runs.
`PROJECT.json` maps every definition to its lines.

Operators under a comment "Mutant" are plausible mistakes in the definition that
follows them. They are used by nothing in the model; replacing the definition by
its mutant must break the property that is said to guard it.

## 4. Runs

| Run | Checks | Instance |
|---|---|---|
| `MCItemFeed` | `FeedInv` (with `OnlyOwnAccount`), `NothingSkipped`, `KeepsTheNewest`, `StoredOnce`, refinement of `Subscription` | 2 accounts, 3 devices, 3 ids, rows of 2 sizes, 2 rows kept, pages of 2 rows or 2 bytes; a million states |
| `MCSync` | `SyncInv`, `DurableBeforeCursor`, `QueuedIsSafe`, `ClearedStaysCleared`, `OnlyClearsTake` | 2 devices, a copy and a clear from the same one, 2 attempts, 1 restart or fault; 700 thousand states |
| `MCSyncLive` | `CopiesArrive` | 2 copies, each larger than a page, 1 attempt, 1 restart or fault, with fairness |
| `MCSyncCleared` | `ClearedEverywhere`, violated | as `MCSync` |
| `MCClipboard` | `ClipboardInv`, `NoBounce`, `NewCopiesOnly` | 2 items out of order, 1 copy, echo window 3, uploads up to 1 tick, 4 instants, 1 fault, 1 restart; 1.3 million states |
| `MCClipboardFeed` | `ClipboardMovesForward`, `FeedDrains` | 4 items with a clear and a clock ahead, 2 faults, with fairness |
| `MCDelivery` | `DeliveryInv`, `ConfirmedWasKept`, `ReceiptBeforeCursor`, `OneReceiptEach`, `ConfirmationArrives` | a copy of one device and a clear of the other, pages of one receipt, 1 restart, 1 fault, with fairness |
| `MCLongPoll` | `NoLostWakeUp`, `AnsweredInTime`, `TransfersEnd`, `ViewsFollow` | 1 poller, 1 uploader, 2 items of a chunk, room for 1 transfer, 2 attempts of which the second is not announced, 1 fault or restart, with fairness; 84 thousand states |
| `MCAccess` | `OneLetsItselfIn`, `OnlyConfirmedAreGranted`, `SecretIsAccountedFor`, `GrantedStopWaiting`, refinement of `Register` (which has `RevokedStaysOut`) | 3 devices, 1 QR code, 1 fault or restart, with fairness; 140 thousand states |
| `MCAccessFirst` | `CreatorIsApproved`, violated | as `MCAccess` |
| `MCServer` | `AcceptedOnce`, `OneAccountEach`, `PendingIsBounded`, `EveryoneIsAtHome` | requests: 2 devices, 1 nonce, skew 1, clocks off by 2, 7 instants, 1 restart; enrolment: 2 clients of one name and password, 2 invites, 2 attempts, 2 tries each, 1 fault or restart; 680 thousand states |
| `MCDevice` | `KeysAreKept`, `SavesAreAtomic`, `ReportedIsKept`, `NothingIsLost`, `QueuedGetsSent`, refinement of `Outbox` | keys: daemon and command, 2 crashes or keychain failures; history: 2 programs, 2 contents, 1 item kept, 1 kill; phone: 2 items, a feed with a clear, pages of 2, 2 kills or failures, with fairness; 220 thousand states |

Bounds. `MaxSeq`, `MaxNow`, `MaxRestarts`, `MaxFaults`,
`MaxTroubles` (restarts and faults together), `MaxCopies`, `SendTicks`
and `MaxSerial` only cap how often the environment acts, as do `Chunks`,
`Attempts`, `MaxTries`, `MaxClock`, `MaxCursor`, `MaxKills` and `MaxSeals`. They are small because
the interesting cases need few actors: two devices are a sender and a receiver,
and a third of another account is all that isolation needs; two rows kept and
three posted prune; a page of two rows and rows of one and three bytes reach both
limits, the oversized row, and the device's own rows in between; one restart or
one failure at every step covers every single crash point, and the proofs, which
hold for any number of both, cover the rest. The limits of the code
(`MaxItems`, `MaxLedger`, page sizes, `MaxTransfers`, `MaxAttempts`,
`MaxOverall`) are constants of the modules and shrink
with the instance. The times of the code (`Ttl`, `PendingTtl`, `InviteTtl`,
`PairingTtl`, `Window`, `Skew`) are one or two ticks: what matters is which of two
things is older, and `Requests` has clocks off by more than the server allows, in
both directions, for longer than a nonce is kept. In `MCClipboard` the echo window
is as small as it can be: the one copy can be sent and, having failed, flushed
before the next poll, two ticks that have to be less than the window of three; with
a window of two `NoBounce` fails. In `MCDevice` `ReplayWindow` is
0, a tick longer than the marker's window: within a tick a marker holds, past it
it does not. `CHECK_DEADLOCK FALSE` is in every cfg because a system in
which everybody has everything, and in which the bounds are used up, rightly
stops.

`MCServer` uses the symmetry of clients and of invites, which its invariants do
not tell apart.

Fairness. `Sync`, `Clipboard` and `Delivery` have a `FairSpec` for their liveness
properties. Its actions are steps of the two loops, `Daemon::run` and
`receive_forever`, which never return, and in which each call ends because each
request has a timeout: weak fairness is enough. Nothing is asked of the user, of
faults or of restarts. `MaxFaults` and `MaxTroubles` bound failures, so "in the end" means: once
requests stop failing. `GivesUp` and `HandleFails` are only fair where the
failure is certain (the request is not on the wire; the item is not in the
history), in which case they cost no fault. In `LongPoll` the server's threads
run, a client polls again as soon as it is answered (`receive_forever`), and time
passes; a poll's deadline is fair only as the hypothesis of `ViewsFollow`, so
that `AnsweredInTime` cannot lean on it. In `Access` a handler runs to its end and
a waiting client keeps asking (the loops of `account.rs` and `pairing.rs`);
nobody has to approve, scan or revoke. In `Mobile` a call goes on unless it is
killed, and the app refreshes whenever it is opened: calls wait in a queue, so
other calls interrupt the chance to refresh, and strong fairness says that it
comes.

### What the violated runs show

Each is a statement of the repository that the code does not keep; the findings
in `PROJECT.json` quote it.

- `MCSyncCleared`: `clear --everywhere` empties the outbox, but an upload that
  was already on its way is stored behind the clear, and the other device keeps
  what the command removed.
- `MCAccessFirst`: `join` creates the account with one request and logs in with
  another. A login with the same password between the two is the first, and is
  approved; the creator, the only device with the account secret, waits for an
  approval that the other cannot give, and nobody can open the account.

### Known defects without a run

The modules state more that the code does not keep. Each row is seen with one of
the cfgs above and the changes named here.

| Property | Change | What it shows |
|---|---|---|
| `NoBounce` | `MCClipboard` with `Feed <- MCOneItem`, `EchoWindow = 1`, `SendTicks = 2`, `MaxNow = 3`, `MaxFaults = 0`, `MaxRestarts = 0` | what is received is recognised for 15 seconds (daemon.rs:301), but the thread that polls also uploads, first the whole outbox and then copy after copy, each in up to three attempts: behind an upload that takes longer, the received item is sealed and sent as a copy of this device (e2e.rs:667 has "it must not bounce back to the Mac") |
| `NewCopiesOnly`, `NoBounce` | `MCClipboard` with `Feed <- MCThenClear`, `MaxFaults = 1` | a `pastazzo clear` that fails leaves files, but `clear_history` has forgotten their names: the next poll takes the whole history for new copies (clipboard.rs:26 has "New local copies since the last call"), and what was received is sent back |
| `LastAppliedIsShown` | `MCClipboard` with `Feed <- MCLateItem`, `MaxFaults = 1` | `last_applied` moves before `apply`, so the retry after a failed `apply` only remembers the item: it never gets on the clipboard |
| `OnlyRealCopies` | `MCClipboard` with `Feed <- MCOneItem`, `MaxCopies = 1` | `add` creates the file under its own name before it writes it; a poll in between sends an empty text in its place |
| `FeedDrains` | `MCClipboardFeed` with `Feed <- MCThenBlank` | `add` keeps no text of only whitespace and reports success, `link_sync` then fails, and the page is asked for again for ever |
| `ItemsGetHandled` | `MCDelivery` with `Ids = {i1, i2}`, `Clears = {}`, `MaxLedger = 1` | an item older than everything in a full ledger is dropped by the `track` that added it, `received` fails, and the page is asked for again for ever |

Also worth knowing, met while modelling:

- A received clear of which a later step fails is carried out again, and then also
  takes what was copied on that device in between.
- A copy that the server stored before a clear, without its author hearing of it,
  is uploaded again after the clear, and is then a copy made after it for everybody:
  `ClearedStaysCleared` is about the last time a copy was stored, and what
  `MCSyncCleared` shows is its other side.
- `last_applied` and `seen` live in memory, so after a restart an item can be put
  on the clipboard again and an older one can replace a newer.
- `OneReceiptEach` has exceptions for a failed call, because a cursor that could
  not be saved lets the receipts be exchanged before the item is handed out
  again; and a device other than the author can lack a confirmation for good,
  because the receipt cursor moves past receipts for items its ledger lacks.
- An item that is put again on a phone with the id it had, after a clear of the
  phone took the sealed one, is sealed anew; if the first version was stored, the
  server answers with a conflict, and every later flush stops at it.
  `QueuedGetsSent` excepts it.
- When the answer to the finish of a registration is lost, the account exists and
  its secret is gone with the client. When the last approved device of an account
  is revoked, nobody can approve another.
- When the answer to a grant of a pairing is lost, the owner's second approval is
  refused, because it was sealed anew.
- While keys are moved to the keychain, the state file is zeros between the scrub
  and the rename: a stop there leaves the keys in the keychain, as
  `KeysAreKept` says, and a file that must be made again by a login, which is why
  `SavesAreAtomic` is about files whose keys were not moved.

## 5. Proofs

| Theorem | Module | Says |
|---|---|---|
| `FeedInvariant`, `FeedSkipsNothing`, `FeedIsolatesAccounts`, `FeedMovesForward` | `ItemFeedProofs` | the feed's invariant, and that no cursor passes an item unread, pages hold what is the account's own (`OnlyOwnAccount`), and the next page is newer than all before (`PagesMoveForward`) |
| `FeedRefinesSubscription` | `ItemFeedProofs` | `ItemFeed` implements `Subscription` |
| `NewestAreKept`, `UploadsAreStoredOnce` | `ItemFeedProofs` | retention keeps the newest rows of each account; a repeated upload is stored once |
| `SyncInvariant`, `CursorIsDurable` | `SyncProofs` | the saved cursor covers only what is durable |
| `QueuedIsNotLost` | `SyncProofs` | what was queued is in an outbox, was stored, or was taken by a clear |
| `ClearsReachTheHistory`, `ClearsTakeNothingLater` | `SyncProofs` | behind a clear nothing is left that was last stored before it, deleted or not, and nothing is gone that came after it |
| `ReceivedIsKept`, `ForwardWhileRunning` | `DeviceProofs` | received items stay in the history; the clipboard moves forward while the daemon runs |
| `OnlyNewFilesArePolled`, `NothingBounces`, `FewCopiesNeverBounce` | `DeviceProofs` | no file is a copy twice; nothing received is sent |
| `KeysSurvive`, `SavesAreWhole` | `DeviceProofs` | the keys are in the keychain or in a whole file, wherever a process stops |
| `ReportedStays` | `DeviceProofs` | what a history command reported is there, whatever commands run beside it |
| `PhoneKeepsItsWord`, `PhoneRefinesOutbox` | `DeviceProofs` | what a phone took on is queued or sent, wherever it is killed; `Mobile` implements `Outbox` |
| `DiskKeepsAll` | `DeviceProofs` | the sum that `MCDevice` runs keeps what its parts keep |
| `DeliveryInvariant`, `OnlyKeptIsConfirmed`, `CursorAfterReceipt` | `DeliveryProofs` | confirmations are true and none is lost |
| `ReceiptsAreSealedOnce` | `DeliveryProofs` | a device makes out one receipt for an item, wherever it stops |
| `PollInvariant`, `WakeUpsArrive` | `LongPollProofs` | no poll sleeps through an item or a change of the transfers |
| `AccessInvariant`, `OnlyOneLetsItselfIn`, `GrantsAreConfirmed`, `SecretTravelsAlongGrants`, `RevokedForGood` | `AccessProofs` | the approvals' inductive invariant, and the properties of `MCAccess` |
| `AccessRefinesRegister` | `AccessProofs` | `Access` implements `Register` |
| `RequestsInvariant`, `ServedOnce` | `ServerProofs` | no request is served twice while the server runs |
| `EnrolInvariant`, `InvitesAreSpentOnce`, `StrangersAreBounded`, `NobodyIsStranded` | `ServerProofs` | one account for an invite, bounded memory, everyone in its own account |
| `ServerIsBoth` | `ServerProofs` | the sum that `MCServer` runs keeps what its parts keep |

They assume only the named assumptions of the modules (`StoreAssumption`,
`SyncAssumption`, `ClipboardAssumption`, `DeliveryAssumption`,
`RequestsConstants`, `LongPollConstants`, `DeviceConstants`, and those of `Access` and
`Enrol`): the constants have their types, limits are at least one, the set of ids is
finite, and a pending registration or login lives no longer than the attempts' window. Four
theorems have hypotheses of their own. `ForwardWhileRunning` is about a daemon that
does not restart. The theorems on copies and echoes are about behaviours without
`ForgetsFiles`, the failing clear of section 4; `NothingBounces` also asks that all
the uploads that can come before a received file is looked at (`Backlog`: the copies
that wait, an upload in progress, and what a flush before the next poll would upload
again) take less than the echo window, `Limit` of them `SendTicks` each.
`FewCopiesNeverBounce` has it from a bound on the copies made: each can be uploaded
twice, by a send and by the flush after it, so `2 * MaxCopies * SendTicks` must be
less than the window. The factor is needed (section 4, bounds).

- *Feed.* Nothing is skipped because rows only ever get numbers above every
  cursor (`i.seq <= lastSeq`, `cursor <= lastSeq`), and because the rows a page
  gets past (`Passed`) are an initial segment of those after the cursor.
  `ItemStoreProofs` has that as lemmas on the page operators (`PageCursor` is at
  or after the cursor, and every row up to it was passed). For the refinement, a
  post is a `Publish`, pruning and deletion are `Drop`, and a page is a `Deliver` up
  to the last row passed, or stutters where there was none. Retention
  (`RetentionInv`) rests on `PrunedIsNewestPart`: what the `DELETE` after an upload
  leaves is the newest part of the account's rows, by count and, because rows that
  came later are no older, by age.
- *Daemon.* `DurableBeforeCursor` is not inductive: it needs to know that what is
  behind the cursor in memory is done, that a page in progress accounts for all
  it will move past (`PageInv`), and that `seen` holds only the device's own ids
  and what is done, since `Skip` trusts it. `OwnWork` is there because a row's
  sender must be the author of its id for `Skip` to be right about own items.
  `QueuedIsSafe` is inductive once only what the server has stored counts as
  answered (`QueueInv`): a file goes after an answer or by a clear.
  `ClearedStaysCleared` and `OnlyClearsTake` share the longest proof (`ClearsInv`):
  an id was first stored under the number of its row or an earlier one, and last
  under that number or a later one (`StoredInv`); the rest of a page
  lies after the cursor in memory, and what is neither in it nor behind the cursor
  has been seen (`RestInv`); pages are handled in order (`OrderInv`). So what the
  server last stored before a clear that the device is past (`Past`), or has just
  carried out (`Gone`), is not in the history and cannot be fetched into it again,
  being behind the cursor or seen (`WipedInv`). And what a clear takes was stored
  before it, because what comes after it on the page has not been handled, and what
  the page after a failure hands out again finds the clear seen or still to come
  before it; so whatever another device sent and the cursor has passed is there or
  was rightly taken (`TakenInv`).
- *Clipboard.* The invariant says that the text of each handled item is in
  some file, which every write keeps because it only removes files of the same
  content. Order needs that everything shown was made no later than
  `lastApplied` and that an item about to be shown is newer. That no file is a copy
  twice is `NamesInv`: what is not in `known` is younger than every name a poll has
  returned. That nothing bounces is a deadline for each received file that is not
  looked at yet (`InTime`): with k of the user's copies before it, the sender comes
  to it within k sends, and one more if a send is in progress, which must be before
  its entry goes stale. Writing a file sets k to all that is waiting, a copy made
  later is behind it, and a send that begins takes one from k.
- *Receipts.* `ReceiptInv` says where a receipt can be (queue, server,
  cancelled), and no step takes one from nowhere. `ItemInv` says what the
  receiving thread has done for the item it is at, and that every item behind
  its cursor has a receipt. `LedgerInv` has to cover `snap` as well as `ledger`,
  because a stale copy is written back. One receipt per item (`EachInv`) is about
  what a device finds when an item comes again: every receipt made out is noted in
  the ledger, or still queued for the very item that comes next, or its item is gone
  from the server (`Settled`). That takes a ledger that keeps what it noted, hence the
  exceptions of `OneReceiptEach`, and a server that has each item in one place.
- *Requests.* A nonce signs one request of a device. What got through is
  remembered since no earlier than its timestamp less the skew, and is kept for
  twice the skew; so what is forgotten has gone stale, and a stale request is
  refused before its nonce is looked up. That inequality is the invariant.
- *Long poll.* From its look at the items on, a poll that nobody has woken has
  found all that is stored, or some handler that changed it still owes its
  wake-up; the same for the version from its look at the transfers. It holds
  because `Subscribe` comes before the looks, and it is inductive only together
  with what each pc of a poll has seen.
- *Access.* One device is in without a grant (`RowInv`); whoever has the secret
  created the account or has a grant from a device that has the secret
  (`SecretInv`); a call in progress asks for what a person said yes to, although the
  server looks at its state again when it acts, and a pairing that is being made is
  in nobody's hands yet (`CallInv`); a granted pairing's peer has its grant
  (`PairingInv`). Each needs the others: a call that completes a pairing grants the
  peer it finds, which must be the one whose code was compared. That the secret went
  from hand to hand (`HandToHand`) says more than that each holder has a grant of
  a holder, which two devices could give each other: no devices have their grants only from one
  another (`NoRing`), because a device that is let in has granted nothing before. It
  needs that a call found authentic is of a device that was let in (`AuthedInv`), and
  so does the refinement of `Register`.
- *Enrolment.* What can still be finished was started by an attempt that still
  counts (`MemoryInv`), and a try starts one registration and one login, so there are
  no more of either than attempts in a window; this is where the lifetimes matter.
  `AccountInv` says that an account's invite is spent for it alone and that a device
  is of an account there is.

- *Keys.* Two halves of `KeysInv` hold at different times. Until the device leaves,
  whatever says that the keys are in the keychain (the file, the temporary file, a
  process about to save) is right (`KeysStay`); a late save by a process that loaded the
  old file is safe only because of that. Until keys are moved, one process saves at a time, so
  the temporary file is its own, and whole when it is renamed (`SavesAlone`). `Errands` ties a
  process's step to the command that led to it.
- *History.* `DesktopInv` adds to `ReportedIsKept` what a command knows between a look
  and a change: an `add` that has removed the old file of its content is still about to write
  the new one, and what is reported is in a file or on such a way. A prune takes only what
  has `MaxItems` others at least as new, and those are not claimed any more; the finite
  number of files is there because that is a count.
- *Phone.* An item that is queued or answered for is stored, in the outbox or cleared
  (`EntriesInv`); a call that is about to note, post, mark or remove an item has put it where
  the step before says (`CallKeeps`), and the item at hand is no longer in the list of what is
  left, which was read at the start. `PageInv` is the cursor's half: what is behind
  the page's next was received or cleared. From these, each write of a call is a step of
  `Outbox` or none: a kill between storing and removing leaves an item that is sent and
  in the outbox, which `Place` counts as sent.

Left to TLC: the liveness properties (`CopiesArrive`, `FeedDrains`,
`ConfirmationArrives`, `AnsweredInTime`, `TransfersEnd`, `ViewsFollow`,
`GrantedStopWaiting`, `QueuedGetsSent`), which need `ENABLED`. Sums over pages (`Bytes`) are
folds; the proofs never need their value, only that `Fits` is a condition on a row.

## 6. What is left out of the models

- Cryptography, formats, names of devices, logging and status files. An item that
  cannot be opened is skipped by the code and does not occur in the models.
- In `Sync`: device approvals and the loop that announces big uploads; the
  periods of the loops (an interleaving stands for them); the content of a copy,
  so that two copies of the same text are two ids; the ledger, whose clear or
  change may fail but keeps nothing here; and the files of an outbox that a clear
  has only partly removed when it fails.
- In `Clipboard`: the Wayland and macOS pasteboards; `add`'s pruning of the
  history by count; a `Written` that fails; which files a flush uploads, of which
  only the number is kept; `clear --everywhere` of this device, whose own item in
  the outbox would be one upload more. A flush may come before every poll, not only
  every 30 seconds. `SendTicks` stands for an upload with its three attempts and
  the pauses after them; waiting for the ledger's and the clipboard's lock takes no
  time, nor does what the receiving thread does with an item.
- In `Delivery`: the moment between reading and writing the ledger within one
  `track` or `uploaded` (the other changes of the ledger have it), servers without receipts, uploaded times, peers,
  `confirm_stored`, receipts from a clock far ahead, the age limit of the receipts
  table, and the published copy of the ledger. Items and receipts of other
  accounts are not there: `ItemFeed` has isolation.
- In `LongPoll`: what a page holds (`ItemStore` has it) and other accounts; the
  names and sizes that an announcement shows.
- In `Access`: the names in the records, the daemon's notices of waiting devices,
  and the requests before the answer to a login (`Enrol` has them).
- In `Requests`: which request it is; a body's digest is part of what is signed.
- In `Enrol`: the mathematics of OPAQUE, whose login is modelled by whether the
  password file it was started with fits the password; the proofs that a client
  knows its invite.
- In `StateFile`: the backup through another tool, which only reads.
- In `History`: the moment between creating a file and writing it (`WriteItem` is
  one step; `Clipboard` has both), in which a kill leaves an empty file, which stays
  until its content is copied again and which a prune counts; the origins and
  metadata beside an item, search and its ranking;
  `link_sync` is in `Clipboard`.
- In `Mobile`: login and logout, receipts, the limit of 200 entries, and the
  bindings to the two systems.
- Padding and the wire formats: pure functions on bytes, with unit tests and test
  vectors. The graphical apps and the shell wrappers: presentation over the
  programs above.

## 7. Running

`tlc -config MCSync.cfg MCSync` and the like for each row of section 4;
`tlapm SyncProofs.tla` and the like for each proof module. The runs take from a
second to three minutes on two cores, the proofs some minutes.
