------------------------------ MODULE LongPoll ------------------------------
(* The server's long polls and announced uploads (pastazzo-server/src/app.rs) *)
(* for one account, with the uploads and polls of the daemons that use them.  *)
(* Handlers run on several threads: a poll looks at the items, then at the    *)
(* transfers, then waits, and a step of an upload can come in between.        *)
(*                                                                            *)
(* Of the store only which items it has matters here (pages are ItemStore's). *)
(* A transfer keeps its age instead of the time it last changed, so that no   *)
(* clock has to be bounded.                                                   *)
EXTENDS Naturals, FiniteSets, Functions

CONSTANTS Devices, Items, None,
          Pollers,        \* the devices whose polls are modelled
          Owner,          \* Owner[i]: the device that sends item i
          Chunks,         \* how many pieces a body comes in
          Ttl,            \* TRANSFER_TTL_MS, in ticks
          MaxTransfers,   \* MAX_TRANSFERS_PER_ACCOUNT
          Attempts,       \* tries of one Daemon::upload
          MaxTroubles     \* bound: lost connections, late answers, restarts

ASSUME LongPollConstants ==
    /\ None \notin Items
    /\ Pollers \subseteq Devices
    /\ Owner \in [Items -> Devices]
    /\ Chunks \in Nat \ {0}
    /\ Ttl \in Nat \ {0}
    /\ MaxTransfers \in Nat \ {0}
    /\ Attempts \in Nat \ {0}
    /\ MaxTroubles \in Nat

VARIABLES
    stored,      \* the items in the store
    pending,     \* Transfers.pending: announced item |-> [received, age]
    version,     \* Transfers.version
    poll,        \* each device's GET /v1/items, and what its client remembers
    announcing,  \* each device's POST /v1/items/announce
    outbox,      \* the items whose upload no client has seen succeed
    upload,      \* each device's Daemon::upload, with its POST /v1/items
    troubles

vars == <<stored, pending, version, poll, announcing, outbox, upload, troubles>>

Subscribed == {"look", "looked", "wait"}
Owes == {"progressed", "ending", "breaking", "notify"}   \* an upload that still has to wake the polls

Polls == [pc : {"idle", "subscribe"} \cup Subscribed, woken : BOOLEAN, late : BOOLEAN,
          cursor : SUBSET Items, found : SUBSET Items, seen : Nat, view : SUBSET Items]
Uploading == [pc : {"announce", "ready", "body", "stored", "broken", "failed"} \cup Owes,
              item : Items, guard : BOOLEAN, done : 0 .. Chunks, attempt : Nat]
NoUpload == [pc |-> "idle", item |-> None, guard |-> FALSE, done |-> 0, attempt |-> 0]
NoAnnouncement == [pc |-> "none", item |-> None]
Announcements == {NoAnnouncement} \cup [pc : {"sent", "changed"}, item : Items]

TypeOK ==
    /\ stored \subseteq Items
    /\ DOMAIN pending \subseteq Items
    /\ pending \in [DOMAIN pending -> [received : 0 .. Chunks, age : 0 .. Ttl]]
    /\ version \in Nat
    /\ poll \in [Pollers -> Polls]
    /\ announcing \in [Devices -> Announcements]
    /\ outbox \subseteq Items
    /\ upload \in [Devices -> {NoUpload} \cup Uploading]
    /\ troubles \in 0 .. MaxTroubles

NoPoll == [pc |-> "idle", woken |-> FALSE, late |-> FALSE,
           cursor |-> {}, found |-> {}, seen |-> 0, view |-> {}]

Init ==
    /\ stored = {}
    /\ pending = [i \in {} |-> None]
    /\ version = 0
    /\ poll = [d \in Pollers |-> NoPoll]
    /\ announcing = [d \in Devices |-> NoAnnouncement]
    /\ outbox = Items
    /\ upload = [d \in Devices |-> NoUpload]
    /\ troubles = 0

Trouble == troubles < MaxTroubles /\ troubles' = troubles + 1

----------------------------------------------------------------------------
\* The account's transfers.  Each change is made under their lock and bumps
\* the version; the same handler wakes the polls in a step of its own.

\* Mutant: no time limit.
Listed == DOMAIN pending
Shown == {i \in DOMAIN pending : pending[i].age < Ttl}

Change(table) == pending' = table /\ version' = version + 1

\* Notify::notify_waiters reaches whoever has subscribed by now.
\* Mutant: only those that wait already.
WakeWaiting ==
    poll' = [d \in Pollers |-> [poll[d] EXCEPT !.woken = @ \/ poll[d].pc = "wait"]]
WakeAll ==
    poll' = [d \in Pollers |-> [poll[d] EXCEPT !.woken = @ \/ poll[d].pc \in Subscribed]]

Oldest == {i \in Shown : \A j \in Shown : pending[j].age <= pending[i].age}

\* The stale go; when there is still no room the oldest goes too, even if the
\* announced item had a place already.
Announce(i) ==
    \E out \in IF Cardinality(Shown) >= MaxTransfers THEN Oldest ELSE {None} :
        LET kept == Shown \ {out}
        IN Change([j \in kept \cup {i} |->
                      IF j = i THEN [received |-> 0, age |-> 0] ELSE pending[j]])

IsAnnounced(i) == i \in DOMAIN pending

Progress(i, n) ==
    Change([j \in DOMAIN pending |->
               IF j = i THEN [received |-> n, age |-> 0] ELSE pending[j]])

FinishTransfer(i) == Change(Restrict(pending, DOMAIN pending \ {i}))

----------------------------------------------------------------------------
\* The polls.

PollStart(d) ==
    /\ poll[d].pc = "idle"
    /\ poll' = [poll EXCEPT ![d].pc = "subscribe", ![d].late = FALSE]
    /\ UNCHANGED <<stored, pending, version, announcing, outbox, upload, troubles>>

\* notified() and enable(): before looking, so that nothing is missed.
Subscribe(d) ==
    /\ poll[d].pc = "subscribe"
    /\ poll' = [poll EXCEPT ![d].pc = "look", ![d].woken = FALSE]
    /\ UNCHANGED <<stored, pending, version, announcing, outbox, upload, troubles>>

LookAtItems(d) ==
    /\ poll[d].pc = "look"
    /\ poll' = [poll EXCEPT ![d].pc = "looked", ![d].found = stored]
    /\ UNCHANGED <<stored, pending, version, announcing, outbox, upload, troubles>>

\* The page as Daemon::receive_once takes it: cursor, version and the others'
\* transfers, its own left out.
Answer(d) ==
    poll' = [poll EXCEPT ![d].pc = "idle", ![d].woken = FALSE, ![d].found = {},
                         ![d].cursor = poll[d].found, ![d].seen = version,
                         ![d].view = {i \in Shown : Owner[i] # d}]

SomethingNew(d) == poll[d].found # poll[d].cursor \/ poll[d].seen # version

\* Mutant: a poll whose deadline is over goes back to wait.
HasNews(d) == SomethingNew(d)
MayAnswer(d) == SomethingNew(d) \/ poll[d].late

\* Mutant: notified() is called only here.
StartToWait(d) == poll' = [poll EXCEPT ![d].pc = "wait", ![d].woken = FALSE]
Wait(d) == poll' = [poll EXCEPT ![d].pc = "wait"]

LookAtTransfers(d) ==
    /\ poll[d].pc = "looked"
    /\ IF MayAnswer(d) THEN Answer(d) ELSE Wait(d)
    /\ UNCHANGED <<stored, pending, version, announcing, outbox, upload, troubles>>

Wake(d) ==
    /\ poll[d].pc = "wait"
    /\ poll[d].woken
    /\ poll' = [poll EXCEPT ![d].pc = "subscribe"]
    /\ UNCHANGED <<stored, pending, version, announcing, outbox, upload, troubles>>

\* After the deadline a waiting poll looks once more, and any poll answers.
Deadline(d) ==
    /\ poll[d].pc \in Subscribed
    /\ ~poll[d].late
    /\ poll' = [poll EXCEPT ![d].late = TRUE, ![d].pc = IF @ = "wait" THEN "look" ELSE @]
    /\ UNCHANGED <<stored, pending, version, announcing, outbox, upload, troubles>>

PollFails(d) ==
    /\ poll[d].pc # "idle"
    /\ Trouble
    /\ poll' = [poll EXCEPT ![d].pc = "idle", ![d].woken = FALSE, ![d].found = {}]
    /\ UNCHANGED <<stored, pending, version, announcing, outbox, upload>>

----------------------------------------------------------------------------
\* The uploads of big items: announced once, then tried up to Attempts times.

\* The outbox hands an item over; one whose answer was lost comes again.
UploadStart(d, i) ==
    /\ upload[d].pc = "idle"
    /\ announcing[d].pc = "none"
    /\ Owner[i] = d
    /\ i \in outbox
    /\ upload' = [upload EXCEPT ![d] = [pc |-> "announce", item |-> i, guard |-> FALSE,
                                        done |-> 0, attempt |-> 0]]
    /\ announcing' = [announcing EXCEPT ![d] = [pc |-> "sent", item |-> i]]
    /\ UNCHANGED <<stored, pending, version, poll, outbox, troubles>>

AnnounceItem(d) ==
    /\ announcing[d].pc = "sent"
    /\ Announce(announcing[d].item)
    /\ announcing' = [announcing EXCEPT ![d].pc = "changed"]
    /\ UNCHANGED <<stored, poll, outbox, upload, troubles>>

AnnounceWakes(d) ==
    /\ announcing[d].pc = "changed"
    /\ WakeAll
    /\ announcing' = [announcing EXCEPT ![d] = NoAnnouncement]
    /\ UNCHANGED <<stored, pending, version, upload, outbox, troubles>>

Announces(d) ==
    /\ upload[d].pc = "announce"
    /\ announcing[d].pc = "none"
    /\ upload' = [upload EXCEPT ![d].pc = "ready", ![d].attempt = 1]
    /\ UNCHANGED <<stored, pending, version, poll, announcing, outbox, troubles>>

\* The client gives up waiting and sends anyway; the announcement may be lost
\* or may still arrive, while the upload goes on.
AnnounceTimesOut(d) ==
    /\ upload[d].pc = "announce"
    /\ announcing[d].pc # "none"
    /\ Trouble
    /\ upload' = [upload EXCEPT ![d].pc = "ready", ![d].attempt = 1]
    /\ \/ announcing' = announcing
       \/ /\ announcing[d].pc = "sent"
          /\ announcing' = [announcing EXCEPT ![d] = NoAnnouncement]
    /\ UNCHANGED <<stored, pending, version, poll, outbox>>

\* A try: the request's headers check out (claimed_device), the guard is empty.
Attempt(d) ==
    /\ upload[d].pc = "ready"
    /\ upload' = [upload EXCEPT ![d].pc = "body", ![d].guard = FALSE, ![d].done = 0]
    /\ UNCHANGED <<stored, pending, version, poll, announcing, outbox, troubles>>

\* A piece of the body: the announcement is recognised if there is one, and
\* the progress is passed on unless it was just before.
Chunk(d) ==
    LET i == upload[d].item
        guard == upload[d].guard \/ IsAnnounced(i)
    IN /\ upload[d].pc = "body"
       /\ upload[d].done < Chunks
       /\ \/ /\ guard
             /\ Progress(i, upload[d].done + 1)
             /\ upload' = [upload EXCEPT ![d].pc = "progressed", ![d].guard = guard, ![d].done = @ + 1]
          \/ /\ guard => upload[d].guard
             /\ upload' = [upload EXCEPT ![d].guard = guard, ![d].done = @ + 1]
             /\ UNCHANGED <<pending, version>>
    /\ UNCHANGED <<stored, poll, announcing, outbox, troubles>>

ProgressWakes(d) ==
    /\ upload[d].pc = "progressed"
    /\ WakeAll
    /\ upload' = [upload EXCEPT ![d].pc = "body"]
    /\ UNCHANGED <<stored, pending, version, announcing, outbox, troubles>>

\* The whole request checks out.  An item the store has already counts too.
AddItem(d) ==
    /\ upload[d].pc = "body"
    /\ upload[d].done = Chunks
    /\ stored' = stored \cup {upload[d].item}
    /\ upload' = [upload EXCEPT ![d].pc = "stored"]
    /\ UNCHANGED <<pending, version, poll, announcing, outbox, troubles>>

Interrupted(d) ==
    /\ upload[d].pc = "body"
    /\ Trouble
    /\ upload' = [upload EXCEPT ![d].pc = "broken"]
    /\ UNCHANGED <<stored, pending, version, poll, announcing, outbox>>

\* TransferGuard::drop, however the request went.
DropGuard(d) ==
    /\ upload[d].pc \in {"stored", "broken"}
    /\ IF upload[d].guard
       THEN /\ FinishTransfer(upload[d].item)
            /\ upload' = [upload EXCEPT ![d].pc = IF @ = "stored" THEN "ending" ELSE "breaking"]
       ELSE /\ upload' = [upload EXCEPT ![d].pc = IF @ = "stored" THEN "notify" ELSE "failed"]
            /\ UNCHANGED <<pending, version>>
    /\ UNCHANGED <<stored, poll, announcing, outbox, troubles>>

DropWakes(d) ==
    /\ upload[d].pc \in {"ending", "breaking"}
    /\ WakeAll
    /\ upload' = [upload EXCEPT ![d].pc = IF @ = "ending" THEN "notify" ELSE "failed"]
    /\ UNCHANGED <<stored, pending, version, announcing, outbox, troubles>>

\* The item's own wake-up; the answer may get lost on its way.
ItemWakes(d) ==
    /\ upload[d].pc = "notify"
    /\ WakeAll
    /\ \/ /\ upload' = [upload EXCEPT ![d] = NoUpload]
          /\ outbox' = outbox \ {upload[d].item}
          /\ UNCHANGED troubles
       \/ /\ Trouble
          /\ upload' = [upload EXCEPT ![d].pc = "failed"]
          /\ UNCHANGED outbox
    /\ UNCHANGED <<stored, pending, version, announcing>>

\* No later try is announced again.
Retry(d) ==
    /\ upload[d].pc = "failed"
    /\ upload' = IF upload[d].attempt < Attempts
                 THEN [upload EXCEPT ![d].pc = "ready", ![d].attempt = @ + 1]
                 ELSE [upload EXCEPT ![d] = NoUpload]
    /\ UNCHANGED <<stored, pending, version, poll, announcing, outbox, troubles>>

----------------------------------------------------------------------------
Tick ==
    /\ \E i \in DOMAIN pending : pending[i].age < Ttl
    /\ pending' = [i \in DOMAIN pending |->
                      [pending[i] EXCEPT !.age = IF @ < Ttl THEN @ + 1 ELSE @]]
    /\ UNCHANGED <<stored, version, poll, announcing, outbox, upload, troubles>>

\* Transfers and waiters are in memory; what the clients remember stays.
Restart ==
    /\ Trouble
    /\ pending' = [i \in {} |-> None]
    /\ version' = 0
    /\ poll' = [d \in Pollers |-> [poll[d] EXCEPT !.pc = "idle", !.woken = FALSE, !.found = {}]]
    /\ announcing' = [d \in Devices |-> NoAnnouncement]
    /\ upload' = [d \in Devices |->
                     IF upload[d].pc \in {"idle", "announce", "ready"} THEN upload[d]
                     ELSE [upload[d] EXCEPT !.pc = "failed", !.guard = FALSE]]
    /\ UNCHANGED <<stored, outbox>>

PollStep(d) ==
    PollStart(d) \/ Subscribe(d) \/ LookAtItems(d) \/ LookAtTransfers(d) \/ Wake(d)

AnnounceStep(d) == AnnounceItem(d) \/ AnnounceWakes(d)

UploadStep(d) ==
    \/ Announces(d) \/ Attempt(d) \/ Chunk(d) \/ ProgressWakes(d) \/ AddItem(d)
    \/ DropGuard(d) \/ DropWakes(d) \/ ItemWakes(d) \/ Retry(d)

Next ==
    \/ \E d \in Pollers : PollStep(d) \/ Deadline(d) \/ PollFails(d)
    \/ \E d \in Devices :
          \/ AnnounceStep(d) \/ UploadStep(d)
          \/ \E i \in Items : UploadStart(d, i)
          \/ AnnounceTimesOut(d) \/ Interrupted(d)
    \/ Tick \/ Restart

Spec == Init /\ [][Next]_vars

\* Threads run, clients poll again as soon as they are answered, and time
\* passes.  Deadlines are left out: a poll may not need one to be answered.
FairSpec ==
    /\ Spec
    /\ \A d \in Pollers : WF_vars(PollStep(d))
    /\ \A d \in Devices : WF_vars(AnnounceStep(d)) /\ WF_vars(UploadStep(d))
    /\ WF_vars(Tick)

----------------------------------------------------------------------------
\* A handler that changed the store or the transfers and has yet to wake.
WakeOwed ==
    \/ \E d \in Devices : upload[d].pc \in Owes \cup {"stored"}
    \/ \E d \in Devices : announcing[d].pc = "changed"

\* No lost wake-up: a poll that waits and has not been woken has seen all
\* there is, or some handler is about to wake it (app.rs:896 subscribes before
\* it looks; update_transfers and post_item wake after they change).  And the
\* state is typed.
NoLostWakeUp ==
    /\ TypeOK
    /\ \A d \in Pollers :
          poll[d].pc = "wait" /\ ~poll[d].woken =>
              \/ poll[d].cursor = stored /\ poll[d].seen = version
              \/ WakeOwed

\* An item that is stored reaches the page of every device's poll without
\* waiting for the poll's deadline (docs/PROTOCOL.md:270), if polls stop failing.
AnsweredInTime ==
    \A i \in Items, d \in Pollers : i \in stored ~> i \in poll[d].cursor

\* Whatever becomes of an upload, its transfer does not stay shown for ever:
\* the guard ends it, or it grows stale (app.rs:744, 220, 270).
TransfersEnd == \A i \in Items : i \in Shown ~> i \notin Shown

\* A device that shows a transfer that is over drops it in the end, if its
\* polls reach their deadlines: grown stale transfers change no version, and a
\* restarted server counts its versions from zero again (app.rs:270).
ViewsFollow ==
    (\A d \in Pollers : WF_vars(Deadline(d))) =>
        \A i \in Items, d \in Pollers :
            i \in poll[d].view /\ i \notin Shown ~> i \notin poll[d].view \/ i \in Shown
=============================================================================
