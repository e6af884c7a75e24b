--------------------------- MODULE LongPollProofs -----------------------------
(* No wake-up of a long poll is lost, for any devices, items, pieces, limits, *)
(* lost connections and restarts: what a poll has not seen, some handler has  *)
(* yet to tell it.                                                            *)
EXTENDS LongPoll, TLAPS

\* From its look on, a poll that has not been woken has missed nothing, unless
\* the handler that changed something is still about to wake it.
LookedInTime(d) ==
    ~poll[d].woken =>
        /\ poll[d].pc = "looked" => poll[d].found = stored \/ WakeOwed
        /\ poll[d].pc = "wait" =>
              (poll[d].cursor = stored /\ poll[d].seen = version) \/ WakeOwed

PollInv == TypeOK /\ \A d \in Pollers : LookedInTime(d)

\* The states of a device's upload.
Uploads == {NoUpload} \cup Uploading

Owing == Owes \cup {"stored"}

LEMMA PollInvInit == ASSUME Init PROVE PollInv
<1>1. NoPoll \in Polls
  BY DEF NoPoll, Polls
<1>3. TypeOK
  <2>1. pending \in [DOMAIN pending -> [received : 0 .. Chunks, age : 0 .. Ttl]] /\ DOMAIN pending \subseteq Items
    BY DEF Init
  <2>. QED BY <1>1, <2>1, LongPollConstants DEF Init, TypeOK, Announcements
<1>4. \A d \in Pollers : poll[d].pc = "idle"
  BY DEF Init, NoPoll
<1>. QED BY <1>3, <1>4 DEF PollInv, LookedInTime

----------------------------------------------------------------------------
\* The four ways in which a step can touch the invariant.

\* A poll moves: what matters is where it ends up.
LEMMA PollMoves ==
  ASSUME PollInv, NEW d \in Pollers, NEW p \in Polls,
         poll' = [poll EXCEPT ![d] = p],
         UNCHANGED <<stored, pending, version, announcing, outbox, upload>>,
         troubles' \in 0 .. MaxTroubles,
         ~p.woken => /\ p.pc = "looked" => p.found = stored \/ WakeOwed
                     /\ p.pc = "wait" => (p.cursor = stored /\ p.seen = version) \/ WakeOwed
  PROVE  PollInv'
<1>1. TypeOK'
  BY DEF PollInv, TypeOK
<1>2. WakeOwed' = WakeOwed
  BY DEF WakeOwed, Owes
<1>3. \A e \in Pollers : poll'[e] = IF e = d THEN p ELSE poll[e]
  BY DEF PollInv, TypeOK
<1>4. ASSUME NEW e \in Pollers PROVE LookedInTime(e)'
  BY <1>2, <1>3 DEF PollInv, LookedInTime
<1>. QED BY <1>1, <1>4 DEF PollInv

\* Nothing changes that a poll looks at, and no wake-up that is owed is dropped.
LEMMA QuietKeeps ==
  ASSUME PollInv, TypeOK', UNCHANGED <<stored, version, poll>>, WakeOwed => WakeOwed'
  PROVE  PollInv'
BY DEF PollInv, LookedInTime

\* Something changes, and the handler owes a wake-up for it.
LEMMA OwedKeeps ==
  ASSUME PollInv, TypeOK', UNCHANGED poll, WakeOwed'
  PROVE  PollInv'
BY DEF PollInv, LookedInTime

\* A wake-up reaches every poll that has subscribed.
LEMMA WakeKeeps ==
  ASSUME PollInv, WakeAll, UNCHANGED <<stored, pending, version>>,
         troubles' \in 0 .. MaxTroubles, outbox' \subseteq Items,
         upload' \in [Devices -> Uploads],
         announcing' \in [Devices -> Announcements]
  PROVE  PollInv'
<1>2. ASSUME NEW d \in Pollers
      PROVE  /\ poll'[d] \in Polls
             /\ poll'[d].pc = poll[d].pc
             /\ poll'[d].pc \in Subscribed => poll'[d].woken
  <2>. DEFINE w == poll[d].woken \/ poll[d].pc \in Subscribed
  <2>1. poll[d] \in Polls /\ poll[d].woken \in BOOLEAN
    BY DEF PollInv, TypeOK, Polls
  <2>2. w \in BOOLEAN /\ (poll[d].pc \in Subscribed => w = TRUE)
    BY <2>1
  <2>3. poll'[d] = [poll[d] EXCEPT !.woken = w]
    BY DEF WakeAll
  <2>. HIDE DEF w
  <2>4. /\ poll'[d] \in Polls
        /\ poll'[d].pc = poll[d].pc /\ poll'[d].woken = w
    BY <2>1, <2>2, <2>3 DEF Polls
  <2>. QED BY <2>2, <2>4
<1>3. poll' \in [Pollers -> Polls]
  BY <1>2 DEF WakeAll
<1>4. TypeOK'
  BY <1>3 DEF PollInv, TypeOK, Uploads
<1>. QED BY <1>2, <1>4 DEF PollInv, LookedInTime, Subscribed

\* One device's upload moves on, and pays no wake-up it owes.
LEMMA OwedStays ==
  ASSUME PollInv, NEW d \in Devices, NEW u \in Uploads,
         upload' = [upload EXCEPT ![d] = u],
         upload[d].pc \in Owing => u.pc \in Owing,
         \A e \in Devices : announcing[e].pc = "changed" => announcing'[e].pc = "changed"
  PROVE  WakeOwed => WakeOwed'
<1>1. \A e \in Devices : upload'[e] = IF e = d THEN u ELSE upload[e]
  BY DEF PollInv, TypeOK
<1>. QED BY <1>1 DEF WakeOwed, Owing

\* One device's upload comes to owe a wake-up.
LEMMA OwesNow ==
  ASSUME PollInv, NEW d \in Devices, NEW u \in Uploads,
         upload' = [upload EXCEPT ![d] = u], u.pc \in Owing
  PROVE  WakeOwed'
<1>1. upload'[d] = u
  BY DEF PollInv, TypeOK
<1>. QED BY <1>1 DEF WakeOwed, Owing

LEMMA UploadTyped ==
  ASSUME TypeOK, NEW d \in Devices
  PROVE  /\ upload[d] \in Uploads
         /\ \A u \in Uploads : [upload EXCEPT ![d] = u] \in [Devices -> Uploads]
BY DEF TypeOK, Uploads

\* An upload that has begun has an item.
LEMMA Busy ==
  ASSUME TypeOK, NEW d \in Devices, upload[d].pc # "idle"
  PROVE  upload[d] \in Uploading
BY DEF TypeOK, NoUpload

LEMMA TroubleTyped ==
  ASSUME TypeOK, Trouble
  PROVE  troubles' \in 0 .. MaxTroubles
BY LongPollConstants DEF TypeOK, Trouble

\* Each change of the transfers is typed and counts a version.
LEMMA AnnounceTyped ==
  ASSUME TypeOK, NEW i \in Items, Announce(i)
  PROVE  /\ DOMAIN pending' \subseteq Items
         /\ pending' \in [DOMAIN pending' -> [received : 0 .. Chunks, age : 0 .. Ttl]]
         /\ version' \in Nat
<1>1. PICK kept \in SUBSET DOMAIN pending :
          /\ pending' = [j \in kept \cup {i} |->
                            IF j = i THEN [received |-> 0, age |-> 0] ELSE pending[j]]
          /\ version' = version + 1
  BY DEF Announce, Change, Shown
<1>2. [received |-> 0, age |-> 0] \in [received : 0 .. Chunks, age : 0 .. Ttl]
  BY LongPollConstants
<1>. QED BY <1>1, <1>2 DEF TypeOK

LEMMA ProgressTyped ==
  ASSUME TypeOK, NEW i, NEW n \in 0 .. Chunks, Progress(i, n)
  PROVE  /\ DOMAIN pending' \subseteq Items
         /\ pending' \in [DOMAIN pending' -> [received : 0 .. Chunks, age : 0 .. Ttl]]
         /\ version' \in Nat
<1>1. /\ pending' = [j \in DOMAIN pending |->
                        IF j = i THEN [received |-> n, age |-> 0] ELSE pending[j]]
      /\ version' = version + 1
  BY DEF Progress, Change
<1>2. [received |-> n, age |-> 0] \in [received : 0 .. Chunks, age : 0 .. Ttl]
  BY LongPollConstants
<1>. QED BY <1>1, <1>2 DEF TypeOK

LEMMA FinishTyped ==
  ASSUME TypeOK, NEW i, FinishTransfer(i)
  PROVE  /\ DOMAIN pending' \subseteq Items
         /\ pending' \in [DOMAIN pending' -> [received : 0 .. Chunks, age : 0 .. Ttl]]
         /\ version' \in Nat
<1>1. /\ pending' = [j \in DOMAIN pending \ {i} |-> pending[j]]
      /\ version' = version + 1
  BY DEF FinishTransfer, Change, Restrict
<1>. QED BY <1>1 DEF TypeOK

----------------------------------------------------------------------------
\* The polls.

LEMMA PollStepKeeps ==
  ASSUME PollInv, NEW d \in Pollers, PollStep(d) \/ Deadline(d) \/ PollFails(d)
  PROVE  PollInv'
<1>1. TypeOK /\ poll[d] \in Polls /\ troubles \in 0 .. MaxTroubles /\ LookedInTime(d)
  BY DEF PollInv, TypeOK
<1>2. CASE PollStart(d)
  <2>. DEFINE p == [poll[d] EXCEPT !.pc = "subscribe", !.late = FALSE]
  <2>1. p \in Polls /\ p.pc = "subscribe"
    BY <1>1 DEF Polls
  <2>2. poll' = [poll EXCEPT ![d] = p] /\ UNCHANGED <<stored, pending, version, announcing, outbox, upload, troubles>>
    BY <1>2 DEF PollStart
  <2>. HIDE DEF p
  <2>. QED BY <1>1, <2>1, <2>2, PollMoves
<1>3. CASE Subscribe(d)
  <2>. DEFINE p == [poll[d] EXCEPT !.pc = "look", !.woken = FALSE]
  <2>1. p \in Polls /\ p.pc = "look"
    BY <1>1 DEF Polls, Subscribed
  <2>2. poll' = [poll EXCEPT ![d] = p] /\ UNCHANGED <<stored, pending, version, announcing, outbox, upload, troubles>>
    BY <1>3 DEF Subscribe
  <2>. HIDE DEF p
  <2>. QED BY <1>1, <2>1, <2>2, PollMoves
<1>4. CASE LookAtItems(d)
  <2>. DEFINE p == [poll[d] EXCEPT !.pc = "looked", !.found = stored]
  <2>1. p \in Polls /\ p.pc = "looked" /\ p.found = stored
    BY <1>1 DEF Polls, Subscribed, TypeOK
  <2>2. poll' = [poll EXCEPT ![d] = p] /\ UNCHANGED <<stored, pending, version, announcing, outbox, upload, troubles>>
    BY <1>4 DEF LookAtItems
  <2>. HIDE DEF p
  <2>. QED BY <1>1, <2>1, <2>2, PollMoves
<1>5. CASE LookAtTransfers(d) /\ MayAnswer(d)
  <2>. DEFINE p == [poll[d] EXCEPT !.pc = "idle", !.woken = FALSE, !.found = {},
                                   !.cursor = poll[d].found, !.seen = version,
                                   !.view = {i \in Shown : Owner[i] # d}]
  <2>1. p \in Polls /\ p.pc = "idle"
    <3>1. {i \in Shown : Owner[i] # d} \in SUBSET Items /\ version \in Nat
      BY <1>1 DEF Shown, TypeOK
    <3>. QED BY <1>1, <3>1 DEF Polls
  <2>2. poll' = [poll EXCEPT ![d] = p] /\ UNCHANGED <<stored, pending, version, announcing, outbox, upload, troubles>>
    BY <1>5 DEF LookAtTransfers, Answer
  <2>. HIDE DEF p
  <2>. QED BY <1>1, <2>1, <2>2, PollMoves
<1>6. CASE LookAtTransfers(d) /\ ~MayAnswer(d)
  <2>. DEFINE p == [poll[d] EXCEPT !.pc = "wait"]
  <2>1. /\ p \in Polls /\ p.pc = "wait" /\ p.woken = poll[d].woken
        /\ p.cursor = poll[d].cursor /\ p.seen = poll[d].seen
    BY <1>1 DEF Polls, Subscribed
  <2>2. poll' = [poll EXCEPT ![d] = p] /\ UNCHANGED <<stored, pending, version, announcing, outbox, upload, troubles>>
    BY <1>6 DEF LookAtTransfers, Wait
  <2>3. poll[d].pc = "looked" /\ poll[d].found = poll[d].cursor /\ poll[d].seen = version
    BY <1>6 DEF LookAtTransfers, MayAnswer, SomethingNew
  <2>4. ~p.woken => (p.cursor = stored /\ p.seen = version) \/ WakeOwed
    BY <1>1, <2>1, <2>3 DEF LookedInTime
  <2>. HIDE DEF p
  <2>. QED BY <1>1, <2>1, <2>2, <2>4, PollMoves
<1>7. CASE Wake(d)
  <2>. DEFINE p == [poll[d] EXCEPT !.pc = "subscribe"]
  <2>1. p \in Polls /\ p.pc = "subscribe"
    BY <1>1 DEF Polls
  <2>2. poll' = [poll EXCEPT ![d] = p] /\ UNCHANGED <<stored, pending, version, announcing, outbox, upload, troubles>>
    BY <1>7 DEF Wake
  <2>. HIDE DEF p
  <2>. QED BY <1>1, <2>1, <2>2, PollMoves
<1>8. CASE Deadline(d)
  <2>. DEFINE q == IF poll[d].pc = "wait" THEN "look" ELSE poll[d].pc
              p == [poll[d] EXCEPT !.late = TRUE, !.pc = q]
  <2>1. /\ p \in Polls /\ p.pc = q /\ p.woken = poll[d].woken /\ p.found = poll[d].found
    BY <1>1 DEF Polls, Subscribed
  <2>2. poll' = [poll EXCEPT ![d] = p] /\ UNCHANGED <<stored, pending, version, announcing, outbox, upload, troubles>>
    BY <1>8 DEF Deadline
  <2>3. q # "wait" /\ (q = "looked" => poll[d].pc = "looked")
    OBVIOUS
  <2>4. ~p.woken => (p.pc = "looked" => p.found = stored \/ WakeOwed)
    BY <1>1, <2>1, <2>3 DEF LookedInTime
  <2>. HIDE DEF p, q
  <2>. QED BY <1>1, <2>1, <2>2, <2>3, <2>4, PollMoves
<1>9. CASE PollFails(d)
  <2>. DEFINE p == [poll[d] EXCEPT !.pc = "idle", !.woken = FALSE, !.found = {}]
  <2>1. p \in Polls /\ p.pc = "idle"
    BY <1>1 DEF Polls
  <2>2. poll' = [poll EXCEPT ![d] = p] /\ UNCHANGED <<stored, pending, version, announcing, outbox, upload>>
    BY <1>9 DEF PollFails
  <2>3. troubles' \in 0 .. MaxTroubles
    BY <1>1, <1>9, TroubleTyped DEF PollFails
  <2>. HIDE DEF p
  <2>. QED BY <2>1, <2>2, <2>3, PollMoves
<1>. QED BY <1>2, <1>3, <1>4, <1>5, <1>6, <1>7, <1>8, <1>9 DEF PollStep

----------------------------------------------------------------------------
\* The announcements.


LEMMA UploadStartKeeps ==
  ASSUME PollInv, NEW d \in Devices, NEW i \in Items, UploadStart(d, i)
  PROVE  PollInv'
<1>. DEFINE u == [pc |-> "announce", item |-> i, guard |-> FALSE, done |-> 0, attempt |-> 0]
<1>1. TypeOK
  BY DEF PollInv
<1>2. u \in Uploads
  <2>1. 0 \in 0 .. Chunks /\ 0 \in Nat
    BY LongPollConstants
  <2>. QED BY <2>1 DEF Uploads, Uploading
<1>3. /\ upload[d].pc = "idle" /\ announcing[d].pc = "none"
      /\ upload' = [upload EXCEPT ![d] = u]
      /\ announcing' = [announcing EXCEPT ![d] = [pc |-> "sent", item |-> i]]
      /\ UNCHANGED <<stored, pending, version, poll, outbox, troubles>>
  BY DEF UploadStart
<1>. HIDE DEF u
<1>4. TypeOK'
  <2>1. upload' \in [Devices -> Uploads]
    BY <1>1, <1>2, <1>3, UploadTyped
  <2>2. announcing' \in [Devices -> Announcements]
    BY <1>1, <1>3 DEF TypeOK, Announcements
  <2>. QED BY <1>1, <1>3, <2>1, <2>2 DEF TypeOK, Uploads
<1>5. \A e \in Devices : announcing[e].pc = "changed" => announcing'[e].pc = "changed"
  BY <1>1, <1>3 DEF TypeOK
<1>6. WakeOwed => WakeOwed'
  BY <1>2, <1>3, <1>5, OwedStays DEF Owing, Owes
<1>. QED BY <1>3, <1>4, <1>6, QuietKeeps

LEMMA AnnounceStepKeeps ==
  ASSUME PollInv, NEW d \in Devices, AnnounceStep(d)
  PROVE  PollInv'
<1>1. TypeOK /\ announcing[d] \in Announcements
  BY DEF PollInv, TypeOK
<1>2. CASE AnnounceItem(d)
  <2>. DEFINE i == announcing[d].item
  <2>1. announcing[d].pc = "sent" /\ i \in Items
    BY <1>1, <1>2 DEF AnnounceItem, Announcements, NoAnnouncement
  <2>2. /\ announcing' = [announcing EXCEPT ![d] = [pc |-> "changed", item |-> i]]
        /\ UNCHANGED <<stored, poll, outbox, upload, troubles>>
        /\ Announce(i)
    <3>1. announcing[d] = [pc |-> "sent", item |-> i]
      BY <1>1, <2>1 DEF Announcements, NoAnnouncement
    <3>2. [announcing[d] EXCEPT !.pc = "changed"] = [pc |-> "changed", item |-> i]
      BY <3>1
    <3>. QED BY <1>2, <3>2 DEF AnnounceItem
  <2>. HIDE DEF i
  <2>3. announcing' \in [Devices -> Announcements] /\ announcing'[d].pc = "changed"
    BY <1>1, <2>1, <2>2 DEF TypeOK, Announcements
  <2>4. /\ DOMAIN pending' \subseteq Items
        /\ pending' \in [DOMAIN pending' -> [received : 0 .. Chunks, age : 0 .. Ttl]]
        /\ version' \in Nat
    BY <1>1, <2>1, <2>2, AnnounceTyped
  <2>5. TypeOK'
    BY <1>1, <2>2, <2>3, <2>4 DEF TypeOK
  <2>6. WakeOwed'
    BY <2>3 DEF WakeOwed
  <2>. QED BY <2>2, <2>5, <2>6, OwedKeeps
<1>3. CASE AnnounceWakes(d)
  <2>1. /\ announcing' = [announcing EXCEPT ![d] = NoAnnouncement]
        /\ WakeAll
        /\ UNCHANGED <<stored, pending, version, upload, outbox, troubles>>
    BY <1>3 DEF AnnounceWakes
  <2>2. announcing' \in [Devices -> Announcements]
    BY <1>1, <2>1 DEF TypeOK, Announcements
  <2>. QED BY <1>1, <2>1, <2>2, WakeKeeps DEF TypeOK, Uploads
<1>. QED BY <1>2, <1>3 DEF AnnounceStep

----------------------------------------------------------------------------
\* The uploads.  Only the handler that owes a wake-up pays it.

LEMMA UploadQuiet ==
  ASSUME PollInv, NEW d \in Devices, NEW u \in Uploads,
         upload' = [upload EXCEPT ![d] = u],
         upload[d].pc \in Owing => u.pc \in Owing,
         UNCHANGED <<stored, pending, version, poll, announcing, outbox>>,
         troubles' \in 0 .. MaxTroubles
  PROVE  PollInv'
<1>1. TypeOK'
  BY UploadTyped DEF PollInv, TypeOK, Uploads
<1>2. WakeOwed => WakeOwed'
  BY OwedStays
<1>. QED BY <1>1, <1>2, QuietKeeps

LEMMA UploadOwes ==
  ASSUME PollInv, NEW d \in Devices, NEW u \in Uploads,
         upload' = [upload EXCEPT ![d] = u], u.pc \in Owing,
         UNCHANGED <<poll, announcing, outbox, troubles>>,
         stored' \subseteq Items,
         DOMAIN pending' \subseteq Items,
         pending' \in [DOMAIN pending' -> [received : 0 .. Chunks, age : 0 .. Ttl]],
         version' \in Nat
  PROVE  PollInv'
<1>1. TypeOK'
  BY UploadTyped DEF PollInv, TypeOK, Uploads
<1>2. WakeOwed'
  BY OwesNow
<1>. QED BY <1>1, <1>2, OwedKeeps

LEMMA UploadWakes ==
  ASSUME PollInv, NEW d \in Devices, NEW u \in Uploads,
         upload' = [upload EXCEPT ![d] = u], WakeAll,
         UNCHANGED <<stored, pending, version, announcing>>,
         outbox' \subseteq Items, troubles' \in 0 .. MaxTroubles
  PROVE  PollInv'
<1>1. upload' \in [Devices -> Uploads] /\ announcing' \in [Devices -> Announcements]
  BY UploadTyped DEF PollInv, TypeOK, Uploads
<1>. QED BY <1>1, WakeKeeps

\* The client's side: announcing, trying and giving up.
LEMMA ClientKeeps ==
  ASSUME PollInv, NEW d \in Devices,
         Announces(d) \/ AnnounceTimesOut(d) \/ Attempt(d) \/ Interrupted(d) \/ Retry(d)
  PROVE  PollInv'
<1>1. TypeOK /\ upload[d] \in Uploading /\ troubles \in 0 .. MaxTroubles
  <2>1. upload[d].pc # "idle"
    BY DEF Announces, AnnounceTimesOut, Attempt, Interrupted, Retry
  <2>. QED BY <2>1, Busy DEF PollInv, TypeOK
<1>2. CASE Announces(d)
  <2>. DEFINE u == [upload[d] EXCEPT !.pc = "ready", !.attempt = 1]
  <2>1. u \in Uploads
    BY <1>1 DEF Uploads, Uploading
  <2>2. /\ upload' = [upload EXCEPT ![d] = u] /\ upload[d].pc \notin Owing
        /\ UNCHANGED <<stored, pending, version, poll, announcing, outbox, troubles>>
    BY <1>2 DEF Announces, Owing, Owes
  <2>. HIDE DEF u
  <2>. QED BY <1>1, <2>1, <2>2, UploadQuiet
<1>3. CASE AnnounceTimesOut(d)
  <2>. DEFINE u == [upload[d] EXCEPT !.pc = "ready", !.attempt = 1]
  <2>1. u \in Uploads
    BY <1>1 DEF Uploads, Uploading
  <2>2. /\ upload' = [upload EXCEPT ![d] = u] /\ upload[d].pc \notin Owing
        /\ UNCHANGED <<stored, pending, version, poll, outbox>>
        /\ \/ announcing' = announcing
           \/ /\ announcing[d].pc = "sent"
              /\ announcing' = [announcing EXCEPT ![d] = NoAnnouncement]
    BY <1>3 DEF AnnounceTimesOut, Owing, Owes
  <2>3. troubles' \in 0 .. MaxTroubles
    BY <1>1, <1>3, TroubleTyped DEF AnnounceTimesOut
  <2>. HIDE DEF u
  <2>4. announcing' \in [Devices -> Announcements]
    BY <1>1, <2>2 DEF TypeOK, Announcements
  <2>5. \A e \in Devices : announcing[e].pc = "changed" => announcing'[e].pc = "changed"
    BY <1>1, <2>2 DEF TypeOK
  <2>6. TypeOK'
    BY <1>1, <2>1, <2>2, <2>3, <2>4, UploadTyped DEF TypeOK, Uploads
  <2>7. WakeOwed => WakeOwed'
    BY <2>1, <2>2, <2>5, OwedStays
  <2>. QED BY <2>2, <2>6, <2>7, QuietKeeps
<1>4. CASE Attempt(d)
  <2>. DEFINE u == [upload[d] EXCEPT !.pc = "body", !.guard = FALSE, !.done = 0]
  <2>0. 0 \in 0 .. Chunks
    BY LongPollConstants
  <2>1. u \in Uploads
    BY <1>1, <2>0 DEF Uploads, Uploading
  <2>2. /\ upload' = [upload EXCEPT ![d] = u] /\ upload[d].pc \notin Owing
        /\ UNCHANGED <<stored, pending, version, poll, announcing, outbox, troubles>>
    BY <1>4 DEF Attempt, Owing, Owes
  <2>. HIDE DEF u
  <2>. QED BY <1>1, <2>1, <2>2, UploadQuiet
<1>5. CASE Interrupted(d)
  <2>. DEFINE u == [upload[d] EXCEPT !.pc = "broken"]
  <2>1. u \in Uploads
    BY <1>1 DEF Uploads, Uploading
  <2>2. /\ upload' = [upload EXCEPT ![d] = u] /\ upload[d].pc \notin Owing
        /\ UNCHANGED <<stored, pending, version, poll, announcing, outbox>>
    BY <1>5 DEF Interrupted, Owing, Owes
  <2>3. troubles' \in 0 .. MaxTroubles
    BY <1>1, <1>5, TroubleTyped DEF Interrupted
  <2>. HIDE DEF u
  <2>. QED BY <2>1, <2>2, <2>3, UploadQuiet
<1>6. CASE Retry(d)
  <2>. DEFINE n == upload[d].attempt + 1
              u == [upload[d] EXCEPT !.pc = "ready", !.attempt = n]
  <2>0. n \in Nat
    BY <1>1 DEF Uploads, Uploading
  <2>1. u \in Uploads
    <3>. HIDE DEF n
    <3>. QED BY <1>1, <2>0 DEF Uploads, Uploading
  <2>2. /\ upload' = [upload EXCEPT ![d] = u] \/ upload' = [upload EXCEPT ![d] = NoUpload]
        /\ upload[d].pc \notin Owing
        /\ UNCHANGED <<stored, pending, version, poll, announcing, outbox, troubles>>
    BY <1>6 DEF Retry, Owing, Owes
  <2>. HIDE DEF u
  <2>. QED BY <1>1, <2>1, <2>2, UploadQuiet DEF Uploads
<1>. QED BY <1>2, <1>3, <1>4, <1>5, <1>6

LEMMA ChunkKeeps ==
  ASSUME PollInv, NEW d \in Devices, Chunk(d)
  PROVE  PollInv'
<1>. DEFINE i == upload[d].item
            guard == upload[d].guard \/ IsAnnounced(i)
            n == upload[d].done + 1
            v == [upload[d] EXCEPT !.pc = "progressed", !.guard = guard, !.done = n]
            u == [upload[d] EXCEPT !.guard = guard, !.done = n]
<1>1. TypeOK /\ upload[d] \in Uploading /\ troubles \in 0 .. MaxTroubles
  <2>1. upload[d].pc # "idle"
    BY DEF Chunk
  <2>. QED BY <2>1, Busy DEF PollInv, TypeOK
<1>2. n \in 0 .. Chunks /\ upload[d].pc = "body"
  BY <1>1, LongPollConstants DEF Chunk, Uploading
<1>3. guard \in BOOLEAN
  BY <1>1 DEF Uploads, Uploading
<1>4. /\ \/ upload' = [upload EXCEPT ![d] = v] /\ Progress(i, n)
         \/ upload' = [upload EXCEPT ![d] = u] /\ UNCHANGED <<pending, version>>
      /\ UNCHANGED <<stored, poll, announcing, outbox, troubles>>
  BY DEF Chunk
<1>. HIDE DEF guard, n, i
<1>5. v \in Uploads /\ v.pc = "progressed" /\ u \in Uploads /\ u.pc = "body"
  BY <1>1, <1>2, <1>3 DEF Uploads, Uploading, Owes
<1>. HIDE DEF u, v
<1>6. CASE upload' = [upload EXCEPT ![d] = v] /\ Progress(i, n)
  <2>1. /\ DOMAIN pending' \subseteq Items
        /\ pending' \in [DOMAIN pending' -> [received : 0 .. Chunks, age : 0 .. Ttl]]
        /\ version' \in Nat
    BY <1>1, <1>2, <1>6, ProgressTyped
  <2>2. stored' \subseteq Items /\ v.pc \in Owing
    BY <1>1, <1>4, <1>5 DEF TypeOK, Owing, Owes
  <2>. QED BY <1>4, <1>5, <1>6, <2>1, <2>2, UploadOwes
<1>7. CASE upload' = [upload EXCEPT ![d] = u] /\ UNCHANGED <<pending, version>>
  <2>1. upload[d].pc \notin Owing
    BY <1>2 DEF Owing, Owes
  <2>. QED BY <1>1, <1>4, <1>5, <1>7, <2>1, UploadQuiet
<1>. QED BY <1>4, <1>6, <1>7

LEMMA AddItemKeeps ==
  ASSUME PollInv, NEW d \in Devices, AddItem(d)
  PROVE  PollInv'
<1>. DEFINE i == upload[d].item
            u == [upload[d] EXCEPT !.pc = "stored"]
<1>1. TypeOK /\ upload[d] \in Uploading
  BY Busy DEF PollInv, AddItem
<1>2. u \in Uploads /\ u.pc \in Owing /\ i \in Items
  BY <1>1 DEF Uploads, Uploading, Owing
<1>3. /\ upload' = [upload EXCEPT ![d] = u]
      /\ stored' = stored \cup {i}
      /\ UNCHANGED <<pending, version, poll, announcing, outbox, troubles>>
  BY DEF AddItem
<1>. HIDE DEF u, i
<1>4. stored' \subseteq Items
  BY <1>1, <1>2, <1>3 DEF TypeOK
<1>. QED BY <1>1, <1>2, <1>3, <1>4, UploadOwes DEF TypeOK

LEMMA DropGuardKeeps ==
  ASSUME PollInv, NEW d \in Devices, DropGuard(d)
  PROVE  PollInv'
<1>1. TypeOK /\ upload[d] \in Uploading /\ upload[d].pc \in {"stored", "broken"}
  BY Busy DEF PollInv, DropGuard
<1>2. CASE upload[d].guard
  <2>. DEFINE q == IF upload[d].pc = "stored" THEN "ending" ELSE "breaking"
              u == [upload[d] EXCEPT !.pc = q]
  <2>1. u \in Uploads /\ u.pc \in Owing
    BY <1>1 DEF Uploads, Uploading, Owing, Owes
  <2>2. /\ upload' = [upload EXCEPT ![d] = u]
        /\ FinishTransfer(upload[d].item)
        /\ UNCHANGED <<stored, poll, announcing, outbox, troubles>>
    BY <1>2 DEF DropGuard
  <2>. HIDE DEF u
  <2>3. /\ DOMAIN pending' \subseteq Items
        /\ pending' \in [DOMAIN pending' -> [received : 0 .. Chunks, age : 0 .. Ttl]]
        /\ version' \in Nat
    BY <1>1, <2>2, FinishTyped
  <2>. QED BY <1>1, <2>1, <2>2, <2>3, UploadOwes DEF TypeOK
<1>3. CASE ~upload[d].guard
  <2>. DEFINE q == IF upload[d].pc = "stored" THEN "notify" ELSE "failed"
              u == [upload[d] EXCEPT !.pc = q]
  <2>1. u \in Uploads /\ u.pc = q
    BY <1>1 DEF Uploads, Uploading, Owes
  <2>2. /\ upload' = [upload EXCEPT ![d] = u]
        /\ UNCHANGED <<stored, pending, version, poll, announcing, outbox, troubles>>
    BY <1>3 DEF DropGuard
  <2>3. upload[d].pc \in Owing => u.pc \in Owing
    BY <1>1, <2>1 DEF Owing, Owes
  <2>. HIDE DEF u
  <2>. QED BY <1>1, <2>1, <2>2, <2>3, UploadQuiet DEF TypeOK
<1>. QED BY <1>2, <1>3

\* The three wake-ups of an upload.
LEMMA WakesKeep ==
  ASSUME PollInv, NEW d \in Devices, ProgressWakes(d) \/ DropWakes(d) \/ ItemWakes(d)
  PROVE  PollInv'
<1>1. TypeOK /\ upload[d] \in Uploading
  BY Busy DEF PollInv, ProgressWakes, DropWakes, ItemWakes
<1>2. CASE ProgressWakes(d)
  <2>. DEFINE u == [upload[d] EXCEPT !.pc = "body"]
  <2>1. u \in Uploads
    BY <1>1 DEF Uploads, Uploading
  <2>2. /\ upload' = [upload EXCEPT ![d] = u] /\ WakeAll
        /\ UNCHANGED <<stored, pending, version, announcing, outbox, troubles>>
    BY <1>2 DEF ProgressWakes
  <2>. HIDE DEF u
  <2>. QED BY <1>1, <2>1, <2>2, UploadWakes DEF TypeOK
<1>3. CASE DropWakes(d)
  <2>. DEFINE q == IF upload[d].pc = "ending" THEN "notify" ELSE "failed"
              u == [upload[d] EXCEPT !.pc = q]
  <2>1. u \in Uploads
    BY <1>1 DEF Uploads, Uploading, Owes
  <2>2. /\ upload' = [upload EXCEPT ![d] = u] /\ WakeAll
        /\ UNCHANGED <<stored, pending, version, announcing, outbox, troubles>>
    BY <1>3 DEF DropWakes
  <2>. HIDE DEF u
  <2>. QED BY <1>1, <2>1, <2>2, UploadWakes DEF TypeOK
<1>4. CASE ItemWakes(d)
  <2>. DEFINE u == [upload[d] EXCEPT !.pc = "failed"]
  <2>1. u \in Uploads /\ NoUpload \in Uploads
    BY <1>1 DEF Uploads, Uploading
  <2>2. /\ upload' = [upload EXCEPT ![d] = u] \/ upload' = [upload EXCEPT ![d] = NoUpload]
        /\ WakeAll
        /\ UNCHANGED <<stored, pending, version, announcing>>
        /\ outbox' \subseteq outbox
        /\ Trouble \/ UNCHANGED troubles
    BY <1>4 DEF ItemWakes
  <2>. HIDE DEF u
  <2>3. outbox' \subseteq Items /\ troubles' \in 0 .. MaxTroubles
    BY <1>1, <2>2, TroubleTyped DEF TypeOK
  <2>. QED BY <2>1, <2>2, <2>3, UploadWakes
<1>. QED BY <1>2, <1>3, <1>4

----------------------------------------------------------------------------
LEMMA TickKeeps ==
  ASSUME PollInv, Tick
  PROVE  PollInv'
<1>1. TypeOK /\ UNCHANGED <<stored, version, poll, announcing, outbox, upload, troubles>>
  BY DEF PollInv, Tick
<1>2. /\ DOMAIN pending' = DOMAIN pending
      /\ pending' \in [DOMAIN pending -> [received : 0 .. Chunks, age : 0 .. Ttl]]
  <2>1. ASSUME NEW i \in DOMAIN pending
        PROVE  pending'[i] \in [received : 0 .. Chunks, age : 0 .. Ttl]
    <3>. DEFINE a == IF pending[i].age < Ttl THEN pending[i].age + 1 ELSE pending[i].age
    <3>1. pending[i] \in [received : 0 .. Chunks, age : 0 .. Ttl]
      BY <1>1 DEF TypeOK
    <3>2. a \in 0 .. Ttl
      BY <3>1, LongPollConstants
    <3>3. pending'[i] = [pending[i] EXCEPT !.age = a]
      BY DEF Tick
    <3>. HIDE DEF a
    <3>. QED BY <3>1, <3>2, <3>3
  <2>. QED BY <2>1 DEF Tick
<1>3. TypeOK'
  BY <1>1, <1>2 DEF TypeOK
<1>4. WakeOwed' = WakeOwed
  BY <1>1 DEF WakeOwed, Owes
<1>. QED BY <1>1, <1>3, <1>4, QuietKeeps

LEMMA RestartKeeps ==
  ASSUME PollInv, Restart
  PROVE  PollInv'
<1>1. TypeOK
  BY DEF PollInv
<1>2. /\ pending' = [i \in {} |-> None] /\ version' = 0
      /\ announcing' = [d \in Devices |-> NoAnnouncement]
      /\ UNCHANGED <<stored, outbox>>
  BY DEF Restart
<1>3. ASSUME NEW d \in Pollers
      PROVE  poll'[d] \in Polls /\ poll'[d].pc = "idle"
  <2>1. poll[d] \in Polls
    BY <1>1 DEF TypeOK
  <2>2. poll'[d] = [poll[d] EXCEPT !.pc = "idle", !.woken = FALSE, !.found = {}]
    BY DEF Restart
  <2>. QED BY <2>1, <2>2 DEF Polls
<1>4. ASSUME NEW d \in Devices
      PROVE  upload'[d] \in Uploads
  <2>1. CASE upload[d].pc \in {"idle", "announce", "ready"}
    BY <1>1, <2>1 DEF Restart, TypeOK, Uploads
  <2>2. CASE upload[d].pc \notin {"idle", "announce", "ready"}
    <3>1. upload[d] \in Uploading
      BY <1>1, <2>2, Busy
    <3>2. upload'[d] = [upload[d] EXCEPT !.pc = "failed", !.guard = FALSE]
      BY <2>2 DEF Restart
    <3>. QED BY <3>1, <3>2 DEF Uploads, Uploading
  <2>. QED BY <2>1, <2>2
<1>5. TypeOK'
  <2>1. poll' \in [Pollers -> Polls] /\ upload' \in [Devices -> {NoUpload} \cup Uploading]
    BY <1>3, <1>4 DEF Restart, Uploads
  <2>2. troubles' \in 0 .. MaxTroubles
    BY <1>1, TroubleTyped DEF Restart
  <2>3. /\ DOMAIN pending' \subseteq Items
        /\ pending' \in [DOMAIN pending' -> [received : 0 .. Chunks, age : 0 .. Ttl]]
    BY <1>2
  <2>. QED BY <1>1, <1>2, <2>1, <2>2, <2>3 DEF TypeOK, Announcements
<1>. QED BY <1>3, <1>5 DEF PollInv, LookedInTime

LEMMA PollInvStep ==
  ASSUME PollInv, [Next]_vars
  PROVE  PollInv'
<1>1. CASE \E d \in Pollers : PollStep(d) \/ Deadline(d) \/ PollFails(d)
  BY <1>1, PollStepKeeps
<1>2. ASSUME NEW d \in Devices, UploadStep(d)
      PROVE  PollInv'
  BY <1>2, ClientKeeps, ChunkKeeps, AddItemKeeps, DropGuardKeeps, WakesKeep DEF UploadStep
<1>3. ASSUME NEW d \in Devices, AnnounceTimesOut(d) \/ Interrupted(d)
      PROVE  PollInv'
  BY <1>3, ClientKeeps
<1>4. CASE UNCHANGED vars
  BY <1>4 DEF PollInv, TypeOK, LookedInTime, WakeOwed, Owes, vars
<1>. QED
  BY <1>1, <1>2, <1>3, <1>4, AnnounceStepKeeps, UploadStartKeeps, TickKeeps, RestartKeeps,
     ZenonT(60) DEF Next

\* The order in which handlers look, subscribe, change and wake (app.rs:205,
\* 809, 903) keeps the inductive invariant.
THEOREM PollInvariant == Spec => []PollInv
<1>1. Init => PollInv
  BY PollInvInit
<1>2. PollInv /\ [Next]_vars => PollInv'
  BY PollInvStep
<1>. QED BY <1>1, <1>2, PTL DEF Spec

\* A poll that waits has seen all there is, or somebody is about to wake it.
THEOREM WakeUpsArrive == Spec => []NoLostWakeUp
<1>1. PollInv => NoLostWakeUp
  BY DEF PollInv, NoLostWakeUp, LookedInTime
<1>. QED BY <1>1, PollInvariant, PTL
=============================================================================
