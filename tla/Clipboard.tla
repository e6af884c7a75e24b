------------------------------ MODULE Clipboard ------------------------------
(***************************************************************************)
(* One device between its clipboard history and its account: what the      *)
(* daemon takes for new local copies (PastazzoStore::poll in               *)
(* crates/pastazzo-sync/src/clipboard.rs, Shared::is_echo in daemon.rs),   *)
(* and how it keeps the items it receives (handle). The history is a       *)
(* directory that the desktop writes to on its own, through                *)
(* `pastazzo add` (crates/pastazzo/src/main.rs).                           *)
(*                                                                         *)
(* The two threads of the daemon share the clipboard's lock, the map of    *)
(* received contents and last_applied. An upload blocks the polling thread *)
(* for as long as it takes: that of a new copy (send), and those of every  *)
(* copy still in the outbox, again, before a poll (flush_outbox).          *)
(***************************************************************************)
EXTENDS Naturals, Sequences, FiniteSetsExt, SequencesExt

CONSTANTS
  Texts,        \* contents that people copy
  Blank,        \* the empty text
  Clear,        \* the content of a "clear history" item
  Feed,         \* what the other devices send, in the server's order
  EchoWindow,   \* ECHO_WINDOW, in ticks
  MaxSkew,      \* MAX_CLOCK_SKEW_MS, in ticks
  SendTicks,    \* bound: ticks one upload takes at most, with its attempts
  MaxCopies,    \* bound: copies made on this device
  MaxNow,       \* bound: ticks of the clock
  MaxFaults,    \* bound: calls that fail
  MaxRestarts   \* bound: restarts of the daemon

ASSUME ClipboardAssumption ==
  /\ Blank \notin Texts /\ Clear \notin Texts \cup {Blank}
  /\ Feed \in Seq([content: Texts \cup {Blank, Clear}, created: Nat \ {0}])
  /\ EchoWindow \in Nat /\ MaxSkew \in Nat /\ SendTicks \in Nat
  /\ MaxCopies \in Nat /\ MaxNow \in Nat
  /\ MaxFaults \in Nat /\ MaxRestarts \in Nat

VARIABLES
  history,      \* disk: the files of items/, named by a timestamp
  saved,        \* disk: how much of Feed the cursor in sync.json covers
  known,        \* PastazzoStore::known: names seen by the last poll
  copies,       \* what the last poll read and is not looked at yet
  sending,      \* when the upload in progress began, {} if there is none
  queued,       \* disk: how many sealed copies are in the outbox
  phase,        \* "flush" from the start of flush_outbox to the poll after it
  listed,       \* how many of the queued copies it has still to come to
  echoUntil,    \* Shared::received: when an entry of a content goes stale
  lastApplied,  \* Shared::last_applied
  at,           \* how much of Feed is handled
  step,         \* what handle is at
  apply,        \* whether the item being handled goes on the clipboard
  shown,        \* history: items put on the clipboard, in order
  sent,         \* history: what was sent, and where it came from
  polled,       \* history: the last name a poll returned
  made,         \* history: copies made on this device
  now, stamps, restarts, faults

diskVars == <<history, saved>>
senderVars == <<known, copies, sending, queued, phase, listed, sent, polled>>
receiverVars == <<echoUntil, lastApplied, at, step, apply, shown>>
counters == <<made, now, stamps, restarts, faults>>
vars == <<diskVars, senderVars, receiverVars, counters>>

Contents == Texts \cup {Blank}
File ==
  [stamp: Nat \ {0}, content: Contents, full: BOOLEAN, from: {"user", "feed"}]

TypeOK ==
  /\ history \subseteq File /\ saved \in 0..Len(Feed)
  /\ known \subseteq Nat
  /\ copies \subseteq File
  /\ sent \subseteq [content: Contents, from: {"user", "feed"}]
  /\ sending \subseteq Nat /\ Cardinality(sending) <= 1
  /\ queued \in Nat /\ phase \in {"poll", "flush"} /\ listed \in Nat
  /\ echoUntil \in [Contents -> Nat]
  /\ lastApplied \in Nat /\ at \in 0..Len(Feed)
  /\ step \in {"idle", "noted", "added", "shown"} /\ apply \in BOOLEAN
  /\ shown \in Seq(1..Len(Feed))
  /\ polled \in Nat /\ made \in Nat /\ now \in Nat /\ stamps \in Nat
  /\ restarts \in Nat /\ faults \in Nat

Init ==
  /\ history = {} /\ saved = 0
  /\ known = {} /\ copies = {} /\ sending = {}
  /\ queued = 0 /\ phase = "poll" /\ listed = 0
  /\ echoUntil = [c \in Contents |-> 0]
  /\ lastApplied = 0 /\ at = 0 /\ step = "idle" /\ apply = FALSE
  /\ shown = <<>> /\ sent = {} /\ polled = 0 /\ made = 0
  /\ now = 1 /\ stamps = 0 /\ restarts = 0 /\ faults = 0

OneFault == faults < MaxFaults /\ faults' = faults + 1

Names(files) == {f.stamp : f \in files}

Oldest(files) == CHOOSE f \in files : \A g \in files : f.stamp <= g.stamp
-----------------------------------------------------------------------------
(* The history: add_from_stdin and its siblings *)

Others(content) == {f \in history : f.content # content}

\* A file is named after the millisecond and its content's hash; an older file
\* of the same content goes.
Write(content, full, from) ==
  /\ stamps' = stamps + 1
  /\ history' = Others(content) \cup
       {[stamp |-> stamps', content |-> content, full |-> full, from |-> from]}

\* Someone copies; the desktop runs `pastazzo add`. The file is created first
\* and written next, with no lock and under its own name.
UserCopies(content) ==
  /\ made < MaxCopies
  /\ made' = made + 1
  /\ \A f \in history : f.full
  /\ Write(content, FALSE, "user")
  /\ UNCHANGED <<saved, senderVars, receiverVars, now, restarts, faults>>

Written ==
  /\ \E f \in history : ~ f.full
  /\ history' = {[f EXCEPT !.full = TRUE] : f \in history}
  /\ UNCHANGED <<saved, senderVars, receiverVars, counters>>
-----------------------------------------------------------------------------
(* The sending thread: send_new_copies *)

\* 30 seconds after the last time at the earliest, so at most once before a
\* poll: what is queued is listed, to be uploaded again.
Flush ==
  /\ phase = "poll" /\ copies = {} /\ sending = {} /\ queued > 0
  /\ phase' = "flush" /\ listed' = queued
  /\ UNCHANGED <<diskVars, known, copies, sending, queued, sent, polled, receiverVars,
                 counters>>

\* The next of them. A clear may have taken the files away since.
FlushNext ==
  /\ phase = "flush" /\ sending = {} /\ listed > 0
  /\ listed' = listed - 1
  /\ sending' = IF queued > 0 THEN {now} ELSE {}
  /\ UNCHANGED <<diskVars, known, copies, queued, phase, sent, polled, receiverVars,
                 counters>>

\* A file that is not written yet reads as an empty one.
Read(f) == IF f.full THEN f ELSE [f EXCEPT !.content = Blank]

\* The clipboard's lock is the receiver's from apply to first_sight.
LockFree == step \in {"idle", "noted"}

\* Mutant: only the names found last time.
KnownFromPoll == {n \in Names(history) : n \notin known}

KnownNow == Names(history)

Poll ==
  /\ LockFree /\ copies = {} /\ sending = {}
  /\ IF phase = "flush" THEN listed = 0 ELSE Names(history) # known
  /\ LET new == {f \in history : f.stamp \notin known}
     IN /\ copies' = {Read(f) : f \in new}
        /\ polled' = Max(Names(new) \cup {polled})
  /\ known' = KnownNow
  /\ phase' = "poll"
  /\ UNCHANGED <<diskVars, sending, queued, listed, sent, receiverVars, counters>>

\* Mutant: an entry counts for a tick less than the window.
IsEchoShort(content) == now + 1 < echoUntil[content]

IsEcho(content) == now < echoUntil[content]

\* Sealed and queued, and its upload begun, unless the ledger cannot be written:
\* a flush sends it then.
Send(f) ==
  /\ sent' = sent \cup {[content |-> f.content, from |-> f.from]}
  /\ queued' = queued + 1
  /\ \/ sending' = {now} /\ UNCHANGED faults
     \/ OneFault /\ UNCHANGED sending

Skip == UNCHANGED <<sending, sent, queued>>

\* The next copy: dropped when it echoes something received, sent otherwise. One
\* that cannot be queued is lost.
NextCopy ==
  /\ copies # {} /\ sending = {}
  /\ LET f == Oldest(copies)
     IN /\ copies' = copies \ {f}
        /\ \/ IsEcho(f.content) /\ Skip /\ UNCHANGED faults
           \/ ~ IsEcho(f.content) /\ Send(f)
           \/ ~ IsEcho(f.content) /\ Skip /\ OneFault
  /\ UNCHANGED <<diskVars, known, phase, listed, polled, receiverVars, made, now,
                 stamps, restarts>>

\* The upload is over. A copy that was sent leaves the outbox, if a clear has
\* not removed it; one that was not stays, and a flush goes no further.
SendEnds ==
  /\ sending # {}
  /\ sending' = {}
  /\ \/ queued' = Max({queued - 1, 0}) /\ UNCHANGED listed
     \/ listed' = 0 /\ UNCHANGED queued
  /\ UNCHANGED <<diskVars, known, copies, phase, sent, polled, receiverVars,
                 counters>>
-----------------------------------------------------------------------------
(* The receiving thread: handle *)

Current == Feed[at + 1]

\* Mutant: whatever comes last wins.
FreshAlways(item) == item.created <= now + MaxSkew

Fresh(item) == item.created > lastApplied /\ item.created <= now + MaxSkew

\* Under the lock of `shared`: the content is noted as received, and whether
\* it goes on the clipboard is settled.
Note ==
  /\ step = "idle" /\ at < Len(Feed) /\ Current.content # Clear
  /\ echoUntil' = [echoUntil EXCEPT ![Current.content] = now + EchoWindow]
  /\ apply' = Fresh(Current)
  /\ lastApplied' = IF Fresh(Current) THEN Current.created ELSE lastApplied
  /\ step' = "noted"
  /\ UNCHANGED <<diskVars, senderVars, at, shown, counters>>

\* add_to_history, with the clipboard's lock. `pastazzo add` keeps no text
\* that is only whitespace, and says it went well.
Add ==
  /\ step = "noted"
  /\ IF Current.content = Blank
     THEN UNCHANGED <<history, stamps>>
     ELSE Write(Current.content, TRUE, "feed")
  /\ step' = "added"
  /\ UNCHANGED <<saved, senderVars, echoUntil, lastApplied, at, apply, shown, made,
                 now, restarts, faults>>

\* send_to_extension: the clipboard changes.
Show ==
  /\ step = "added" /\ apply
  /\ shown' = Append(shown, at + 1)
  /\ step' = "shown"
  /\ UNCHANGED <<diskVars, senderVars, echoUntil, lastApplied, at, apply, counters>>


\* What link_sync looks for.
InHistory(content) == \E f \in history : f.content = content /\ f.full

\* Mutant: what only goes to the history is not accounted for.
OnClipboard == step = "shown"

Delivered == step = "shown" \/ (step = "added" /\ ~ apply)

\* link_sync, delivery.received and first_sight.
Keep ==
  /\ Delivered
  /\ InHistory(Current.content)
  /\ at' = at + 1
  /\ step' = "idle"
  /\ UNCHANGED <<diskVars, senderVars, echoUntil, lastApplied, apply, shown, counters>>

\* An error ends handle where it is; receive_forever asks for the page again.
HandleFails ==
  /\ step # "idle"
  /\ IF step \in {"added", "shown"} /\ ~ InHistory(Current.content)
     THEN UNCHANGED faults
     ELSE OneFault
  /\ step' = "idle"
  /\ UNCHANGED <<diskVars, senderVars, echoUntil, lastApplied, at, apply, shown,
                 made, now, stamps, restarts>>

\* remove_outbox and clear_history. When `pastazzo clear` ran and failed, `known`
\* is emptied though files are left; the ledger's clear may fail after it.
HandleClear ==
  /\ step = "idle" /\ at < Len(Feed) /\ Current.content = Clear
  /\ \/ /\ queued' = 0 /\ known' = {} /\ history' = {}
        /\ at' = at + 1
        /\ UNCHANGED faults
     \/ /\ OneFault /\ UNCHANGED at
        /\ \/ queued' \in 0..queued /\ UNCHANGED <<known, history>>
           \/ queued' = 0 /\ known' = {} /\ history' \in SUBSET history
  /\ UNCHANGED <<saved, copies, sending, phase, listed, sent, polled, echoUntil,
                 lastApplied, step, apply, shown, made, now, stamps, restarts>>

\* Mutant: the page's cursor is saved with the page still in progress.
SaveCursorEarly ==
  /\ saved < Len(Feed)
  /\ saved' = Len(Feed)
  /\ UNCHANGED <<history, senderVars, receiverVars, counters>>

SaveCursor ==
  /\ step = "idle" /\ saved < at
  /\ saved' = at
  /\ UNCHANGED <<history, senderVars, receiverVars, counters>>
-----------------------------------------------------------------------------
\* A new daemon: what is in the history now was copied before it started.
Restart ==
  /\ restarts < MaxRestarts
  /\ restarts' = restarts + 1
  /\ known' = Names(history)
  /\ copies' = {} /\ sending' = {} /\ phase' = "poll" /\ listed' = 0
  /\ echoUntil' = [c \in Contents |-> 0]
  /\ lastApplied' = 0 /\ at' = saved /\ step' = "idle" /\ apply' = FALSE
  /\ UNCHANGED <<diskVars, queued, sent, polled, shown, made, now, stamps, faults>>

\* Time passes while there is nothing to do, and in an upload, be it of a new
\* copy or in a flush. The rest takes no time, nor do the half seconds between
\* two polls.
Tick ==
  /\ now < MaxNow
  /\ step = "idle"
  /\ \/ copies = {} /\ sending = {} /\ phase = "poll" /\ known = Names(history)
     \/ \E s \in sending : now < s + SendTicks
  /\ now' = now + 1
  /\ UNCHANGED <<diskVars, senderVars, receiverVars, made, stamps, restarts, faults>>

Next ==
  \/ \E c \in Texts : UserCopies(c)
  \/ Written \/ Flush \/ FlushNext \/ Poll \/ NextCopy \/ SendEnds
  \/ Note \/ Add \/ Show \/ Keep \/ HandleFails \/ HandleClear \/ SaveCursor
  \/ Restart \/ Tick

Spec == Init /\ [][Next]_vars

\* receive_forever never stops asking, and a handler it has started runs on.
FairSpec ==
  /\ Spec
  /\ WF_vars(Written)
  /\ WF_vars(Note \/ Add \/ Show \/ Keep \/ HandleClear)
  /\ WF_vars(HandleFails /\ UNCHANGED faults)
-----------------------------------------------------------------------------
(* Properties *)

\* Nothing received goes out again as a copy of this device's (tests/e2e.rs:
\* "it must not bounce back to the Mac"), though its file is new to poll. That
\* takes uploads that are short enough: see section 4 of the README.
NoBounce == \A f \in sent : f.from = "user"

\* What is sent is what was copied, never an entry caught half-written: poll
\* returns "New local copies since the last call, oldest first."  Not so: see
\* section 4 of the README.
OnlyRealCopies == \A f \in sent : f.content # Blank

\* No file is taken for a new copy twice.
NewCopiesOnly ==
  [][\A f \in copies' \ copies : f.stamp > polled]_vars

\* The clipboard never goes back to an item older than one that was on it.
ClipboardMovesForward ==
  \A i, j \in DOMAIN shown :
    i < j => Feed[shown[i]].created < Feed[shown[j]].created

\* last_applied is "`created_at` of the last item put on the clipboard" once
\* handle is done, successfully or not.  Not so: see section 4 of the README.
LastAppliedIsShown ==
  step = "idle" /\ shown # <<>> /\ restarts = 0
    => lastApplied = Feed[Last(shown)].created

\* What the daemon will not ask for again is in the history, however often
\* handle failed, the daemon restarted or the same text was copied again,
\* unless a clear comes after it.
ClipboardInv ==
  /\ TypeOK
  /\ \A f \in history : f.stamp <= stamps
  /\ polled <= stamps
  /\ step # "idle" => at < Len(Feed) /\ Current.content # Clear
  /\ saved <= at
  /\ \A i \in 1..at :
       /\ Feed[i].content \in Texts
       /\ \A j \in i + 1 .. Len(Feed) : Feed[j].content # Clear
       => \E f \in history : f.content = Feed[i].content

\* Every item the other devices send is kept in the end.
FeedDrains == <>(at = Len(Feed))
=============================================================================
