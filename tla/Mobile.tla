-------------------------------- MODULE Mobile --------------------------------
(* The phones' engine (pastazzo-mobile): its history and outbox, and the      *)
(* calls that share, save, refresh and clear.  The apps run one call at a     *)
(* time, under a lock that the share extension takes too, but a call may be   *)
(* killed between any two writes, and an item is put again with the id it had *)
(* when nobody knows how far a call came.                                     *)
(*                                                                            *)
(* Sealing draws fresh randomness: an item sealed again is another version,   *)
(* and the server refuses it under an id it has in another one.  Keys, the    *)
(* receipts and the limit of 200 entries are left out.                        *)
EXTENDS Naturals, Sequences

CONSTANTS Items,        \* what is copied or shared on this phone
          FromOthers,   \* what other devices send
          Clear,        \* a ClearHistory item
          None,
          Feed,         \* the other devices' items, as the server pages them
          PageMax,      \* items on a page
          MaxSeals,     \* bound: versions of an item
          MaxTroubles   \* bound: kills, lost requests and answers

\* An id is of one item, on whichever device it was made.
MobileConstants ==
    /\ Feed \in Seq(FromOthers \cup {Clear}) /\ Items \cap FromOthers = {}
    /\ PageMax \in Nat /\ MaxSeals \in Nat /\ MaxTroubles \in Nat

VARIABLES
    entry,     \* the history's entry of each own item
    outbox,    \* the version waiting in mobile-outbox, 0 for none
    stored,    \* the version the server has, 0 for none
    got,       \* received items in the history
    cursor,    \* sync.json
    call,      \* the call in progress
    sealed,    \* history: the versions made so far
    promised,  \* history: own items a call has answered for
    cleared,   \* history: items taken away by a clear since they were put
    troubles

vars == <<entry, outbox, stored, got, cursor, call, sealed, promised, cleared, troubles>>
received == <<got, cursor>>

Idle == [pc |-> "idle", op |-> "none", item |-> None, todo |-> {}, next |-> 0]

TypeOK ==
    /\ entry \in [Items -> {"none", "queued", "sent"}]
    /\ outbox \in [Items -> 0 .. MaxSeals]
    /\ stored \in [Items -> 0 .. MaxSeals]
    /\ got \subseteq FromOthers
    /\ cursor \in 0 .. Len(Feed)
    /\ call \in [pc : {"idle", "put", "note", "upload", "post", "mark", "remove", "flush", "page",
                       "receive", "empty", "clear"},
                 op : {"none", "share", "save", "refresh", "clear_local"},
                 item : Items \cup {None}, todo : SUBSET Items, next : 0 .. Len(Feed)]
    /\ sealed \in [Items -> 0 .. MaxSeals]
    /\ promised \subseteq Items
    /\ cleared \subseteq Items \cup FromOthers
    /\ troubles \in 0 .. MaxTroubles

Init ==
    /\ entry = [i \in Items |-> "none"]
    /\ outbox = [i \in Items |-> 0]
    /\ stored = [i \in Items |-> 0]
    /\ got = {}
    /\ cursor = 0
    /\ call = Idle
    /\ sealed = [i \in Items |-> 0]
    /\ promised = {} /\ cleared = {}
    /\ troubles = 0

Trouble == troubles < MaxTroubles /\ troubles' = troubles + 1
At(pc) == call.pc = pc
Goes(pc) == call' = [call EXCEPT !.pc = pc]
Answers(i) == call' = Idle /\ promised' = promised \cup {i}
Fails == call' = Idle /\ UNCHANGED promised

----------------------------------------------------------------------------
\* share and save, with an id that may have been used before.

Put(op, i) ==
    /\ At("idle")
    /\ call' = [Idle EXCEPT !.pc = "put", !.op = op, !.item = i]
    /\ UNCHANGED <<entry, outbox, stored, received, sealed, promised, cleared, troubles>>

\* Sealed, and into the outbox: from here on the item will be sent.
Seal(i) ==
    /\ sealed[i] < MaxSeals
    /\ sealed' = [sealed EXCEPT ![i] = @ + 1]
    /\ outbox' = [outbox EXCEPT ![i] = sealed[i] + 1]
    /\ cleared' = cleared \ {i}
    /\ Goes("note")
    /\ UNCHANGED promised

Share ==
    LET i == call.item
    IN /\ At("put")
       /\ call.op = "share"
       /\ \/ /\ outbox[i] # 0
             /\ Goes("upload")
             /\ UNCHANGED <<outbox, sealed, promised, cleared>>
          \/ /\ outbox[i] = 0
             /\ IF entry[i] = "sent" THEN Answers(i) ELSE entry[i] = "queued" /\ Fails
             /\ UNCHANGED <<outbox, sealed, cleared>>
          \/ outbox[i] = 0 /\ entry[i] = "none" /\ Seal(i)
       /\ UNCHANGED <<entry, stored, received, troubles>>

SaveItem ==
    LET i == call.item
    IN /\ At("put")
       /\ call.op = "save"
       /\ \/ /\ entry[i] # "none"
             /\ Answers(i)
             /\ UNCHANGED <<outbox, sealed, cleared>>
          \/ /\ entry[i] = "none"
             /\ outbox[i] # 0
             /\ Goes("note")
             /\ UNCHANGED <<outbox, sealed, promised, cleared>>
          \/ outbox[i] = 0 /\ entry[i] = "none" /\ Seal(i)
       /\ UNCHANGED <<entry, stored, received, troubles>>

Note ==
    /\ At("note")
    /\ entry' = [entry EXCEPT ![call.item] = "queued"]
    /\ Goes("upload")
    /\ UNCHANGED <<outbox, stored, received, sealed, promised, cleared, troubles>>

----------------------------------------------------------------------------
\* upload_queued_with

\* Mutant: an entry that cannot be read is an error.
UploadNoted ==
    /\ At("upload")
    /\ \/ entry[call.item] # "none" /\ Goes("post") /\ UNCHANGED promised
       \/ entry[call.item] = "none" /\ Fails
    /\ UNCHANGED <<entry, outbox, stored, received, sealed, cleared, troubles>>
\* An entry that is not there, or no longer, is made from the sealed item.
Upload ==
    LET i == call.item
    IN /\ At("upload")
       /\ entry' = [entry EXCEPT ![i] = IF @ = "none" THEN "queued" ELSE @]
       /\ Goes("post")
       /\ UNCHANGED <<outbox, stored, received, sealed, promised, cleared, troubles>>

\* Mutant: the server's refusal is only logged.
PostIgnored(i) == Goes("mark") /\ UNCHANGED promised
\* The file stays.  share and save answer that the item is queued; a refresh fails.
PostFailed(i) == IF call.op = "refresh" THEN Fails ELSE Answers(i)

Accepts(i) == stored[i] \in {0, outbox[i]}

Post ==
    LET i == call.item
    IN /\ At("post")
       /\ \/ /\ Accepts(i)
             /\ stored' = [stored EXCEPT ![i] = outbox[i]]
             /\ Goes("mark")
             /\ UNCHANGED <<promised, troubles>>
          \/ ~Accepts(i) /\ PostFailed(i) /\ UNCHANGED <<stored, troubles>>
          \/ /\ Trouble
             /\ \/ UNCHANGED stored
                \/ Accepts(i) /\ stored' = [stored EXCEPT ![i] = outbox[i]]
             /\ PostFailed(i)
       /\ UNCHANGED <<entry, outbox, received, sealed, cleared>>

MarkSent ==
    /\ At("mark")
    /\ entry' = [entry EXCEPT ![call.item] = "sent"]
    /\ Goes("remove")
    /\ UNCHANGED <<outbox, stored, received, sealed, promised, cleared, troubles>>

RemoveQueued ==
    LET i == call.item
    IN /\ At("remove")
       /\ outbox' = [outbox EXCEPT ![i] = 0]
       /\ IF call.op = "refresh"
          THEN call' = [call EXCEPT !.pc = "flush", !.item = None] /\ UNCHANGED promised
          ELSE Answers(i)
       /\ UNCHANGED <<entry, stored, received, sealed, cleared, troubles>>

----------------------------------------------------------------------------
\* refresh: the outbox first, and any failure is the end of it.

Refresh ==
    /\ At("idle")
    /\ call' = [Idle EXCEPT !.pc = "flush", !.op = "refresh",
                            !.todo = {i \in Items : outbox[i] # 0}]
    /\ UNCHANGED <<entry, outbox, stored, received, sealed, promised, cleared, troubles>>

Flush ==
    /\ At("flush")
    /\ \/ \E i \in call.todo :
             call' = [call EXCEPT !.pc = "upload", !.item = i, !.todo = @ \ {i}]
       \/ call.todo = {} /\ call' = [call EXCEPT !.pc = "page", !.next = cursor]
    /\ UNCHANGED <<entry, outbox, stored, received, sealed, promised, cleared, troubles>>

FetchPage ==
    /\ At("page")
    /\ \/ Goes("receive") /\ UNCHANGED <<promised, troubles>>
       \/ Trouble /\ Fails
    /\ UNCHANGED <<entry, outbox, stored, received, sealed, cleared>>

PageEnd == IF cursor + PageMax < Len(Feed) THEN cursor + PageMax ELSE Len(Feed)

Upcoming == Feed[call.next + 1]

\* A clear takes every entry, and leaves the outbox.
ReceiveItem ==
    /\ At("receive")
    /\ call.next < PageEnd
    /\ \/ Upcoming = Clear /\ Goes("clear") /\ UNCHANGED got
       \/ /\ Upcoming # Clear
          /\ got' = got \cup {Upcoming}
          /\ call' = [call EXCEPT !.next = @ + 1]
    /\ UNCHANGED <<entry, outbox, stored, cursor, sealed, promised, cleared, troubles>>

SaveCursor ==
    /\ At("receive")
    /\ call.next = PageEnd
    /\ cursor' = PageEnd
    /\ call' = Idle
    /\ UNCHANGED <<entry, outbox, stored, got, sealed, promised, cleared, troubles>>

----------------------------------------------------------------------------
\* clear_local: the outbox, then the history, one file at a time.

ClearLocal ==
    /\ At("idle")
    /\ call' = [Idle EXCEPT !.pc = "empty", !.op = "clear_local"]
    /\ UNCHANGED <<entry, outbox, stored, received, sealed, promised, cleared, troubles>>

ClearOutbox ==
    /\ At("empty")
    /\ \/ \E i \in Items :
             /\ outbox[i] # 0
             /\ outbox' = [outbox EXCEPT ![i] = 0]
             /\ cleared' = cleared \cup {i}
             /\ UNCHANGED call
       \/ (\A i \in Items : outbox[i] = 0) /\ Goes("clear") /\ UNCHANGED <<outbox, cleared>>
    /\ UNCHANGED <<entry, stored, received, sealed, promised, troubles>>

HistoryEmpty == got = {} /\ \A i \in Items : entry[i] = "none"

\* Of a clear_local, or of a clear that a refresh has received.
ClearHistory ==
    /\ At("clear")
    /\ \/ \E i \in Items :
             /\ entry[i] # "none"
             /\ entry' = [entry EXCEPT ![i] = "none"]
             /\ UNCHANGED <<got, cleared, call>>
       \/ \E x \in got :
             /\ got' = got \ {x}
             /\ cleared' = cleared \cup {x}
             /\ UNCHANGED <<entry, call>>
       \/ /\ HistoryEmpty
          /\ call' = IF call.op = "refresh"
                     THEN [call EXCEPT !.pc = "receive", !.next = @ + 1] ELSE Idle
          /\ UNCHANGED <<entry, got, cleared>>
    /\ UNCHANGED <<outbox, stored, cursor, sealed, promised, troubles>>

\* The system stops the app or the share extension.
Kill ==
    /\ ~At("idle")
    /\ Trouble
    /\ Fails
    /\ UNCHANGED <<entry, outbox, stored, received, sealed, cleared>>

Continue ==
    \/ Share \/ SaveItem \/ Note \/ Upload \/ Post \/ MarkSent \/ RemoveQueued
    \/ Flush \/ FetchPage \/ ReceiveItem \/ SaveCursor \/ ClearOutbox \/ ClearHistory

Next ==
    \/ \E i \in Items, op \in {"share", "save"} : sealed[i] < MaxSeals /\ Put(op, i)
    \/ Refresh \/ Continue \/ ClearLocal \/ Kill

Spec == Init /\ [][Next]_vars

\* A call goes on until it is killed, calls wait in a queue for their turn, and
\* the app refreshes whenever it is opened.
Fairness == SF_vars(Refresh) /\ WF_vars(Continue)

FairSpec == Spec /\ Fairness

----------------------------------------------------------------------------
\* What the phone has said is sent or queued is on the server or in the outbox,
\* and what its cursor has passed is in the history, wherever calls are killed,
\* unless a clear took it (lib.rs:33, 78, 268, 360).
NothingIsLost ==
    /\ TypeOK
    /\ \A i \in promised : stored[i] # 0 \/ outbox[i] # 0 \/ i \in cleared
    /\ \A k \in 1 .. cursor : Feed[k] # Clear => Feed[k] \in got \cup cleared

\* A queued item is sent in the end, though a flush stops at the first failure
\* and a call may have been killed half-way through queueing it (lib.rs:57);
\* unless the server refuses one in the outbox, which then stops every flush.
QueuedGetsSent ==
    \A i \in Items :
        outbox[i] # 0 ~> outbox[i] = 0 \/ \E j \in Items : outbox[j] # 0 /\ ~Accepts(j)
=============================================================================
