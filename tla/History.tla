------------------------------- MODULE History -------------------------------
(* The history of a desktop as the command line keeps it (pastazzo/main.rs):  *)
(* one file an item, named by its time and the hash of its content, and a     *)
(* marker for the paste of an old item.  The clipboard's watcher, the menu    *)
(* and the sync daemon each run these commands, at once, and with no lock.    *)
(*                                                                            *)
(* Every look at the directory and every change of it is a step.  A content   *)
(* stands for its hash; what lies beside an item (its origin, its metadata)   *)
(* and how a search ranks it are left out.                                    *)
EXTENDS Naturals, FiniteSets

CONSTANTS Processes, Contents, None,
          MaxItems,      \* MAX_ITEMS
          ReplayWindow,  \* the marker's 5000 ms, in ticks
          MaxNow,        \* bound on the clock, and on names
          MaxTroubles    \* bound on killed commands

HistoryConstants ==
    MaxItems \in Nat /\ ReplayWindow \in Nat /\ MaxNow \in Nat /\ MaxTroubles \in Nat

VARIABLES
    now,
    exists,     \* whether the directory does
    files,      \* the items: the time in the name, and the content
    marker,     \* clipboard-replay: the item about to be pasted
    proc,       \* the command each process runs
    reported,   \* history: contents a command has said are in, and that were
                \* neither cleared, nor pushed out, nor cut off since
    troubles

vars == <<now, exists, files, marker, proc, reported, troubles>>

Items == [at : 0 .. MaxNow + 1, content : Contents]

TypeOK ==
    /\ now \in 0 .. MaxNow
    /\ exists \in BOOLEAN
    /\ files \subseteq Items
    /\ marker \in Items \cup {None}
    /\ proc \in [Processes ->
          [pc : {"idle", "replay", "dedupe", "write", "prune", "rename", "mark", "unmark"},
           item : Items \cup {None}, replays : BOOLEAN]]
    /\ reported \subseteq Contents
    /\ troubles \in 0 .. MaxTroubles

Idle == [pc |-> "idle", item |-> None, replays |-> FALSE]

Init ==
    /\ now = 0
    /\ exists = FALSE
    /\ files = {}
    /\ marker = None
    /\ proc = [p \in Processes |-> Idle]
    /\ reported = {}
    /\ troubles = 0

At(p, pc) == proc[p].pc = pc
Goes(p, pc) == proc' = [proc EXCEPT ![p].pc = pc]
Ends(p) == proc' = [proc EXCEPT ![p] = Idle]
Runs(p, pc, f, r) ==
    /\ At(p, "idle")
    /\ proc' = [proc EXCEPT ![p] = [pc |-> pc, item |-> f, replays |-> r]]

Has(fs, c) == \E f \in fs : f.content = c

----------------------------------------------------------------------------
\* add and add-image: history_dir makes the directory before anything else.
Add(p, c, ignoreReplay) ==
    /\ Runs(p, IF ignoreReplay THEN "replay" ELSE "dedupe", [at |-> now, content |-> c], FALSE)
    /\ exists' = TRUE
    /\ UNCHANGED <<now, files, marker, reported, troubles>>

\* Mutant: the item is taken to be there still.
MarkerFits(c) == marker.content = c /\ now <= marker.at + ReplayWindow
IsReplay(c) == MarkerFits(c) /\ marker \in files

\* ignore_replay: the marker is good for one copy, whichever that is.
IgnoreReplay(p) ==
    LET c == proc[p].item.content
    IN /\ At(p, "replay")
       /\ marker' = None
       /\ IF marker # None /\ IsReplay(c)
          THEN reported' = reported \cup {c} /\ Ends(p)
          ELSE UNCHANGED reported /\ Goes(p, "dedupe")
       /\ UNCHANGED <<now, exists, files, troubles>>

RemoveExistingHash(p) ==
    LET c == proc[p].item.content
    IN /\ At(p, "dedupe")
       /\ files' = {f \in files : f.content # c}
       /\ IF exists THEN Goes(p, "write") ELSE Ends(p)
       /\ UNCHANGED <<now, exists, marker, reported, troubles>>

\* The item's time is read only now. The file is created and written at once
\* here; in between it is an empty one, and a kill leaves it so.
WriteItem(p) ==
    LET f == [proc[p].item EXCEPT !.at = now]
    IN /\ At(p, "write")
       /\ IF exists
          THEN /\ files' = files \cup {f}
               /\ proc' = [proc EXCEPT ![p].pc = "prune", ![p].item = f]
          ELSE Ends(p) /\ UNCHANGED files
       /\ UNCHANGED <<now, exists, marker, reported, troubles>>

\* Mutant: the newest are pushed out.
Oldest(kept) == \A f \in files \ kept, g \in kept : f.at >= g.at
\* By name: which of two items of one millisecond is newer is up to their hashes.
Newest(kept) == \A f \in files \ kept, g \in kept : f.at <= g.at

PushedOut == {c \in Contents :
    /\ Has(files, c)
    /\ \A f \in files : f.content = c => Cardinality({g \in files : g.at >= f.at}) > MaxItems}

\* prune_history, and the command says what it has added or touched.
PruneHistory(p) ==
    LET c == proc[p].item.content
    IN /\ At(p, "prune")
       /\ IF ~exists
          THEN Ends(p) /\ UNCHANGED <<files, reported>>
          ELSE /\ \E kept \in SUBSET files :
                     /\ Cardinality(kept) = IF Cardinality(files) < MaxItems
                                            THEN Cardinality(files) ELSE MaxItems
                     /\ Newest(kept)
                     /\ files' = kept
               /\ reported' = (reported \cup {d \in {c} : Has(files, d)}) \ PushedOut
               /\ IF proc[p].replays THEN Goes(p, "mark") ELSE Ends(p)
       /\ UNCHANGED <<now, exists, marker, troubles>>

----------------------------------------------------------------------------
\* touch finds the item by its id ...
Touch(p, f, replay) ==
    /\ f \in files
    /\ f.at < MaxNow
    /\ Runs(p, "rename", f, replay)
    /\ exists' = TRUE
    /\ UNCHANGED <<now, files, marker, reported, troubles>>

Later(f) == [f EXCEPT !.at = IF now > @ THEN now ELSE @ + 1]

\* ... and gives it a new name, in one step, unless it has gone by now.
Rename(p) ==
    LET f == proc[p].item
    IN /\ At(p, "rename")
       /\ IF f \in files
          THEN /\ files' = (files \ {f}) \cup {Later(f)}
               /\ proc' = [proc EXCEPT ![p].pc = "prune", ![p].item = Later(f)]
          ELSE Ends(p) /\ UNCHANGED files
       /\ UNCHANGED <<now, exists, marker, reported, troubles>>

\* --replay: the paste will come back as a copy of its own.
MarkReplay(p) ==
    /\ At(p, "mark")
    /\ marker' = proc[p].item
    /\ Ends(p)
    /\ UNCHANGED <<now, exists, files, reported, troubles>>

----------------------------------------------------------------------------
Clear(p) ==
    /\ Runs(p, "unmark", None, FALSE)
    /\ exists' = FALSE
    /\ files' = {}
    /\ reported' = {}
    /\ UNCHANGED <<now, marker, troubles>>

Unmark(p) ==
    /\ At(p, "unmark")
    /\ marker' = None
    /\ Ends(p)
    /\ UNCHANGED <<now, exists, files, reported, troubles>>

\* A command is killed.  An add that has removed the old copy and not written
\* the new one takes the item with it.
Kill(p) ==
    /\ ~At(p, "idle")
    /\ troubles < MaxTroubles
    /\ troubles' = troubles + 1
    /\ Ends(p)
    /\ reported' = IF At(p, "write") THEN {c \in reported : Has(files, c)} ELSE reported
    /\ UNCHANGED <<now, exists, files, marker>>

Tick ==
    /\ now < MaxNow
    /\ now' = now + 1
    /\ UNCHANGED <<exists, files, marker, proc, reported, troubles>>

Next ==
    \/ \E p \in Processes :
          \/ \E c \in Contents, r \in BOOLEAN : Add(p, c, r)
          \/ \E f \in files, r \in BOOLEAN : Touch(p, f, r)
          \/ IgnoreReplay(p) \/ RemoveExistingHash(p) \/ WriteItem(p) \/ PruneHistory(p)
          \/ Rename(p) \/ MarkReplay(p) \/ Clear(p) \/ Unmark(p) \/ Kill(p)
    \/ Tick

Spec == Init /\ [][Next]_vars

\* What a command has said is in the history is there, or on its way back into
\* it, whatever commands run at the same time, until it is cleared, is older
\* than the MaxItems newest, or the add that was moving it is killed
\* (main.rs:147, 433, 641).
ReportedIsKept ==
    /\ TypeOK
    /\ \A c \in reported :
          Has(files, c) \/ \E p \in Processes : At(p, "write") /\ proc[p].item.content = c
=============================================================================
