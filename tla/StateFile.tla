------------------------------ MODULE StateFile ------------------------------
(* sync.json and the keychain entry of one device (state.rs, secrets.rs), as  *)
(* the daemon and the commands of pastazzo-sync (main.rs) use them at once:   *)
(* each loads its own copy, and a load may move the keys into the keychain.   *)
(*                                                                            *)
(* A file is its owner, how much of it is written, and of its contents where  *)
(* the keys are and the cursor.  Every system call is a step; a process may   *)
(* stop between any two.                                                      *)
EXTENDS Naturals

CONSTANTS Daemon, Cli, None,
          MaxCursor,    \* bound on the feed's cursor
          MaxTroubles   \* bound: stops, and locks of the keychain

Processes == {Daemon, Cli}
Storages == {"keychain", "file"}
Files == [owner : Processes \cup {None}, text : {"empty", "full", "zeros"},
          storage : Storages, cursor : 0 .. MaxCursor]

StateFileConstants ==
    Daemon # Cli /\ None \notin Files /\ MaxCursor \in Nat /\ MaxTroubles \in Nat

VARIABLES
    file,        \* sync.json
    tmp,         \* sync.json.tmp
    keychain,    \* whether there is one, has this device's keys, and is locked
    proc,        \* the two processes
    left,        \* history: a logout or a removal of this device has begun
    saved,       \* history: a login has been saved
    moved,       \* history: a move of the keys has scrubbed the file
    troubles

vars == <<file, tmp, keychain, proc, left, saved, moved, troubles>>

TypeOK ==
    /\ file \in Files \cup {None}
    /\ tmp \in Files \cup {None}
    /\ keychain \in [available : BOOLEAN, keys : BOOLEAN, locked : BOOLEAN]
    /\ proc \in [Processes ->
          [pc : {"idle", "keys", "move", "verify", "scrub", "set", "save", "create", "write",
                 "rename", "loaded", "forget", "remove"},
           op : {"none", "run", "status", "logout", "revoke", "login"},
           storage : Storages, cursor : 0 .. MaxCursor]]
    /\ left \in BOOLEAN /\ saved \in BOOLEAN /\ moved \in BOOLEAN
    /\ troubles \in 0 .. MaxTroubles

Idle == [pc |-> "idle", op |-> "none", storage |-> "file", cursor |-> 0]

\* Not logged in, or a file from before the keychain, with the keys in it.
Init ==
    /\ file \in {None, [owner |-> None, text |-> "full", storage |-> "file", cursor |-> 0]}
    /\ tmp = None
    /\ keychain \in [available : BOOLEAN, keys : {FALSE}, locked : {FALSE}]
    /\ proc = [p \in Processes |-> Idle]
    /\ left = FALSE
    /\ saved = (file # None)
    /\ moved = FALSE
    /\ troubles = 0

Trouble == troubles < MaxTroubles /\ troubles' = troubles + 1

At(p, pc) == proc[p].pc = pc
Goes(p, pc) == proc' = [proc EXCEPT ![p].pc = pc]
Stops(p) == proc' = [proc EXCEPT ![p] = Idle]

Loaded(p) == Goes(p, IF proc[p].op = "logout" THEN "forget"
                     ELSE IF proc[p].op = "revoke" THEN "remove" ELSE "loaded")

----------------------------------------------------------------------------
\* load_with

\* A command, or the daemon, reads the file.
Load(p, op) ==
    /\ At(p, "idle")
    /\ op \in (IF p = Daemon THEN {"run"} ELSE {"status", "logout", "revoke"})
    /\ file # None
    /\ file.text = "full"
    /\ proc' = [proc EXCEPT ![p] = [pc |-> "keys", op |-> op, storage |-> file.storage,
                                    cursor |-> file.cursor]]
    /\ left' = (left \/ op \in {"logout", "revoke"})
    /\ UNCHANGED <<file, tmp, keychain, saved, moved, troubles>>

LoadKeys(p) ==
    /\ At(p, "keys")
    /\ IF proc[p].storage = "file"
       THEN IF keychain.available THEN Goes(p, "move") ELSE Loaded(p)
       ELSE IF keychain.keys /\ ~keychain.locked THEN Loaded(p) ELSE Stops(p)
    /\ UNCHANGED <<file, tmp, keychain, left, saved, moved, troubles>>

\* move_to_keychain: into the keychain, back out to compare, and only then out
\* of the file.  A locked keychain leaves the keys where they are.
\* Mutant: the keychain's refusal is only logged, and the keys leave the file.
MoveAnyway(p) == proc' = [proc EXCEPT ![p].pc = "scrub", ![p].storage = "keychain"]
NotMoved(p) == Loaded(p)

MoveSet(p) ==
    /\ At(p, "move")
    /\ IF keychain.locked
       THEN NotMoved(p) /\ UNCHANGED keychain
       ELSE Goes(p, "verify") /\ keychain' = [keychain EXCEPT !.keys = TRUE]
    /\ UNCHANGED <<file, tmp, left, saved, moved, troubles>>

MoveVerify(p) ==
    /\ At(p, "verify")
    /\ IF keychain.keys /\ ~keychain.locked
       THEN proc' = [proc EXCEPT ![p].pc = "scrub", ![p].storage = "keychain"]
       ELSE Loaded(p)
    /\ UNCHANGED <<file, tmp, keychain, left, saved, moved, troubles>>

Zeroed(f) == IF f = None THEN None ELSE [f EXCEPT !.text = "zeros"]

Scrub(p) ==
    /\ At(p, "scrub")
    /\ file' = Zeroed(file)
    /\ moved' = TRUE
    /\ Goes(p, "save")
    /\ UNCHANGED <<tmp, keychain, left, saved, troubles>>

----------------------------------------------------------------------------
\* save_with_cursor: another file, written and synced, takes the name.

SaveClears(p) ==
    /\ At(p, "save")
    /\ tmp' = None
    /\ Goes(p, "create")
    /\ UNCHANGED <<file, keychain, left, saved, moved, troubles>>

\* What a process does when a save is over, or has failed.
SaveEnds(p) ==
    IF proc[p].op = "run" THEN Goes(p, "loaded")
    ELSE IF proc[p].op = "login" THEN Stops(p) ELSE Loaded(p)

\* Mutant: straight over the old file.
CreateOver(p) ==
    /\ At(p, "create")
    /\ LET new == [owner |-> p, text |-> "empty", storage |-> proc[p].storage,
                   cursor |-> proc[p].cursor]
       IN  file' = new /\ tmp' = new
    /\ Goes(p, "write")
    /\ UNCHANGED <<keychain, left, saved, moved, troubles>>

SaveCreates(p) ==
    /\ At(p, "create")
    /\ IF tmp = None
       THEN /\ tmp' = [owner |-> p, text |-> "empty", storage |-> proc[p].storage,
                       cursor |-> proc[p].cursor]
            /\ Goes(p, "write")
       ELSE SaveEnds(p) /\ UNCHANGED tmp
    /\ UNCHANGED <<file, keychain, left, saved, moved, troubles>>

\* A process writes into the file it opened, whatever its name is by now.
Written(f, p) == IF f # None /\ f.owner = p /\ f.text = "empty"
                 THEN [f EXCEPT !.text = "full"] ELSE f

SaveWrites(p) ==
    /\ At(p, "write")
    /\ tmp' = IF tmp = None THEN None ELSE Written(tmp, p)
    /\ file' = IF file = None THEN None ELSE Written(file, p)
    /\ Goes(p, "rename")
    /\ UNCHANGED <<keychain, left, saved, moved, troubles>>

SaveRenames(p) ==
    /\ At(p, "rename")
    /\ IF tmp = None
       THEN UNCHANGED <<file, tmp, saved>>
       ELSE /\ file' = [tmp EXCEPT !.owner = IF @ = p THEN None ELSE @]
            /\ tmp' = None
            /\ saved' = TRUE
    /\ SaveEnds(p)
    /\ UNCHANGED <<keychain, left, moved, troubles>>

----------------------------------------------------------------------------
\* join and login: the state is new, and so far in memory only.
LogIn ==
    /\ At(Cli, "idle")
    /\ file = None
    /\ ~left
    /\ proc' = [proc EXCEPT ![Cli] = [pc |-> "set", op |-> "login", storage |-> "file", cursor |-> 0]]
    /\ UNCHANGED <<file, tmp, keychain, left, saved, moved, troubles>>

\* save_new: into the keychain if there is one, else into the file.
SaveNew ==
    /\ At(Cli, "set")
    /\ IF ~keychain.available
       THEN Goes(Cli, "save") /\ UNCHANGED keychain
       ELSE IF keychain.locked
       THEN Stops(Cli) /\ UNCHANGED keychain
       ELSE /\ keychain' = [keychain EXCEPT !.keys = TRUE]
            /\ proc' = [proc EXCEPT ![Cli].pc = "save", ![Cli].storage = "keychain"]
    /\ UNCHANGED <<file, tmp, left, saved, moved, troubles>>

\* The daemon saves the cursor it has come to, and its own idea of the rest.
Receive ==
    /\ At(Daemon, "loaded")
    /\ proc[Daemon].cursor < MaxCursor
    /\ proc' = [proc EXCEPT ![Daemon].cursor = @ + 1, ![Daemon].pc = "save"]
    /\ UNCHANGED <<file, tmp, keychain, left, saved, moved, troubles>>

CommandEnds ==
    /\ At(Cli, "loaded")
    /\ Stops(Cli)
    /\ UNCHANGED <<file, tmp, keychain, left, saved, moved, troubles>>

\* forget_with, after the device was revoked or could not be.
Forget ==
    /\ At(Cli, "forget")
    /\ IF proc[Cli].storage = "keychain"
       THEN IF keychain.locked
            THEN Stops(Cli) /\ UNCHANGED <<file, keychain>>
            ELSE /\ keychain' = [keychain EXCEPT !.keys = FALSE]
                 /\ Goes(Cli, "remove")
                 /\ UNCHANGED file
       ELSE /\ file' = Zeroed(file)
            /\ Goes(Cli, "remove")
            /\ UNCHANGED keychain
    /\ UNCHANGED <<tmp, left, saved, moved, troubles>>

\* The last step of a logout, and all that `revoke' of this device does here.
RemoveFile ==
    /\ At(Cli, "remove")
    /\ file' = None
    /\ Stops(Cli)
    /\ UNCHANGED <<tmp, keychain, left, saved, moved, troubles>>

----------------------------------------------------------------------------
\* The login session locks the keychain, or opens it again.
Lock ==
    /\ keychain.available
    /\ ~keychain.locked
    /\ Trouble
    /\ keychain' = [keychain EXCEPT !.locked = TRUE]
    /\ UNCHANGED <<file, tmp, proc, left, saved, moved>>

Unlock ==
    /\ keychain.locked
    /\ keychain' = [keychain EXCEPT !.locked = FALSE]
    /\ UNCHANGED <<file, tmp, proc, left, saved, moved, troubles>>

\* A process is killed, between any two steps.
Crash(p) ==
    /\ ~At(p, "idle")
    /\ Trouble
    /\ Stops(p)
    /\ UNCHANGED <<file, tmp, keychain, left, saved, moved>>

Next ==
    \/ \E p \in Processes, op \in {"run", "status", "logout", "revoke"} : Load(p, op)
    \/ \E p \in Processes :
          \/ LoadKeys(p) \/ MoveSet(p) \/ MoveVerify(p) \/ Scrub(p)
          \/ SaveClears(p) \/ SaveCreates(p) \/ SaveWrites(p) \/ SaveRenames(p)
          \/ Crash(p)
    \/ LogIn \/ SaveNew \/ Receive \/ CommandEnds \/ Forget \/ RemoveFile
    \/ Lock \/ Unlock

Spec == Init /\ [][Next]_vars

----------------------------------------------------------------------------
KeysInFile == file # None /\ file.text = "full" /\ file.storage = "file"

\* A device's keys are never lost: until it leaves they are in the keychain or
\* in the file, and a file that names the keychain is right about it, whichever
\* process is stopped where (state.rs:260, 280); and the state is typed.
KeysAreKept ==
    /\ TypeOK
    /\ saved /\ ~left => keychain.keys \/ KeysInFile
    /\ file # None /\ file.text = "full" /\ file.storage = "keychain" /\ ~left => keychain.keys

\* Until keys are moved out of it, the file is whole at every moment and after
\* every stop (state.rs:306).
SavesAreAtomic == saved /\ ~left /\ ~moved => file # None /\ file.text = "full"
=============================================================================
