------------------------------- MODULE Device -------------------------------
(* What a client keeps on its disk: sync.json and the keychain (StateFile),   *)
(* the desktop's history (History), and the phone's history and outbox        *)
(* (Mobile).  The three share no state: a behaviour is of one of them.        *)
EXTENDS Naturals

CONSTANTS
    Nothing,
    Daemon, Cli, MaxCursor, MaxStops,
    Programs, Clips, MaxItems, ReplayWindow, MaxTime, MaxKills,
    Shared, FromOthers, ClearItem, Arrivals, PageMax, MaxSeals, MaxTroubles

VARIABLES
    part,
    file, tmp, keychain, process, left, loggedIn, moved, stops,
    time, exists, files, marker, run, reported, kills,
    entry, outbox, stored, got, cursor, call, sealed, promised, cleared, troubles

keys == <<file, tmp, keychain, process, left, loggedIn, moved, stops>>
desktop == <<time, exists, files, marker, run, reported, kills>>
phone == <<entry, outbox, stored, got, cursor, call, sealed, promised, cleared, troubles>>

K == INSTANCE StateFile WITH None <- Nothing, MaxTroubles <- MaxStops,
                             proc <- process, saved <- loggedIn, troubles <- stops
H == INSTANCE History WITH None <- Nothing, Processes <- Programs, Contents <- Clips,
                           MaxNow <- MaxTime, MaxTroubles <- MaxKills,
                           now <- time, proc <- run, troubles <- kills
M == INSTANCE Mobile WITH None <- Nothing, Items <- Shared, Clear <- ClearItem,
                          Feed <- Arrivals

ASSUME DeviceConstants == K!StateFileConstants /\ H!HistoryConstants /\ M!MobileConstants

DeviceInit ==
    /\ K!Init /\ H!Init /\ M!Init
    /\ part \in {"keys", "desktop", "phone"}
    /\ part # "keys" => file = Nothing /\ ~keychain.available

OfKeys == part = "keys" /\ K!Next /\ UNCHANGED <<part, desktop, phone>>
OfDesktop == part = "desktop" /\ H!Next /\ UNCHANGED <<part, keys, phone>>
OfPhone(A) == part = "phone" /\ A /\ UNCHANGED <<part, keys, desktop>>

DeviceNext == OfKeys \/ OfDesktop \/ OfPhone(M!Next)

DeviceSpec == DeviceInit /\ [][DeviceNext]_<<part, keys, desktop, phone>>

\* The phone's outbox and its part of the server's table are an outbox: see
\* ImplementsOutbox.
Place(i) ==
    IF stored[i] # 0 THEN "sent" ELSE IF outbox[i] # 0 THEN "waiting" ELSE "nowhere"

Box == INSTANCE Outbox WITH Items <- Shared, place <- [i \in Shared |-> Place(i)],
                            told <- promised, wiped <- cleared \cap Shared

\* A device's keys are never lost: until it leaves they are in the keychain or
\* in the file, and a file that names the keychain is right about it, whichever
\* process is stopped where (state.rs:260, 280).
KeysAreKept == K!KeysAreKept

\* Until keys are moved out of it, the file is whole at every moment and after
\* every stop (state.rs:306).
SavesAreAtomic == K!SavesAreAtomic

\* What a command has said is in the history is there, or on its way back into
\* it, whatever commands run at the same time (main.rs:147, 433, 641).
ReportedIsKept == H!ReportedIsKept

\* What the phone has said is sent or queued is on the server or in the outbox,
\* and what its cursor has passed is in the history, unless a clear took it
\* (lib.rs:33, 78, 268, 360).
NothingIsLost == M!NothingIsLost

\* An item that waits on the phone leaves the outbox for the server or by a
\* clear, whichever calls are killed, repeated or refused in between, and what
\* the server has it keeps (lib.rs:29, 54, 179, 204).
ImplementsOutbox == Box!Spec
=============================================================================
