-------------------------------- MODULE Enrol --------------------------------
(* Invites, registrations and logins: the server's handlers (app.rs), what    *)
(* they keep in memory and in the store (store.rs), and the clients that join *)
(* and log in (account.rs), up to the login's answer; Access goes on there.   *)
(*                                                                            *)
(* A handler takes its locks one after another, so a request has a step for   *)
(* each write.  OPAQUE (opaque.rs) is modelled by what it decides: a login    *)
(* succeeds on both sides if the password file it was started with is of the  *)
(* password typed.  A try, a client and a number, is also the random id of    *)
(* whatever the try makes: its registration, account, login and device.       *)
EXTENDS Naturals, FiniteSets

CONSTANTS Clients, Users, Invites, None,
          Password,      \* what each client types
          Registration,  \* "invite", "open" or "closed"
          InviteTtl,     \* the invites' --hours, in ticks
          PendingTtl,    \* PENDING_TTL_MS
          Window,        \* ATTEMPT_WINDOW_MS
          MaxAttempts,   \* per username in a window
          MaxOverall,    \* in all, in a window
          MaxTries,      \* bound: tries of each client
          MaxNow,        \* bound on the clock
          MaxTroubles    \* bound: lost answers, restarts, deleted users

\* What is started is forgotten before the attempt that started it.
ASSUME EnrolConstants ==
    /\ None \notin Users \cup Invites
    /\ InviteTtl \in Nat /\ PendingTtl \in Nat \ {0} /\ Window \in Nat /\ PendingTtl <= Window
    /\ MaxAttempts \in Nat /\ MaxOverall \in Nat
    /\ MaxTries \in Nat /\ MaxNow \in Nat /\ MaxTroubles \in Nat

VARIABLES
    now,
    invites,        \* the invites table: expiry, and whether it is used
    accounts,       \* the accounts table
    devices,        \* the devices table
    registrations,  \* the server's memory: started registrations,
    logins,         \* started logins,
    attempts,       \* and recent attempts
    client,
    opened,         \* history: every account ever created
    troubles

vars == <<now, invites, accounts, devices, registrations, logins, attempts, client, opened,
          troubles>>
memory == <<registrations, logins, attempts>>

Tries == Clients \X (1 .. MaxTries)
Accounts == [id : Tries, user : Users, password : {Password[c] : c \in Clients},
             invite : Invites \cup {None}]
NoInvite == [expires |-> 0, used |-> FALSE]
Invite == [expires : 0 .. MaxNow + InviteTtl, used : BOOLEAN]
Device == [id : Tries, account : Tries, approved : BOOLEAN]
Registered == [id : Tries, user : Users, invite : Invites \cup {None},
               expires : 0 .. MaxNow + PendingTtl]
Login == [id : Tries, account : Accounts \cup {None}, expires : 0 .. MaxNow + PendingTtl]
Attempt == [id : Tries, to : {"register", "login"}, user : Users, at : 0 .. MaxNow]
Client ==
    [pc : {"idle", "register", "checked", "finish", "taken", "login", "looked", "bind",
           "verified", "added", "opened", "waiting", "in"},
     try : 0 .. MaxTries, joins : BOOLEAN, user : Users \cup {None},
     invite : Invites \cup {None}, pending : Accounts \cup {None}]

TypeOK ==
    /\ now \in 0 .. MaxNow
    /\ invites \in [Invites -> Invite]
    /\ accounts \subseteq Accounts /\ opened \subseteq Accounts
    /\ devices \subseteq Device
    /\ registrations \subseteq Registered
    /\ logins \subseteq Login
    /\ attempts \subseteq Attempt
    /\ client \in [Clients -> Client]
    /\ troubles \in 0 .. MaxTroubles

Idle(n) == [pc |-> "idle", try |-> n, joins |-> FALSE, user |-> None, invite |-> None,
            pending |-> None]

Init ==
    /\ now = 0
    /\ invites = [i \in Invites |-> NoInvite]
    /\ accounts = {} /\ devices = {} /\ opened = {}
    /\ registrations = {} /\ logins = {} /\ attempts = {}
    /\ client = [c \in Clients |-> Idle(0)]
    /\ troubles = 0

Trouble == troubles < MaxTroubles /\ troubles' = troubles + 1
At(c, pc) == client[c].pc = pc
Moves(c, pc) == client' = [client EXCEPT ![c].pc = pc]
Fails(c) == client' = [client EXCEPT ![c] = Idle(@.try)]
Id(c) == <<c, client[c].try>>

----------------------------------------------------------------------------
\* allow_attempt: the list of all attempts and the lists by username are
\* pushed to together and forget at the same age, so the one stands for both.
\* The lists hold times; here an attempt also says which request it was.
Recent == {a \in attempts : now - a.at < Window}
RecentOf(u) == {a \in Recent : a.user = u}

AllowAttempt(c, to) ==
    /\ Cardinality(Recent) < MaxOverall
    /\ Cardinality(RecentOf(client[c].user)) < MaxAttempts
    /\ attempts' = Recent \cup {[id |-> Id(c), to |-> to, user |-> client[c].user, at |-> now]}

RefuseAttempt(c) ==
    /\ \/ Cardinality(Recent) >= MaxOverall
       \/ Cardinality(RecentOf(client[c].user)) >= MaxAttempts
    /\ attempts' = Recent

\* Mutant: nothing is forgotten before it is asked for.
Kept(pending) == pending
Unexpired(pending) == {p \in pending : p.expires > now}

AccountOf(u) == {a \in accounts : a.user = u}

\* What a registration leaves with the server depends on the password alone.
PasswordFile(c) == Password[c]

----------------------------------------------------------------------------
\* `invite', `join' and `login' on the command lines.

AddInvite(i) ==
    /\ invites[i] = NoInvite
    /\ invites' = [invites EXCEPT ![i].expires = now + InviteTtl]
    /\ UNCHANGED <<now, accounts, devices, memory, client, opened, troubles>>

Starts(c, pc, u, i) ==
    /\ At(c, "idle")
    /\ client[c].try < MaxTries
    /\ client' = [client EXCEPT ![c] =
          [pc |-> pc, try |-> @.try + 1, joins |-> pc = "register", user |-> u, invite |-> i,
           pending |-> None]]
    /\ UNCHANGED <<now, invites, accounts, devices, memory, opened, troubles>>

Join(c, u, i) == Starts(c, "register", u, i)
LogIn(c, u) == Starts(c, "login", u, None)

----------------------------------------------------------------------------
\* register_start

InviteHolds(i) == ~invites[i].used /\ invites[i].expires > now

Invited(i) == IF i = None THEN Registration = "open" ELSE InviteHolds(i)

RegisterStart(c) ==
    /\ At(c, "register")
    /\ \/ Registration = "closed" /\ Fails(c) /\ UNCHANGED attempts
       \/ Registration # "closed" /\ RefuseAttempt(c) /\ Fails(c)
       \/ /\ Registration # "closed"
          /\ AllowAttempt(c, "register")
          /\ IF Invited(client[c].invite) /\ AccountOf(client[c].user) = {}
             THEN Moves(c, "checked") ELSE Fails(c)
    /\ UNCHANGED <<now, invites, accounts, devices, registrations, logins, opened, troubles>>

RegisterPending(c) ==
    /\ At(c, "checked")
    /\ registrations' = Unexpired(registrations) \cup
           {[id |-> Id(c), user |-> client[c].user, invite |-> client[c].invite,
             expires |-> now + PendingTtl]}
    /\ Moves(c, "finish")
    /\ UNCHANGED <<now, invites, accounts, devices, logins, attempts, opened, troubles>>

\* register_finish takes what was started, then creates the account.
RegisterTake(c) ==
    LET mine == {r \in registrations : r.id = Id(c)}
    IN /\ At(c, "finish")
       /\ registrations' = registrations \ mine
       /\ IF \E r \in mine : r.expires > now THEN Moves(c, "taken") ELSE Fails(c)
       /\ UNCHANGED <<now, invites, accounts, devices, logins, attempts, opened, troubles>>

\* Mutant: register_start has looked at the invite already.
WasInvited(i) == TRUE
StillInvited(i) == i # None => InviteHolds(i)

NameIsFree(u) == AccountOf(u) = {}

\* create_account, a transaction: the username, the invite and the account.
CreateAccount(c) ==
    LET new == [id |-> Id(c), user |-> client[c].user, password |-> PasswordFile(c),
                invite |-> client[c].invite]
    IN /\ At(c, "taken")
       /\ IF NameIsFree(new.user) /\ StillInvited(new.invite)
          THEN /\ accounts' = accounts \cup {new}
               /\ opened' = opened \cup {new}
               /\ invites' = [i \in Invites |->
                     IF i = new.invite THEN [invites[i] EXCEPT !.used = TRUE] ELSE invites[i]]
               /\ Moves(c, "login")
          ELSE Fails(c) /\ UNCHANGED <<accounts, opened, invites>>
       /\ UNCHANGED <<now, devices, memory, troubles>>

----------------------------------------------------------------------------
\* login_start reads the account, and keeps what it has read.  An unknown
\* username is answered like any other.
Known(u) == IF AccountOf(u) = {} THEN {None} ELSE AccountOf(u)

LoginStart(c) ==
    /\ At(c, "login")
    /\ \/ RefuseAttempt(c) /\ Fails(c)
       \/ /\ AllowAttempt(c, "login")
          /\ \E a \in Known(client[c].user) :
                client' = [client EXCEPT ![c].pc = "looked", ![c].pending = a]
    /\ UNCHANGED <<now, invites, accounts, devices, registrations, logins, opened, troubles>>

LoginPending(c) ==
    /\ At(c, "looked")
    /\ logins' = Unexpired(logins) \cup {[id |-> Id(c), account |-> client[c].pending,
                                          expires |-> now + PendingTtl]}
    /\ client' = [client EXCEPT ![c].pc = "bind", ![c].pending = None]
    /\ UNCHANGED <<now, invites, accounts, devices, registrations, attempts, opened, troubles>>

\* The client's end of OPAQUE: only here does it show that the username is
\* unknown or the password wrong.
PasswordMatches(c, a) == a # None /\ a.password = Password[c]

\* login_finish: a started login is good for one answer, and for a while.  A
\* client whose password is wrong does not come this far.
LoginTake(c) ==
    LET mine == {l \in logins : l.id = Id(c)}
    IN /\ At(c, "bind")
       /\ \/ /\ \E l \in mine : ~PasswordMatches(c, l.account)
             /\ Fails(c)
             /\ UNCHANGED logins
          \/ /\ \A l \in mine : PasswordMatches(c, l.account)
             /\ logins' = logins \ mine
             /\ IF \E l \in mine : l.expires > now
                THEN \E l \in mine :
                        client' = [client EXCEPT ![c].pc = "verified", ![c].pending = l.account]
                ELSE Fails(c)
       /\ UNCHANGED <<now, invites, accounts, devices, registrations, attempts, opened, troubles>>

\* Mutant: without PRAGMA foreign_keys.
AnyAccount(a) == TRUE
References(a) == \E b \in accounts : b.id = a.id

\* add_device: the database refuses a device of no account, a storage error.
AddDevice(c) ==
    LET a == client[c].pending
    IN /\ At(c, "verified")
       /\ IF References(a)
          THEN /\ devices' = devices \cup {[id |-> Id(c), account |-> a.id, approved |-> FALSE]}
               /\ Moves(c, "added")
          ELSE Fails(c) /\ UNCHANGED devices
       /\ UNCHANGED <<now, invites, accounts, memory, opened, troubles>>

ApproveIfFirst(c) ==
    LET first == ~\E d \in devices : d.account = client[c].pending.id /\ d.approved
    IN /\ At(c, "added")
       /\ devices' = {IF d.id = Id(c) THEN [d EXCEPT !.approved = first] ELSE d : d \in devices}
       /\ Moves(c, "opened")
       /\ UNCHANGED <<now, invites, accounts, memory, opened, troubles>>

Unwraps(c) == client[c].pending.id = Id(c)

\* The account key opens with the account's own secret, which the client that
\* has just created it holds and any other must be granted.
Open(c) ==
    /\ At(c, "opened")
    /\ IF ~client[c].joins THEN Moves(c, "waiting")
       ELSE IF Unwraps(c) THEN Moves(c, "in") ELSE Fails(c)
    /\ UNCHANGED <<now, invites, accounts, devices, memory, opened, troubles>>

----------------------------------------------------------------------------
\* An answer is lost, or the client is closed, between two requests.
GivesUp(c) ==
    /\ client[c].pc \in {"finish", "login", "bind", "opened"}
    /\ Trouble
    /\ Fails(c)
    /\ UNCHANGED <<now, invites, accounts, devices, memory, opened>>

InHand(c) == client[c].pc \in {"checked", "taken", "looked", "verified", "added"}

\* The server stops: what it had in memory and in hand is gone.
Restart ==
    /\ Trouble
    /\ registrations' = {} /\ logins' = {} /\ attempts' = {}
    /\ client' = [c \in Clients |-> IF InHand(c) THEN Idle(client[c].try) ELSE client[c]]
    /\ UNCHANGED <<now, invites, accounts, devices, opened>>

\* `delete-user', another process on the same database: devices go with it.
DeleteUser(u) ==
    /\ AccountOf(u) # {}
    /\ Trouble
    /\ accounts' = accounts \ AccountOf(u)
    /\ devices' = {d \in devices : \A a \in AccountOf(u) : d.account # a.id}
    /\ UNCHANGED <<now, invites, memory, client, opened>>

\* A tick is minutes: no handler takes as long.
Tick ==
    /\ now < MaxNow
    /\ \A c \in Clients : ~InHand(c)
    /\ now' = now + 1
    /\ UNCHANGED <<invites, accounts, devices, memory, client, opened, troubles>>

Serves(c) ==
    \/ RegisterStart(c) \/ RegisterPending(c) \/ RegisterTake(c) \/ CreateAccount(c)
    \/ LoginStart(c) \/ LoginPending(c) \/ LoginTake(c) \/ AddDevice(c) \/ ApproveIfFirst(c)

Next ==
    \/ \E i \in Invites : AddInvite(i)
    \/ \E c \in Clients, u \in Users : LogIn(c, u) \/ \E i \in Invites \cup {None} : Join(c, u, i)
    \/ \E c \in Clients : Serves(c) \/ Open(c) \/ GivesUp(c)
    \/ Restart \/ Tick
    \/ \E u \in Users : DeleteUser(u)

Spec == Init /\ [][Next]_vars

----------------------------------------------------------------------------
\* An invite makes one account and a username names one, whoever else started
\* with the same invite or name at the same time (store.rs:180).
OneAccountEach ==
    /\ TypeOK
    /\ \A a, b \in opened : a.invite = b.invite /\ a.invite # None => a = b
    /\ \A a, b \in accounts : a.user = b.user => a = b

\* The memory that strangers can fill is bounded by the attempts allowed in a
\* window, although an entry goes only when another comes (app.rs:54, 458).
PendingIsBounded == Cardinality(registrations) <= MaxOverall /\ Cardinality(logins) <= MaxOverall

\* Whoever ends up in by joining is in the account it created, and every
\* device is of an account there is, also when the user was deleted, or came
\* back as another, between a login's two requests (app.rs:572, account.rs:187).
EveryoneIsAtHome ==
    /\ \A c \in Clients : At(c, "in") => client[c].pending.id = Id(c)
    /\ \A d \in devices : \E a \in accounts : a.id = d.account
=============================================================================
