-------------------------------- MODULE Access --------------------------------
(* Who gets into an account: logins, the first device, approvals, QR pairings *)
(* and revocations, on the server (app.rs, app/pairing.rs, store.rs) and in   *)
(* the clients (account.rs, pairing.rs).                                      *)
(*                                                                            *)
(* A device here is one pair of device keys: every login and every pairing    *)
(* makes new ones, so each is used once.  A handler authenticates its caller  *)
(* under one lock of the store and acts under another, so a signed call has   *)
(* two steps on the server.  Sealing is modelled by what it lets through: a   *)
(* grant is known by the device that made it, and only its addressee opens it.*)
EXTENDS Naturals, FiniteSets

CONSTANTS Devices, Pairings, None,
          First,        \* the device that creates the account
          PairingTtl,   \* pairing::TTL_MS, in ticks
          PendingTtl,   \* store::PENDING_TTL_MS, in ticks
          MaxTroubles   \* bound: lost answers, restarts, and whatever a person
                        \* takes back (revocations, cancellations, giving up)

ASSUME AccessConstants ==
    /\ First \in Devices
    /\ None \notin Devices \cup Pairings
    /\ PairingTtl \in Nat \ {0}
    /\ PendingTtl \in Nat \ {0}
    /\ MaxTroubles \in Nat

VARIABLES
    row,        \* the devices table
    session,    \* the server's pairings, in memory
    client,     \* each device's own login or pairing
    offer,      \* pairing.json: the QR a device shows
    call,       \* each device's signed call in progress
    confirmed,  \* history: the devices whose code a person compared
    troubles

vars == <<row, session, client, offer, call, confirmed, troubles>>

NoRow == [known |-> FALSE, approved |-> FALSE, revoked |-> FALSE,
          grant |-> None, record |-> FALSE, age |-> 0]
NoSession == [owner |-> None, peer |-> None, granted |-> FALSE, age |-> 0]
NoCall == [op |-> "none", device |-> None, pairing |-> None, authed |-> FALSE]

Row == [known : BOOLEAN, approved : BOOLEAN, revoked : BOOLEAN,
        grant : Devices \cup {None}, record : BOOLEAN, age : 0 .. PendingTtl]
Session == [owner : Devices \cup {None}, peer : Devices \cup {None},
            granted : BOOLEAN, age : 0 .. PairingTtl]
Client ==
    [pc : {"out", "added", "waiting", "scanning", "opened", "publishing", "in", "gone"},
     secret : BOOLEAN, link : Pairings \cup {None}]
Call == [op : {"none", "grant", "revoke", "create", "cancel", "complete"},
         device : Devices \cup {None}, pairing : Pairings \cup {None}, authed : BOOLEAN]

TypeOK ==
    /\ row \in [Devices -> Row]
    /\ session \in [Pairings -> Session]
    /\ client \in [Devices -> Client]
    /\ offer \in [Devices -> Pairings \cup {None}]
    /\ call \in [Devices -> Call]
    /\ confirmed \subseteq Devices
    /\ troubles \in 0 .. MaxTroubles

Init ==
    /\ row = [d \in Devices |-> NoRow]
    /\ session = [p \in Pairings |-> NoSession]
    /\ client = [d \in Devices |-> [pc |-> "out", secret |-> FALSE, link |-> None]]
    /\ offer = [d \in Devices |-> None]
    /\ call = [d \in Devices |-> NoCall]
    /\ confirmed = {}
    /\ troubles = 0

Trouble == troubles < MaxTroubles /\ troubles' = troubles + 1

Moves(d, pc) == client' = [client EXCEPT ![d].pc = pc]

\* A client that gives up leaves with its keys: they were in no file yet.
Fails(d) == Moves(d, "gone")

----------------------------------------------------------------------------
\* What the server checks of a signed call.

Authentic(d) == row[d].known /\ ~row[d].revoked

Approved(d) == Authentic(d) /\ row[d].approved

----------------------------------------------------------------------------
\* Logging in (login_finish).

\* add_device, once the password has checked out.
LoginAdds(d) ==
    /\ client[d].pc = "out"
    /\ row' = [row EXCEPT ![d].known = TRUE]
    /\ Moves(d, "added")
    /\ UNCHANGED <<session, offer, call, confirmed, troubles>>

\* Mutant: only devices that have published their record count.
NobodyListed == ~\E e \in Devices : Approved(e) /\ row[e].record
NobodyApproved == ~\E e \in Devices : Approved(e)

\* approve_if_first, in the same handler but under the lock again.  The device
\* that created the account has its secret; any other waits for a grant.
ApproveIfFirst(d) ==
    /\ client[d].pc = "added"
    /\ row' = IF NobodyApproved THEN [row EXCEPT ![d].approved = TRUE] ELSE row
    /\ IF d = First
       THEN client' = [client EXCEPT ![d].pc = "opened", ![d].secret = TRUE]
       ELSE Moves(d, "waiting")
    /\ UNCHANGED <<session, offer, call, confirmed, troubles>>

LoginAnswerLost(d) ==
    /\ client[d].pc = "added"
    /\ Trouble
    /\ row' = IF NobodyApproved THEN [row EXCEPT ![d].approved = TRUE] ELSE row
    /\ Fails(d)
    /\ UNCHANGED <<session, offer, call, confirmed>>

\* Mutant: being approved is taken for having a grant.
IsApproved(d) == Approved(d)
HasGrant(d) == Authentic(d) /\ row[d].grant # None

\* Mutant: every refusal is taken for "not approved yet".
NotYet(d) == FALSE
Refused(d) == ~Authentic(d)

\* get_grant, asked again and again while there is none.
Collect(d) ==
    /\ client[d].pc = "waiting"
    /\ \/ /\ Refused(d)
          /\ Fails(d)
       \/ /\ HasGrant(d)
          /\ client' = [client EXCEPT ![d].pc = "opened", ![d].secret = TRUE]
    /\ UNCHANGED <<row, session, offer, call, confirmed, troubles>>

\* Nobody approves within APPROVAL_TIMEOUT, or the person gives up.
StopsWaiting(d) ==
    /\ client[d].pc \in {"waiting", "scanning"}
    /\ Fails(d)
    /\ Trouble
    /\ UNCHANGED <<row, session, offer, call, confirmed>>

\* Mutant: joined, with or without a record.
JoinsAnyway(d) == Moves(d, "in")
NotPublished(d) == Fails(d)

\* put_device: the record goes up, then the cursor comes down, and only then
\* is there a state to save.
PublishStart(d) ==
    /\ client[d].pc = "opened"
    /\ \/ Approved(d) /\ Moves(d, "publishing") /\ UNCHANGED troubles
       \/ ~Approved(d) /\ NotPublished(d) /\ UNCHANGED troubles
       \/ Trouble /\ NotPublished(d)
    /\ UNCHANGED <<row, session, offer, call, confirmed>>

Publish(d) ==
    /\ client[d].pc = "publishing"
    /\ row' = [row EXCEPT ![d].record = TRUE]
    /\ \/ Moves(d, IF Approved(d) THEN "in" ELSE "gone") /\ UNCHANGED troubles
       \/ Trouble /\ Fails(d)
    /\ UNCHANGED <<session, offer, call, confirmed>>

----------------------------------------------------------------------------
\* Signed calls of the devices that are in.

CanCall(o) == client[o].pc = "in" /\ call[o] = NoCall

Calls(o, op, d, p) ==
    call' = [call EXCEPT ![o] = [op |-> op, device |-> d, pairing |-> p, authed |-> FALSE]]

Ends(o) == call' = [call EXCEPT ![o] = NoCall]

Authenticate(o) ==
    /\ call[o].op # "none"
    /\ ~call[o].authed
    /\ IF Approved(o) THEN call' = [call EXCEPT ![o].authed = TRUE] ELSE Ends(o)
    /\ UNCHANGED <<row, session, client, offer, confirmed, troubles>>

\* pending_devices: the requests nobody approved in a day are dropped first.
Pending(d) == Authentic(d) /\ ~row[d].approved

Dropped == {d \in Devices : Pending(d) /\ row[d].age >= PendingTtl}

\* account::approve.  The person compares the code listed with the one on the
\* waiting device's screen, and says yes only if it is the same.
ApproveStart(o, d) ==
    /\ CanCall(o)
    /\ client[o].secret
    /\ Approved(o)
    /\ row' = [e \in Devices |-> IF e \in Dropped THEN [row[e] EXCEPT !.revoked = TRUE]
                                 ELSE row[e]]
    /\ IF Pending(d) /\ d \notin Dropped /\ client[d].pc = "waiting"
       THEN Calls(o, "grant", d, None) /\ confirmed' = confirmed \cup {d}
       ELSE Dropped # {} /\ UNCHANGED <<call, confirmed>>
    /\ UNCHANGED <<session, client, offer, troubles>>

\* Mutant: set_grant without revoked_at IS NULL.
Unapproved(d) == row[d].known /\ ~row[d].approved
Grantable(d) == Pending(d)

\* put_grant: set_grant has the last word on whether the device still waits.
PutGrant(o) ==
    LET d == call[o].device
    IN /\ call[o].op = "grant"
       /\ call[o].authed
       /\ row' = IF Grantable(d)
                 THEN [row EXCEPT ![d].grant = o, ![d].approved = TRUE] ELSE row
       /\ Ends(o)
       /\ UNCHANGED <<session, client, offer, confirmed, troubles>>

\* `revoke' of any device, of a waiting one, or of itself (`logout').
RevokeStart(o, d) ==
    /\ CanCall(o)
    /\ Authentic(d)
    /\ Calls(o, "revoke", d, None)
    /\ IF d = o THEN Fails(o) ELSE UNCHANGED client
    /\ Trouble
    /\ UNCHANGED <<row, session, offer, confirmed>>

Revoke(o) ==
    /\ call[o].op = "revoke"
    /\ call[o].authed
    /\ row' = [row EXCEPT ![call[o].device].revoked = TRUE]
    /\ Ends(o)
    /\ UNCHANGED <<session, client, offer, confirmed, troubles>>

----------------------------------------------------------------------------
\* QR pairings.

Active(p) ==
    /\ session[p].owner # None
    /\ session[p].age < PairingTtl
    /\ Approved(session[p].owner)

\* A QR nobody has seen yet: its id is new.
PairingCreateStart(o, p) ==
    /\ CanCall(o)
    /\ client[o].secret
    /\ session[p] = NoSession
    /\ \A e \in Devices : offer[e] # p /\ client[e].link # p /\ call[e].pairing # p
    /\ Calls(o, "create", None, p)
    /\ UNCHANGED <<row, session, client, offer, confirmed, troubles>>

\* create: an owner has one pairing at a time.  The client saves the offer and
\* shows the QR when it has the answer.
PairingCreate(o) ==
    LET p == call[o].pairing
    IN /\ call[o].op = "create"
       /\ call[o].authed
       /\ session' = [q \in Pairings |->
                         IF q = p THEN [NoSession EXCEPT !.owner = o]
                         ELSE IF session[q].owner = o THEN NoSession ELSE session[q]]
       /\ Ends(o)
       /\ \/ offer' = [offer EXCEPT ![o] = p] /\ UNCHANGED troubles
          \/ Trouble /\ UNCHANGED offer
       /\ UNCHANGED <<row, client, confirmed>>

PairingCancelStart(o) ==
    /\ CanCall(o)
    /\ offer[o] # None
    /\ Calls(o, "cancel", None, offer[o])
    /\ offer' = [offer EXCEPT ![o] = None]
    /\ Trouble
    /\ UNCHANGED <<row, session, client, confirmed>>

Owns(o, p) == Active(p) /\ session[p].owner = o

PairingCancel(o) ==
    LET p == call[o].pairing
    IN /\ call[o].op = "cancel"
       /\ call[o].authed
       /\ session' = IF Owns(o, p) THEN [session EXCEPT ![p] = NoSession] ELSE session
       /\ Ends(o)
       /\ UNCHANGED <<row, client, offer, confirmed, troubles>>

\* A new device scans the QR another one shows.
Scan(d, p) ==
    /\ client[d].pc = "out"
    /\ d # First
    /\ \E o \in Devices : offer[o] = p
    /\ client' = [client EXCEPT ![d].pc = "scanning", ![d].link = p]
    /\ UNCHANGED <<row, session, offer, call, confirmed, troubles>>

\* Mutant: the last one to ask is the peer.
LastPeer(p, d) == d
Peer(p, d) == IF session[p].peer = None THEN d ELSE session[p].peer

\* request: the first device to ask is the pairing's peer and any other is
\* refused; once granted, the answer to the peer carries the grant.
PairingRequest(d) ==
    LET p == client[d].link
    IN /\ client[d].pc = "scanning"
       /\ IF Active(p) /\ Peer(p, d) = d
          THEN /\ session' = [session EXCEPT ![p].peer = d]
               /\ IF session[p].granted
                  THEN client' = [client EXCEPT ![d].pc = "opened", ![d].secret = TRUE]
                  ELSE UNCHANGED client
          ELSE Fails(d) /\ UNCHANGED session
       /\ UNCHANGED <<row, offer, call, confirmed, troubles>>

\* pairing::approve: the status once more, and the code the person has seen on
\* the new device against the peer's.
CompleteStart(o) ==
    LET p == offer[o]
        d == session[p].peer
    IN /\ CanCall(o)
       /\ p # None
       /\ client[o].secret
       /\ Approved(o)
       /\ Owns(o, p)
       /\ d # None
       /\ client[d].pc = "scanning"
       /\ confirmed' = confirmed \cup {d}
       /\ Calls(o, "complete", d, p)
       /\ UNCHANGED <<row, session, client, offer, troubles>>

\* grant: only once, and only for keys the server has not seen before.  A
\* second one is refused: it was sealed with other randomness.
Complete(o) ==
    LET p == call[o].pairing
        d == session[p].peer
    IN /\ call[o].op = "complete"
       /\ call[o].authed
       /\ IF Owns(o, p) /\ ~session[p].granted /\ d # None /\ ~row[d].known
          THEN /\ row' = [row EXCEPT ![d].known = TRUE, ![d].grant = o, ![d].approved = TRUE]
               /\ session' = [session EXCEPT ![p].granted = TRUE]
          ELSE UNCHANGED <<row, session>>
       /\ Ends(o)
       /\ UNCHANGED <<client, offer, confirmed, troubles>>

----------------------------------------------------------------------------
Older(age, ttl) == IF age < ttl THEN age + 1 ELSE age

Tick ==
    /\ \/ \E d \in Devices : Pending(d) /\ row[d].age < PendingTtl
       \/ \E p \in Pairings : session[p].owner # None /\ session[p].age < PairingTtl
    /\ row' = [d \in Devices |->
                  IF Pending(d) THEN [row[d] EXCEPT !.age = Older(@, PendingTtl)] ELSE row[d]]
    /\ session' = [p \in Pairings |->
                      IF session[p].owner = None THEN session[p]
                      ELSE [session[p] EXCEPT !.age = Older(@, PairingTtl)]]
    /\ UNCHANGED <<client, offer, call, confirmed, troubles>>

Restart ==
    /\ Trouble
    /\ session' = [p \in Pairings |-> NoSession]
    /\ call' = [d \in Devices |-> NoCall]
    /\ UNCHANGED <<row, client, offer, confirmed>>

Joins(d) ==
    \/ LoginAdds(d) \/ ApproveIfFirst(d) \/ LoginAnswerLost(d) \/ Collect(d)
    \/ StopsWaiting(d) \/ PublishStart(d) \/ Publish(d) \/ PairingRequest(d)

Serves(o) ==
    \/ Authenticate(o) \/ PutGrant(o) \/ Revoke(o)
    \/ PairingCreate(o) \/ PairingCancel(o) \/ Complete(o)

Next ==
    \/ \E d \in Devices : Joins(d) \/ Serves(d) \/ CompleteStart(d) \/ PairingCancelStart(d)
    \/ \E o, d \in Devices : ApproveStart(o, d) \/ RevokeStart(o, d)
    \/ \E d \in Devices, p \in Pairings : PairingCreateStart(d, p) \/ Scan(d, p)
    \/ Tick \/ Restart

Spec == Init /\ [][Next]_vars

\* A handler runs to its end, and a client that waits keeps asking.
FairSpec ==
    /\ Spec
    /\ \A d \in Devices :
          /\ WF_vars(ApproveIfFirst(d)) /\ WF_vars(Collect(d))
          /\ WF_vars(PublishStart(d) \/ Publish(d)) /\ WF_vars(PairingRequest(d))
          /\ WF_vars(Serves(d))

----------------------------------------------------------------------------
\* Two logins at once do not both approve themselves: at any time at most one
\* device that is not revoked was let in without a grant (store.rs:293).
OneLetsItselfIn ==
    Cardinality({d \in Devices : Approved(d) /\ row[d].grant = None}) <= 1

\* Nobody is granted anything whose code no person compared with the one on
\* its own screen, even when two devices scan one QR (app/pairing.rs:139, 171).
OnlyConfirmedAreGranted == \A d \in Devices : row[d].grant # None => d \in confirmed

\* Whoever has the secret and did not create the account has it, from hand to
\* hand, from the creator: among any such devices one was let in by a device
\* that is not among them, and that has the secret.
HandToHand ==
    \A S \in SUBSET {d \in Devices : client[d].secret /\ d # First} :
        S # {} => \E d \in S : /\ row[d].grant \in Devices \ S
                               /\ client[row[d].grant].secret

\* The account secret travels only along grants, from the device that created
\* the account (app.rs:660, 686, pairing.rs:171); and a device that finished
\* joining is on every list, and so can be revoked, until it is (account.rs:219,
\* app.rs:615, store.rs:337).  And the state is typed.
SecretIsAccountedFor ==
    /\ TypeOK
    /\ HandToHand
    /\ \A d \in Devices : client[d].pc = "in" => row[d].approved /\ row[d].record

\* "As the account's first device, this one approves itself" (account.rs:111):
\* the device that created the account is in from its first login on.
CreatorIsApproved ==
    client[First].pc \in {"opened", "publishing"} => row[First].approved

\* The tables, the pairings and the clients keep a register of the account: what
\* two or three handlers and a client do together is one of its steps, or none.
Standing(d) ==
    IF row[d].revoked THEN "out"
    ELSE IF row[d].approved THEN "in"
    ELSE IF row[d].known THEN "waiting" ELSE "stranger"

Account == INSTANCE Register WITH
    Creator <- First,
    standing <- [d \in Devices |-> Standing(d)],
    grantor <- [d \in Devices |-> row[d].grant],
    holders <- {First} \cup {d \in Devices : client[d].secret}

\* Whatever interleaves on the server, every step is one of the register's: a
\* device is in through one that has the secret, or because nobody was; it has
\* the secret by its own grant; out is for good (app.rs:660, store.rs:293, 317,
\* pairing.rs:171).
ImplementsRegister == Account!Spec

\* A revoked device is never let in again, whatever was on its way (store.rs:293,
\* 317): what the register says of those that are out.
RevokedStaysOut == [][\A d \in Devices : row[d].revoked => row'[d].revoked /\ row'[d].grant = row[d].grant]_vars

\* A device that waits and was granted does not wait for ever (account.rs:228,
\* pairing.rs:133): it gets in, or finds its QR or itself refused.
GrantedStopWaiting ==
    \A d \in Devices :
        row[d].grant # None /\ client[d].pc \in {"waiting", "scanning"}
            ~> client[d].pc \notin {"waiting", "scanning"}
=============================================================================
