---------------------------- MODULE AccessProofs -----------------------------
(* Who gets into an account: the first device, what is granted to whom, where *)
(* the account secret has been, and what a revocation leaves, for any devices *)
(* and pairings, any times to live, and any number of lost answers, restarts  *)
(* and changes of mind.                                                       *)
EXTENDS Access, FiniteSetTheorems, TLAPS

\* Rows: whoever is approved or revoked is known, and only one device is in
\* without a grant.
LetIn(d) == Approved(d) /\ row[d].grant = None

RowInv ==
    /\ \A d \in Devices : row[d].approved \/ row[d].revoked => row[d].known
    /\ \A d \in Devices : client[d].pc = "added" => row[d].known
    /\ \A d, e \in Devices : LetIn(d) /\ LetIn(e) => d = e

\* Clients: nobody has the secret before its answer, a grant comes from a
\* device that has it, and whoever is in has published its record.
SecretInv ==
    /\ \A d \in Devices :
          client[d].secret => client[d].pc \notin {"out", "added", "waiting", "scanning"}
    /\ \A d \in Devices :
          client[d].secret => d = First \/ row[d].grant # None
    /\ \A d \in Devices : row[d].grant # None => client[row[d].grant].secret
    /\ \A d \in Devices : client[d].pc = "in" => row[d].approved /\ row[d].record

\* A call in progress asks for what a person said yes to, although the server
\* looks at its state again when it acts.
Sound(c, o) ==
    /\ c.op = "none" => c = NoCall
    /\ c.op \in {"grant", "complete"} => c.device \in confirmed /\ client[o].secret
    /\ c.op = "revoke" => c.device \in Devices /\ row[c.device].known
    /\ c.op \in {"create", "cancel", "complete"} => c.pairing \in Pairings

\* The pairing that a call completes has the peer whose code was compared.
MeansItsPeer(p, d) == session[p].owner # None => session[p].peer = d

\* The id of a pairing that is being made is in nobody's hands yet, so an
\* answer meant for an older pairing never meets another one under its id.
IsNew(p, o) ==
    /\ session[p] = NoSession
    /\ \A e \in Devices :
          offer[e] # p /\ client[e].link # p /\ (e # o => call[e].pairing # p)

CallInv ==
    \A o \in Devices :
        /\ Sound(call[o], o)
        /\ call[o].op = "complete" => MeansItsPeer(call[o].pairing, call[o].device)
        /\ call[o].op = "create" => IsNew(call[o].pairing, o)

\* Pairings: a granted one has a peer, and the peer has its grant.
PairingInv ==
    /\ \A p \in Pairings :
          session[p].granted => session[p].peer # None /\ row[session[p].peer].grant # None
    /\ \A d \in Devices : client[d].pc = "scanning" => client[d].link \in Pairings

AccessInv ==
    /\ TypeOK
    /\ OnlyConfirmedAreGranted
    /\ RowInv
    /\ SecretInv
    /\ CallInv
    /\ PairingInv
----------------------------------------------------------------------------
(* What a step makes of a row, a client and a call keeps its type.            *)

LEMMA RowChanges ==
  ASSUME row \in [Devices -> Row], NEW d \in Devices, NEW o \in Devices
  PROVE  /\ [row EXCEPT ![d].known = TRUE] \in [Devices -> Row]
         /\ [row EXCEPT ![d].approved = TRUE] \in [Devices -> Row]
         /\ [row EXCEPT ![d].revoked = TRUE] \in [Devices -> Row]
         /\ [row EXCEPT ![d].record = TRUE] \in [Devices -> Row]
         /\ [row EXCEPT ![d].grant = o, ![d].approved = TRUE] \in [Devices -> Row]
         /\ [row EXCEPT ![d].known = TRUE, ![d].grant = o, ![d].approved = TRUE]
              \in [Devices -> Row]
  BY ZenonT(40) DEF Row

LEMMA ClientChanges ==
  ASSUME client \in [Devices -> Client], NEW d \in Devices,
         NEW pc \in {"out", "added", "waiting", "scanning",
                     "opened", "publishing", "in", "gone"}
  PROVE  /\ [client EXCEPT ![d].pc = pc] \in [Devices -> Client]
         /\ [client EXCEPT ![d].pc = pc, ![d].secret = TRUE] \in [Devices -> Client]
         /\ \A p \in Pairings :
              [client EXCEPT ![d].pc = pc, ![d].link = p] \in [Devices -> Client]
  BY ZenonT(40) DEF Client

LEMMA CallChanges ==
  ASSUME call \in [Devices -> Call], NEW o \in Devices
  PROVE  /\ [call EXCEPT ![o] = NoCall] \in [Devices -> Call]
         /\ [call EXCEPT ![o].authed = TRUE] \in [Devices -> Call]
  BY DEF Call, NoCall

LEMMA CallsHasType ==
  ASSUME call \in [Devices -> Call], NEW o \in Devices,
         NEW op \in {"none", "grant", "revoke", "create", "cancel", "complete"},
         NEW d \in Devices \cup {None}, NEW p \in Pairings \cup {None}, Calls(o, op, d, p)
  PROVE  call' \in [Devices -> Call]
  BY DEF Call, Calls

LEMMA SessionChanges ==
  ASSUME session \in [Pairings -> Session], NEW p \in Pairings, NEW d \in Devices
  PROVE  /\ NoSession \in Session
         /\ [NoSession EXCEPT !.owner = d] \in Session
         /\ [session EXCEPT ![p] = NoSession] \in [Pairings -> Session]
         /\ [session EXCEPT ![p].peer = d] \in [Pairings -> Session]
         /\ [session EXCEPT ![p].granted = TRUE] \in [Pairings -> Session]
<1>1. 0 \in 0 .. PairingTtl
  BY AccessConstants DEF AccessConstants
<1>2. NoSession \in Session /\ [NoSession EXCEPT !.owner = d] \in Session
  BY <1>1 DEF Session, NoSession
<1>. QED BY <1>2 DEF Session

\* Calls go on while nothing they rely on is taken away.
LEMMA CallsGoOn ==
  ASSUME TypeOK, CallInv,
         \A e \in Devices :
            /\ \/ call'[e] = call[e]
               \/ call'[e] = NoCall
               \/ call[e].op # "none" /\ call'[e] = [call[e] EXCEPT !.authed = TRUE]
            /\ client[e].secret => client'[e].secret
            /\ row[e].known => row'[e].known
            /\ call'[e].op = "complete" => MeansItsPeer(call[e].pairing, call[e].device)'
            /\ call'[e].op = "create" => IsNew(call[e].pairing, e)',
         confirmed' = confirmed
  PROVE  CallInv'
<1>. SUFFICES ASSUME NEW e \in Devices
              PROVE  Sound(call[e], e)'
  BY DEF CallInv
<1>1. Sound(call[e], e)
  BY DEF CallInv
<1>2. call'[e] = [call[e] EXCEPT !.authed = TRUE] =>
         /\ call'[e].op = call[e].op
         /\ call'[e].device = call[e].device
         /\ call'[e].pairing = call[e].pairing
  BY DEF TypeOK, Call
<1>3. CASE call'[e] = NoCall
  BY <1>3 DEF Sound, NoCall
<1>4. CASE call'[e] = call[e]
  BY <1>1, <1>4 DEF Sound, NoCall, TypeOK
<1>5. CASE call[e].op # "none" /\ call'[e] = [call[e] EXCEPT !.authed = TRUE]
  BY <1>1, <1>2, <1>5 DEF Sound, NoCall, TypeOK
<1>. QED BY <1>3, <1>4, <1>5

\* Nothing a call in progress relies on is in the hands of a joining device.
LEMMA CallsIgnoreJoins ==
  ASSUME TypeOK, CallInv, UNCHANGED <<session, offer, call, confirmed>>,
         \A e \in Devices : /\ client[e].secret => client'[e].secret
                            /\ client'[e].link = client[e].link
                            /\ row[e].known => row'[e].known
  PROVE  CallInv'
<1>1. ASSUME NEW e \in Devices
      PROVE  /\ call'[e].op = "complete" => MeansItsPeer(call[e].pairing, call[e].device)'
             /\ call'[e].op = "create" => IsNew(call[e].pairing, e)'
  BY <1>1 DEF CallInv, MeansItsPeer, IsNew
<1>. QED BY <1>1, CallsGoOn

\* A call that is answered, or found authentic, leaves the others as they are.
LEMMA CallsIgnoreAnswers ==
  ASSUME TypeOK, CallInv, NEW o \in Devices, call[o].op # "none",
         \/ call' = [call EXCEPT ![o] = NoCall]
         \/ call' = [call EXCEPT ![o].authed = TRUE],
         UNCHANGED <<client, confirmed>>,
         \A e \in Devices :
            /\ row[e].known => row'[e].known
            /\ call'[e].op = "complete" => MeansItsPeer(call[e].pairing, call[e].device)'
            /\ call'[e].op = "create" =>
                  /\ session'[call[e].pairing] = NoSession
                  /\ \A x \in Devices : offer'[x] # call[e].pairing
  PROVE  CallInv'
<1>1. ASSUME NEW e \in Devices
      PROVE  \/ call'[e] = call[e]
             \/ call'[e] = NoCall
             \/ call[e].op # "none" /\ call'[e] = [call[e] EXCEPT !.authed = TRUE]
  BY DEF TypeOK
<1>2. ASSUME NEW e \in Devices
      PROVE  call'[e].pairing = call[e].pairing \/ call'[e].pairing = None
  BY <1>1 DEF TypeOK, Call, NoCall
<1>3. ASSUME NEW e \in Devices, call'[e].op = "create"
      PROVE  IsNew(call[e].pairing, e)'
  <2>1. /\ call[e].op = "create"
        /\ call'[e].pairing = call[e].pairing
        /\ call[e].pairing \in Pairings
    BY <1>1, <1>3 DEF NoCall, CallInv, Sound, TypeOK, Call
  <2>2. \A x \in Devices : /\ client[x].link # call[e].pairing
                           /\ x # e => call[x].pairing # call[e].pairing
    BY <2>1 DEF CallInv, IsNew
  <2>3. \A x \in Devices : x # e => call'[x].pairing # call[e].pairing
    BY <1>2, <2>1, <2>2, AccessConstants DEF AccessConstants
  <2>. QED BY <1>3, <2>1, <2>2, <2>3 DEF IsNew
<1>. QED BY <1>1, <1>3, CallsGoOn
LEMMA AnswersLeaveCalls ==
  ASSUME TypeOK, CallInv, NEW o \in Devices, call[o].op # "none",
         \/ call' = [call EXCEPT ![o] = NoCall]
         \/ call' = [call EXCEPT ![o].authed = TRUE],
         UNCHANGED <<session, client, offer, confirmed>>,
         \A e \in Devices : row[e].known => row'[e].known
  PROVE  CallInv'
<1>1. ASSUME NEW e \in Devices, call'[e].op # "none"
      PROVE  /\ call'[e].op = call[e].op
             /\ call'[e].pairing = call[e].pairing
             /\ call'[e].device = call[e].device
  BY <1>1 DEF TypeOK, Call, NoCall
<1>2. ASSUME NEW e \in Devices, call'[e].op = "complete"
      PROVE  MeansItsPeer(call[e].pairing, call[e].device)'
  BY <1>1, <1>2 DEF CallInv, MeansItsPeer
<1>3. ASSUME NEW e \in Devices, call'[e].op = "create"
      PROVE  /\ session'[call[e].pairing] = NoSession
             /\ \A x \in Devices : offer'[x] # call[e].pairing
  BY <1>1, <1>3 DEF CallInv, IsNew
<1>. QED BY <1>2, <1>3, CallsIgnoreAnswers
----------------------------------------------------------------------------
(* Joining.                                                                   *)

LEMMA LoginAddsKeepsInv ==
  ASSUME AccessInv, NEW d \in Devices, LoginAdds(d)
  PROVE  AccessInv'
<1>. USE DEF AccessInv, LoginAdds, Moves
<1>1. TypeOK'
  BY RowChanges, ClientChanges DEF TypeOK
<1>2. OnlyConfirmedAreGranted'
  BY DEF TypeOK, Row, OnlyConfirmedAreGranted
<1>3. RowInv'
  BY DEF TypeOK, Row, RowInv, LetIn, Approved, Authentic
<1>4. SecretInv'
  BY DEF TypeOK, Row, Client, SecretInv
<1>5. CallInv'
  BY CallsIgnoreJoins DEF TypeOK, Row, Client
<1>6. PairingInv'
  BY DEF TypeOK, Row, Session, Client, PairingInv
<1>. QED BY <1>1, <1>2, <1>3, <1>4, <1>5, <1>6

LEMMA ApproveIfFirstKeepsInv ==
  ASSUME AccessInv, NEW d \in Devices, ApproveIfFirst(d) \/ LoginAnswerLost(d)
  PROVE  AccessInv'
<1>. USE DEF AccessInv
<1>1. /\ row' = row \/ (NobodyApproved /\ row' = [row EXCEPT ![d].approved = TRUE])
      /\ \/ d = First /\ client' = [client EXCEPT ![d].pc = "opened", ![d].secret = TRUE]
         \/ client' = [client EXCEPT ![d].pc = "waiting"]
         \/ client' = [client EXCEPT ![d].pc = "gone"]
      /\ troubles' \in 0 .. MaxTroubles
      /\ client[d].pc = "added"
      /\ UNCHANGED <<session, offer, call, confirmed>>
  BY AccessConstants
     DEF TypeOK, ApproveIfFirst, LoginAnswerLost, Moves, Fails, Trouble, AccessConstants
<1>2. TypeOK'
  <2>1. row' \in [Devices -> Row]
    <3>1. [row EXCEPT ![d].approved = TRUE] \in [Devices -> Row]
      BY RowChanges DEF TypeOK
    <3>. QED BY <1>1, <3>1 DEF TypeOK
  <2>2. client' \in [Devices -> Client]
    <3>1. /\ [client EXCEPT ![d].pc = "opened", ![d].secret = TRUE] \in [Devices -> Client]
          /\ [client EXCEPT ![d].pc = "waiting"] \in [Devices -> Client]
          /\ [client EXCEPT ![d].pc = "gone"] \in [Devices -> Client]
      BY ClientChanges DEF TypeOK
    <3>. QED BY <1>1, <3>1
  <2>. QED BY <1>1, <2>1, <2>2 DEF TypeOK
<1>3. ASSUME NEW e \in Devices
      PROVE  /\ row'[e].known = row[e].known
             /\ row'[e].revoked = row[e].revoked
             /\ row'[e].grant = row[e].grant
             /\ row'[e].record = row[e].record
             /\ row[e].approved => row'[e].approved
             /\ row'[e].approved => row[e].approved \/ (e = d /\ NobodyApproved)
  BY <1>1 DEF TypeOK, Row
<1>4. ASSUME NEW e \in Devices
      PROVE  /\ client'[e].link = client[e].link
             /\ e # d => client'[e] = client[e]
             /\ e = d => client'[e].pc \in {"opened", "waiting", "gone"}
             /\ client[e].secret => client'[e].secret
             /\ client'[e].secret =>
                  client[e].secret \/ (e = d /\ d = First /\ client'[e].pc = "opened")
  BY <1>1 DEF TypeOK, Client
<1>5. OnlyConfirmedAreGranted'
  BY <1>1, <1>3 DEF OnlyConfirmedAreGranted
<1>6. RowInv'
  BY <1>1, <1>3, <1>4 DEF RowInv, LetIn, Approved, Authentic, NobodyApproved
<1>7. SecretInv'
  <2>1. ASSUME NEW e \in Devices, client'[e].secret
        PROVE  /\ client'[e].pc \notin {"out", "added", "waiting", "scanning"}
               /\ e = First \/ row'[e].grant # None
    BY <1>1, <1>3, <1>4, <2>1 DEF SecretInv
  <2>2. ASSUME NEW e \in Devices, row'[e].grant # None
        PROVE  client'[row'[e].grant].secret
    BY <1>3, <1>4, <2>2 DEF TypeOK, Row, SecretInv
  <2>3. ASSUME NEW e \in Devices, client'[e].pc = "in"
        PROVE  row'[e].approved /\ row'[e].record
    BY <1>3, <1>4, <2>3 DEF SecretInv
  <2>. QED BY <2>1, <2>2, <2>3 DEF SecretInv
<1>8. CallInv'
  BY <1>1, <1>3, <1>4, CallsIgnoreJoins
<1>9. PairingInv'
  BY <1>1, <1>3, <1>4 DEF TypeOK, Session, PairingInv
<1>. QED BY <1>2, <1>5, <1>6, <1>7, <1>8, <1>9

\* A client that has logged in takes a grant, publishes its record or leaves.
LEMMA ClientStepKeepsInv ==
  ASSUME AccessInv, NEW d \in Devices,
         UNCHANGED <<session, offer, call, confirmed>>, troubles' \in 0 .. MaxTroubles,
         row' = row \/ row' = [row EXCEPT ![d].record = TRUE],
         \/ \E pc \in {"opened", "publishing", "in", "gone"} :
               /\ client' = [client EXCEPT ![d].pc = pc]
               /\ pc = "in" => row'[d].approved /\ row'[d].record
         \/ /\ client' = [client EXCEPT ![d].pc = "opened", ![d].secret = TRUE]
            /\ row[d].grant # None
  PROVE  AccessInv'
<1>. USE DEF AccessInv
<1>1. TypeOK'
  <2>1. row' \in [Devices -> Row]
    <3>1. [row EXCEPT ![d].record = TRUE] \in [Devices -> Row]
      BY RowChanges DEF TypeOK
    <3>. QED BY <3>1 DEF TypeOK
  <2>2. client' \in [Devices -> Client]
    <3>1. /\ \A pc \in {"opened", "publishing", "in", "gone"} :
               [client EXCEPT ![d].pc = pc] \in [Devices -> Client]
          /\ [client EXCEPT ![d].pc = "opened", ![d].secret = TRUE] \in [Devices -> Client]
      BY ClientChanges DEF TypeOK
    <3>. QED BY <3>1
  <2>. QED BY <2>1, <2>2 DEF TypeOK
<1>2. ASSUME NEW e \in Devices
      PROVE  /\ row'[e].known = row[e].known
             /\ row'[e].revoked = row[e].revoked
             /\ row'[e].approved = row[e].approved
             /\ row'[e].grant = row[e].grant
             /\ row[e].record => row'[e].record
  BY DEF TypeOK, Row
<1>3. ASSUME NEW e \in Devices
      PROVE  /\ client'[e].link = client[e].link
             /\ e # d => client'[e] = client[e]
             /\ e = d => client'[e].pc \in {"opened", "publishing", "in", "gone"}
             /\ client[e].secret => client'[e].secret
             /\ client'[e].secret => client[e].secret \/ row[e].grant # None
             /\ e = d /\ client'[e].pc = "in" => row'[e].approved /\ row'[e].record
  BY DEF TypeOK, Client
<1>4. OnlyConfirmedAreGranted'
  BY <1>2 DEF OnlyConfirmedAreGranted
<1>5. RowInv'
  BY <1>2, <1>3 DEF RowInv, LetIn, Approved, Authentic
<1>6. SecretInv'
  <2>1. ASSUME NEW e \in Devices, client'[e].secret
        PROVE  /\ client'[e].pc \notin {"out", "added", "waiting", "scanning"}
               /\ e = First \/ row'[e].grant # None
    BY <1>2, <1>3, <2>1 DEF SecretInv
  <2>2. ASSUME NEW e \in Devices, row'[e].grant # None
        PROVE  client'[row'[e].grant].secret
    BY <1>2, <1>3, <2>2 DEF TypeOK, Row, SecretInv
  <2>3. ASSUME NEW e \in Devices, client'[e].pc = "in"
        PROVE  row'[e].approved /\ row'[e].record
    BY <1>2, <1>3, <2>3 DEF SecretInv
  <2>. QED BY <2>1, <2>2, <2>3 DEF SecretInv
<1>7. CallInv'
  BY <1>2, <1>3, CallsIgnoreJoins
<1>8. PairingInv'
  BY <1>2, <1>3 DEF TypeOK, Session, PairingInv
<1>. QED BY <1>1, <1>4, <1>5, <1>6, <1>7, <1>8

LEMMA CollectKeepsInv ==
  ASSUME AccessInv, NEW d \in Devices, Collect(d)
  PROVE  AccessInv'
<1>1. CASE Refused(d) /\ Fails(d)
  BY <1>1, ClientStepKeepsInv DEF AccessInv, TypeOK, Collect, Fails, Moves
<1>2. CASE HasGrant(d) /\ client' = [client EXCEPT ![d].pc = "opened", ![d].secret = TRUE]
  BY <1>2, ClientStepKeepsInv DEF AccessInv, TypeOK, Collect, HasGrant
<1>. QED BY <1>1, <1>2 DEF Collect

LEMMA StopsWaitingKeepsInv ==
  ASSUME AccessInv, NEW d \in Devices, StopsWaiting(d)
  PROVE  AccessInv'
<1>1. troubles' \in 0 .. MaxTroubles
  BY AccessConstants DEF AccessInv, TypeOK, StopsWaiting, Trouble, AccessConstants
<1>. QED BY <1>1, ClientStepKeepsInv DEF StopsWaiting, Fails, Moves

LEMMA PublishStartKeepsInv ==
  ASSUME AccessInv, NEW d \in Devices, PublishStart(d)
  PROVE  AccessInv'
<1>1. troubles' \in 0 .. MaxTroubles
  BY AccessConstants DEF AccessInv, TypeOK, PublishStart, Trouble, AccessConstants
<1>2. \E pc \in {"publishing", "gone"} : client' = [client EXCEPT ![d].pc = pc]
  BY DEF PublishStart, NotPublished, Fails, Moves
<1>. QED BY <1>1, <1>2, ClientStepKeepsInv DEF PublishStart

LEMMA PublishKeepsInv ==
  ASSUME AccessInv, NEW d \in Devices, Publish(d)
  PROVE  AccessInv'
<1>1. troubles' \in 0 .. MaxTroubles
  BY AccessConstants DEF AccessInv, TypeOK, Publish, Trouble, AccessConstants
<1>2. /\ row' = [row EXCEPT ![d].record = TRUE]
      /\ row'[d].record
      /\ row'[d].approved = row[d].approved
  BY DEF AccessInv, TypeOK, Row, Publish
<1>3. \E pc \in {"in", "gone"} : /\ client' = [client EXCEPT ![d].pc = pc]
                                 /\ pc = "in" => row[d].approved
  BY DEF Publish, Approved, Fails, Moves
<1>. QED BY <1>1, <1>2, <1>3, ClientStepKeepsInv DEF Publish

\* The first to ask becomes the peer, and the peer of a granted pairing has a
\* grant before it asks again.
LEMMA PairingRequestKeepsInv ==
  ASSUME AccessInv, NEW d \in Devices, PairingRequest(d)
  PROVE  AccessInv'
<1>. USE DEF AccessInv
<1>. DEFINE p == client[d].link
<1>1. /\ p \in Pairings
      /\ client[d].pc = "scanning"
      /\ UNCHANGED <<row, offer, call, confirmed, troubles>>
      /\ \/ client' = client
         \/ client' = [client EXCEPT ![d].pc = "gone"]
         \/ /\ client' = [client EXCEPT ![d].pc = "opened", ![d].secret = TRUE]
            /\ row[d].grant # None
      /\ \/ session' = session
         \/ /\ session[p].owner # None
            /\ session[p].peer \in {None, d}
            /\ session' = [session EXCEPT ![p].peer = d]
  BY DEF PairingRequest, PairingInv, Active, Peer, Fails, Moves
<1>. HIDE DEF p
<1>2. TypeOK'
  <2>1. client' \in [Devices -> Client]
    <3>1. /\ [client EXCEPT ![d].pc = "gone"] \in [Devices -> Client]
          /\ [client EXCEPT ![d].pc = "opened", ![d].secret = TRUE] \in [Devices -> Client]
      BY ClientChanges DEF TypeOK
    <3>. QED BY <1>1, <3>1 DEF TypeOK
  <2>2. session' \in [Pairings -> Session]
    <3>1. [session EXCEPT ![p].peer = d] \in [Pairings -> Session]
      BY <1>1, SessionChanges DEF TypeOK
    <3>. QED BY <1>1, <3>1 DEF TypeOK
  <2>. QED BY <1>1, <2>1, <2>2 DEF TypeOK
<1>3. ASSUME NEW e \in Devices
      PROVE  /\ client'[e].link = client[e].link
             /\ client'[e].pc = client[e].pc \/ (e = d /\ client'[e].pc \in {"opened", "gone"})
             /\ client[e].secret => client'[e].secret
             /\ client'[e].secret =>
                  client[e].secret \/ (client'[e].pc = "opened" /\ row[e].grant # None)
             /\ client[e].secret => client'[e].pc = client[e].pc
  BY <1>1 DEF TypeOK, Client, SecretInv
<1>4. ASSUME NEW q \in Pairings
      PROVE  /\ session'[q].owner = session[q].owner
             /\ session'[q].granted = session[q].granted
             /\ session[q].peer # None => session'[q].peer = session[q].peer
             /\ q # p => session'[q] = session[q]
             /\ session[p].owner = None => session'[p] = session[p]
  BY <1>1 DEF TypeOK, Session
<1>5. OnlyConfirmedAreGranted' /\ RowInv'
  BY <1>1, <1>3 DEF OnlyConfirmedAreGranted, RowInv, LetIn, Approved, Authentic
<1>6. SecretInv'
  <2>1. ASSUME NEW e \in Devices, client'[e].secret
        PROVE  /\ client'[e].pc \notin {"out", "added", "waiting", "scanning"}
               /\ e = First \/ row'[e].grant # None
    BY <1>1, <1>3, <2>1 DEF SecretInv
  <2>2. ASSUME NEW e \in Devices, row'[e].grant # None
        PROVE  client'[row'[e].grant].secret
    BY <1>1, <1>3, <2>2 DEF TypeOK, Row, SecretInv
  <2>3. ASSUME NEW e \in Devices, client'[e].pc = "in"
        PROVE  row'[e].approved /\ row'[e].record
    BY <1>1, <1>3, <2>3 DEF SecretInv
  <2>. QED BY <2>1, <2>2, <2>3 DEF SecretInv
<1>7. CallInv'
  <2>1. ASSUME NEW e \in Devices, call[e].op = "complete"
        PROVE  MeansItsPeer(call[e].pairing, call[e].device)'
    <3>1. call[e].device \in Devices /\ call[e].pairing \in Pairings
      BY <2>1 DEF CallInv, Sound, TypeOK
    <3>2. session[call[e].pairing].owner # None =>
            session[call[e].pairing].peer = call[e].device
      BY <2>1 DEF CallInv, MeansItsPeer
    <3>. QED BY <1>1, <1>4, <3>1, <3>2, AccessConstants DEF MeansItsPeer, AccessConstants
  <2>2. ASSUME NEW e \in Devices, call[e].op = "create"
        PROVE  IsNew(call[e].pairing, e)'
    <3>1. IsNew(call[e].pairing, e) /\ call[e].pairing \in Pairings
      BY <2>2 DEF CallInv, Sound
    <3>2. call[e].pairing # p
      BY <3>1 DEF IsNew, p
    <3>. QED BY <1>1, <1>3, <1>4, <3>1, <3>2 DEF IsNew
  <2>. QED BY <1>1, <1>3, <2>1, <2>2, CallsGoOn
<1>8. PairingInv'
  BY <1>1, <1>3, <1>4 DEF TypeOK, Session, PairingInv
<1>. QED BY <1>2, <1>5, <1>6, <1>7, <1>8

----------------------------------------------------------------------------
(* Signed calls.                                                              *)

LEMMA ScanKeepsInv ==
  ASSUME AccessInv, NEW d \in Devices, NEW p \in Pairings, Scan(d, p)
  PROVE  AccessInv'
<1>. USE DEF AccessInv, Scan
<1>1. TypeOK'
  BY ClientChanges DEF TypeOK
<1>2. ASSUME NEW e \in Devices
      PROVE  /\ client'[e].secret = client[e].secret
             /\ e # d => client'[e] = client[e]
             /\ client'[d].link = p
             /\ client[d].pc = "out" /\ client'[d].pc = "scanning"
  BY DEF TypeOK, Client
<1>3. OnlyConfirmedAreGranted' /\ RowInv'
  BY <1>2 DEF OnlyConfirmedAreGranted, RowInv, LetIn, Approved, Authentic
<1>4. SecretInv'
  BY <1>2 DEF SecretInv, TypeOK, Row
<1>5. CallInv'
  <2>1. ASSUME NEW e \in Devices, call[e].op = "complete"
        PROVE  MeansItsPeer(call[e].pairing, call[e].device)'
    BY <2>1 DEF CallInv, MeansItsPeer
  <2>2. ASSUME NEW e \in Devices, call[e].op = "create"
        PROVE  IsNew(call[e].pairing, e)'
    <3>1. IsNew(call[e].pairing, e)
      BY <2>2 DEF CallInv
    <3>. QED BY <1>2, <3>1, ZenonT(40) DEF IsNew
  <2>. QED BY <1>2, <2>1, <2>2, CallsGoOn
<1>6. PairingInv'
  BY <1>2 DEF PairingInv
<1>. QED BY <1>1, <1>3, <1>4, <1>5, <1>6

LEMMA AuthenticateKeepsInv ==
  ASSUME AccessInv, NEW o \in Devices, Authenticate(o)
  PROVE  AccessInv'
<1>. USE DEF AccessInv
<1>1. /\ call[o].op # "none"
      /\ \/ call' = [call EXCEPT ![o] = NoCall]
         \/ call' = [call EXCEPT ![o].authed = TRUE]
      /\ UNCHANGED <<row, session, client, offer, confirmed, troubles>>
  BY DEF Authenticate, Ends
<1>2. TypeOK'
  <2>1. call' \in [Devices -> Call]
    BY <1>1, CallChanges DEF TypeOK
  <2>. QED BY <1>1, <2>1 DEF TypeOK
<1>3. OnlyConfirmedAreGranted' /\ RowInv' /\ SecretInv' /\ PairingInv'
  BY <1>1 DEF OnlyConfirmedAreGranted, RowInv, LetIn, Approved, Authentic, SecretInv,
              PairingInv
<1>4. CallInv'
  BY <1>1, AnswersLeaveCalls
<1>. QED BY <1>2, <1>3, <1>4

\* A call starts; what it names is not a pairing that somebody is making.
LEMMA CallStarts ==
  ASSUME TypeOK, CallInv, NEW o \in Devices, NEW c \in Call,
         call' = [call EXCEPT ![o] = c], session' = session, confirmed \subseteq confirmed',
         \A e \in Devices : /\ client'[e].secret = client[e].secret
                            /\ client'[e].link = client[e].link
                            /\ offer'[e] \in {offer[e], None}
                            /\ row[e].known => row'[e].known
                            /\ call[e].op = "create" => call[e].pairing # c.pairing,
         Sound(c, o)',
         c.op = "complete" => MeansItsPeer(c.pairing, c.device),
         c.op = "create" => IsNew(c.pairing, o)
  PROVE  CallInv'
<1>1. call'[o] = c /\ \A e \in Devices : e # o => call'[e] = call[e]
  BY DEF TypeOK
<1>2. ASSUME NEW e \in Devices, e # o
      PROVE  Sound(call[e], e)'
  <2>1. Sound(call[e], e)
    BY DEF CallInv
  <2>. QED BY <1>1, <1>2, <2>1 DEF Sound, NoCall
<1>3. ASSUME NEW e \in Devices, call'[e].op = "complete"
      PROVE  MeansItsPeer(call[e].pairing, call[e].device)'
  BY <1>1, <1>3 DEF CallInv, MeansItsPeer
<1>4. ASSUME NEW e \in Devices, call'[e].op = "create"
      PROVE  IsNew(call[e].pairing, e)'
  <2>1. /\ IsNew(call'[e].pairing, e)
        /\ call'[e].pairing \in Pairings
    BY <1>1, <1>2, <1>4 DEF CallInv, Sound
  <2>2. ASSUME NEW x \in Devices
        PROVE  /\ offer'[x] # call'[e].pairing
               /\ client'[x].link # call'[e].pairing
    BY <1>1, <2>1, AccessConstants DEF IsNew, AccessConstants
  <2>3. ASSUME NEW x \in Devices, x # e
        PROVE  call'[x].pairing # call'[e].pairing
    <3>1. CASE x = o
      BY <1>1, <1>4, <2>3, <3>1
    <3>2. CASE x # o
      BY <1>1, <2>1, <2>3, <3>2 DEF IsNew
    <3>. QED BY <3>1, <3>2
  <2>. QED BY <2>1, <2>2, <2>3 DEF IsNew
<1>5. Sound(call[o], o)'
  BY <1>1 DEF Sound
<1>. QED BY <1>2, <1>3, <1>4, <1>5 DEF CallInv

LEMMA ApproveStartKeepsInv ==
  ASSUME AccessInv, NEW o \in Devices, NEW d \in Devices, ApproveStart(o, d)
  PROVE  AccessInv'
<1>. USE DEF AccessInv
<1>. DEFINE c == [op |-> "grant", device |-> d, pairing |-> None, authed |-> FALSE]
<1>1. /\ row' = [e \in Devices |-> IF e \in Dropped THEN [row[e] EXCEPT !.revoked = TRUE]
                                   ELSE row[e]]
      /\ UNCHANGED <<session, client, offer, troubles>>
      /\ \/ call' = [call EXCEPT ![o] = c] /\ confirmed' = confirmed \cup {d}
         \/ UNCHANGED <<call, confirmed>>
      /\ client[o].secret
  BY DEF ApproveStart, Calls
<1>2. ASSUME NEW e \in Devices
      PROVE  /\ row'[e] \in Row
             /\ row'[e].known = row[e].known
             /\ row'[e].approved = row[e].approved
             /\ row'[e].grant = row[e].grant
             /\ row'[e].record = row[e].record
             /\ row'[e].revoked => row[e].revoked \/ e \in Dropped
             /\ row[e].revoked => row'[e].revoked
             /\ e \in Dropped => row[e].known
  BY <1>1 DEF TypeOK, Row, Dropped, Pending, Authentic
<1>3. TypeOK'
  <2>1. row' \in [Devices -> Row]
    BY <1>1, <1>2
  <2>2. c \in Call
    BY DEF Call
  <2>3. call' \in [Devices -> Call] /\ confirmed' \subseteq Devices
    BY <1>1, <2>2 DEF TypeOK
  <2>. QED BY <1>1, <2>1, <2>3 DEF TypeOK
<1>4. OnlyConfirmedAreGranted' /\ RowInv'
  BY <1>1, <1>2 DEF OnlyConfirmedAreGranted, RowInv, LetIn, Approved, Authentic
<1>5. SecretInv' /\ PairingInv'
  BY <1>1, <1>2 DEF SecretInv, PairingInv, TypeOK, Row, Session
<1>6. CallInv'
  <2>1. CASE UNCHANGED <<call, confirmed>>
    BY <1>1, <1>2, <2>1, CallsIgnoreJoins
  <2>2. CASE call' = [call EXCEPT ![o] = c] /\ confirmed' = confirmed \cup {d}
    <3>1. c \in Call
      BY DEF Call
    <3>2. Sound(c, o)'
      BY <1>1, <2>2 DEF Sound
    <3>3. \A e \in Devices : call[e].op = "create" => call[e].pairing # c.pairing
      BY AccessConstants DEF CallInv, Sound, AccessConstants
    <3>4. c.op = "grant"
      OBVIOUS
    <3>. QED
      BY <1>1, <1>2, <2>2, <3>1, <3>2, <3>3, <3>4, CallStarts, ZenonT(40) DEF TypeOK
  <2>. QED BY <1>1, <2>1, <2>2
<1>. QED BY <1>3, <1>4, <1>5, <1>6

LEMMA RevokeStartKeepsInv ==
  ASSUME AccessInv, NEW o \in Devices, NEW d \in Devices, RevokeStart(o, d)
  PROVE  AccessInv'
<1>. USE DEF AccessInv
<1>. DEFINE c == [op |-> "revoke", device |-> d, pairing |-> None, authed |-> FALSE]
<1>1. /\ call' = [call EXCEPT ![o] = c]
      /\ client' = client \/ client' = [client EXCEPT ![o].pc = "gone"]
      /\ row[d].known
      /\ troubles' \in 0 .. MaxTroubles
      /\ UNCHANGED <<row, session, offer, confirmed>>
  BY AccessConstants
     DEF RevokeStart, Calls, Fails, Moves, Trouble, Authentic, TypeOK, AccessConstants
<1>2. ASSUME NEW e \in Devices
      PROVE  /\ client'[e].link = client[e].link
             /\ client'[e].secret = client[e].secret
             /\ client'[e].pc \in {client[e].pc, "gone"}
  BY <1>1 DEF TypeOK, Client
<1>3. c \in Call
  BY DEF Call
<1>4. TypeOK'
  <2>1. client' \in [Devices -> Client]
    <3>1. [client EXCEPT ![o].pc = "gone"] \in [Devices -> Client]
      BY ClientChanges DEF TypeOK
    <3>. QED BY <1>1, <3>1 DEF TypeOK
  <2>2. call' \in [Devices -> Call]
    BY <1>1, <1>3 DEF TypeOK
  <2>. QED BY <1>1, <2>1, <2>2 DEF TypeOK
<1>5. OnlyConfirmedAreGranted' /\ RowInv'
  BY <1>1, <1>2 DEF OnlyConfirmedAreGranted, RowInv, LetIn, Approved, Authentic
<1>6. SecretInv' /\ PairingInv'
  BY <1>1, <1>2 DEF SecretInv, PairingInv, TypeOK, Row, Session
<1>7. CallInv'
  <2>1. Sound(c, o)'
    BY <1>1 DEF Sound
  <2>2. \A e \in Devices : call[e].op = "create" => call[e].pairing # c.pairing
    BY AccessConstants DEF CallInv, Sound, AccessConstants
  <2>3. c.op = "revoke"
    OBVIOUS
  <2>. QED BY <1>1, <1>2, <1>3, <2>1, <2>2, <2>3, CallStarts
<1>. QED BY <1>4, <1>5, <1>6, <1>7

LEMMA PairingCreateStartKeepsInv ==
  ASSUME AccessInv, NEW o \in Devices, NEW p \in Pairings, PairingCreateStart(o, p)
  PROVE  AccessInv'
<1>. USE DEF AccessInv
<1>. DEFINE c == [op |-> "create", device |-> None, pairing |-> p, authed |-> FALSE]
<1>1. /\ call' = [call EXCEPT ![o] = c]
      /\ IsNew(p, o)
      /\ \A e \in Devices : call[e].pairing # p
      /\ UNCHANGED <<row, session, client, offer, confirmed, troubles>>
  BY DEF PairingCreateStart, Calls, IsNew
<1>2. c \in Call
  BY DEF Call
<1>3. TypeOK'
  BY <1>1, <1>2 DEF TypeOK
<1>4. OnlyConfirmedAreGranted' /\ RowInv' /\ SecretInv' /\ PairingInv'
  BY <1>1 DEF OnlyConfirmedAreGranted, RowInv, LetIn, Approved, Authentic, SecretInv,
              PairingInv
<1>5. CallInv'
  <2>1. Sound(c, o)'
    BY DEF Sound
  <2>2. c.op = "create" /\ c.pairing = p
    OBVIOUS
  <2>. QED BY <1>1, <1>2, <2>1, <2>2, CallStarts
<1>. QED BY <1>3, <1>4, <1>5

LEMMA PairingCancelStartKeepsInv ==
  ASSUME AccessInv, NEW o \in Devices, PairingCancelStart(o)
  PROVE  AccessInv'
<1>. USE DEF AccessInv
<1>. PICK p \in Pairings : p = offer[o]
  BY DEF PairingCancelStart, TypeOK
<1>. DEFINE c == [op |-> "cancel", device |-> None, pairing |-> p, authed |-> FALSE]
<1>1. /\ call' = [call EXCEPT ![o] = c]
      /\ offer' = [offer EXCEPT ![o] = None]
      /\ troubles' \in 0 .. MaxTroubles
      /\ UNCHANGED <<row, session, client, confirmed>>
  BY AccessConstants DEF PairingCancelStart, Calls, Trouble, TypeOK, AccessConstants
<1>2. c \in Call
  BY <1>1 DEF Call
<1>3. TypeOK'
  BY <1>1, <1>2 DEF TypeOK
<1>4. OnlyConfirmedAreGranted' /\ RowInv' /\ SecretInv' /\ PairingInv'
  BY <1>1 DEF OnlyConfirmedAreGranted, RowInv, LetIn, Approved, Authentic, SecretInv,
              PairingInv
<1>5. CallInv'
  <2>1. Sound(c, o)'
    BY <1>1 DEF Sound
  <2>2. \A e \in Devices : call[e].op = "create" => call[e].pairing # c.pairing
    BY DEF CallInv, IsNew
  <2>3. \A e \in Devices : offer'[e] \in {offer[e], None}
    BY <1>1 DEF TypeOK
  <2>4. c.op = "cancel"
    OBVIOUS
  <2>. QED BY <1>1, <1>2, <2>1, <2>2, <2>3, <2>4, CallStarts
<1>. QED BY <1>3, <1>4, <1>5

\* The peer whose code was compared is the one the call is about.
LEMMA CompleteStartKeepsInv ==
  ASSUME AccessInv, NEW o \in Devices, CompleteStart(o)
  PROVE  AccessInv'
<1>. USE DEF AccessInv
<1>. DEFINE p == offer[o]
            d == session[p].peer
            c == [op |-> "complete", device |-> d, pairing |-> p, authed |-> FALSE]
<1>1. /\ call' = [call EXCEPT ![o] = c]
      /\ confirmed' = confirmed \cup {d}
      /\ p \in Pairings
      /\ d \in Devices
      /\ client[o].secret
      /\ UNCHANGED <<row, session, client, offer, troubles>>
  BY DEF CompleteStart, Calls, TypeOK, Session
<1>2. c \in Call
  BY <1>1 DEF Call
<1>3. TypeOK'
  BY <1>1, <1>2 DEF TypeOK
<1>4. OnlyConfirmedAreGranted' /\ RowInv' /\ SecretInv' /\ PairingInv'
  BY <1>1 DEF OnlyConfirmedAreGranted, RowInv, LetIn, Approved, Authentic, SecretInv,
              PairingInv
<1>5. CallInv'
  <2>1. Sound(c, o)'
    BY <1>1 DEF Sound
  <2>2. \A e \in Devices : call[e].op = "create" => call[e].pairing # c.pairing
    BY DEF CallInv, IsNew
  <2>3. c.op = "complete" /\ MeansItsPeer(c.pairing, c.device)
    BY DEF MeansItsPeer
  <2>. QED BY <1>1, <1>2, <2>1, <2>2, <2>3, CallStarts
<1>. QED BY <1>3, <1>4, <1>5
----------------------------------------------------------------------------
(* What the server does of a call.                                            *)

LEMMA PutGrantKeepsInv ==
  ASSUME AccessInv, NEW o \in Devices, PutGrant(o)
  PROVE  AccessInv'
<1>. USE DEF AccessInv
<1>. DEFINE d == call[o].device
<1>1. /\ call[o].op # "none"
      /\ call' = [call EXCEPT ![o] = NoCall]
      /\ d \in confirmed /\ d \in Devices /\ client[o].secret
      /\ UNCHANGED <<session, client, offer, confirmed, troubles>>
      /\ \/ row' = row
         \/ /\ row[d].known
            /\ row' = [row EXCEPT ![d].grant = o, ![d].approved = TRUE]
  BY DEF PutGrant, Ends, Grantable, Pending, Authentic, CallInv, Sound, TypeOK
<1>. HIDE DEF d
<1>2. ASSUME NEW e \in Devices
      PROVE  /\ row'[e].known = row[e].known
             /\ row'[e].revoked = row[e].revoked
             /\ row'[e].record = row[e].record
             /\ row[e].approved => row'[e].approved
             /\ \/ row'[e] = row[e]
                \/ e = d /\ row[e].known /\ row'[e].grant = o
  BY <1>1 DEF TypeOK, Row
<1>3. TypeOK'
  <2>1. row' \in [Devices -> Row]
    <3>1. [row EXCEPT ![d].grant = o, ![d].approved = TRUE] \in [Devices -> Row]
      BY <1>1, RowChanges DEF TypeOK
    <3>. QED BY <1>1, <3>1 DEF TypeOK
  <2>2. call' \in [Devices -> Call]
    BY <1>1, CallChanges DEF TypeOK
  <2>. QED BY <1>1, <2>1, <2>2 DEF TypeOK
<1>4. OnlyConfirmedAreGranted'
  BY <1>1, <1>2 DEF OnlyConfirmedAreGranted
<1>5. RowInv'
  BY <1>1, <1>2, AccessConstants DEF RowInv, LetIn, Approved, Authentic, AccessConstants
<1>6. SecretInv'
  BY <1>1, <1>2, AccessConstants DEF SecretInv, AccessConstants
<1>7. CallInv'
  BY <1>1, <1>2, AnswersLeaveCalls
<1>8. PairingInv'
  BY <1>1, <1>2, AccessConstants DEF PairingInv, TypeOK, Session, AccessConstants
<1>. QED BY <1>3, <1>4, <1>5, <1>6, <1>7, <1>8

LEMMA RevokeKeepsInv ==
  ASSUME AccessInv, NEW o \in Devices, Revoke(o)
  PROVE  AccessInv'
<1>. USE DEF AccessInv
<1>. DEFINE d == call[o].device
<1>1. /\ call[o].op # "none"
      /\ call' = [call EXCEPT ![o] = NoCall]
      /\ d \in Devices /\ row[d].known
      /\ UNCHANGED <<session, client, offer, confirmed, troubles>>
      /\ row' = [row EXCEPT ![d].revoked = TRUE]
  BY DEF Revoke, Ends, CallInv, Sound
<1>. HIDE DEF d
<1>2. ASSUME NEW e \in Devices
      PROVE  /\ row'[e].known = row[e].known
             /\ row'[e].grant = row[e].grant
             /\ row'[e].record = row[e].record
             /\ row'[e].approved = row[e].approved
             /\ row[e].revoked => row'[e].revoked
             /\ row'[e].revoked => row[e].revoked \/ e = d
  BY <1>1 DEF TypeOK, Row
<1>3. TypeOK'
  BY <1>1, RowChanges, CallChanges DEF TypeOK
<1>4. OnlyConfirmedAreGranted' /\ RowInv'
  BY <1>1, <1>2 DEF OnlyConfirmedAreGranted, RowInv, LetIn, Approved, Authentic
<1>5. SecretInv' /\ PairingInv'
  BY <1>1, <1>2 DEF SecretInv, PairingInv, TypeOK, Row, Session
<1>6. CallInv'
  BY <1>1, <1>2, AnswersLeaveCalls
<1>. QED BY <1>3, <1>4, <1>5, <1>6

\* A new pairing replaces its owner's older one; its id is in no other call.
LEMMA PairingCreateKeepsInv ==
  ASSUME AccessInv, NEW o \in Devices, PairingCreate(o)
  PROVE  AccessInv'
<1>. USE DEF AccessInv
<1>. DEFINE p == call[o].pairing
<1>1. /\ call[o].op = "create" /\ p \in Pairings
      /\ call' = [call EXCEPT ![o] = NoCall]
      /\ session' = [q \in Pairings |->
                       IF q = p THEN [NoSession EXCEPT !.owner = o]
                       ELSE IF session[q].owner = o THEN NoSession ELSE session[q]]
      /\ offer' = offer \/ offer' = [offer EXCEPT ![o] = p]
      /\ troubles' \in 0 .. MaxTroubles
      /\ UNCHANGED <<row, client, confirmed>>
  BY AccessConstants
     DEF PairingCreate, Ends, Trouble, CallInv, Sound, TypeOK, AccessConstants
<1>2. \A e \in Devices : e # o => call[e].pairing # p
  BY <1>1 DEF CallInv, IsNew
<1>. HIDE DEF p
<1>3. ASSUME NEW q \in Pairings
      PROVE  /\ session'[q] \in Session
             /\ ~session'[q].granted \/ session'[q] = session[q]
             /\ q # p => session'[q] \in {session[q], NoSession}
  <2>1. /\ NoSession \in Session /\ ~NoSession.granted
        /\ [NoSession EXCEPT !.owner = o] \in Session
        /\ ~[NoSession EXCEPT !.owner = o].granted
    BY <1>1, SessionChanges DEF TypeOK, NoSession
  <2>2. session'[q] = IF q = p THEN [NoSession EXCEPT !.owner = o]
                      ELSE IF session[q].owner = o THEN NoSession ELSE session[q]
    BY <1>1
  <2>. QED BY <2>1, <2>2 DEF TypeOK
<1>4. TypeOK'
  <2>1. session' \in [Pairings -> Session]
    BY <1>1, <1>3
  <2>2. offer' \in [Devices -> Pairings \cup {None}]
    BY <1>1 DEF TypeOK
  <2>3. call' \in [Devices -> Call]
    BY <1>1, CallChanges DEF TypeOK
  <2>. QED BY <1>1, <2>1, <2>2, <2>3 DEF TypeOK
<1>5. OnlyConfirmedAreGranted' /\ RowInv' /\ SecretInv'
  BY <1>1 DEF OnlyConfirmedAreGranted, RowInv, LetIn, Approved, Authentic, SecretInv
<1>6. PairingInv'
  BY <1>1, <1>3 DEF PairingInv
<1>7. CallInv'
  <2>1. ASSUME NEW e \in Devices, call'[e].op # "none"
        PROVE  e # o /\ call'[e] = call[e]
    BY <1>1, <2>1 DEF TypeOK, NoCall
  <2>2. ASSUME NEW e \in Devices, call'[e].op = "complete"
        PROVE  MeansItsPeer(call[e].pairing, call[e].device)'
    <3>1. call'[e] = call[e] /\ call[e].pairing \in Pairings /\ call[e].pairing # p
      BY <1>2, <2>1, <2>2 DEF CallInv, Sound
    <3>2. MeansItsPeer(call[e].pairing, call[e].device)
      BY <2>2, <3>1 DEF CallInv
    <3>. QED BY <1>3, <3>1, <3>2 DEF MeansItsPeer, NoSession
  <2>3. ASSUME NEW e \in Devices, call'[e].op = "create"
        PROVE  /\ session'[call[e].pairing] = NoSession
               /\ \A x \in Devices : offer'[x] # call[e].pairing
    <3>1. call'[e] = call[e] /\ call[e].pairing \in Pairings /\ call[e].pairing # p
      BY <1>2, <2>1, <2>3 DEF CallInv, Sound
    <3>2. IsNew(call[e].pairing, e)
      BY <2>3, <3>1 DEF CallInv
    <3>3. \A x \in Devices : offer'[x] \in {offer[x], p}
      BY <1>1 DEF TypeOK
    <3>. QED BY <1>3, <3>1, <3>2, <3>3 DEF IsNew
  <2>. QED BY <1>1, <2>2, <2>3, CallsIgnoreAnswers
<1>. QED BY <1>4, <1>5, <1>6, <1>7

LEMMA PairingCancelKeepsInv ==
  ASSUME AccessInv, NEW o \in Devices, PairingCancel(o)
  PROVE  AccessInv'
<1>. USE DEF AccessInv
<1>. DEFINE p == call[o].pairing
<1>1. /\ call[o].op = "cancel" /\ p \in Pairings
      /\ call' = [call EXCEPT ![o] = NoCall]
      /\ session' = session \/ session' = [session EXCEPT ![p] = NoSession]
      /\ UNCHANGED <<row, client, offer, confirmed, troubles>>
  BY DEF PairingCancel, Ends, CallInv, Sound
<1>. HIDE DEF p
<1>2. ASSUME NEW q \in Pairings
      PROVE  session'[q] \in {session[q], NoSession}
  BY <1>1 DEF TypeOK
<1>3. TypeOK'
  <2>1. session' \in [Pairings -> Session]
    <3>1. NoSession \in Session
      BY AccessConstants DEF Session, NoSession, AccessConstants
    <3>. QED BY <1>1, <3>1 DEF TypeOK
  <2>2. call' \in [Devices -> Call]
    BY <1>1, CallChanges DEF TypeOK
  <2>. QED BY <1>1, <2>1, <2>2 DEF TypeOK
<1>4. OnlyConfirmedAreGranted' /\ RowInv' /\ SecretInv'
  BY <1>1 DEF OnlyConfirmedAreGranted, RowInv, LetIn, Approved, Authentic, SecretInv
<1>5. PairingInv'
  BY <1>1, <1>2 DEF PairingInv, NoSession
<1>6. CallInv'
  <2>1. ASSUME NEW e \in Devices, call'[e].op # "none"
        PROVE  call'[e] = call[e]
    BY <1>1, <2>1 DEF TypeOK, NoCall
  <2>2. ASSUME NEW e \in Devices, call'[e].op = "complete"
        PROVE  MeansItsPeer(call[e].pairing, call[e].device)'
    <3>1. call'[e] = call[e] /\ call[e].pairing \in Pairings
      BY <2>1, <2>2 DEF CallInv, Sound
    <3>2. MeansItsPeer(call[e].pairing, call[e].device)
      BY <2>2, <3>1 DEF CallInv
    <3>. QED BY <1>2, <3>1, <3>2 DEF MeansItsPeer, NoSession
  <2>3. ASSUME NEW e \in Devices, call'[e].op = "create"
        PROVE  /\ session'[call[e].pairing] = NoSession
               /\ \A x \in Devices : offer'[x] # call[e].pairing
    BY <1>1, <1>2, <2>1, <2>3 DEF CallInv, Sound, IsNew
  <2>. QED BY <1>1, <2>2, <2>3, CallsIgnoreAnswers
<1>. QED BY <1>3, <1>4, <1>5, <1>6

\* Granting: the peer is the device the call names, whose keys were unknown.
LEMMA CompleteKeepsInv ==
  ASSUME AccessInv, NEW o \in Devices, Complete(o)
  PROVE  AccessInv'
<1>. USE DEF AccessInv
<1>. DEFINE p == call[o].pairing
            d == call[o].device
<1>1. /\ call[o].op = "complete" /\ p \in Pairings /\ d \in confirmed /\ d \in Devices
      /\ client[o].secret
      /\ call' = [call EXCEPT ![o] = NoCall]
      /\ UNCHANGED <<client, offer, confirmed, troubles>>
  BY DEF Complete, Ends, CallInv, Sound, TypeOK
<1>2. \/ UNCHANGED <<row, session>>
      \/ /\ session[p].peer = d
         /\ session[p].owner # None
         /\ ~row[d].known
         /\ row' = [row EXCEPT ![d].known = TRUE, ![d].grant = o, ![d].approved = TRUE]
         /\ session' = [session EXCEPT ![p].granted = TRUE]
  BY DEF Complete, Owns, Active, CallInv, MeansItsPeer
<1>. HIDE DEF p, d
<1>3. ASSUME NEW e \in Devices
      PROVE  /\ row[e].known => row'[e].known
             /\ row'[e].revoked = row[e].revoked
             /\ row'[e].record = row[e].record
             /\ row[e].approved => row'[e].approved
             /\ \/ row'[e] = row[e]
                \/ e = d /\ row'[e].known /\ row'[e].grant = o
  BY <1>1, <1>2 DEF TypeOK, Row
<1>4. ASSUME NEW q \in Pairings
      PROVE  /\ session'[q].owner = session[q].owner
             /\ session'[q].peer = session[q].peer
             /\ q # p => session'[q] = session[q]
             /\ \/ session'[q].granted = session[q].granted
                \/ session[q].peer = d /\ row'[d].grant = o
  BY <1>1, <1>2 DEF TypeOK, Session, Row
<1>5. TypeOK'
  <2>1. row' \in [Devices -> Row]
    <3>1. [row EXCEPT ![d].known = TRUE, ![d].grant = o, ![d].approved = TRUE]
            \in [Devices -> Row]
      BY <1>1, RowChanges DEF TypeOK
    <3>. QED BY <1>2, <3>1 DEF TypeOK
  <2>2. session' \in [Pairings -> Session]
    <3>1. [session EXCEPT ![p].granted = TRUE] \in [Pairings -> Session]
      BY <1>1, SessionChanges DEF TypeOK
    <3>. QED BY <1>2, <3>1 DEF TypeOK
  <2>3. call' \in [Devices -> Call]
    BY <1>1, CallChanges DEF TypeOK
  <2>. QED BY <1>1, <2>1, <2>2, <2>3 DEF TypeOK
<1>6. OnlyConfirmedAreGranted'
  BY <1>1, <1>3 DEF OnlyConfirmedAreGranted
<1>7. RowInv'
  BY <1>1, <1>3, AccessConstants DEF RowInv, LetIn, Approved, Authentic, AccessConstants
<1>8. SecretInv'
  BY <1>1, <1>3, AccessConstants DEF SecretInv, AccessConstants
<1>9. PairingInv'
  BY <1>1, <1>3, <1>4, AccessConstants DEF PairingInv, TypeOK, Session, AccessConstants
<1>10. CallInv'
  <2>1. ASSUME NEW e \in Devices, call'[e].op # "none"
        PROVE  call'[e] = call[e]
    BY <1>1, <2>1 DEF TypeOK, NoCall
  <2>2. ASSUME NEW e \in Devices, call'[e].op = "complete"
        PROVE  MeansItsPeer(call[e].pairing, call[e].device)'
    <3>1. call'[e] = call[e] /\ call[e].pairing \in Pairings
      BY <2>1, <2>2 DEF CallInv, Sound
    <3>2. MeansItsPeer(call[e].pairing, call[e].device)
      BY <2>2, <3>1 DEF CallInv
    <3>. QED BY <1>4, <3>1, <3>2 DEF MeansItsPeer
  <2>3. ASSUME NEW e \in Devices, call'[e].op = "create"
        PROVE  /\ session'[call[e].pairing] = NoSession
               /\ \A x \in Devices : offer'[x] # call[e].pairing
    <3>1. call'[e] = call[e] /\ call[e].pairing \in Pairings
      BY <2>1, <2>3 DEF CallInv, Sound
    <3>2. IsNew(call[e].pairing, e) /\ e # o
      BY <1>1, <2>3, <3>1 DEF CallInv
    <3>3. call[e].pairing # p
      BY <3>2 DEF IsNew, p
    <3>. QED BY <1>1, <1>4, <3>1, <3>2, <3>3 DEF IsNew
  <2>. QED BY <1>1, <1>3, <2>2, <2>3, CallsIgnoreAnswers
<1>. QED BY <1>5, <1>6, <1>7, <1>8, <1>9, <1>10

----------------------------------------------------------------------------
(* Time, restarts, and the invariant.                                         *)

LEMMA TickKeepsInv ==
  ASSUME AccessInv, Tick
  PROVE  AccessInv'
<1>. USE DEF AccessInv
<1>1. UNCHANGED <<client, offer, call, confirmed, troubles>>
  BY DEF Tick
<1>2. ASSUME NEW e \in Devices
      PROVE  /\ row'[e] \in Row
             /\ row'[e].known = row[e].known
             /\ row'[e].approved = row[e].approved
             /\ row'[e].revoked = row[e].revoked
             /\ row'[e].grant = row[e].grant
             /\ row'[e].record = row[e].record
  <2>1. row'[e] \in {row[e], [row[e] EXCEPT !.age = Older(row[e].age, PendingTtl)]}
    BY DEF Tick
  <2>2. Older(row[e].age, PendingTtl) \in 0 .. PendingTtl
    BY AccessConstants DEF TypeOK, Row, Older, AccessConstants
  <2>. QED BY <2>1, <2>2 DEF TypeOK, Row
<1>3. ASSUME NEW q \in Pairings
      PROVE  /\ session'[q] \in Session
             /\ session'[q].owner = session[q].owner
             /\ session'[q].peer = session[q].peer
             /\ session'[q].granted = session[q].granted
             /\ session[q].owner = None => session'[q] = session[q]
  <2>1. session'[q] = IF session[q].owner = None THEN session[q]
                      ELSE [session[q] EXCEPT !.age = Older(session[q].age, PairingTtl)]
    BY DEF Tick
  <2>2. Older(session[q].age, PairingTtl) \in 0 .. PairingTtl
    BY AccessConstants DEF TypeOK, Session, Older, AccessConstants
  <2>. QED BY <2>1, <2>2 DEF TypeOK, Session
<1>4. TypeOK'
  <2>1. row' \in [Devices -> Row] /\ session' \in [Pairings -> Session]
    BY <1>2, <1>3 DEF Tick
  <2>. QED BY <1>1, <2>1 DEF TypeOK
<1>5. OnlyConfirmedAreGranted' /\ RowInv'
  BY <1>1, <1>2 DEF OnlyConfirmedAreGranted, RowInv, LetIn, Approved, Authentic
<1>6. SecretInv'
  BY <1>1, <1>2 DEF SecretInv
<1>7. PairingInv'
  BY <1>1, <1>2, <1>3 DEF PairingInv, TypeOK, Session
<1>8. CallInv'
  <2>1. ASSUME NEW e \in Devices, call[e].op = "complete"
        PROVE  MeansItsPeer(call[e].pairing, call[e].device)'
    BY <1>1, <1>3, <2>1 DEF CallInv, Sound, MeansItsPeer
  <2>2. ASSUME NEW e \in Devices, call[e].op = "create"
        PROVE  IsNew(call[e].pairing, e)'
    <3>1. IsNew(call[e].pairing, e) /\ call[e].pairing \in Pairings
      BY <2>2 DEF CallInv, Sound
    <3>2. session[call[e].pairing].owner = None
      BY <3>1 DEF IsNew, NoSession
    <3>. QED BY <1>1, <1>3, <3>1, <3>2 DEF IsNew
  <2>. QED BY <1>1, <1>2, <2>1, <2>2, CallsGoOn
<1>. QED BY <1>4, <1>5, <1>6, <1>7, <1>8

LEMMA RestartKeepsInv ==
  ASSUME AccessInv, Restart
  PROVE  AccessInv'
<1>. USE DEF AccessInv
<1>1. /\ session' = [p \in Pairings |-> NoSession]
      /\ call' = [d \in Devices |-> NoCall]
      /\ troubles' \in 0 .. MaxTroubles
      /\ UNCHANGED <<row, client, offer, confirmed>>
  BY AccessConstants DEF Restart, Trouble, TypeOK, AccessConstants
<1>2. NoSession \in Session /\ NoCall \in Call
  BY AccessConstants DEF NoSession, Session, NoCall, Call, AccessConstants
<1>3. TypeOK'
  BY <1>1, <1>2 DEF TypeOK
<1>4. OnlyConfirmedAreGranted' /\ RowInv' /\ SecretInv'
  BY <1>1 DEF OnlyConfirmedAreGranted, RowInv, LetIn, Approved, Authentic, SecretInv
<1>5. PairingInv' /\ CallInv'
  BY <1>1 DEF PairingInv, CallInv, Sound, NoSession, NoCall
<1>. QED BY <1>3, <1>4, <1>5

LEMMA InitAccessInv == Init => AccessInv
<1>. SUFFICES ASSUME Init PROVE AccessInv
  OBVIOUS
<1>. USE DEF Init
<1>1. /\ NoRow \in Row /\ NoSession \in Session /\ NoCall \in Call
      /\ [pc |-> "out", secret |-> FALSE, link |-> None] \in Client
  BY AccessConstants
     DEF NoRow, Row, NoSession, Session, NoCall, Call, Client, AccessConstants
<1>2. TypeOK
  BY <1>1, AccessConstants DEF TypeOK, AccessConstants
<1>3. OnlyConfirmedAreGranted /\ RowInv /\ SecretInv
  BY DEF OnlyConfirmedAreGranted, RowInv, SecretInv, LetIn, Approved, Authentic, NoRow
<1>4. CallInv /\ PairingInv
  BY DEF CallInv, PairingInv, Sound, NoCall, NoSession
<1>. QED BY <1>2, <1>3, <1>4 DEF AccessInv

LEMMA NextKeepsAccessInv ==
  ASSUME AccessInv, [Next]_vars
  PROVE  AccessInv'
<1>1. ASSUME NEW d \in Devices, Joins(d)
      PROVE  AccessInv'
  BY <1>1, LoginAddsKeepsInv, ApproveIfFirstKeepsInv, CollectKeepsInv, StopsWaitingKeepsInv,
     PublishStartKeepsInv, PublishKeepsInv, PairingRequestKeepsInv DEF Joins
<1>2. ASSUME NEW o \in Devices, Serves(o)
      PROVE  AccessInv'
  BY <1>2, AuthenticateKeepsInv, PutGrantKeepsInv, RevokeKeepsInv, PairingCreateKeepsInv,
     PairingCancelKeepsInv, CompleteKeepsInv DEF Serves
<1>3. CASE UNCHANGED vars
  BY <1>3 DEF vars, AccessInv, TypeOK, OnlyConfirmedAreGranted, RowInv, LetIn, Approved,
              Authentic, SecretInv, CallInv, Sound, MeansItsPeer, IsNew, PairingInv
<1>. QED
  BY <1>1, <1>2, <1>3, CompleteStartKeepsInv, PairingCancelStartKeepsInv,
     ApproveStartKeepsInv, RevokeStartKeepsInv, PairingCreateStartKeepsInv, ScanKeepsInv,
     TickKeepsInv, RestartKeepsInv DEF Next

THEOREM AccessInvariant == Spec => []AccessInv
  BY InitAccessInv, NextKeepsAccessInv, PTL DEF Spec

\* At any time at most one device that is not revoked was let in without a
\* grant, whatever logins interleave: approve_if_first counts under the lock.
THEOREM OnlyOneLetsItselfIn == Spec => []OneLetsItselfIn
<1>1. ASSUME AccessInv PROVE OneLetsItselfIn
  <2>. DEFINE L == {d \in Devices : Approved(d) /\ row[d].grant = None}
  <2>1. \A d, e \in L : d = e
    BY <1>1 DEF AccessInv, RowInv, LetIn
  <2>2. CASE L = {}
    BY <2>2, FS_EmptySet DEF OneLetsItselfIn
  <2>3. CASE L # {}
    <3>1. PICK d \in L : L = {d}
      BY <2>1, <2>3
    <3>2. Cardinality(L) = 1
      BY <3>1, FS_Singleton
    <3>. QED BY <3>2 DEF OneLetsItselfIn
  <2>. QED BY <2>2, <2>3
<1>. QED BY <1>1, AccessInvariant, PTL

\* No device has a grant whose code no person compared, although the server
\* grants to whoever is the pairing's peer, or waits, when the call arrives.
THEOREM GrantsAreConfirmed == Spec => []OnlyConfirmedAreGranted
<1>1. AccessInv => OnlyConfirmedAreGranted
  BY DEF AccessInv
<1>. QED BY <1>1, AccessInvariant, PTL


\* A revoked device stays revoked and gets no grant, whatever was on its way:
\* its row is known, and set_grant and the pairing's grant both look again.
THEOREM RevokedForGood == Spec => RevokedStaysOut
<1>1. ASSUME AccessInv, [Next]_vars
      PROVE  \A d \in Devices :
               row[d].revoked => row'[d].revoked /\ row'[d].grant = row[d].grant
  <2>1. SUFFICES ASSUME NEW d \in Devices, row[d].revoked
                 PROVE  row'[d].revoked /\ row'[d].grant = row[d].grant
    OBVIOUS
  <2>2. row[d].known /\ row \in [Devices -> Row]
    BY <1>1, <2>1 DEF AccessInv, TypeOK, RowInv
  <2>3. ASSUME NEW e \in Devices, Joins(e)
        PROVE  row'[d].revoked /\ row'[d].grant = row[d].grant
    <3>1. \/ row' = row
          \/ row' = [row EXCEPT ![e].known = TRUE]
          \/ row' = [row EXCEPT ![e].approved = TRUE]
          \/ row' = [row EXCEPT ![e].record = TRUE]
      BY <2>3 DEF Joins, LoginAdds, ApproveIfFirst, LoginAnswerLost, Collect, StopsWaiting,
                  PublishStart, Publish, PairingRequest
    <3>. QED BY <2>1, <2>2, <3>1 DEF Row
  <2>4. ASSUME NEW o \in Devices, Serves(o)
        PROVE  row'[d].revoked /\ row'[d].grant = row[d].grant
    <3>1. \/ row' = row
          \/ Revoke(o) /\ row' = [row EXCEPT ![call[o].device].revoked = TRUE]
          \/ \E e \in Devices :
                /\ ~row[e].revoked
                /\ row' = [row EXCEPT ![e].grant = o, ![e].approved = TRUE]
          \/ \E e \in Devices :
                /\ ~row[e].known
                /\ row' = [row EXCEPT ![e].known = TRUE, ![e].grant = o, ![e].approved = TRUE]
      <4>1. CASE PutGrant(o)
        BY <1>1, <4>1 DEF PutGrant, Grantable, Pending, Authentic, AccessInv, CallInv, Sound,
                          TypeOK
      <4>2. CASE Complete(o)
        <5>1. call[o].pairing \in Pairings
          BY <1>1, <4>2 DEF Complete, AccessInv, CallInv, Sound
        <5>2. session[call[o].pairing].peer \in Devices \cup {None}
          BY <1>1, <5>1 DEF AccessInv, TypeOK, Session
        <5>. QED BY <4>2, <5>2 DEF Complete
      <4>. QED BY <2>4, <4>1, <4>2 DEF Serves, Authenticate, Revoke, PairingCreate, PairingCancel
    <3>2. call[o].device \in Devices \cup {None}
      BY <1>1 DEF AccessInv, TypeOK, Call
    <3>3. CASE row' = [row EXCEPT ![call[o].device].revoked = TRUE]
      BY <2>1, <2>2, <3>3 DEF Row
    <3>4. ASSUME NEW e \in Devices, e # d,
                 \/ row' = [row EXCEPT ![e].grant = o, ![e].approved = TRUE]
                 \/ row' = [row EXCEPT ![e].known = TRUE, ![e].grant = o, ![e].approved = TRUE]
          PROVE  row'[d] = row[d]
      BY <2>2, <3>4
    <3>. QED BY <2>1, <2>2, <3>1, <3>3, <3>4
  <2>5. ASSUME NEW o \in Devices, NEW e \in Devices, ApproveStart(o, e)
        PROVE  row'[d].revoked /\ row'[d].grant = row[d].grant
    BY <2>1, <2>2, <2>5 DEF ApproveStart, Row
  <2>6. CASE Tick
    BY <2>1, <2>2, <2>6 DEF Tick, Row
  <2>. QED
    BY <1>1, <2>1, <2>3, <2>4, <2>5, <2>6
       DEF Next, vars, CompleteStart, PairingCancelStart, RevokeStart, PairingCreateStart, Scan,
           Restart
<1>. QED BY <1>1, AccessInvariant, PTL DEF Spec, RevokedStaysOut

----------------------------------------------------------------------------
(* The register (Register): every step is one of its steps, or none.          *)

\* A call the server found authentic is one of a device that has been let in,
\* whatever has become of it since.
AuthedInv == \A o \in Devices : call[o].authed => row[o].approved

Standings == [d \in Devices |-> Standing(d)]
Grantors == [d \in Devices |-> row[d].grant]
Holders == {First} \cup {d \in Devices : client[d].secret}

SameSecrets == \A d \in Devices : client'[d].secret = client[d].secret

LEMMA SameHolders == SameSecrets => Holders' = Holders
  BY DEF SameSecrets, Holders

\* The register does not see what is said about ages and records.
LEMMA Unseen ==
  ASSUME SameSecrets,
         \A d \in Devices : /\ row'[d].known = row[d].known
                            /\ row'[d].approved = row[d].approved
                            /\ row'[d].revoked = row[d].revoked
                            /\ row'[d].grant = row[d].grant
  PROVE  UNCHANGED Account!vars
<1>1. Standings' = Standings /\ Grantors' = Grantors
  BY DEF Standings, Standing, Grantors
<1>. QED BY <1>1, SameHolders DEF Account!vars, Standings, Grantors, Holders

LEMMA LoginAsks ==
  ASSUME AccessInv, NEW d \in Devices, LoginAdds(d)
  PROVE  Account!Ask(d) \/ UNCHANGED Account!vars
<1>1. /\ TypeOK /\ RowInv
      /\ row' = [row EXCEPT ![d].known = TRUE]
      /\ client' = [client EXCEPT ![d].pc = "added"]
  BY DEF AccessInv, LoginAdds, Moves
<1>2. SameSecrets
  BY <1>1 DEF SameSecrets, TypeOK, Client
<1>3. CASE row[d].known
  BY <1>1, <1>2, <1>3, Unseen DEF TypeOK, Row
<1>4. CASE ~row[d].known
  <2>1. /\ Standing(d) = "stranger"
        /\ Standing(d)' = "waiting"
        /\ \A e \in Devices : e # d => Standing(e)' = Standing(e)
        /\ \A e \in Devices : row'[e].grant = row[e].grant
    BY <1>1, <1>4 DEF Standing, RowInv, TypeOK, Row
  <2>2. Standings' = [Standings EXCEPT ![d] = "waiting"] /\ Grantors' = Grantors
    BY <2>1 DEF Standings, Grantors
  <2>. QED BY <1>2, <2>1, <2>2, SameHolders DEF Account!Ask, Standings, Grantors, Holders
<1>. QED BY <1>3, <1>4

\* The creator has its secret before it is told that it is in.
LEMMA FirstLetsItselfIn ==
  ASSUME AccessInv, NEW d \in Devices, ApproveIfFirst(d) \/ LoginAnswerLost(d)
  PROVE  Account!LetItselfIn(d) \/ UNCHANGED Account!vars
<1>1. /\ TypeOK /\ row[d].known
      /\ row' = IF NobodyApproved THEN [row EXCEPT ![d].approved = TRUE] ELSE row
  BY DEF AccessInv, RowInv, ApproveIfFirst, LoginAnswerLost
<1>2. Holders' = Holders
  <2>1. \/ client' = [client EXCEPT ![d].pc = "opened", ![d].secret = TRUE] /\ d = First
        \/ client' = [client EXCEPT ![d].pc = "waiting"]
        \/ client' = [client EXCEPT ![d].pc = "gone"]
    BY DEF ApproveIfFirst, LoginAnswerLost, Moves, Fails
  <2>2. \A e \in Devices : e # First => client'[e].secret = client[e].secret
    BY <1>1, <2>1 DEF TypeOK, Client
  <2>. QED BY <2>2 DEF Holders
<1>3. CASE ~NobodyApproved \/ row[d].approved \/ row[d].revoked
  <2>1. \A e \in Devices : Standing(e)' = Standing(e) /\ row'[e].grant = row[e].grant
    BY <1>1, <1>3 DEF Standing, TypeOK, Row
  <2>2. Standings' = Standings /\ Grantors' = Grantors
    BY <2>1 DEF Standings, Grantors
  <2>. QED BY <1>2, <2>2 DEF Account!vars, Standings, Grantors, Holders
<1>4. CASE NobodyApproved /\ ~row[d].approved /\ ~row[d].revoked
  <2>1. /\ Standing(d) = "waiting"
        /\ Standing(d)' = "in"
        /\ \A e \in Devices : e # d => Standing(e)' = Standing(e)
        /\ \A e \in Devices : row'[e].grant = row[e].grant
    BY <1>1, <1>4 DEF Standing, TypeOK, Row
  <2>2. \A e \in Devices : Standing(e) # "in"
    BY <1>1, <1>4 DEF AccessInv, RowInv, NobodyApproved, Approved, Authentic, Standing
  <2>3. Standings' = [Standings EXCEPT ![d] = "in"] /\ Grantors' = Grantors
    BY <2>1 DEF Standings, Grantors
  <2>. QED BY <1>2, <2>1, <2>2, <2>3 DEF Account!LetItselfIn, Standings, Grantors, Holders
<1>. QED BY <1>3, <1>4

\* The secret comes with the grant, from the account or from the pairing.
LEMMA GrantedLearn ==
  ASSUME AccessInv, NEW d \in Devices, Collect(d) \/ PairingRequest(d)
  PROVE  Account!Learn(d) \/ UNCHANGED Account!vars
<1>1. TypeOK /\ row' = row
  BY DEF AccessInv, Collect, PairingRequest
<1>2. \/ client' = client
      \/ client' = [client EXCEPT ![d].pc = "gone"]
      \/ /\ client' = [client EXCEPT ![d].pc = "opened", ![d].secret = TRUE]
         /\ row[d].grant # None
  BY DEF AccessInv, PairingInv, Collect, HasGrant, PairingRequest, Peer, Fails, Moves
<1>3. CASE client' = client \/ client' = [client EXCEPT ![d].pc = "gone"]
  <2>1. SameSecrets
    BY <1>1, <1>3 DEF SameSecrets, TypeOK, Client
  <2>. QED BY <1>1, <2>1, Unseen
<1>4. CASE /\ client' = [client EXCEPT ![d].pc = "opened", ![d].secret = TRUE]
           /\ row[d].grant # None
  <2>1. client'[d].secret /\ \A e \in Devices : e # d => client'[e].secret = client[e].secret
    BY <1>1, <1>4 DEF TypeOK, Client
  <2>2. Holders' = Holders \cup {d}
    BY <2>1 DEF Holders
  <2>3. Standings' = Standings /\ Grantors' = Grantors
    BY <1>1 DEF Standings, Standing, Grantors
  <2>. QED BY <1>4, <2>2, <2>3 DEF Account!Learn, Standings, Grantors, Holders
<1>. QED BY <1>2, <1>3, <1>4

\* Of two devices one has been let in already: the grant is for another one.
LEMMA OneIsGranted ==
  ASSUME AccessInv, SameSecrets, NEW o \in Devices, client[o].secret, row[o].approved,
         NEW d \in Devices, ~row[d].approved, ~row[d].revoked,
         \/ row' = [row EXCEPT ![d].grant = o, ![d].approved = TRUE]
         \/ row' = [row EXCEPT ![d].known = TRUE, ![d].grant = o, ![d].approved = TRUE]
  PROVE  Account!Grant(o, d)
<1>1. /\ row'[d].approved /\ ~row'[d].revoked /\ row'[d].grant = o
      /\ \A e \in Devices : e # d => row'[e] = row[e]
  BY DEF AccessInv, TypeOK, Row
<1>2. /\ Standing(o) \in {"in", "out"}
      /\ Standing(d) \in {"stranger", "waiting"}
      /\ Standing(d)' = "in"
      /\ \A e \in Devices : e # d => Standing(e)' = Standing(e)
  BY <1>1 DEF Standing
<1>3. /\ Standings' = [Standings EXCEPT ![d] = "in"]
      /\ Grantors' = [Grantors EXCEPT ![d] = o]
  BY <1>1, <1>2 DEF Standings, Grantors
<1>4. o \in Holders
  BY DEF Holders
<1>. QED BY <1>2, <1>3, <1>4, SameHolders DEF Account!Grant, Standings, Grantors, Holders

LEMMA CallsGrant ==
  ASSUME AccessInv, AuthedInv, NEW o \in Devices, PutGrant(o) \/ Complete(o)
  PROVE  (\E d \in Devices : Account!Grant(o, d)) \/ UNCHANGED Account!vars
<1>1. SameSecrets /\ client[o].secret
  BY DEF PutGrant, Complete, SameSecrets, AccessInv, CallInv, Sound
<1>2. CASE row' = row
  BY <1>1, <1>2, Unseen
<1>3. CASE PutGrant(o) /\ row' # row
  <2>1. /\ row[o].approved
        /\ call[o].device \in Devices
        /\ ~row[call[o].device].approved /\ ~row[call[o].device].revoked
        /\ row' = [row EXCEPT ![call[o].device].grant = o, ![call[o].device].approved = TRUE]
    BY <1>3 DEF PutGrant, Grantable, Pending, Authentic, AuthedInv, AccessInv, CallInv, Sound,
                TypeOK
  <2>. QED BY <1>1, <2>1, OneIsGranted
<1>4. CASE Complete(o) /\ row' # row
  <2>. DEFINE d == session[call[o].pairing].peer
  <2>1. call[o].pairing \in Pairings
    BY <1>4 DEF Complete, AccessInv, CallInv, Sound
  <2>2. /\ row[o].approved
        /\ d \in Devices /\ ~row[d].known
        /\ row' = [row EXCEPT ![d].known = TRUE, ![d].grant = o, ![d].approved = TRUE]
    BY <1>4, <2>1 DEF Complete, AuthedInv, AccessInv, TypeOK, Session
  <2>3. ~row[d].approved /\ ~row[d].revoked
    BY <2>2 DEF AccessInv, RowInv
  <2>. QED BY <1>1, <2>2, <2>3, OneIsGranted
<1>. QED BY <1>2, <1>3, <1>4

\* Those revoked, or dropped from the waiting, that had not left yet.
LEMMA SomeLeave ==
  ASSUME AccessInv, SameSecrets, NEW D \in SUBSET Devices, \A d \in D : row[d].known,
         row' = [e \in Devices |-> IF e \in D THEN [row[e] EXCEPT !.revoked = TRUE] ELSE row[e]]
  PROVE  \E E \in SUBSET Devices : Account!Leave(E)
<1>. DEFINE E == {d \in D : ~row[d].revoked}
<1>1. \A e \in Devices : /\ row'[e].grant = row[e].grant
                         /\ e \in D => row'[e].revoked
                         /\ e \notin D => row'[e] = row[e]
  BY DEF AccessInv, TypeOK, Row
<1>2. /\ \A e \in Devices : Standing(e)' = IF e \in E THEN "out" ELSE Standing(e)
      /\ \A e \in E : Standing(e) \in {"waiting", "in"}
  BY <1>1 DEF Standing
<1>3. /\ Standings' = [e \in Devices |-> IF e \in E THEN "out" ELSE Standings[e]]
      /\ Grantors' = Grantors
      /\ \A e \in E : Standings[e] \in {"waiting", "in"}
  BY <1>1, <1>2 DEF Standings, Grantors
<1>4. E \in SUBSET Devices
  OBVIOUS
<1>. HIDE DEF E
<1>5. Account!Leave(E)
  BY <1>3, SameHolders DEF Account!Leave, Standings, Grantors, Holders
<1>. QED BY <1>4, <1>5

LEMMA CallsTakeOut ==
  ASSUME AccessInv, NEW o \in Devices, Revoke(o) \/ \E d \in Devices : ApproveStart(o, d)
  PROVE  \E E \in SUBSET Devices : Account!Leave(E)
<1>1. SameSecrets
  BY DEF Revoke, ApproveStart, SameSecrets
<1>2. CASE Revoke(o)
  <2>1. /\ call[o].device \in Devices /\ row[call[o].device].known
        /\ row \in [Devices -> Row]
        /\ row' = [row EXCEPT ![call[o].device].revoked = TRUE]
    BY <1>2 DEF Revoke, AccessInv, CallInv, Sound, TypeOK
  <2>. DEFINE D == {call[o].device}
  <2>2. row' = [e \in Devices |-> IF e \in D THEN [row[e] EXCEPT !.revoked = TRUE] ELSE row[e]]
    BY <2>1
  <2>. QED BY <1>1, <2>1, <2>2, SomeLeave
<1>3. CASE \E d \in Devices : ApproveStart(o, d)
  <2>1. row' = [e \in Devices |-> IF e \in Dropped THEN [row[e] EXCEPT !.revoked = TRUE]
                                  ELSE row[e]]
    BY <1>3 DEF ApproveStart
  <2>2. Dropped \in SUBSET Devices /\ \A d \in Dropped : row[d].known
    BY DEF Dropped, Pending, Authentic
  <2>. QED BY <1>1, <2>1, <2>2, SomeLeave
<1>. QED BY <1>2, <1>3

LEMMA StepsOfTheRegister ==
  ASSUME AccessInv, AuthedInv, [Next]_vars
  PROVE  [Account!Next]_(Account!vars)
<1>1. ASSUME NEW d \in Devices, Joins(d)
      PROVE  Account!Ask(d) \/ Account!LetItselfIn(d) \/ Account!Learn(d) \/ UNCHANGED Account!vars
  <2>1. CASE StopsWaiting(d) \/ PublishStart(d)
    <3>1. SameSecrets /\ row' = row
      BY <2>1 DEF StopsWaiting, PublishStart, NotPublished, Fails, Moves, SameSecrets,
                  AccessInv, TypeOK, Client
    <3>. QED BY <3>1, Unseen
  <2>2. CASE Publish(d)
    <3>1. SameSecrets
      BY <2>2 DEF Publish, Fails, Moves, SameSecrets, AccessInv, TypeOK, Client
    <3>2. row' = [row EXCEPT ![d].record = TRUE] /\ row \in [Devices -> Row]
      BY <2>2 DEF Publish, AccessInv, TypeOK
    <3>. QED BY <3>1, <3>2, Unseen DEF Row
  <2>. QED BY <1>1, <2>1, <2>2, LoginAsks, FirstLetsItselfIn, GrantedLearn DEF Joins
<1>2. ASSUME NEW o \in Devices, Serves(o)
      PROVE  \/ \E d \in Devices : Account!Grant(o, d)
             \/ \E E \in SUBSET Devices : Account!Leave(E)
             \/ UNCHANGED Account!vars
  <2>1. CASE Authenticate(o) \/ PairingCreate(o) \/ PairingCancel(o)
    BY <2>1, Unseen DEF Authenticate, PairingCreate, PairingCancel, SameSecrets
  <2>. QED BY <1>2, <2>1, CallsGrant, CallsTakeOut DEF Serves
<1>3. ASSUME NEW o \in Devices, NEW d \in Devices, RevokeStart(o, d)
      PROVE  UNCHANGED Account!vars
  <2>1. SameSecrets /\ row' = row
    BY <1>3 DEF RevokeStart, Fails, Moves, SameSecrets, AccessInv, TypeOK, Client
  <2>. QED BY <2>1, Unseen
<1>4. ASSUME NEW d \in Devices, NEW p \in Pairings,
             PairingCreateStart(d, p) \/ Scan(d, p)
      PROVE  UNCHANGED Account!vars
  <2>1. SameSecrets /\ row' = row
    BY <1>4 DEF PairingCreateStart, Scan, SameSecrets, AccessInv, TypeOK, Client
  <2>. QED BY <2>1, Unseen
<1>5. ASSUME NEW d \in Devices, CompleteStart(d) \/ PairingCancelStart(d)
      PROVE  UNCHANGED Account!vars
  BY <1>5, Unseen DEF CompleteStart, PairingCancelStart, SameSecrets
<1>6. CASE Tick
  <2>1. SameSecrets
    BY <1>6 DEF Tick, SameSecrets
  <2>. QED BY <1>6, <2>1, Unseen DEF Tick, AccessInv, TypeOK, Row
<1>7. CASE Restart \/ UNCHANGED vars
  BY <1>7, Unseen DEF Restart, vars, SameSecrets
<1>8. \A o \in Devices : (\E d \in Devices : ApproveStart(o, d)) =>
         \E E \in SUBSET Devices : Account!Leave(E)
  BY CallsTakeOut
<1>. QED BY <1>1, <1>2, <1>3, <1>4, <1>5, <1>6, <1>7, <1>8 DEF Next, Account!Next

\* An approval is never taken back: who is revoked stays approved.
LEMMA ApprovalStays ==
  ASSUME AccessInv, [Next]_vars, NEW d \in Devices, row[d].approved
  PROVE  row'[d].approved
<1>1. row \in [Devices -> Row]
  BY DEF AccessInv, TypeOK
<1>2. ASSUME NEW e \in Devices, Joins(e) PROVE row'[d].approved
  <2>1. \/ row' = row
        \/ row' = [row EXCEPT ![e].known = TRUE]
        \/ row' = [row EXCEPT ![e].approved = TRUE]
        \/ row' = [row EXCEPT ![e].record = TRUE]
    BY <1>2 DEF Joins, LoginAdds, ApproveIfFirst, LoginAnswerLost, Collect, StopsWaiting,
                PublishStart, Publish, PairingRequest
  <2>. QED BY <1>1, <2>1 DEF Row
<1>3. ASSUME NEW o \in Devices, Serves(o) PROVE row'[d].approved
  <2>1. \/ row' = row
        \/ row' = [row EXCEPT ![call[o].device].revoked = TRUE]
        \/ row' = [row EXCEPT ![call[o].device].grant = o, ![call[o].device].approved = TRUE]
        \/ row' = [row EXCEPT ![session[call[o].pairing].peer].known = TRUE,
                              ![session[call[o].pairing].peer].grant = o,
                              ![session[call[o].pairing].peer].approved = TRUE]
    BY <1>3 DEF Serves, Authenticate, PutGrant, Revoke, PairingCreate, PairingCancel, Complete
  <2>2. \A e : [row EXCEPT ![e].revoked = TRUE][d].approved
    BY <1>1 DEF Row
  <2>3. \A e : [row EXCEPT ![e].grant = o, ![e].approved = TRUE][d].approved
    BY <1>1 DEF Row
  <2>4. \A e : [row EXCEPT ![e].known = TRUE, ![e].grant = o, ![e].approved = TRUE][d].approved
    BY <1>1 DEF Row
  <2>. QED BY <2>1, <2>2, <2>3, <2>4
<1>4. ASSUME NEW o \in Devices, NEW e \in Devices, ApproveStart(o, e) PROVE row'[d].approved
  BY <1>1, <1>4 DEF ApproveStart, Row
<1>5. CASE Tick
  BY <1>1, <1>5 DEF Tick, Row
<1>. QED
  BY <1>2, <1>3, <1>4, <1>5
     DEF Next, vars, CompleteStart, PairingCancelStart, RevokeStart, PairingCreateStart, Scan,
         Restart

LEMMA AuthedStays == ASSUME AccessInv, AuthedInv, [Next]_vars PROVE AuthedInv'
<1>. SUFFICES ASSUME NEW o \in Devices, call'[o].authed PROVE row'[o].approved
  BY DEF AuthedInv
<1>1. call \in [Devices -> Call]
  BY DEF AccessInv, TypeOK
<1>2. CASE call[o].authed
  BY <1>2, ApprovalStays DEF AuthedInv
<1>3. CASE ~call[o].authed
  <2>1. ASSUME NEW e \in Devices, NEW op, NEW d, NEW p, Calls(e, op, d, p) PROVE FALSE
    BY <1>1, <1>3, <2>1 DEF Calls
  <2>2. ASSUME NEW e \in Devices, Ends(e) PROVE FALSE
    BY <1>1, <1>3, <2>2 DEF Ends, NoCall
  <2>3. call' # call
    BY <1>3
  <2>4. ASSUME NEW e \in Devices, Authenticate(e) PROVE row[o].approved
    BY <1>1, <1>3, <2>2, <2>4 DEF Authenticate, Approved, Call
  <2>5. ~Restart
    BY <1>3 DEF Restart, NoCall
  <2>6. \E e \in Devices : Authenticate(e)
    BY <2>1, <2>2, <2>3, <2>5
       DEF Next, vars, Joins, LoginAdds, ApproveIfFirst, LoginAnswerLost, Collect, StopsWaiting,
           PublishStart, Publish, PairingRequest, Serves, PutGrant, Revoke, PairingCreate,
           PairingCancel, Complete, CompleteStart, PairingCancelStart, ApproveStart,
           RevokeStart, PairingCreateStart, Scan, Tick
  <2>. QED BY <2>4, <2>6, ApprovalStays
<1>. QED BY <1>2, <1>3

\* Logins, grants, pairings, revocations and clients together keep a register
\* of the account, whatever interleaves: who is in came in by a grant of one
\* that had the secret, or when nobody was in, and whoever is out stays out.
THEOREM AccessRefinesRegister == Spec => ImplementsRegister
<1>1. Init => Account!Init
  <2>. SUFFICES ASSUME Init PROVE Account!Init
    OBVIOUS
  <2>1. \A d \in Devices : /\ Standing(d) = "stranger" /\ row[d].grant = None
                           /\ ~client[d].secret
    BY DEF Init, Standing, NoRow
  <2>. QED BY <2>1 DEF Account!Init
<1>2. Init => AuthedInv
  BY DEF Init, AuthedInv, NoCall
<1>. QED BY <1>1, <1>2, AccessInvariant, AuthedStays, StepsOfTheRegister, PTL
         DEF Spec, ImplementsRegister, Account!Spec

----------------------------------------------------------------------------
(* Chains of grants.                                                          *)

WasIn(d) == Standing(d) \in {"in", "out"}

\* No devices have their grants only from one another.
NoRing == \A S \in SUBSET Devices : S # {} => \E d \in S : row[d].grant \notin S

GrantsInv ==
    /\ \A d \in Devices : row[d].grant # None => WasIn(d) /\ WasIn(row[d].grant)
    /\ NoRing


LEMMA StandingsSeen ==
  ASSUME AccessInv, AuthedInv, [Next]_vars
  PROVE  /\ \A d \in Devices : WasIn(d) => WasIn(d)'
         /\ \/ \A d \in Devices : row'[d].grant = row[d].grant
            \/ \E o, d \in Devices :
                  /\ WasIn(o) /\ ~WasIn(d) /\ WasIn(d)'
                  /\ row'[d].grant = o
                  /\ \A e \in Devices : e # d => row'[e].grant = row[e].grant
<1>1. /\ \A d \in Devices : Standings[d] = Standing(d) /\ Grantors[d] = row[d].grant
      /\ \A d \in Devices : Standings'[d] = Standing(d)' /\ Grantors'[d] = row'[d].grant
  BY DEF Standings, Grantors
<1>2. Standings = [d \in Devices |-> Standing(d)] /\ Grantors = [d \in Devices |-> row[d].grant]
  BY DEF Standings, Grantors
<1>3. \/ \E d \in Devices :
            /\ \/ Standings' = [Standings EXCEPT ![d] = "waiting"] /\ Standings[d] = "stranger"
               \/ Standings' = [Standings EXCEPT ![d] = "in"]
            /\ Grantors' = Grantors
      \/ Standings' = Standings /\ Grantors' = Grantors
      \/ \E o, d \in Devices :
            /\ Standings[o] \in {"in", "out"} /\ Standings[d] \in {"stranger", "waiting"}
            /\ Standings' = [Standings EXCEPT ![d] = "in"]
            /\ Grantors' = [Grantors EXCEPT ![d] = o]
      \/ \E D \in SUBSET Devices :
            /\ Standings' = [d \in Devices |-> IF d \in D THEN "out" ELSE Standings[d]]
            /\ Grantors' = Grantors
  <2>1. Account!Next \/ UNCHANGED Account!vars
    BY StepsOfTheRegister
  <2>. QED BY <2>1 DEF Account!Next, Account!vars, Account!Ask, Account!LetItselfIn,
                       Account!Learn, Account!Grant, Account!Leave, Standings, Grantors
<1>4. CASE Grantors' = Grantors
  BY <1>1, <1>2, <1>3, <1>4 DEF WasIn
<1>5. ASSUME NEW o \in Devices, NEW d \in Devices,
             Standings[o] \in {"in", "out"}, Standings[d] \in {"stranger", "waiting"},
             Standings' = [Standings EXCEPT ![d] = "in"],
             Grantors' = [Grantors EXCEPT ![d] = o]
      PROVE  /\ \A e \in Devices : WasIn(e) => WasIn(e)'
             /\ WasIn(o) /\ ~WasIn(d) /\ WasIn(d)'
             /\ row'[d].grant = o
             /\ \A e \in Devices : e # d => row'[e].grant = row[e].grant
  <2>1. /\ Standings'[d] = "in" /\ Grantors'[d] = o
        /\ \A e \in Devices : e # d => Standings'[e] = Standings[e] /\ Grantors'[e] = Grantors[e]
    BY <1>2, <1>5
  <2>. QED BY <1>1, <1>5, <2>1 DEF WasIn
<1>. QED BY <1>3, <1>4, <1>5

\* The one that is let in has granted nothing yet, so it closes no ring.
LEMMA GrantsStayRooted == ASSUME AccessInv, AuthedInv, GrantsInv, [Next]_vars PROVE GrantsInv'
<1>1. \A d \in Devices : row[d].grant \in Devices \cup {None}
  BY DEF AccessInv, TypeOK, Row
<1>2. CASE \A d \in Devices : row'[d].grant = row[d].grant
  BY <1>1, <1>2, StandingsSeen DEF GrantsInv, NoRing
<1>3. ASSUME NEW o \in Devices, NEW d \in Devices, WasIn(o), ~WasIn(d), WasIn(d)',
             row'[d].grant = o,
             \A e \in Devices : e # d => row'[e].grant = row[e].grant
      PROVE  GrantsInv'
  <2>1. \A e \in Devices : row[e].grant # d
    BY <1>3, AccessConstants DEF GrantsInv, AccessConstants
  <2>2. ASSUME NEW e \in Devices, row'[e].grant # None
        PROVE  (WasIn(e) /\ WasIn(row[e].grant))'
    BY <1>1, <1>3, <2>2, StandingsSeen DEF GrantsInv
  <2>3. ASSUME NEW S \in SUBSET Devices, S # {}, \A e \in S : row'[e].grant \in S
        PROVE  FALSE
    <3>1. CASE d \notin S
      BY <1>3, <2>3, <3>1 DEF GrantsInv, NoRing
    <3>2. CASE d \in S
      <4>1. o \in S \ {d}
        BY <1>3, <2>3, <3>2
      <4>2. \A e \in S \ {d} : row[e].grant \in S \ {d}
        BY <1>3, <2>1, <2>3
      <4>. QED BY <4>1, <4>2 DEF GrantsInv, NoRing
    <3>. QED BY <3>1, <3>2
  <2>. QED BY <2>2, <2>3 DEF GrantsInv, NoRing
<1>. QED BY <1>2, <1>3, StandingsSeen

\* The account secret has gone from hand to hand, and never round in a ring: a
\* device that has it can be traced to the account's creator; and a device that
\* is in is on the list it can be revoked from.
THEOREM SecretTravelsAlongGrants == Spec => []SecretIsAccountedFor
<1>1. Init => AuthedInv /\ GrantsInv
  <2>. SUFFICES ASSUME Init PROVE AuthedInv /\ GrantsInv
    OBVIOUS
  <2>1. \A d \in Devices : row[d].grant = None /\ ~call[d].authed
    BY DEF Init, NoRow, NoCall
  <2>2. None \notin Devices
    BY AccessConstants DEF AccessConstants
  <2>. QED BY <2>1, <2>2 DEF AuthedInv, GrantsInv, NoRing
<1>2. ASSUME AccessInv, GrantsInv PROVE SecretIsAccountedFor
  <2>. SUFFICES ASSUME NEW S \in SUBSET {d \in Devices : client[d].secret /\ d # First}, S # {}
                PROVE  \E d \in S : row[d].grant \in Devices \ S /\ client[row[d].grant].secret
    BY <1>2 DEF HandToHand, SecretIsAccountedFor, AccessInv, SecretInv
  <2>1. PICK d \in S : row[d].grant \notin S
    BY <1>2 DEF GrantsInv, NoRing
  <2>2. row[d].grant # None /\ row[d].grant \in Devices \cup {None}
    BY <1>2 DEF AccessInv, SecretInv, TypeOK, Row
  <2>. QED BY <1>2, <2>1, <2>2 DEF AccessInv, SecretInv
<1>. QED BY <1>1, <1>2, AccessInvariant, AuthedStays, GrantsStayRooted, PTL DEF Spec
=============================================================================
