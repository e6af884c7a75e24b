---------------------------- MODULE ServerProofs -----------------------------
(* Who may call the server, for any clients, invites and clocks: no request   *)
(* gets through twice while the server runs, an invite and a username make    *)
(* one account each, the memory of what was started is bounded, and nobody    *)
(* ends up in an account that is not there.                                   *)
EXTENDS Server, FiniteSetTheorems, TLAPS

----------------------------------------------------------------------------
(* Signed requests.                                                           *)

LEMMA Bounds == Skew \in Nat /\ Drift \in Nat /\ MaxTime \in Nat /\ MaxRestarts \in Nat
BY SignedConstants DEF R!RequestsConstants

\* A nonce signs one request, and a served one was signed.
OneRequest ==
    /\ \A r, s \in wire : R!Key(r) = R!Key(s) => r = s
    /\ \A k \in R!Keys : served[k] # 0 => \E r \in wire : R!Key(r) = k

\* What got through is remembered from a time that is not before the earliest
\* the timestamp allows, until the timestamp is too old for any clock.
RememberedOrStale ==
    \A r \in wire : served[R!Key(r)] # 0 =>
        \/ time - r.timestamp > Skew
        \/ R!Key(r) \in DOMAIN nonces /\ nonces[R!Key(r)] >= r.timestamp - Skew

RequestsInv ==
    /\ R!AcceptedOnce
    /\ OneRequest
    /\ RememberedOrStale

LEMMA KeyIsKey ==
  ASSUME R!TypeOK, NEW r \in wire
  PROVE  r \in R!Signed /\ R!Key(r) \in R!Keys /\ r.timestamp \in Int /\ r.device \in Devices
BY DEF R!TypeOK, R!Signed, R!Key, R!Keys

LEMMA RequestsInit == ASSUME R!Init PROVE RequestsInv
<1>1. R!TypeOK
  BY Bounds DEF R!Init, R!TypeOK
<1>2. \A k \in R!Keys : served[k] = 0
  BY DEF R!Init
<1>3. wire = {}
  BY DEF R!Init
<1>. QED BY <1>1, <1>2, <1>3 DEF RequestsInv, R!AcceptedOnce, OneRequest, RememberedOrStale

\* A new request has a key nobody has used, so nothing was served under it.
LEMMA SignKeeps ==
  ASSUME RequestsInv, NEW d \in Devices, NEW n \in Nonces,
         NEW t \in time - Drift .. time + Drift, R!Sign(d, n, t)
  PROVE  RequestsInv'
<1>. DEFINE new == [device |-> d, nonce |-> n, timestamp |-> t]
<1>1. R!TypeOK
  BY DEF RequestsInv, R!AcceptedOnce
<1>2. new \in R!Signed /\ R!Key(new) = <<d, n>> /\ <<d, n>> \in R!Keys
  BY <1>1, Bounds DEF R!TypeOK, R!Signed, R!Key, R!Keys
<1>3. /\ wire' = wire \cup {new}
      /\ UNCHANGED <<time, nonces, revoked, served, restarts>>
      /\ \A r \in wire : R!Key(r) # R!Key(new)
  BY <1>2 DEF R!Sign
<1>. HIDE DEF new
<1>4. R!TypeOK'
  BY <1>1, <1>2, <1>3 DEF R!TypeOK
<1>5. served[R!Key(new)] = 0
  BY <1>2, <1>3 DEF RequestsInv, OneRequest
<1>6. OneRequest'
  BY <1>3, <1>5 DEF RequestsInv, OneRequest, R!Key
<1>7. RememberedOrStale'
  BY <1>3, <1>5 DEF RequestsInv, RememberedOrStale, R!Key
<1>8. R!AcceptedOnce'
  BY <1>3, <1>4 DEF RequestsInv, R!AcceptedOnce, R!Keys
<1>. QED BY <1>6, <1>7, <1>8 DEF RequestsInv

\* What is kept was seen at most twice the skew ago, so what is not kept of
\* the requests that got through is stale.
LEMMA ForgottenIsStale ==
  ASSUME RequestsInv, NEW r \in wire, R!Verified(r), served[R!Key(r)] # 0
  PROVE  R!Key(r) \in R!Kept
<1>1. R!TypeOK
  BY DEF RequestsInv, R!AcceptedOnce
<1>2. r.timestamp \in Int /\ time - r.timestamp <= Skew
  BY <1>1, KeyIsKey DEF R!Verified
<1>3. R!Key(r) \in DOMAIN nonces /\ nonces[R!Key(r)] >= r.timestamp - Skew
  BY <1>1, <1>2, Bounds DEF RequestsInv, RememberedOrStale, R!TypeOK
<1>4. nonces[R!Key(r)] \in Nat /\ time \in Nat
  BY <1>1, <1>3 DEF R!TypeOK
<1>. QED BY <1>2, <1>3, <1>4, Bounds DEF R!Kept

LEMMA AuthenticateKeeps ==
  ASSUME RequestsInv, NEW r \in wire, R!Authenticate(r)
  PROVE  RequestsInv'
<1>. DEFINE k == R!Key(r)
<1>1. R!TypeOK
  BY DEF RequestsInv, R!AcceptedOnce
<1>2. k \in R!Keys /\ r.timestamp \in Int /\ time \in Nat
  BY <1>1, KeyIsKey DEF R!TypeOK
<1>3. /\ nonces' = [j \in R!Kept \cup {k} |-> IF j = k THEN time ELSE nonces[j]]
      /\ UNCHANGED <<time, wire, revoked, restarts>>
      /\ R!Verified(r)
  BY DEF R!Authenticate, R!Remembered
<1>4. R!Kept \subseteq DOMAIN nonces
  BY DEF R!Kept
<1>5. /\ served' \in [R!Keys -> 0 .. 2]
      /\ \A j \in R!Keys : j # k => served'[j] = served[j]
      /\ served'[k] <= 1
  <2>1. CASE k \in R!Kept
    BY <1>1, <1>2, <2>1 DEF R!Authenticate, RequestsInv, R!AcceptedOnce, R!TypeOK
  <2>2. CASE k \notin R!Kept
    <3>1. served[k] = 0
      BY <2>2, <1>3, ForgottenIsStale
    <3>2. served' = [served EXCEPT ![k] = 1]
      BY <1>1, <1>2, <2>2, <3>1 DEF R!Authenticate, R!Counted, R!TypeOK
    <3>. QED BY <1>1, <1>2, <3>2 DEF R!TypeOK
  <2>. QED BY <2>1, <2>2
<1>6. R!TypeOK'
  <2>1. DOMAIN nonces' = R!Kept \cup {k} /\ DOMAIN nonces' \subseteq R!Keys
    BY <1>1, <1>2, <1>3, <1>4 DEF R!TypeOK
  <2>2. nonces' \in [DOMAIN nonces' -> Nat]
    BY <1>1, <1>2, <1>3, <1>4 DEF R!TypeOK
  <2>. QED BY <1>1, <1>3, <1>5, <2>1, <2>2 DEF R!TypeOK
<1>7. R!AcceptedOnce'
  BY <1>5, <1>6 DEF RequestsInv, R!AcceptedOnce
<1>8. OneRequest'
  BY <1>3, <1>5 DEF RequestsInv, OneRequest, R!Key
<1>9. RememberedOrStale'
  <2>. SUFFICES ASSUME NEW s \in wire, served'[R!Key(s)] # 0
                PROVE  \/ time - s.timestamp > Skew
                       \/ R!Key(s) \in DOMAIN nonces' /\ nonces'[R!Key(s)] >= s.timestamp - Skew
    BY <1>3 DEF RememberedOrStale, R!Key
  <2>1. R!Key(s) \in R!Keys /\ s.timestamp \in Int
    BY <1>1, KeyIsKey
  <2>2. CASE R!Key(s) = k
    <3>1. s = r
      BY <2>2 DEF RequestsInv, OneRequest
    <3>2. nonces'[k] = time /\ k \in DOMAIN nonces'
      BY <1>3
    <3>3. time >= s.timestamp - Skew
      BY <1>2, <1>3, <3>1, Bounds DEF R!Verified
    <3>. QED BY <2>2, <3>2, <3>3
  <2>3. CASE R!Key(s) # k
    <3>1. served[R!Key(s)] # 0
      BY <1>5, <2>1, <2>3
    <3>2. CASE time - s.timestamp > Skew
      BY <3>2
    <3>3. CASE ~(time - s.timestamp > Skew)
      <4>1. R!Key(s) \in DOMAIN nonces /\ nonces[R!Key(s)] >= s.timestamp - Skew
        BY <3>1, <3>3 DEF RequestsInv, RememberedOrStale
      <4>2. nonces[R!Key(s)] \in Nat
        BY <1>1, <4>1 DEF R!TypeOK
      <4>3. R!Key(s) \in R!Kept
        BY <1>2, <2>1, <3>3, <4>1, <4>2, Bounds DEF R!Kept
      <4>. QED BY <1>3, <2>3, <4>1, <4>3
    <3>. QED BY <3>2, <3>3
  <2>. QED BY <2>2, <2>3
<1>. QED BY <1>7, <1>8, <1>9 DEF RequestsInv

LEMMA TickKeeps ==
  ASSUME RequestsInv, R!Tick
  PROVE  RequestsInv'
<1>1. R!TypeOK
  BY DEF RequestsInv, R!AcceptedOnce
<1>2. time \in Nat /\ time' = time + 1 /\ UNCHANGED <<wire, nonces, revoked, served, restarts>>
  BY <1>1 DEF R!Tick, R!TypeOK
<1>3. R!TypeOK'
  BY <1>1, <1>2 DEF R!TypeOK
<1>4. \A r \in wire : r.timestamp \in Int
  BY <1>1, KeyIsKey
<1>5. RememberedOrStale'
  BY <1>2, <1>4, Bounds DEF RequestsInv, RememberedOrStale, R!Key
<1>. QED BY <1>2, <1>3, <1>5 DEF RequestsInv, R!AcceptedOnce, OneRequest, R!Key, R!Keys

\* A server that starts has served nothing.
LEMMA RestartKeeps ==
  ASSUME RequestsInv, R!Restart
  PROVE  RequestsInv'
<1>1. R!TypeOK
  BY DEF RequestsInv, R!AcceptedOnce
<1>2. /\ nonces' = [k \in {} |-> 0]
      /\ served' = [k \in R!Keys |-> 0]
      /\ restarts' = restarts + 1
      /\ UNCHANGED <<time, wire, revoked>>
  BY DEF R!Restart
<1>3. R!TypeOK'
  BY <1>1, <1>2 DEF R!TypeOK
<1>4. \A k \in R!Keys : served'[k] = 0
  BY <1>2
<1>5. \A r \in wire : R!Key(r) \in R!Keys
  BY <1>1, KeyIsKey
<1>6. OneRequest'
  BY <1>2, <1>4 DEF RequestsInv, OneRequest, R!Key, R!Keys
<1>7. RememberedOrStale'
  BY <1>2, <1>4, <1>5 DEF RememberedOrStale, R!Key
<1>. QED BY <1>3, <1>4, <1>6, <1>7 DEF RequestsInv, R!AcceptedOnce, R!Keys

LEMMA RevokeKeeps ==
  ASSUME RequestsInv, NEW d \in Devices, R!RevokeDevice(d)
  PROVE  RequestsInv'
<1>1. revoked' = revoked \cup {d} /\ UNCHANGED <<time, wire, nonces, served, restarts>>
  BY DEF R!RevokeDevice
<1>. QED BY <1>1 DEF RequestsInv, R!AcceptedOnce, OneRequest, RememberedOrStale, R!TypeOK, R!Key, R!Keys

LEMMA StutterKeeps ==
  ASSUME RequestsInv, UNCHANGED R!vars
  PROVE  RequestsInv'
BY DEF RequestsInv, R!AcceptedOnce, OneRequest, RememberedOrStale, R!TypeOK, R!Key, R!Keys, R!vars

LEMMA RequestsStep ==
  ASSUME RequestsInv, [R!Next]_(R!vars)
  PROVE  RequestsInv'
BY SignKeeps, AuthenticateKeeps, TickKeeps, RestartKeeps, RevokeKeeps, StutterKeeps DEF R!Next

\* The server's nonces and the clients' timestamps together (app.rs:337,
\* request.rs:78): the inductive invariant holds.
THEOREM RequestsInvariant == R!Spec => []RequestsInv
<1>1. R!Init => RequestsInv
  BY RequestsInit
<1>2. RequestsInv /\ [R!Next]_(R!vars) => RequestsInv'
  BY RequestsStep
<1>. QED BY <1>1, <1>2, PTL DEF R!Spec

\* A request gets through at most once while the server runs (app.rs:382).
THEOREM ServedOnce == R!Spec => []AcceptedOnce
<1>1. RequestsInv => AcceptedOnce
  BY DEF RequestsInv, AcceptedOnce
<1>. QED BY <1>1, RequestsInvariant, PTL

----------------------------------------------------------------------------
(* Registrations and logins: the invariant.                                   *)

\* Whoever has started has a username; whoever is past its login, an account;
\* whoever is in by joining, its own.
ClientInv ==
    \A c \in Clients :
        /\ client[c].pc # "idle" => client[c].try # 0 /\ client[c].user # None
        /\ client[c].pc \in {"verified", "added", "opened", "waiting", "in"} =>
              client[c].pending # None
        /\ client[c].pc = "in" => client[c].pending.id = Id(c)

\* An account's invite is used, for it alone; a username names one account;
\* and a device is of an account there is.
AccountInv ==
    /\ \A a \in opened : a.invite # None => invites[a.invite].used
    /\ \A a, b \in opened : a.invite = b.invite /\ a.invite # None => a = b
    /\ \A a, b \in accounts : a.user = b.user => a = b
    /\ \A d \in devices : \E a \in accounts : a.id = d.account

\* A try starts one registration and one login, and not before its requests.
Past(cl, id, early) ==
    \A c \in Clients : id[1] = c =>
        \/ id[2] < cl[c].try
        \/ id[2] = cl[c].try /\ cl[c].pc \notin early

Started(pending, early, cl) ==
    /\ \A p, q \in pending : p.id = q.id => p = q
    /\ \A p \in pending : Past(cl, p.id, early)

EarlyRegister == {"register", "checked"}
EarlyLogin == EarlyRegister \cup {"finish", "taken", "login", "looked"}

\* What can still be finished was started by an attempt that still counts, and
\* so was what is about to be remembered.
Backed(pending, to, made, t) ==
    \A p \in pending : p.expires > t =>
        \E a \in made : a.id = p.id /\ a.to = to /\ a.at + PendingTtl = p.expires

Backs(pc, to, cl, made, t) ==
    \A c \in Clients : cl[c].pc = pc =>
        \E a \in made : a.id = <<c, cl[c].try>> /\ a.to = to /\ a.at = t

Few(S) == IsFiniteSet(S) /\ Cardinality(S) <= MaxOverall

MemoryInv ==
    /\ Started(registrations, EarlyRegister, client)
    /\ Started(logins, EarlyLogin, client)
    /\ Backed(registrations, "register", attempts, now)
    /\ Backed(logins, "login", attempts, now)
    /\ Backs("checked", "register", client, attempts, now)
    /\ Backs("looked", "login", client, attempts, now)
    /\ Few(attempts) /\ Few(registrations) /\ Few(logins)

EnrolInv == TypeOK /\ ClientInv /\ AccountInv /\ MemoryInv

----------------------------------------------------------------------------
(* What a step of a client makes of the memory.                               *)

\* A step of a client goes on with its try, or starts the next.
GoesOn(early) ==
    \A c \in Clients :
        \/ client[c].try < client'[c].try
        \/ client[c].try = client'[c].try /\ (client[c].pc \notin early => client'[c].pc \notin early)

LEMMA StartedStaysPast ==
  ASSUME TypeOK, TypeOK', NEW early, GoesOn(early), NEW P, NEW Q \in SUBSET P,
         \A p \in P : p.id \in Tries, Started(P, early, client)
  PROVE  Started(Q, early, client')
<1>. SUFFICES ASSUME NEW p \in Q, NEW c \in Clients, p.id[1] = c
              PROVE  \/ p.id[2] < client'[c].try
                     \/ p.id[2] = client'[c].try /\ client'[c].pc \notin early
  BY DEF Started, Past
<1>1. p.id[2] \in Nat /\ client[c].try \in Nat /\ client'[c].try \in Nat
  BY EnrolConstants DEF Tries, TypeOK, Client, EnrolConstants
<1>2. \/ p.id[2] < client[c].try
      \/ p.id[2] = client[c].try /\ client[c].pc \notin early
  BY DEF Started, Past
<1>. QED BY <1>1, <1>2 DEF GoesOn

\* What still counts is not forgotten before what it started.
LEMMA BackedByRecent ==
  ASSUME TypeOK, NEW P, NEW to, NEW made, Recent \subseteq made,
         \A p \in P : p.expires \in Nat, Backed(P, to, attempts, now)
  PROVE  Backed(P, to, made, now)
<1>. SUFFICES ASSUME NEW p \in P, p.expires > now
              PROVE  \E a \in made : a.id = p.id /\ a.to = to /\ a.at + PendingTtl = p.expires
  BY DEF Backed
<1>1. PICK a \in attempts : a.id = p.id /\ a.to = to /\ a.at + PendingTtl = p.expires
  BY DEF Backed
<1>2. a.at \in Nat /\ now \in Nat
  BY EnrolConstants DEF TypeOK, Attempt, EnrolConstants
<1>3. now - a.at < Window
  BY <1>1, <1>2, EnrolConstants DEF EnrolConstants
<1>. QED BY <1>1, <1>3 DEF Recent

LEMMA BacksByRecent ==
  ASSUME TypeOK, NEW pc, NEW to, NEW made, Recent \subseteq made,
         Backs(pc, to, client, attempts, now),
         NEW cl, \A c \in Clients : cl[c].pc = pc => cl[c].try = client[c].try /\ client[c].pc = pc
  PROVE  Backs(pc, to, cl, made, now)
<1>. SUFFICES ASSUME NEW c \in Clients, cl[c].pc = pc
              PROVE  \E a \in made : a.id = <<c, cl[c].try>> /\ a.to = to /\ a.at = now
  BY DEF Backs
<1>1. PICK a \in attempts : a.id = <<c, cl[c].try>> /\ a.to = to /\ a.at = now
  BY DEF Backs
<1>2. now - a.at < Window
  BY <1>1, EnrolConstants DEF TypeOK, EnrolConstants
<1>. QED BY <1>1, <1>2 DEF Recent

LEMMA RecentIsFew ==
  ASSUME Few(attempts)
  PROVE  Recent \subseteq attempts /\ Few(Recent)
<1>1. Recent \subseteq attempts
  BY DEF Recent
<1>2. IsFiniteSet(Recent) /\ Cardinality(Recent) <= Cardinality(attempts)
  BY <1>1, FS_Subset DEF Few
<1>3. Cardinality(Recent) \in Nat /\ Cardinality(attempts) \in Nat
  BY <1>2, FS_CardinalityType DEF Few
<1>. QED BY <1>1, <1>2, <1>3, EnrolConstants DEF Few, EnrolConstants

LEMMA FewerIsFew ==
  ASSUME NEW S, NEW T \in SUBSET S, Few(S)
  PROVE  Few(T)
<1>1. IsFiniteSet(T) /\ Cardinality(T) <= Cardinality(S)
  BY FS_Subset DEF Few
<1>2. Cardinality(T) \in Nat /\ Cardinality(S) \in Nat
  BY <1>1, FS_CardinalityType DEF Few
<1>. QED BY <1>1, <1>2, EnrolConstants DEF Few, EnrolConstants

LEMMA AllowedIsFew ==
  ASSUME Few(attempts), NEW c, NEW to, AllowAttempt(c, to)
  PROVE  /\ Few(attempts')
         /\ Recent \subseteq attempts'
         /\ [id |-> Id(c), to |-> to, user |-> client[c].user, at |-> now] \in attempts'
<1>. DEFINE new == [id |-> Id(c), to |-> to, user |-> client[c].user, at |-> now]
<1>1. attempts' = Recent \cup {new} /\ Cardinality(Recent) < MaxOverall
  BY DEF AllowAttempt
<1>. HIDE DEF new
<1>2. IsFiniteSet(Recent) /\ Cardinality(Recent) \in Nat
  BY RecentIsFew, FS_CardinalityType DEF Few
<1>3. /\ IsFiniteSet(Recent \cup {new})
      /\ \/ Cardinality(Recent \cup {new}) = Cardinality(Recent)
         \/ Cardinality(Recent \cup {new}) = Cardinality(Recent) + 1
  BY <1>2, FS_AddElement
<1>. QED BY <1>1, <1>2, <1>3, EnrolConstants DEF Few, new, EnrolConstants

\* What is remembered is no more than what it was started by.
LEMMA BackedIsFew ==
  ASSUME Few(attempts), NEW P,
         \A p \in P : \E a \in attempts : a.id = p.id, \A p, q \in P : p.id = q.id => p = q
  PROVE  Few(P)
<1>. DEFINE f == [p \in P |-> CHOOSE a \in attempts : a.id = p.id]
<1>1. \A p \in P : f[p] \in attempts /\ f[p].id = p.id
  OBVIOUS
<1>. HIDE DEF f
<1>2. f \in Injection(P, attempts)
  <2>1. f \in [P -> attempts]
    BY <1>1 DEF f
  <2>2. \A p, q \in P : f[p] = f[q] => p = q
    BY <1>1
  <2>. QED BY <2>1, <2>2 DEF Injection, IsInjective
<1>3. IsFiniteSet(P) /\ Cardinality(P) <= Cardinality(attempts)
  BY <1>2, FS_Injection DEF Few
<1>4. Cardinality(P) \in Nat /\ Cardinality(attempts) \in Nat
  BY <1>3, FS_CardinalityType DEF Few
<1>. QED BY <1>3, <1>4, EnrolConstants DEF Few, EnrolConstants

Steps == {"idle", "register", "checked", "finish", "taken", "login", "looked", "bind",
          "verified", "added", "opened", "waiting", "in"}

LEMMA ClientRecord ==
  ASSUME NEW pc \in Steps, NEW n \in 0 .. MaxTries, NEW j \in BOOLEAN,
         NEW u \in Users \cup {None}, NEW i \in Invites \cup {None},
         NEW a \in Accounts \cup {None}
  PROVE  [pc |-> pc, try |-> n, joins |-> j, user |-> u, invite |-> i, pending |-> a] \in Client
  BY DEF Client, Steps

LEMMA MoveEffects ==
  ASSUME TypeOK, NEW c \in Clients, NEW pc \in Steps, Moves(c, pc)
  PROVE  /\ client' \in [Clients -> Client]
         /\ client'[c].pc = pc /\ client'[c].try = client[c].try
         /\ client'[c].user = client[c].user /\ client'[c].pending = client[c].pending
         /\ \A e \in Clients : e # c => client'[e] = client[e]
  BY DEF TypeOK, Client, Moves, Steps

LEMMA FailEffects ==
  ASSUME TypeOK, NEW c \in Clients, Fails(c)
  PROVE  /\ client' \in [Clients -> Client]
         /\ client'[c].pc = "idle" /\ client'[c].try = client[c].try
         /\ \A e \in Clients : e # c => client'[e] = client[e]
<1>1. client[c].try \in 0 .. MaxTries
  BY DEF TypeOK, Client
<1>2. Idle(client[c].try) \in Client
  BY <1>1 DEF Idle, Client
<1>. QED BY <1>2 DEF TypeOK, Fails, Idle

LEMMA PendEffects ==
  ASSUME TypeOK, NEW c \in Clients, NEW pc \in Steps, NEW a \in Accounts \cup {None},
         client' = [client EXCEPT ![c].pc = pc, ![c].pending = a]
  PROVE  /\ client' \in [Clients -> Client]
         /\ client'[c].pc = pc /\ client'[c].try = client[c].try
         /\ client'[c].user = client[c].user /\ client'[c].pending = a
         /\ \A e \in Clients : e # c => client'[e] = client[e]
<1>. DEFINE r == [[client[c] EXCEPT !.pc = pc] EXCEPT !.pending = a]
<1>1. client[c] \in Client
  BY DEF TypeOK
<1>2. r \in Client
  BY <1>1 DEF Client, Steps
<1>3. /\ r.pc = pc /\ r.try = client[c].try /\ r.user = client[c].user /\ r.pending = a
  BY <1>1 DEF Client
<1>4. client' = [client EXCEPT ![c] = r]
  BY DEF TypeOK
<1>. HIDE DEF r
<1>. QED BY <1>2, <1>3, <1>4 DEF TypeOK

LEMMA TryIsTry ==
  ASSUME TypeOK, ClientInv, NEW c \in Clients, client[c].pc # "idle"
  PROVE  /\ client[c].try \in 1 .. MaxTries /\ Id(c) \in Tries
         /\ Id(c)[1] = c /\ Id(c)[2] = client[c].try
         /\ client[c].user \in Users /\ client[c].invite \in Invites \cup {None}
  BY EnrolConstants DEF TypeOK, Client, ClientInv, Id, Tries, EnrolConstants

\* A step of one client that leaves the memory alone, or takes from it.
LEMMA MemoryGoesOn ==
  ASSUME TypeOK, TypeOK', MemoryInv, NEW c \in Clients,
         \A e \in Clients : e # c => client'[e] = client[e],
         \/ client[c].try < client'[c].try
         \/ /\ client'[c].try = client[c].try
            /\ client[c].pc \notin EarlyRegister => client'[c].pc \notin EarlyRegister
            /\ client[c].pc \notin EarlyLogin => client'[c].pc \notin EarlyLogin,
         client'[c].pc \notin {"checked", "looked"},
         registrations' \subseteq registrations, logins' \subseteq logins,
         UNCHANGED <<attempts, now>>
  PROVE  MemoryInv'
<1>1. GoesOn(EarlyRegister) /\ GoesOn(EarlyLogin)
  BY DEF GoesOn
<1>2. (\A p \in registrations : p.id \in Tries) /\ (\A p \in logins : p.id \in Tries)
  BY DEF TypeOK, Registered, Login
<1>3. Started(registrations', EarlyRegister, client') /\ Started(logins', EarlyLogin, client')
  BY <1>1, <1>2, StartedStaysPast DEF MemoryInv
<1>4. /\ Backed(registrations', "register", attempts', now')
      /\ Backed(logins', "login", attempts', now')
  BY DEF MemoryInv, Backed
<1>5. /\ Backs("checked", "register", client', attempts', now')
      /\ Backs("looked", "login", client', attempts', now')
  BY ZenonT(40) DEF MemoryInv, Backs
<1>6. Few(registrations') /\ Few(logins') /\ Few(attempts')
  BY FewerIsFew DEF MemoryInv
<1>. QED BY <1>3, <1>4, <1>5, <1>6 DEF MemoryInv
\* A request that an attempt lets through has it on record.
LEMMA AttemptsGoOn ==
  ASSUME TypeOK, TypeOK', MemoryInv, NEW c \in Clients, NEW pc, NEW to,
         \/ pc = "checked" /\ to = "register" /\ client[c].pc = "register"
         \/ pc = "looked" /\ to = "login" /\ client[c].pc = "login",
         client'[c].try = client[c].try, client'[c].pc \in {"idle", pc},
         client'[c].pc = pc => AllowAttempt(c, to),
         \A e \in Clients : e # c => client'[e] = client[e],
         Recent \subseteq attempts', Few(attempts'), UNCHANGED <<registrations, logins, now>>
  PROVE  MemoryInv'
<1>1. GoesOn(EarlyRegister) /\ GoesOn(EarlyLogin)
  BY DEF GoesOn, EarlyRegister, EarlyLogin
<1>2. (\A p \in registrations : p.id \in Tries) /\ (\A p \in logins : p.id \in Tries)
  BY DEF TypeOK, Registered, Login
<1>3. Started(registrations, EarlyRegister, client') /\ Started(logins, EarlyLogin, client')
  BY <1>1, <1>2, StartedStaysPast DEF MemoryInv
<1>4. (\A p \in registrations : p.expires \in Nat) /\ (\A p \in logins : p.expires \in Nat)
  BY EnrolConstants DEF TypeOK, Registered, Login, EnrolConstants
<1>5. /\ Backed(registrations, "register", attempts', now)
      /\ Backed(logins, "login", attempts', now)
  BY <1>4, BackedByRecent DEF MemoryInv
<1>6. ASSUME NEW st, NEW as, Backs(st, as, client, attempts, now), st \in {"checked", "looked"},
             st = pc => as = to
      PROVE  Backs(st, as, client', attempts', now)
  <2>. SUFFICES ASSUME NEW e \in Clients, client'[e].pc = st
                PROVE  \E a \in attempts' :
                         a.id = <<e, client'[e].try>> /\ a.to = as /\ a.at = now
    BY DEF Backs
  <2>1. CASE e = c
    <3>1. [id |-> Id(c), to |-> to, user |-> client[c].user, at |-> now] \in attempts'
      BY <1>6, <2>1, AllowedIsFew DEF MemoryInv
    <3>. QED BY <1>6, <2>1, <3>1 DEF Id
  <2>2. CASE e # c
    <3>1. PICK a \in attempts : a.id = <<e, client[e].try>> /\ a.to = as /\ a.at = now
      BY <1>6, <2>2 DEF Backs
    <3>2. now - a.at < Window
      BY <3>1, EnrolConstants DEF TypeOK, EnrolConstants
    <3>. QED BY <2>2, <3>1, <3>2 DEF Recent
  <2>. QED BY <2>1, <2>2
<1>7. /\ Backs("checked", "register", client', attempts', now)
      /\ Backs("looked", "login", client', attempts', now)
  BY <1>6 DEF MemoryInv
<1>8. Few(registrations) /\ Few(logins)
  BY DEF MemoryInv
<1>. QED BY <1>3, <1>5, <1>7, <1>8 DEF MemoryInv

\* What is started joins what can still be finished, and all of it is backed.
LEMMA PendingGoesOn ==
  ASSUME TypeOK, TypeOK', MemoryInv, NEW c \in Clients, NEW P, NEW to, NEW early,
         NEW pc \in early, client[c].pc = pc, client'[c].pc \notin early,
         client'[c].try = client[c].try, Id(c) \in Tries,
         \A e \in Clients : e # c => client'[e] = client[e],
         Started(P, early, client), Backed(P, to, attempts, now),
         Backs(pc, to, client, attempts, now),
         \A p \in P : p.id \in Tries /\ p.expires \in Nat,
         NEW new, new.id = Id(c), new.expires = now + PendingTtl
  PROVE  LET Q == Unexpired(P) \cup {new}
         IN  Started(Q, early, client') /\ Backed(Q, to, attempts, now) /\ Few(Q)
<1>. DEFINE Q == Unexpired(P) \cup {new}
<1>1. GoesOn(early)
  BY DEF GoesOn
<1>2. Started(P, early, client')
  BY <1>1, StartedStaysPast
<1>3. \A p \in P : p.id # new.id
  <2>. SUFFICES ASSUME NEW p \in P, p.id = <<c, client[c].try>> PROVE FALSE
    BY DEF Id
  <2>1. p.id[1] = c /\ p.id[2] = client[c].try /\ client[c].try \in Nat
    BY EnrolConstants DEF TypeOK, Client, EnrolConstants
  <2>2. client[c].try < client[c].try \/ client[c].pc \notin early
    BY <2>1 DEF Started, Past
  <2>. QED BY <2>1, <2>2
<1>4. Past(client', new.id, early)
  BY DEF Past, Id
<1>5. Started(Q, early, client')
  <2>1. \A p \in Q : p \in P \/ p = new
    BY DEF Unexpired
  <2>2. \A p, q \in Q : p.id = q.id => p = q
    BY <1>2, <1>3, <2>1 DEF Started
  <2>3. \A p \in Q : Past(client', p.id, early)
    BY <1>2, <1>4, <2>1 DEF Started
  <2>. QED BY <2>2, <2>3 DEF Started
<1>6. \E a \in attempts : a.id = new.id /\ a.to = to /\ a.at + PendingTtl = new.expires
  BY DEF Backs, Id
<1>7. Backed(Q, to, attempts, now)
  BY <1>6 DEF Backed, Unexpired
<1>8. Few(Q)
  <2>1. \A p \in Q : p.expires > now
    BY EnrolConstants DEF Unexpired, TypeOK, EnrolConstants
  <2>2. \A p \in Q : \E a \in attempts : a.id = p.id
    BY <1>7, <2>1 DEF Backed
  <2>. QED BY <1>5, <2>2, BackedIsFew DEF Started, MemoryInv
<1>. QED BY <1>5, <1>7, <1>8

----------------------------------------------------------------------------
(* The steps.                                                                 *)

LEMMA InitEnrolInv == Init => EnrolInv
<1>. SUFFICES ASSUME Init PROVE EnrolInv
  OBVIOUS
<1>. USE DEF Init
<1>1. NoInvite \in Invite /\ Idle(0) \in Client
  BY EnrolConstants DEF NoInvite, Invite, Idle, Client, EnrolConstants
<1>2. TypeOK
  BY <1>1, EnrolConstants DEF TypeOK, EnrolConstants
<1>3. ClientInv /\ AccountInv
  BY DEF ClientInv, AccountInv, Idle
<1>4. MemoryInv
  <2>1. Few({})
    BY FS_EmptySet, EnrolConstants DEF Few, EnrolConstants
  <2>. QED BY <2>1 DEF MemoryInv, Started, Backed, Backs, Idle
<1>. QED BY <1>2, <1>3, <1>4 DEF EnrolInv

LEMMA AddInviteKeeps ==
  ASSUME EnrolInv, NEW i \in Invites, AddInvite(i)
  PROVE  EnrolInv'
<1>. USE DEF EnrolInv, AddInvite, memory
<1>1. now + InviteTtl \in 0 .. MaxNow + InviteTtl
  BY EnrolConstants DEF TypeOK, EnrolConstants
<1>2. \A j \in Invites : invites'[j] \in Invite /\ (invites[j].used => invites'[j].used)
  BY <1>1 DEF TypeOK, Invite
<1>3. TypeOK'
  BY <1>2 DEF TypeOK
<1>4. AccountInv'
  BY <1>2, EnrolConstants DEF AccountInv, TypeOK, Accounts, EnrolConstants
<1>5. ClientInv' /\ MemoryInv'
  BY DEF ClientInv, Id, MemoryInv
<1>. QED BY <1>3, <1>4, <1>5

LEMMA StartsKeeps ==
  ASSUME EnrolInv, NEW c \in Clients, NEW pc \in {"register", "login"}, NEW u \in Users,
         NEW i \in Invites \cup {None}, Starts(c, pc, u, i)
  PROVE  EnrolInv'
<1>. USE DEF EnrolInv
<1>. DEFINE r == [pc |-> pc, try |-> client[c].try + 1, joins |-> pc = "register", user |-> u,
                  invite |-> i, pending |-> None]
<1>1. /\ client' = [client EXCEPT ![c] = r]
      /\ client[c].try < MaxTries
      /\ UNCHANGED <<now, invites, accounts, devices, memory, opened, troubles>>
  BY DEF Starts
<1>2. client[c].try \in Nat /\ client[c].try + 1 \in 1 .. MaxTries
  BY <1>1, EnrolConstants DEF TypeOK, Client, EnrolConstants
<1>3. r \in Client /\ r.pc = pc /\ r.try = client[c].try + 1 /\ r.user = u
  <2>1. (pc = "register") \in BOOLEAN /\ pc \in Steps /\ client[c].try + 1 \in 0 .. MaxTries
    BY <1>2 DEF Steps
  <2>2. r \in Client
    BY <2>1, ClientRecord
  <2>. QED BY <2>2
<1>. HIDE DEF r
<1>4. TypeOK'
  BY <1>1, <1>3 DEF TypeOK, memory
<1>5. client'[c] = r /\ \A e \in Clients : e # c => client'[e] = client[e]
  BY <1>1 DEF TypeOK
<1>6. ClientInv'
  BY <1>2, <1>3, <1>5, EnrolConstants DEF ClientInv, Id, EnrolConstants
<1>7. AccountInv'
  BY <1>1 DEF AccountInv
<1>8. MemoryInv'
  BY <1>1, <1>2, <1>3, <1>4, <1>5, MemoryGoesOn DEF memory
<1>. QED BY <1>4, <1>6, <1>7, <1>8

LEMMA RegisterStartKeeps ==
  ASSUME EnrolInv, NEW c \in Clients, RegisterStart(c)
  PROVE  EnrolInv'
<1>. USE DEF EnrolInv
<1>1. /\ client[c].pc = "register"
      /\ UNCHANGED <<now, invites, accounts, devices, registrations, logins, opened, troubles>>
      /\ Fails(c) \/ (Moves(c, "checked") /\ AllowAttempt(c, "register"))
      /\ attempts' = attempts \/ attempts' = Recent \/ AllowAttempt(c, "register")
  BY DEF RegisterStart, At, RefuseAttempt
<1>2. /\ client' \in [Clients -> Client]
      /\ client'[c].pc \in {"idle", "checked"} /\ client'[c].try = client[c].try
      /\ client'[c].pc = "checked" =>
            client'[c].user = client[c].user /\ AllowAttempt(c, "register")
      /\ \A e \in Clients : e # c => client'[e] = client[e]
  BY <1>1, MoveEffects, FailEffects DEF Steps
<1>3. Id(c) \in Tries /\ client[c].user \in Users
  BY <1>1, TryIsTry
<1>4. Recent \subseteq attempts' /\ attempts' \subseteq Attempt /\ Few(attempts')
  <2>1. CASE AllowAttempt(c, "register")
    <3>1. [id |-> Id(c), to |-> "register", user |-> client[c].user, at |-> now] \in Attempt
      BY <1>3 DEF TypeOK, Attempt
    <3>. QED BY <2>1, <3>1, AllowedIsFew DEF AllowAttempt, Recent, TypeOK, MemoryInv
  <2>2. CASE attempts' = attempts \/ attempts' = Recent
    BY <2>2, RecentIsFew DEF TypeOK, MemoryInv, Recent
  <2>. QED BY <1>1, <2>1, <2>2
<1>5. TypeOK'
  BY <1>1, <1>2, <1>4 DEF TypeOK
<1>6. ClientInv' /\ AccountInv'
  BY <1>1, <1>2 DEF ClientInv, Id, AccountInv
<1>7. MemoryInv'
  BY <1>1, <1>2, <1>4, <1>5, AttemptsGoOn
<1>. QED BY <1>5, <1>6, <1>7

LEMMA RegisterPendingKeeps ==
  ASSUME EnrolInv, NEW c \in Clients, RegisterPending(c)
  PROVE  EnrolInv'
<1>. USE DEF EnrolInv
<1>. DEFINE new == [id |-> Id(c), user |-> client[c].user, invite |-> client[c].invite,
                    expires |-> now + PendingTtl]
<1>1. /\ client[c].pc = "checked" /\ Moves(c, "finish")
      /\ registrations' = Unexpired(registrations) \cup {new}
      /\ UNCHANGED <<now, invites, accounts, devices, logins, attempts, opened, troubles>>
  BY DEF RegisterPending, At
<1>2. /\ client' \in [Clients -> Client]
      /\ client'[c].pc = "finish" /\ client'[c].try = client[c].try
      /\ client'[c].user = client[c].user
      /\ \A e \in Clients : e # c => client'[e] = client[e]
  BY <1>1, MoveEffects DEF Steps
<1>3. /\ client[c].user \in Users /\ client[c].invite \in Invites \cup {None}
      /\ Id(c) \in Tries
  BY <1>1, TryIsTry
<1>4. now + PendingTtl \in 0 .. MaxNow + PendingTtl
  BY EnrolConstants DEF TypeOK, EnrolConstants
<1>5. new \in Registered /\ new.id = Id(c) /\ new.expires = now + PendingTtl
  BY <1>3, <1>4 DEF Registered
<1>. HIDE DEF new
<1>6. TypeOK'
  BY <1>1, <1>2, <1>5 DEF TypeOK, Unexpired
<1>7. ClientInv' /\ AccountInv'
  BY <1>1, <1>2 DEF ClientInv, Id, AccountInv
<1>8. \A p \in registrations : p.id \in Tries /\ p.expires \in Nat
  BY EnrolConstants DEF TypeOK, Registered, EnrolConstants
<1>9. /\ Started(registrations', EarlyRegister, client')
      /\ Backed(registrations', "register", attempts, now) /\ Few(registrations')
  <2>1. "checked" \in EarlyRegister /\ "finish" \notin EarlyRegister
    BY DEF EarlyRegister
  <2>. QED BY <1>1, <1>2, <1>3, <1>5, <1>6, <1>8, <2>1, PendingGoesOn DEF MemoryInv
<1>10. Started(logins, EarlyLogin, client')
  <2>1. GoesOn(EarlyLogin)
    BY <1>1, <1>2 DEF GoesOn, EarlyLogin, EarlyRegister
  <2>2. \A p \in logins : p.id \in Tries
    BY DEF TypeOK, Login
  <2>. QED BY <1>6, <2>1, <2>2, StartedStaysPast DEF MemoryInv
<1>11. /\ Backs("checked", "register", client', attempts, now)
       /\ Backs("looked", "login", client', attempts, now)
  BY <1>2, ZenonT(40) DEF Backs, MemoryInv
<1>12. MemoryInv'
  BY <1>1, <1>9, <1>10, <1>11 DEF MemoryInv
<1>. QED BY <1>6, <1>7, <1>12

LEMMA LoginPendingKeeps ==
  ASSUME EnrolInv, NEW c \in Clients, LoginPending(c)
  PROVE  EnrolInv'
<1>. USE DEF EnrolInv
<1>. DEFINE new == [id |-> Id(c), account |-> client[c].pending, expires |-> now + PendingTtl]
<1>1. /\ client[c].pc = "looked"
      /\ client' = [client EXCEPT ![c].pc = "bind", ![c].pending = None]
      /\ logins' = Unexpired(logins) \cup {new}
      /\ UNCHANGED <<now, invites, accounts, devices, registrations, attempts, opened, troubles>>
  BY DEF LoginPending, At
<1>2. /\ client' \in [Clients -> Client]
      /\ client'[c].pc = "bind" /\ client'[c].try = client[c].try
      /\ client'[c].user = client[c].user
      /\ \A e \in Clients : e # c => client'[e] = client[e]
  BY <1>1, PendEffects DEF Steps
<1>3. client[c].pending \in Accounts \cup {None} /\ Id(c) \in Tries
  BY <1>1, TryIsTry DEF TypeOK, Client
<1>4. now + PendingTtl \in 0 .. MaxNow + PendingTtl
  BY EnrolConstants DEF TypeOK, EnrolConstants
<1>5. new \in Login /\ new.id = Id(c) /\ new.expires = now + PendingTtl
  BY <1>3, <1>4 DEF Login
<1>. HIDE DEF new
<1>6. TypeOK'
  BY <1>1, <1>2, <1>5 DEF TypeOK, Unexpired
<1>7. ClientInv' /\ AccountInv'
  BY <1>1, <1>2 DEF ClientInv, Id, AccountInv
<1>8. \A p \in logins : p.id \in Tries /\ p.expires \in Nat
  BY EnrolConstants DEF TypeOK, Login, EnrolConstants
<1>9. /\ Started(logins', EarlyLogin, client')
      /\ Backed(logins', "login", attempts, now) /\ Few(logins')
  <2>1. "looked" \in EarlyLogin /\ "bind" \notin EarlyLogin
    BY DEF EarlyLogin, EarlyRegister
  <2>. QED BY <1>1, <1>2, <1>3, <1>5, <1>6, <1>8, <2>1, PendingGoesOn DEF MemoryInv
<1>10. Started(registrations, EarlyRegister, client')
  <2>1. GoesOn(EarlyRegister)
    BY <1>1, <1>2 DEF GoesOn, EarlyRegister
  <2>2. \A p \in registrations : p.id \in Tries
    BY DEF TypeOK, Registered
  <2>. QED BY <1>6, <2>1, <2>2, StartedStaysPast DEF MemoryInv
<1>11. /\ Backs("checked", "register", client', attempts, now)
       /\ Backs("looked", "login", client', attempts, now)
  BY <1>2, ZenonT(40) DEF Backs, MemoryInv
<1>12. MemoryInv'
  BY <1>1, <1>9, <1>10, <1>11 DEF MemoryInv
<1>. QED BY <1>6, <1>7, <1>12

LEMMA RegisterTakeKeeps ==
  ASSUME EnrolInv, NEW c \in Clients, RegisterTake(c)
  PROVE  EnrolInv'
<1>. USE DEF EnrolInv
<1>1. /\ client[c].pc = "finish" /\ (Moves(c, "taken") \/ Fails(c))
      /\ registrations' \subseteq registrations
      /\ UNCHANGED <<now, invites, accounts, devices, logins, attempts, opened, troubles>>
  BY DEF RegisterTake, At
<1>2. /\ client' \in [Clients -> Client]
      /\ client'[c].pc \in {"idle", "taken"} /\ client'[c].try = client[c].try
      /\ client'[c].pc = "taken" => client'[c].user = client[c].user
      /\ \A e \in Clients : e # c => client'[e] = client[e]
  BY <1>1, MoveEffects, FailEffects DEF Steps
<1>3. TypeOK'
  BY <1>1, <1>2 DEF TypeOK
<1>4. ClientInv' /\ AccountInv'
  BY <1>1, <1>2 DEF ClientInv, Id, AccountInv
<1>5. MemoryInv'
  BY <1>1, <1>2, <1>3, MemoryGoesOn DEF EarlyRegister, EarlyLogin
<1>. QED BY <1>3, <1>4, <1>5

LEMMA CreateAccountKeeps ==
  ASSUME EnrolInv, NEW c \in Clients, CreateAccount(c)
  PROVE  EnrolInv'
<1>. USE DEF EnrolInv
<1>. DEFINE new == [id |-> Id(c), user |-> client[c].user, password |-> PasswordFile(c),
                    invite |-> client[c].invite]
<1>1. /\ client[c].pc = "taken"
      /\ \/ /\ NameIsFree(new.user) /\ StillInvited(new.invite)
            /\ accounts' = accounts \cup {new} /\ opened' = opened \cup {new}
            /\ invites' = [i \in Invites |->
                  IF i = new.invite THEN [invites[i] EXCEPT !.used = TRUE] ELSE invites[i]]
            /\ Moves(c, "login")
         \/ Fails(c) /\ UNCHANGED <<accounts, opened, invites>>
      /\ UNCHANGED <<now, devices, memory, troubles>>
  BY DEF CreateAccount, At
<1>2. /\ client' \in [Clients -> Client]
      /\ client'[c].pc \in {"idle", "login"} /\ client'[c].try = client[c].try
      /\ client'[c].pc = "login" => client'[c].user = client[c].user
      /\ \A e \in Clients : e # c => client'[e] = client[e]
  BY <1>1, MoveEffects, FailEffects DEF Steps
<1>3. /\ client[c].user \in Users /\ client[c].invite \in Invites \cup {None}
      /\ Id(c) \in Tries
  BY <1>1, TryIsTry
<1>4. new \in Accounts /\ new.user = client[c].user /\ new.invite = client[c].invite
  BY <1>3 DEF Accounts, PasswordFile
<1>. HIDE DEF new
<1>5. /\ invites' \in [Invites -> Invite]
      /\ \A i \in Invites : invites[i].used => invites'[i].used
  <2>1. \A i \in Invites : /\ [invites[i] EXCEPT !.used = TRUE] \in Invite
                           /\ [invites[i] EXCEPT !.used = TRUE].used
    BY DEF TypeOK, Invite
  <2>2. \A i \in Invites : invites[i] \in Invite
    BY DEF TypeOK
  <2>. QED BY <1>1, <2>1, <2>2 DEF TypeOK
<1>6. TypeOK'
  BY <1>1, <1>2, <1>4, <1>5 DEF TypeOK, memory
<1>7. ClientInv'
  BY <1>1, <1>2 DEF ClientInv, Id
<1>8. AccountInv'
  <2>1. CASE Fails(c) /\ UNCHANGED <<accounts, opened, invites>>
    BY <1>1, <2>1 DEF AccountInv
  <2>2. CASE /\ NameIsFree(new.user) /\ StillInvited(new.invite)
             /\ accounts' = accounts \cup {new} /\ opened' = opened \cup {new}
             /\ invites' = [i \in Invites |->
                   IF i = new.invite THEN [invites[i] EXCEPT !.used = TRUE] ELSE invites[i]]
    <3>1. new.invite # None => new.invite \in Invites /\ ~invites[new.invite].used
      BY <1>3, <1>4, <2>2 DEF StillInvited, InviteHolds
    <3>2. new.invite # None => invites'[new.invite].used
      BY <2>2, <3>1 DEF TypeOK, Invite
    <3>3. \A a \in opened : a.invite # None => a.invite \in Invites /\ a.invite # new.invite
      BY <3>1, EnrolConstants DEF AccountInv, TypeOK, Accounts, EnrolConstants
    <3>4. \A a \in opened' : a.invite # None => invites'[a.invite].used
      BY <1>5, <2>2, <3>2, <3>3 DEF AccountInv
    <3>5. \A a, b \in opened' : a.invite = b.invite /\ a.invite # None => a = b
      BY <2>2, <3>3 DEF AccountInv
    <3>6. \A a, b \in accounts' : a.user = b.user => a = b
      BY <2>2 DEF AccountInv, NameIsFree, AccountOf
    <3>7. \A d \in devices' : \E a \in accounts' : a.id = d.account
      BY <1>1, <2>2 DEF AccountInv
    <3>. QED BY <3>4, <3>5, <3>6, <3>7 DEF AccountInv
  <2>. QED BY <1>1, <2>1, <2>2
<1>9. MemoryInv'
  BY <1>1, <1>2, <1>6, MemoryGoesOn DEF EarlyRegister, EarlyLogin, memory
<1>. QED BY <1>6, <1>7, <1>8, <1>9

LEMMA LoginStartKeeps ==
  ASSUME EnrolInv, NEW c \in Clients, LoginStart(c)
  PROVE  EnrolInv'
<1>. USE DEF EnrolInv
<1>1. /\ client[c].pc = "login"
      /\ UNCHANGED <<now, invites, accounts, devices, registrations, logins, opened, troubles>>
      /\ \/ Fails(c) /\ attempts' = Recent
         \/ /\ AllowAttempt(c, "login")
            /\ \E a \in Accounts \cup {None} :
                  client' = [client EXCEPT ![c].pc = "looked", ![c].pending = a]
  BY DEF LoginStart, At, RefuseAttempt, Known, AccountOf, TypeOK
<1>2. /\ client' \in [Clients -> Client]
      /\ client'[c].pc \in {"idle", "looked"} /\ client'[c].try = client[c].try
      /\ client'[c].pc = "looked" =>
            client'[c].user = client[c].user /\ AllowAttempt(c, "login")
      /\ \A e \in Clients : e # c => client'[e] = client[e]
  BY <1>1, PendEffects, FailEffects DEF Steps
<1>3. Id(c) \in Tries /\ client[c].user \in Users
  BY <1>1, TryIsTry
<1>4. Recent \subseteq attempts' /\ attempts' \subseteq Attempt /\ Few(attempts')
  <2>1. CASE AllowAttempt(c, "login")
    <3>1. [id |-> Id(c), to |-> "login", user |-> client[c].user, at |-> now] \in Attempt
      BY <1>3 DEF TypeOK, Attempt
    <3>. QED BY <2>1, <3>1, AllowedIsFew DEF AllowAttempt, Recent, TypeOK, MemoryInv
  <2>2. CASE attempts' = Recent
    BY <2>2, RecentIsFew DEF TypeOK, MemoryInv, Recent
  <2>. QED BY <1>1, <2>1, <2>2
<1>5. TypeOK'
  BY <1>1, <1>2, <1>4 DEF TypeOK
<1>6. ClientInv' /\ AccountInv'
  BY <1>1, <1>2 DEF ClientInv, Id, AccountInv
<1>7. MemoryInv'
  BY <1>1, <1>2, <1>4, <1>5, AttemptsGoOn
<1>. QED BY <1>5, <1>6, <1>7

LEMMA LoginTakeKeeps ==
  ASSUME EnrolInv, NEW c \in Clients, LoginTake(c)
  PROVE  EnrolInv'
<1>. USE DEF EnrolInv
<1>1. /\ client[c].pc = "bind" /\ logins' \subseteq logins
      /\ UNCHANGED <<now, invites, accounts, devices, registrations, attempts, opened, troubles>>
      /\ \/ Fails(c)
         \/ \E l \in logins :
               /\ PasswordMatches(c, l.account)
               /\ client' = [client EXCEPT ![c].pc = "verified", ![c].pending = l.account]
  BY DEF LoginTake, At
<1>2. \A l \in logins : PasswordMatches(c, l.account) => l.account \in Accounts /\ l.account # None
  BY DEF PasswordMatches, TypeOK, Login
<1>3. /\ client' \in [Clients -> Client]
      /\ client'[c].pc \in {"idle", "verified"} /\ client'[c].try = client[c].try
      /\ client'[c].pc = "verified" =>
            client'[c].user = client[c].user /\ client'[c].pending # None
      /\ \A e \in Clients : e # c => client'[e] = client[e]
  <2>1. CASE Fails(c)
    BY <2>1, FailEffects
  <2>2. ASSUME NEW l \in logins, PasswordMatches(c, l.account),
               client' = [client EXCEPT ![c].pc = "verified", ![c].pending = l.account]
        PROVE  /\ client' \in [Clients -> Client]
               /\ client'[c].pc = "verified" /\ client'[c].try = client[c].try
               /\ client'[c].user = client[c].user /\ client'[c].pending = l.account
               /\ \A e \in Clients : e # c => client'[e] = client[e]
    BY <1>2, <2>2, PendEffects DEF Steps
  <2>. QED BY <1>1, <1>2, <2>1, <2>2
<1>4. TypeOK'
  BY <1>1, <1>3 DEF TypeOK
<1>5. ClientInv' /\ AccountInv'
  BY <1>1, <1>3 DEF ClientInv, Id, AccountInv
<1>6. MemoryInv'
  BY <1>1, <1>3, <1>4, MemoryGoesOn DEF EarlyRegister, EarlyLogin
<1>. QED BY <1>4, <1>5, <1>6

\* From a login's answer on, a client keeps the account it has logged in to.
LEMMA MoveOnKeeps ==
  ASSUME EnrolInv, NEW c \in Clients, NEW pc \in {"added", "opened", "waiting", "in"},
         client[c].pc \in {"verified", "added", "opened"},
         \/ Moves(c, pc) /\ (pc = "in" => client[c].pending.id = Id(c))
         \/ Fails(c),
         devices' \subseteq Device, \A d \in devices' : \E a \in accounts : a.id = d.account,
         UNCHANGED <<now, invites, accounts, memory, opened, troubles>>
  PROVE  EnrolInv'
<1>. USE DEF EnrolInv
<1>1. /\ client' \in [Clients -> Client]
      /\ client'[c].pc \in {"idle", pc} /\ client'[c].try = client[c].try
      /\ client'[c].pc = pc =>
            /\ client'[c].user = client[c].user /\ client'[c].pending = client[c].pending
            /\ pc = "in" => client[c].pending.id = Id(c)
      /\ \A e \in Clients : e # c => client'[e] = client[e]
  BY MoveEffects, FailEffects DEF Steps
<1>2. TypeOK'
  BY <1>1 DEF TypeOK, memory
<1>3. ClientInv' /\ AccountInv'
  BY <1>1 DEF ClientInv, Id, AccountInv
<1>4. MemoryInv'
  BY <1>1, <1>2, MemoryGoesOn DEF EarlyRegister, EarlyLogin, memory
<1>. QED BY <1>2, <1>3, <1>4

LEMMA AddDeviceKeeps ==
  ASSUME EnrolInv, NEW c \in Clients, AddDevice(c)
  PROVE  EnrolInv'
<1>. USE DEF EnrolInv
<1>. DEFINE new == [id |-> Id(c), account |-> client[c].pending.id, approved |-> FALSE]
<1>1. /\ client[c].pc = "verified"
      /\ \/ /\ References(client[c].pending)
            /\ devices' = devices \cup {new} /\ Moves(c, "added")
         \/ Fails(c) /\ UNCHANGED devices
      /\ UNCHANGED <<now, invites, accounts, memory, opened, troubles>>
  BY DEF AddDevice, At
<1>2. client[c].pending \in Accounts /\ Id(c) \in Tries
  BY <1>1, TryIsTry DEF ClientInv, TypeOK, Client
<1>3. new \in Device /\ new.account = client[c].pending.id
  BY <1>2 DEF Device, Accounts
<1>. HIDE DEF new
<1>4. devices' \subseteq Device
  BY <1>1, <1>3 DEF TypeOK
<1>5. \A d \in devices' : \E a \in accounts : a.id = d.account
  BY <1>1, <1>3 DEF References, AccountInv
<1>. QED BY <1>1, <1>4, <1>5, MoveOnKeeps

LEMMA ApproveIfFirstKeeps ==
  ASSUME EnrolInv, NEW c \in Clients, ApproveIfFirst(c)
  PROVE  EnrolInv'
<1>. USE DEF EnrolInv
<1>1. PICK first \in BOOLEAN :
        devices' = {IF d.id = Id(c) THEN [d EXCEPT !.approved = first] ELSE d : d \in devices}
  BY DEF ApproveIfFirst
<1>2. \A d \in devices : /\ d \in Device /\ [d EXCEPT !.approved = first] \in Device
                         /\ [d EXCEPT !.approved = first].account = d.account
  BY DEF TypeOK, Device
<1>3. \A e \in devices' : e \in Device /\ \E d \in devices : e.account = d.account
  BY <1>1, <1>2
<1>4. /\ devices' \subseteq Device
      /\ \A d \in devices' : \E a \in accounts : a.id = d.account
  BY <1>3 DEF AccountInv
<1>. QED BY <1>4, MoveOnKeeps DEF ApproveIfFirst, At

LEMMA OpenKeeps ==
  ASSUME EnrolInv, NEW c \in Clients, Open(c)
  PROVE  EnrolInv'
<1>. USE DEF EnrolInv
<1>1. /\ client[c].pc = "opened"
      /\ \/ Moves(c, "waiting") \/ Fails(c)
         \/ Moves(c, "in") /\ client[c].pending.id = Id(c)
      /\ UNCHANGED <<now, invites, accounts, devices, memory, opened, troubles>>
  BY DEF Open, At, Unwraps
<1>2. devices' \subseteq Device /\ \A d \in devices' : \E a \in accounts : a.id = d.account
  BY <1>1 DEF TypeOK, AccountInv
<1>. QED BY <1>1, <1>2, MoveOnKeeps

LEMMA GivesUpKeeps ==
  ASSUME EnrolInv, NEW c \in Clients, GivesUp(c)
  PROVE  EnrolInv'
<1>. USE DEF EnrolInv
<1>1. /\ client[c].pc # "idle" /\ Fails(c) /\ troubles' \in 0 .. MaxTroubles
      /\ UNCHANGED <<now, invites, accounts, devices, memory, opened>>
  BY EnrolConstants DEF GivesUp, Trouble, TypeOK, EnrolConstants
<1>2. /\ client' \in [Clients -> Client]
      /\ client'[c].pc = "idle" /\ client'[c].try = client[c].try
      /\ \A e \in Clients : e # c => client'[e] = client[e]
  BY <1>1, FailEffects
<1>3. TypeOK'
  BY <1>1, <1>2 DEF TypeOK, memory
<1>4. ClientInv' /\ AccountInv'
  BY <1>1, <1>2 DEF ClientInv, Id, AccountInv
<1>5. client[c].pc \in {"finish", "login", "bind", "opened"}
  BY DEF GivesUp
<1>6. MemoryInv'
  BY <1>1, <1>2, <1>3, <1>5, MemoryGoesOn DEF EarlyRegister, EarlyLogin, memory
<1>. QED BY <1>3, <1>4, <1>6

\* What the server had in memory is gone, and what it had in hand with it.
LEMMA ServerRestartKeeps ==
  ASSUME EnrolInv, Restart
  PROVE  EnrolInv'
<1>. USE DEF EnrolInv
<1>1. /\ registrations' = {} /\ logins' = {} /\ attempts' = {}
      /\ troubles' \in 0 .. MaxTroubles
      /\ client' = [c \in Clients |-> IF InHand(c) THEN Idle(client[c].try) ELSE client[c]]
      /\ UNCHANGED <<now, invites, accounts, devices, opened>>
  BY EnrolConstants DEF Restart, Trouble, TypeOK, EnrolConstants
<1>2. \A c \in Clients : client[c] \in Client /\ Idle(client[c].try) \in Client
  BY DEF TypeOK, Client, Idle
<1>3. client' \in [Clients -> Client]
  BY <1>1, <1>2
<1>4. \A c \in Clients : /\ client'[c].try = client[c].try
                         /\ \/ client'[c] = client[c] /\ ~InHand(c)
                            \/ client'[c].pc = "idle"
  BY <1>1 DEF Idle
<1>5. TypeOK'
  BY <1>1, <1>3 DEF TypeOK
<1>6. ClientInv' /\ AccountInv'
  BY <1>1, <1>4 DEF ClientInv, Id, AccountInv
<1>7. Few({})
  BY FS_EmptySet, EnrolConstants DEF Few, EnrolConstants
<1>8. MemoryInv'
  BY <1>1, <1>4, <1>7 DEF MemoryInv, Started, Backed, Backs, InHand
<1>. QED BY <1>5, <1>6, <1>8

LEMMA DeleteUserKeeps ==
  ASSUME EnrolInv, NEW u \in Users, DeleteUser(u)
  PROVE  EnrolInv'
<1>. USE DEF EnrolInv
<1>1. /\ accounts' = accounts \ AccountOf(u)
      /\ devices' = {d \in devices : \A a \in AccountOf(u) : d.account # a.id}
      /\ troubles' \in 0 .. MaxTroubles
      /\ UNCHANGED <<now, invites, memory, client, opened>>
  BY EnrolConstants DEF DeleteUser, Trouble, TypeOK, EnrolConstants
<1>2. TypeOK'
  BY <1>1 DEF TypeOK, memory
<1>3. AccountInv'
  BY <1>1 DEF AccountInv
<1>4. ClientInv' /\ MemoryInv'
  BY <1>1 DEF ClientInv, Id, MemoryInv, memory
<1>. QED BY <1>2, <1>3, <1>4

\* No request is in hand, and what has expired stays expired.
LEMMA MinutesKeep ==
  ASSUME EnrolInv, Tick
  PROVE  EnrolInv'
<1>. USE DEF EnrolInv
<1>1. /\ now' = now + 1 /\ now' \in 0 .. MaxNow
      /\ \A c \in Clients : ~InHand(c)
      /\ UNCHANGED <<invites, accounts, devices, memory, client, opened, troubles>>
  BY EnrolConstants DEF Tick, TypeOK, EnrolConstants
<1>2. TypeOK'
  BY <1>1 DEF TypeOK, memory
<1>3. ClientInv' /\ AccountInv'
  BY <1>1 DEF ClientInv, Id, AccountInv
<1>4. /\ \A p \in registrations : p.expires > now' => p.expires > now
      /\ \A p \in logins : p.expires > now' => p.expires > now
  <2>1. /\ \A p \in registrations : p.expires \in Nat
        /\ \A p \in logins : p.expires \in Nat
        /\ now \in Nat
    BY EnrolConstants DEF TypeOK, Registered, Login, EnrolConstants
  <2>. QED BY <1>1, <2>1
<1>5. /\ Backed(registrations, "register", attempts, now')
      /\ Backed(logins, "login", attempts, now')
  BY <1>4 DEF MemoryInv, Backed
<1>6. /\ Backs("checked", "register", client, attempts, now')
      /\ Backs("looked", "login", client, attempts, now')
  BY <1>1 DEF Backs, InHand
<1>7. MemoryInv'
  BY <1>1, <1>5, <1>6 DEF MemoryInv, memory
<1>. QED BY <1>2, <1>3, <1>7

LEMMA EnrolStutters ==
  ASSUME EnrolInv, UNCHANGED vars
  PROVE  EnrolInv'
  BY DEF EnrolInv, vars, TypeOK, ClientInv, Id, AccountInv, MemoryInv

LEMMA EnrolStep ==
  ASSUME EnrolInv, [Next]_vars
  PROVE  EnrolInv'
<1>1. CASE \E i \in Invites : AddInvite(i)
  BY <1>1, AddInviteKeeps
<1>2. CASE \E c \in Clients, u \in Users :
              LogIn(c, u) \/ \E i \in Invites \cup {None} : Join(c, u, i)
  BY <1>2, StartsKeeps DEF LogIn, Join
<1>3. ASSUME NEW c \in Clients, Serves(c) \/ Open(c) \/ GivesUp(c)
      PROVE  EnrolInv'
  BY <1>3, RegisterStartKeeps, RegisterPendingKeeps, RegisterTakeKeeps, CreateAccountKeeps,
     LoginStartKeeps, LoginPendingKeeps, LoginTakeKeeps, AddDeviceKeeps, ApproveIfFirstKeeps,
     OpenKeeps, GivesUpKeeps DEF Serves
<1>4. CASE Restart \/ Tick \/ \E u \in Users : DeleteUser(u)
  BY <1>4, ServerRestartKeeps, MinutesKeep, DeleteUserKeeps
<1>5. CASE UNCHANGED vars
  BY <1>5, EnrolStutters
<1>. QED BY <1>1, <1>2, <1>3, <1>4, <1>5 DEF Next

\* Every state of the handlers, the memory and the clients: in particular what
\* has been started, and can still be finished, was let through within the
\* window, and no registration or login is remembered that was not.
THEOREM EnrolInvariant == Spec => []EnrolInv
<1>1. Init => EnrolInv
  BY InitEnrolInv
<1>2. EnrolInv /\ [Next]_vars => EnrolInv'
  BY EnrolStep
<1>. QED BY <1>1, <1>2, PTL DEF Spec

LEMMA EnrolInvImplies == EnrolInv => OneAccountEach /\ PendingIsBounded /\ EveryoneIsAtHome
<1>1. EnrolInv => OneAccountEach
  BY DEF EnrolInv, AccountInv, OneAccountEach
<1>2. EnrolInv => PendingIsBounded
  BY DEF EnrolInv, MemoryInv, Few, PendingIsBounded
<1>3. EnrolInv => EveryoneIsAtHome
  BY DEF EnrolInv, AccountInv, ClientInv, At, EveryoneIsAtHome
<1>. QED BY <1>1, <1>2, <1>3

\* However registrations interleave, an invite makes one account and a
\* username names one (store.rs:180).
THEOREM InvitesAreSpentOnce == Spec => []OneAccountEach
  BY EnrolInvariant, EnrolInvImplies, PTL

\* Strangers fill the memory up to the attempts of a window, for any limits and
\* as long as an entry is forgotten within it (app.rs:54, 458).
THEOREM StrangersAreBounded == Spec => []PendingIsBounded
  BY EnrolInvariant, EnrolInvImplies, PTL

\* A login that outlives its account leaves no device behind, and a client that
\* joins is in its own account or in none (app.rs:572, account.rs:187).
THEOREM NobodyIsStranded == Spec => []EveryoneIsAtHome
  BY EnrolInvariant, EnrolInvImplies, PTL

----------------------------------------------------------------------------
\* The server, whose parts share no state, keeps what each part keeps.
THEOREM ServerIsBoth ==
  ServerSpec => [](AcceptedOnce /\ OneAccountEach /\ PendingIsBounded /\ EveryoneIsAtHome)
<1>. DEFINE Inv == RequestsInv /\ EnrolInv
<1>1. ServerInit => Inv
  BY RequestsInit, InitEnrolInv DEF ServerInit
<1>2. Inv /\ [ServerNext]_<<part, requests, vars>> => Inv'
  <2>. SUFFICES ASSUME Inv, [ServerNext]_<<part, requests, vars>> PROVE Inv'
    OBVIOUS
  <2>1. /\ [R!Next]_(R!vars)
        /\ [Next]_vars
    BY DEF ServerNext, requests, R!vars
  <2>. QED BY <2>1, RequestsStep, EnrolStep
<1>3. Inv => AcceptedOnce /\ OneAccountEach /\ PendingIsBounded /\ EveryoneIsAtHome
  BY EnrolInvImplies DEF RequestsInv, AcceptedOnce
<1>. HIDE DEF Inv
<1>. QED BY <1>1, <1>2, <1>3, PTL DEF ServerSpec
=============================================================================
