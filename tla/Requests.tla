------------------------------- MODULE Requests -------------------------------
(* Signed requests: how a client signs one (request.rs, remote.rs) and how    *)
(* the server checks it and remembers its nonce (app.rs).  The network may    *)
(* deliver a request late, never, or again and again; a signature is modelled *)
(* by what it binds: only the device that signed a request has made it, and   *)
(* nobody can change its parts.                                               *)
EXTENDS Integers, Functions

CONSTANTS Devices, Nonces,
          Skew,         \* MAX_CLOCK_SKEW_MS, in ticks
          Drift,        \* how far clients' clocks may be from the server's
          MaxNow,       \* bound on the server's clock
          MaxRestarts   \* bound on restarts of the server

RequestsConstants ==
    Skew \in Nat /\ Drift \in Nat /\ MaxNow \in Nat /\ MaxRestarts \in Nat

VARIABLES
    now,       \* the server's clock
    wire,      \* every request signed so far: any of them may be delivered
    nonces,    \* App.nonces: <<device, nonce>> |-> when it was last seen
    revoked,   \* the devices the store has revoked
    served,    \* history: how often each <<device, nonce>> got through since
               \* the server started, counted up to two
    restarts

vars == <<now, wire, nonces, revoked, served, restarts>>

Keys == Devices \X Nonces
Signed == [device : Devices, nonce : Nonces, timestamp : Int]
Key(r) == <<r.device, r.nonce>>

TypeOK ==
    /\ now \in Nat
    /\ wire \subseteq Signed
    /\ DOMAIN nonces \subseteq Keys
    /\ nonces \in [DOMAIN nonces -> Nat]
    /\ revoked \subseteq Devices
    /\ served \in [Keys -> 0 .. 2]
    /\ restarts \in Nat

Init ==
    /\ now = 0
    /\ wire = {}
    /\ nonces = [k \in {} |-> 0]
    /\ revoked = {}
    /\ served = [k \in Keys |-> 0]
    /\ restarts = 0

\* A client signs with a nonce it has not used, at the time of its own clock.
Sign(d, n, t) ==
    /\ \A r \in wire : Key(r) # <<d, n>>
    /\ t \in now - Drift .. now + Drift
    /\ wire' = wire \cup {[device |-> d, nonce |-> n, timestamp |-> t]}
    /\ UNCHANGED <<now, nonces, revoked, served, restarts>>

\* RequestSignature::verify: the timestamp is as near as it may be, inclusive.
Verified(r) == now - r.timestamp <= Skew /\ r.timestamp - now <= Skew

\* Mutant: nonces are kept for as long as a timestamp may be old.
KeptForSkew == {k \in DOMAIN nonces : now - nonces[k] <= Skew}
Kept == {k \in DOMAIN nonces : now - nonces[k] <= 2 * Skew}

\* A nonce is remembered, or seen again, only once the signature checks out.
Remembered(k) == [j \in Kept \cup {k} |-> IF j = k THEN now ELSE nonces[j]]

Counted(k) == [served EXCEPT ![k] = IF @ < 2 THEN @ + 1 ELSE @]

\* App::authenticate, for a request that may have been here before.
Authenticate(r) ==
    /\ r \in wire
    /\ r.device \notin revoked
    /\ Verified(r)
    /\ nonces' = Remembered(Key(r))
    /\ served' = IF Key(r) \in Kept THEN served ELSE Counted(Key(r))
    /\ UNCHANGED <<now, wire, revoked, restarts>>

RevokeDevice(d) ==
    /\ d \notin revoked
    /\ revoked' = revoked \cup {d}
    /\ UNCHANGED <<now, wire, nonces, served, restarts>>

Tick ==
    /\ now < MaxNow
    /\ now' = now + 1
    /\ UNCHANGED <<wire, nonces, revoked, served, restarts>>

\* The nonces are in memory: a new server knows none.
Restart ==
    /\ restarts < MaxRestarts
    /\ restarts' = restarts + 1
    /\ nonces' = [k \in {} |-> 0]
    /\ served' = [k \in Keys |-> 0]
    /\ UNCHANGED <<now, wire, revoked>>

Next ==
    \/ \E d \in Devices, n \in Nonces, t \in now - Drift .. now + Drift :
          Sign(d, n, t)
    \/ \E r \in wire : Authenticate(r)
    \/ \E d \in Devices : RevokeDevice(d)
    \/ Tick \/ Restart

Spec == Init /\ [][Next]_vars

\* A request gets through at most once while the server runs, however often
\* and however late it is delivered: its nonce is not forgotten before its
\* timestamp has gone stale (app.rs:382, request.rs:1).
AcceptedOnce == TypeOK /\ \A k \in Keys : served[k] <= 1
=============================================================================
