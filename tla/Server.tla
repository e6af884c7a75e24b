------------------------------- MODULE Server -------------------------------
(* What the server keeps in memory about who may call it, and loses when it   *)
(* restarts: the nonces of signed requests (Requests), and started            *)
(* registrations and logins (Enrol).  The two share no state: a behaviour is  *)
(* of the one or of the other.                                                *)
EXTENDS Enrol

CONSTANTS Devices, Nonces, Skew, Drift, MaxTime, MaxRestarts

VARIABLES part, time, wire, nonces, revoked, served, restarts

requests == <<time, wire, nonces, revoked, served, restarts>>

R == INSTANCE Requests WITH now <- time, MaxNow <- MaxTime

ASSUME SignedConstants == R!RequestsConstants

ServerInit == Init /\ R!Init /\ part \in {"requests", "enrol"}

ServerNext ==
    \/ part = "requests" /\ R!Next /\ UNCHANGED <<part, vars>>
    \/ part = "enrol" /\ Next /\ UNCHANGED <<part, requests>>

ServerSpec == ServerInit /\ [][ServerNext]_<<part, requests, vars>>

\* A request gets through at most once while the server runs, however often
\* and however late it is delivered: its nonce is not forgotten before its
\* timestamp has gone stale (app.rs:382, request.rs:1).
AcceptedOnce == R!AcceptedOnce
=============================================================================
